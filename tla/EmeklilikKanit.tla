--------------------------- MODULE EmeklilikKanit ---------------------------
(***************************************************************************)
(* Proofs about Emeklilik, for any number of browser tabs, jobs, faults    *)
(* and requests.                                                           *)
(***************************************************************************)
EXTENDS Emeklilik, TLAPS

-----------------------------------------------------------------------------
(***************************************************************************)
(* The inductive invariant.  Its parts take the jobs J, the lost jobs K    *)
(* and the row h they speak of.                                            *)
(***************************************************************************)

\* The places at which a handler has a job whose number is not written yet, of them those of
\* preflights; those at which it has AWX's verdict, and those at which it is about to ask for it;
\* those between the claim of a STOP, a deletion or a way back and the number of its job; and those
\* of a preflight of the deletion.
Yazan == {"kYaz", "oYaz", "gpYaz", "gYaz", "spYaz", "dYaz", "pYaz", "sYaz"}
PlanYazan == {"kYaz", "gpYaz", "spYaz", "pYaz"}
Hukumde == {"jYaz", "tYaz", "fYaz"}
Soran == {"tSor", "fSor"}
Stopta == {"dBaslat", "dYaz", "dGeri"}
Silmede == {"sBaslat", "sYaz", "sGeri"}
Geride == {"gBaslat", "gYaz", "gGeri"}
Planda == {"pClaim", "pBaslat", "pYaz", "pGeri"}

SekmeYerleri == {"kBaslat", "kYaz", "zYaz", "oBaslat", "oYaz", "gpBaslat", "gpYaz", "gClaim",
                 "spBaslat", "spYaz", "jYaz", "jOn", "tNo", "tSor", "tYaz"} \cup Geride
ZamYerleri == {"dDus", "dClaim", "sClaim", "onYaz", "fSor", "fYaz", "fKayit"} \cup Stopta \cup Silmede \cup Planda

YerTuru(yer) == IF yer \in {"kYaz", "oYaz", "dYaz"} THEN "stop"
                ELSE IF yer \in {"gpYaz", "gYaz"} THEN "geri" ELSE "sil"

NatYok == Nat \cup {Yok}
Onaylar == [is : NatYok, acik : BOOLEAN]
Isler == [tur : {"stop", "sil", "geri"}, plan : BOOLEAN, liste : NatYok, durum : {"kosar", "ok", "hata"}]
Listeler == [durum : {"baslar", "kosar", "ok", "failed"}, is : NatYok, kul : BOOLEAN, taze : BOOLEAN]
Gorulen == Listeler \cup NatYok \cup Onaylar
Satirlar == [durum : Durumlar, sonIs : NatYok, silmeIs : NatYok, geriIs : NatYok, izin : NatYok,
             silmeOn : Listeler \cup {Yok}, geriOn : Listeler \cup {Yok}, silindi : BOOLEAN]
Eller == [yer : {"bos"} \cup SekmeYerleri \cup ZamYerleri, durum : Durumlar \cup {"silmeOn", "geriOn", Yok},
          is : NatYok, gor : Gorulen]

\* j is a job, and one of this kind, a preflight or a real one.
IsMi(J, j) == j \in 1 .. Len(J)
Is(J, j, tur, plan) == IsMi(J, j) /\ J[j].tur = tur /\ J[j].plan = plan
Bitti(J, j) == J[j].durum # "kosar"
StopMi(J, j) == IsMi(J, j) /\ J[j].tur = "stop"

\* The list that the job x was given is that of a preflight of its kind; a deletion or a way back
\* has one.
ListeVerir(J, x) ==
    /\ x.liste # Yok => IsMi(J, x.liste) /\ J[x.liste].tur = x.tur
    /\ ~x.plan /\ x.tur # "stop" => x.liste # Yok

\* A list of this kind: its number is that of a preflight of the kind, once that is started,
\* and only a list that is ready is used.
Liste(J, o, tur) ==
    /\ o \in Listeler
    /\ o.durum = "baslar" => o.is = Yok
    /\ o.durum # "baslar" => Is(J, o.is, tur, TRUE)
    /\ o.kul => o.durum = "ok"
ListeYa(J, o, tur) == o = Yok \/ Liste(J, o, tur)
Taze(o) == o.durum = "ok" /\ ~o.kul

\* The row: every number is that of a job of the kind of its column.
SatirTipi(J, h) ==
    /\ h \in Satirlar
    /\ h.sonIs # Yok => StopMi(J, h.sonIs)
    /\ h.silmeIs # Yok => Is(J, h.silmeIs, "sil", FALSE)
    /\ h.geriIs # Yok => Is(J, h.geriIs, "geri", FALSE)
    /\ h.izin # Yok => StopMi(J, h.izin)
    /\ ListeYa(J, h.silmeOn, "sil") /\ ListeYa(J, h.geriOn, "geri")
    /\ h.durum = "deleted" => \E j \in 1 .. Len(J) : Is(J, j, "sil", FALSE) /\ J[j].durum = "ok"

OnDurumlari == Durumlar \ {"stopped", "planning", "stopping", "deleting", "rolling_back", "stop_scheduled"}
GeriDurumlari == {"stopped", "rollback_failed", "failed"}

\* A verdict, or the question for one: of a job of the kind of the status that was read; the verdict
\* is of a job that has ended.  The poller watches no preflight of a STOP.
HukumTipi(J, e) ==
    /\ IsMi(J, e.is) /\ (e.yer \in Hukumde => Bitti(J, e.is))
    /\ e.durum = "planning" => e.yer \notin {"fSor", "fYaz"}
    /\ \/ e.durum \in {"planning", "stopping"} /\ J[e.is].tur = "stop"
       \/ e.durum = "deleting" /\ Is(J, e.is, "sil", FALSE) /\ e.yer # "jYaz"
       \/ e.durum = "rolling_back" /\ Is(J, e.is, "geri", FALSE) /\ e.yer # "jYaz"

\* A handler: what it has read or started is of the kind of its place.
ElTipi(J, a, e) ==
    /\ e \in Eller
    /\ a = Zam => e.yer \in {"bos"} \cup ZamYerleri
    /\ a # Zam => e.yer \in {"bos"} \cup SekmeYerleri
    /\ e.is # Yok => IsMi(J, e.is)
    /\ e.yer \in Yazan => Is(J, e.is, YerTuru(e.yer), e.yer \in PlanYazan)
    /\ e.yer \in {"gYaz", "sYaz"} => J[e.is].liste = e.gor.is
    /\ e.yer \in Hukumde \cup Soran => HukumTipi(J, e)
    /\ e.yer = "tNo" => e.durum \in {"planning", "stopping", "deleting", "rolling_back"}
    /\ e.yer \in {"jOn", "onYaz"} =>
          /\ \/ e.durum = "silmeOn" /\ Liste(J, e.gor, "sil")
             \/ e.durum = "geriOn" /\ Liste(J, e.gor, "geri")
          /\ e.gor.durum = "kosar" /\ e.gor.is = e.is /\ Bitti(J, e.is)
    /\ e.yer \in {"jOn", "onYaz", "gClaim"} => e.gor # Yok
    /\ e.yer \in {"gClaim"} \cup Geride => Liste(J, e.gor, "geri") /\ Taze(e.gor)
    /\ e.yer \in {"gClaim", "gpBaslat", "gpYaz"} \cup Geride => e.durum \in GeriDurumlari
    /\ e.yer \in {"sClaim"} \cup Silmede => Liste(J, e.gor, "sil") /\ Taze(e.gor)
    /\ e.yer \in Planda => ListeYa(J, e.gor, "sil")
    /\ e.yer \in {"oBaslat", "oYaz"} => e.gor \in Onaylar
    /\ e.yer = "oBaslat" => e.gor.is = Yok \/ StopMi(J, e.gor.is)
    /\ e.yer \in {"dClaim", "dBaslat"} => e.gor = Yok \/ StopMi(J, e.gor)
    /\ e.yer \in {"kBaslat", "kYaz"} => e.durum \in OnDurumlari
    /\ e.yer \in {"zYaz", "oBaslat", "oYaz"} => e.durum = "planned"

\* A job that is not written yet has not ended.
ElIsi(J, e) == e.yer \in Yazan => ~Bitti(J, e.is)

SayacInv ==
    /\ kayit \in {"acik", "deleted", "cancelled"}
    /\ pencere \in {"once", "acik", "gecti"} /\ gun \in BOOLEAN /\ iptal \in BOOLEAN
    /\ uygulama \in {"calisir", "durdu", "silindi"}
    /\ ariza \in Nat /\ basma \in Nat
    /\ Len(isler) <= EnCokIs /\ ariza <= EnCokAriza /\ basma <= EnCokBasma
    /\ kayip \subseteq IsNo /\ kanit \subseteq kayip
    /\ ezilen \in BOOLEAN /\ eskiHukum \in BOOLEAN

TipInv ==
    /\ isler \in Seq(Isler) /\ \A j \in IsNo : ListeVerir(isler, isler[j])
    /\ (\E j \in IsNo : Is(isler, j, "sil", FALSE) /\ isler[j].durum = "ok") => uygulama = "silindi"
    /\ SatirTipi(isler, hedef)
    /\ el \in [El -> Eller]
    /\ \A a \in El : ElTipi(isler, a, el[a]) /\ ElIsi(isler, el[a])
    /\ SayacInv

\* No job but lost ones was given this list.
Temiz(J, K, liste) ==
    \A j \in 1 .. Len(J) : ~J[j].plan /\ J[j].tur # "stop" /\ J[j].liste = liste => j \in K

\* The list o of a deletion in the row, not used yet, is clean, but for the deletion of the poller
\* z that is about to write its number; that of a way back is clean, and nobody has claimed it.
SilmeListesi(J, K, o, z) ==
    o # Yok /\ ~o.kul /\ o.is # Yok =>
        \/ Temiz(J, K, o.is)
        \/ z.yer = "sYaz" /\ Temiz(J, K \cup {z.is}, o.is)
GeriListesi(J, K, o, E) ==
    o # Yok /\ ~o.kul /\ o.is # Yok =>
        /\ Temiz(J, K, o.is)
        /\ \A a \in El : E[a].yer \in Geride => E[a].gor.is # o.is

\* The places of a preflight that can become a list, and of a handler with a list it has read.
YeniListe == {"gpYaz", "spYaz", "pYaz"}
Okumus == {"jOn", "onYaz", "gClaim", "sClaim"} \cup Geride \cup Silmede
Okur(e) == \/ e.yer \in Okumus
           \/ e.yer \in Planda /\ e.gor # Yok

\* A list that is claimed, or may be given back, is clean; so is a new one.
ElListesi(J, K, e) ==
    /\ e.yer \in {"sClaim", "sBaslat", "gBaslat", "gGeri"} => Temiz(J, K, e.gor.is)
    /\ e.yer \in Planda /\ e.gor # Yok /\ ~e.gor.kul /\ e.gor.is # Yok => Temiz(J, K, e.gor.is)
    /\ e.yer \in YeniListe => Temiz(J, K, e.is)

\* A new list is not in the row, and no other handler has it; claimed ways back have different lists.
SatirAyri(h, e) ==
    e.yer \in YeniListe => /\ h.silmeOn # Yok => h.silmeOn.is # e.is
                           /\ h.geriOn # Yok => h.geriOn.is # e.is
Ayri(e, f) ==
    /\ e.yer \in Geride /\ f.yer \in Geride => e.gor.is # f.gor.is
    /\ e.yer \in YeniListe /\ f.yer \in YeniListe => e.is # f.is
    /\ e.yer \in YeniListe /\ Okur(f) => f.gor.is # e.is
    /\ f.yer \in YeniListe /\ Okur(e) => e.gor.is # f.is

\* ListeBirKez, of the jobs J.
BirKez(J, K) ==
    \A i, j \in 1 .. Len(J) :
        i # j /\ ~J[i].plan /\ ~J[j].plan /\ J[i].tur # "stop" /\ J[i].liste = J[j].liste => i \in K \/ j \in K

ListeKurali(J, K, h, E) ==
    /\ SilmeListesi(J, K, h.silmeOn, E[Zam]) /\ GeriListesi(J, K, h.geriOn, E)
    /\ \A a \in El : ElListesi(J, K, E[a]) /\ SatirAyri(h, E[a])
    /\ \A a \in El : \A b \in El \ {a} : Ayri(E[a], E[b])
    /\ BirKez(J, K)

ListeInv == ListeKurali(isler, kayip, hedef, el)

\* The job j, which is real and runs, is that of the row's status, or of a handler that has
\* not written it yet.
Bagli(J, h, E, j) ==
    /\ J[j].tur = "stop" =>
          \/ h.durum = "stopping" /\ h.sonIs = j
          \/ \E a \in El : E[a].yer \in {"oYaz", "dYaz"} /\ E[a].is = j
    /\ J[j].tur = "sil" =>
          /\ h.durum = "deleting"
          /\ h.silmeIs = j \/ (E[Zam].yer = "sYaz" /\ E[Zam].is = j)
    /\ J[j].tur = "geri" =>
          /\ h.durum = "rolling_back"
          /\ h.geriIs = j \/ (\E a \in El : E[a].yer = "gYaz" /\ E[a].is = j)

\* The row h alone, with the application u.
SatirKurali(J, h, u) ==
    /\ h.durum \in {"planning", "planned", "stop_scheduled"} => h.sonIs # Yok /\ J[h.sonIs].plan
    /\ h.durum = "stopping" =>
          /\ h.sonIs # Yok
          /\ ~J[h.sonIs].plan /\ J[h.sonIs].durum = "ok" => u = "durdu"
    /\ h.durum = "rolling_back" =>
          /\ h.geriOn = Yok \/ h.geriOn.kul
          /\ h.geriIs # Yok /\ J[h.geriIs].durum = "ok" => u = "calisir"
    /\ h.durum = "stopped" => u = "durdu"
    /\ h.durum = "active" => u = "calisir"
    /\ h.durum = "deleting" =>
          /\ h.silmeOn # Yok
          /\ h.silmeOn.kul => h.silmeIs # Yok /\ h.silmeOn.is = J[h.silmeIs].liste

\* A handler e: what it has claimed is still so, and nothing else works on the application.
ElKurali(J, h, u, e) ==
    /\ e.yer \in Stopta => h.durum = "stopping" /\ h.sonIs # Yok /\ J[h.sonIs].plan
    /\ e.yer \in Silmede =>
          /\ h.durum = "deleting" /\ (h.silmeIs # Yok => Bitti(J, h.silmeIs))
          /\ e.yer # "sYaz" => u = "durdu"
    /\ e.yer \in {"sClaim"} \cup Silmede => h.silmeOn # Yok /\ ~h.silmeOn.kul
    /\ e.yer \in {"sClaim"} \cup Planda => h.durum # "deleting"
    /\ e.yer \in Geride =>
          /\ h.durum = "rolling_back" /\ h.geriIs = Yok
          /\ e.yer # "gYaz" /\ e.durum = "stopped" => u = "durdu"

\* Two of them: one way back at a time.
Bir(e, f) == ~(e.yer \in Geride /\ f.yer \in Geride)

DurumKurali(J, h, u, E) ==
    /\ \A j \in 1 .. Len(J) : ~J[j].plan /\ ~Bitti(J, j) => Bagli(J, h, E, j)
    /\ SatirKurali(J, h, u)
    /\ \A a \in El : ElKurali(J, h, u, E[a])
    /\ \A a \in El : \A b \in El \ {a} : Bir(E[a], E[b])

DurumInv == Duzgun => DurumKurali(isler, hedef, uygulama, el)

IInv == TipInv /\ ListeInv /\ DurumInv

-----------------------------------------------------------------------------
(***************************************************************************)
(* Jobs: none, one more, or one that ends                                  *)
(***************************************************************************)

\* The jobs M are the jobs J, and perhaps more, and perhaps some of them have ended.
Uzar(J, M) ==
    /\ Len(J) \in Nat /\ Len(M) \in Nat /\ Len(J) <= Len(M)
    /\ \A j \in 1 .. Len(J) :
          /\ M[j].tur = J[j].tur /\ M[j].plan = J[j].plan /\ M[j].liste = J[j].liste
          /\ Bitti(J, j) => M[j].durum = J[j].durum

LEMMA UzarAyni == ASSUME NEW J \in Seq(Isler) PROVE Uzar(J, J)
  BY DEF Uzar

LEMMA EkleUzar ==
    ASSUME NEW J \in Seq(Isler), NEW x \in Isler
    PROVE  /\ Append(J, x) \in Seq(Isler) /\ Uzar(J, Append(J, x))
           /\ Len(Append(J, x)) = Len(J) + 1 /\ Append(J, x)[Len(J) + 1] = x
           /\ \A j \in 1 .. Len(J) : Append(J, x)[j] = J[j]
  BY DEF Uzar

Bitmis(J, j, d) == [J EXCEPT ![j].durum = d]

LEMMA BiterUzar ==
    ASSUME NEW J \in Seq(Isler), NEW j \in 1 .. Len(J), ~Bitti(J, j), NEW d \in {"ok", "hata"}
    PROVE  /\ Bitmis(J, j, d) \in Seq(Isler) /\ Uzar(J, Bitmis(J, j, d))
           /\ Len(Bitmis(J, j, d)) = Len(J)
           /\ \A i \in 1 .. Len(J) :
                /\ Bitmis(J, j, d)[i].tur = J[i].tur
                /\ Bitmis(J, j, d)[i].plan = J[i].plan
                /\ Bitmis(J, j, d)[i].liste = J[i].liste
                /\ Bitmis(J, j, d)[i].durum = IF i = j THEN d ELSE J[i].durum
<1>. DEFINE x == [J[j] EXCEPT !.durum = d]
            M == [J EXCEPT ![j] = x]
<1>1. J[j] \in Isler /\ \A i \in 1 .. Len(J) : J[i] \in Isler
  OBVIOUS
<1>2. x \in Isler /\ x.tur = J[j].tur /\ x.plan = J[j].plan /\ x.liste = J[j].liste /\ x.durum = d
  BY <1>1 DEF Isler
<1>. HIDE DEF x
<1>3. M \in Seq(Isler) /\ Len(M) = Len(J) /\ \A i \in 1 .. Len(J) : M[i] = IF i = j THEN x ELSE J[i]
  BY <1>2
<1>4. Bitmis(J, j, d) = M
  BY DEF x, Bitmis
<1>. HIDE DEF M
<1>5. Uzar(J, M)
  BY <1>2, <1>3 DEF Uzar, Bitti
<1>6. \A i \in 1 .. Len(J) : /\ M[i].tur = J[i].tur /\ M[i].plan = J[i].plan /\ M[i].liste = J[i].liste
                             /\ M[i].durum = IF i = j THEN d ELSE J[i].durum
  BY <1>2, <1>3
<1>. QED BY <1>3, <1>4, <1>5, <1>6

LEMMA IsUzar ==
    ASSUME NEW J, NEW M, Uzar(J, M)
    PROVE  /\ \A j : IsMi(J, j) => IsMi(M, j) /\ M[j].tur = J[j].tur /\ M[j].plan = J[j].plan
                                   /\ M[j].liste = J[j].liste
           /\ \A j : IsMi(J, j) /\ Bitti(J, j) => Bitti(M, j) /\ M[j].durum = J[j].durum
           /\ \A j, t, p : Is(J, j, t, p) => Is(M, j, t, p)
  BY DEF Uzar, IsMi, Is, Bitti

LEMMA ListeUzar ==
    ASSUME NEW J, NEW M, Uzar(J, M)
    PROVE  \A o, t : (Liste(J, o, t) => Liste(M, o, t)) /\ (ListeYa(J, o, t) => ListeYa(M, o, t))
  BY IsUzar DEF Liste, ListeYa

LEMMA SatirUzar ==
    ASSUME NEW J, NEW M, Uzar(J, M), NEW h, SatirTipi(J, h)
    PROVE  SatirTipi(M, h)
<1>1. h.durum = "deleted" => \E j \in 1 .. Len(M) : Is(M, j, "sil", FALSE) /\ M[j].durum = "ok"
  BY DEF Uzar, SatirTipi, Is, IsMi, Bitti
<1>2. /\ h.sonIs # Yok => StopMi(M, h.sonIs)
      /\ h.izin # Yok => StopMi(M, h.izin)
  BY IsUzar DEF SatirTipi, StopMi
<1>3. /\ h.silmeIs # Yok => Is(M, h.silmeIs, "sil", FALSE)
      /\ h.geriIs # Yok => Is(M, h.geriIs, "geri", FALSE)
  BY IsUzar DEF SatirTipi
<1>4. ListeYa(M, h.silmeOn, "sil") /\ ListeYa(M, h.geriOn, "geri")
  BY ListeUzar DEF SatirTipi
<1>. QED BY <1>1, <1>2, <1>3, <1>4 DEF SatirTipi

LEMMA ElUzar ==
    ASSUME NEW J, NEW M, Uzar(J, M), NEW a, NEW e, ElTipi(J, a, e)
    PROVE  ElTipi(M, a, e)
<1>1. e.yer \in {"gYaz", "sYaz"} => M[e.is].liste = e.gor.is
  BY IsUzar DEF ElTipi, Is, Yazan
<1>2. e.yer \in Hukumde \cup Soran => HukumTipi(M, e)
  <2>. SUFFICES ASSUME HukumTipi(J, e) PROVE HukumTipi(M, e)
    BY DEF ElTipi
  <2>1. IsMi(J, e.is) /\ (e.yer \in Hukumde => Bitti(J, e.is))
    BY DEF HukumTipi
  <2>2. IsMi(M, e.is) /\ (e.yer \in Hukumde => Bitti(M, e.is)) /\ M[e.is].tur = J[e.is].tur
    BY <2>1, IsUzar
  <2>3. \A t : Is(J, e.is, t, FALSE) => Is(M, e.is, t, FALSE)
    BY IsUzar
  <2>. QED BY <2>2, <2>3 DEF HukumTipi
<1>3. e.yer \in {"jOn", "onYaz"} =>
          /\ \/ e.durum = "silmeOn" /\ Liste(M, e.gor, "sil")
             \/ e.durum = "geriOn" /\ Liste(M, e.gor, "geri")
          /\ e.gor.durum = "kosar" /\ e.gor.is = e.is /\ Bitti(M, e.is)
  <2>. SUFFICES ASSUME e.yer \in {"jOn", "onYaz"}
                PROVE  /\ \/ e.durum = "silmeOn" /\ Liste(M, e.gor, "sil")
                          \/ e.durum = "geriOn" /\ Liste(M, e.gor, "geri")
                       /\ e.gor.durum = "kosar" /\ e.gor.is = e.is /\ Bitti(M, e.is)
    OBVIOUS
  <2>1. /\ \/ e.durum = "silmeOn" /\ Liste(J, e.gor, "sil")
           \/ e.durum = "geriOn" /\ Liste(J, e.gor, "geri")
        /\ e.gor.durum = "kosar" /\ e.gor.is = e.is /\ Bitti(J, e.is)
    BY DEF ElTipi
  <2>2. IsMi(J, e.is)
    BY <2>1 DEF Liste, Is
  <2>. QED BY <2>1, <2>2, IsUzar, ListeUzar
<1>4. \A j : StopMi(J, j) => StopMi(M, j)
  BY IsUzar DEF StopMi
<1>. QED BY <1>1, <1>2, <1>3, <1>4, IsUzar, ListeUzar DEF ElTipi

-----------------------------------------------------------------------------
(***************************************************************************)
(* Types                                                                   *)
(***************************************************************************)

LEMMA BostaTipi ==
    ASSUME NEW J, NEW a
    PROVE  Bosta \in Eller /\ ElTipi(J, a, Bosta) /\ ElIsi(J, Bosta) /\ Bosta.yer = "bos"
<1>1. Bosta \in Eller /\ Bosta.yer = "bos" /\ Bosta.is = Yok
  BY DEF Bosta, Eller, NatYok, Gorulen
<1>. HIDE DEF Bosta
<1>. QED BY <1>1 DEF ElTipi, ElIsi, Yazan, Hukumde, Soran, Geride, Silmede, Planda

\* A step of the handler a with no job: it comes to e.
LEMMA TipAdim ==
    ASSUME TipInv, isler' = isler, kayip' = kayip, uygulama' = uygulama, SayacInv', NEW a \in El, NEW e,
           el' = [el EXCEPT ![a] = e], ElTipi(isler, a, e), ElIsi(isler, e),
           SatirTipi(isler, hedef')
    PROVE  TipInv'
<1>1. el \in [El -> Eller] /\ e \in Eller
  BY DEF TipInv, ElTipi
<1>2. el' \in [El -> Eller] /\ el'[a] = e /\ \A b \in El \ {a} : el'[b] = el[b]
  BY <1>1
<1>3. \A b \in El : ElTipi(isler, b, el'[b]) /\ ElIsi(isler, el'[b])
  BY <1>2 DEF TipInv
<1>. QED BY <1>2, <1>3 DEF TipInv, IsNo

LEMMA TipBitir ==
    ASSUME TipInv, isler' = isler, kayip' = kayip, uygulama' = uygulama, SayacInv', NEW a \in El, Bitir(a),
           SatirTipi(isler, hedef')
    PROVE  TipInv'
<1>. HIDE DEF Bosta
<1>. QED BY TipAdim, BostaTipi DEF Bitir

\* A step of no handler.
LEMMA TipOrtam ==
    ASSUME TipInv, UNCHANGED <<isler, kayip, uygulama, el>>, SayacInv', SatirTipi(isler, hedef')
    PROVE  TipInv'
  BY DEF TipInv, IsNo

\* Counters and history, but for AWX's jobs and the faults.
LEMMA SayacAdim ==
    ASSUME SayacInv, isler' = isler, kayip' = kayip, kanit' = kanit, uygulama' = uygulama,
           kayit' \in {"acik", "deleted", "cancelled"},
           pencere' \in {"once", "acik", "gecti"}, gun' \in BOOLEAN, iptal' \in BOOLEAN,
           ezilen' \in BOOLEAN, eskiHukum' \in BOOLEAN, ariza' = ariza,
           basma' = basma \/ Bas
    PROVE  SayacInv'
<1>1. basma' \in Nat /\ basma' <= EnCokBasma
  BY EmeklilikVarsayimi DEF Bas, SayacInv
<1>. QED BY <1>1 DEF SayacInv, IsNo

LEMMA SayacKalir == ASSUME SayacInv, UNCHANGED satirDisi PROVE SayacInv'
  BY DEF SayacInv, satirDisi, disari, ortam, gecmis, IsNo

\* What a launch leads to: a job and its number, no job, or a job whose number is lost.
YeniIs(tur, plan, liste) == [tur |-> tur, plan |-> plan, liste |-> liste, durum |-> "kosar"]
Baslamis(e, yaz, n) == [e EXCEPT !.yer = yaz, !.is = n]
Donus(e, red) == IF red = "bos" THEN Bosta ELSE [e EXCEPT !.yer = red]

LEMMA BaslatSonucu ==
    ASSUME TipInv, NEW a \in El, NEW tur, NEW plan, NEW liste, NEW yaz, NEW red,
           Baslat(a, tur, plan, liste, yaz, red),
           tur \in {"stop", "sil", "geri"}, plan \in BOOLEAN, liste = Yok \/ IsMi(isler, liste)
    PROVE  /\ hedef' = hedef /\ uygulama' = uygulama /\ ezilen' = ezilen /\ eskiHukum' = eskiHukum
           /\ SayacInv'
           /\ YeniIs(tur, plan, liste) \in Isler
           /\ \/ /\ isler' = Append(isler, YeniIs(tur, plan, liste)) /\ kayip' = kayip
                 /\ el' = [el EXCEPT ![a] = Baslamis(el[a], yaz, Len(isler) + 1)]
              \/ isler' = isler /\ kayip' = kayip /\ el' = [el EXCEPT ![a] = Donus(el[a], red)]
              \/ /\ isler' = Append(isler, YeniIs(tur, plan, liste)) /\ kayip' = kayip \cup {Len(isler) + 1}
                 /\ el' = [el EXCEPT ![a] = Donus(el[a], red)]
<1>. DEFINE x == YeniIs(tur, plan, liste)
            geri == Donus(el[a], red)
<1>1. isler \in Seq(Isler) /\ el \in [El -> Eller] /\ SayacInv
  BY DEF TipInv
<1>2. x \in Isler
  BY <1>1 DEF YeniIs, Isler, NatYok, IsMi
<1>. HIDE DEF x
<1>3. Len(Append(isler, x)) = Len(isler) + 1 /\ Len(isler) \in Nat
  BY <1>1, <1>2
<1>4. /\ UNCHANGED <<hedef, kayit, disari, kanit, ezilen, eskiHukum>>
      /\ \/ /\ IsSigar /\ isler' = Append(isler, x)
            /\ el' = [el EXCEPT ![a].yer = yaz, ![a].is = Len(Append(isler, x))]
            /\ UNCHANGED <<ariza, kayip>>
         \/ /\ \/ Ariza
               \/ ariza' = ariza
            /\ el' = [el EXCEPT ![a] = geri]
            /\ UNCHANGED <<isler, kayip>>
         \/ /\ IsSigar /\ Ariza /\ isler' = Append(isler, x)
            /\ kayip' = kayip \cup {Len(Append(isler, x))}
            /\ el' = [el EXCEPT ![a] = geri]
  BY DEF Baslat, x, YeniIs, Donus
<1>. HIDE DEF geri
<1>5. ariza' \in Nat /\ ariza' <= EnCokAriza
  BY <1>1, <1>4, EmeklilikVarsayimi DEF SayacInv, Ariza, Kusur
<1>6. Len(isler') <= EnCokIs /\ Len(isler') \in {Len(isler), Len(isler) + 1}
      /\ (isler' # isler => Len(isler') = Len(isler) + 1)
  BY <1>1, <1>3, <1>4, EmeklilikVarsayimi DEF SayacInv, IsSigar
<1>7. kayip' \subseteq 1 .. Len(isler') /\ kanit' \subseteq kayip'
  BY <1>1, <1>3, <1>4 DEF SayacInv, IsNo
<1>8. SayacInv'
  BY <1>1, <1>4, <1>5, <1>6, <1>7 DEF SayacInv, IsNo, disari, ortam
<1>9. [el EXCEPT ![a].yer = yaz, ![a].is = Len(isler) + 1]
        = [el EXCEPT ![a] = [el[a] EXCEPT !.yer = yaz, !.is = Len(isler) + 1]]
  BY <1>1
<1>. QED BY <1>2, <1>3, <1>4, <1>8, <1>9 DEF disari, ortam, x, geri, Baslamis

\* One more job x, and the handler a comes to f.
LEMMA TipEkle ==
    ASSUME TipInv, NEW a \in El, NEW x \in Isler, x.durum = "kosar", ListeVerir(isler, x),
           NEW M, M = Append(isler, x), NEW n, n = Len(isler) + 1, NEW f,
           isler' = M, kayip' \in {kayip, kayip \cup {n}}, hedef' = hedef, uygulama' = uygulama, SayacInv',
           el' = [el EXCEPT ![a] = f], ElTipi(M, a, f), f.yer \in Yazan => f.is = n
    PROVE  TipInv'
<1>1. isler \in Seq(Isler) /\ el \in [El -> Eller] /\ SayacInv
  BY DEF TipInv
<1>2. Len(isler) \in Nat
  BY <1>1
<1>3. /\ M \in Seq(Isler) /\ Uzar(isler, M) /\ Len(M) = n /\ M[n] = x
      /\ \A j \in 1 .. Len(isler) : M[j] = isler[j]
  BY <1>1, EkleUzar
<1>4. n \notin 1 .. Len(isler) /\ n \in 1 .. n /\ \A j \in 1 .. n : j # n => j \in 1 .. Len(isler)
  BY <1>2
<1>6. \A b, g : ElTipi(isler, b, g) /\ ElIsi(isler, g) => ElTipi(M, b, g) /\ ElIsi(M, g)
  <2>. SUFFICES ASSUME NEW b, NEW g, ElTipi(isler, b, g), ElIsi(isler, g)
                PROVE  ElTipi(M, b, g) /\ ElIsi(M, g)
    OBVIOUS
  <2>1. g.yer \in Yazan => g.is \in 1 .. Len(isler)
    BY DEF ElTipi, Is, IsMi
  <2>2. g.yer \in Yazan => M[g.is] = isler[g.is] /\ g.is # n
    BY <1>3, <1>4, <2>1
  <2>3. ElIsi(M, g)
    BY <2>2 DEF ElIsi, Bitti
  <2>. QED BY <1>3, <2>3, ElUzar
<1>7. ElIsi(M, f)
  BY <1>3 DEF ElIsi, Bitti
<1>8. el' \in [El -> Eller] /\ \A b \in El : ElTipi(M, b, el'[b]) /\ ElIsi(M, el'[b])
  <2>1. f \in Eller
    BY DEF ElTipi
  <2>2. el' \in [El -> Eller] /\ el'[a] = f /\ \A b \in El \ {a} : el'[b] = el[b]
    BY <1>1, <2>1
  <2>3. \A b \in El : ElTipi(isler, b, el[b]) /\ ElIsi(isler, el[b])
    BY DEF TipInv
  <2>. QED BY <1>6, <1>7, <2>2, <2>3
<1>9. SatirTipi(M, hedef')
  BY <1>3, SatirUzar DEF TipInv
<1>10. \A j \in 1 .. Len(M) : ListeVerir(M, M[j])
  <2>. SUFFICES ASSUME NEW j \in 1 .. n PROVE ListeVerir(M, M[j])
    BY <1>3
  <2>1. ListeVerir(isler, M[j])
    BY <1>3, <1>4 DEF TipInv, IsNo
  <2>2. \A i : IsMi(isler, i) => IsMi(M, i) /\ M[i].tur = isler[i].tur
    BY <1>3 DEF Uzar, IsMi
  <2>. QED BY <2>1, <2>2 DEF ListeVerir
<1>11. (\E j \in 1 .. Len(M) : Is(M, j, "sil", FALSE) /\ M[j].durum = "ok") => uygulama' = "silindi"
  <2>. SUFFICES ASSUME NEW j \in 1 .. n, Is(M, j, "sil", FALSE), M[j].durum = "ok"
                PROVE  uygulama' = "silindi"
    BY <1>3
  <2>1. j \in 1 .. Len(isler) /\ M[j] = isler[j]
    BY <1>3, <1>4
  <2>2. Is(isler, j, "sil", FALSE) /\ isler[j].durum = "ok"
    BY <2>1 DEF Is, IsMi
  <2>. QED BY <2>1, <2>2 DEF TipInv, IsNo
<1>. QED BY <1>3, <1>8, <1>9, <1>10, <1>11 DEF TipInv, IsNo

\* What a handler comes to.
LEMMA DonusAlan ==
    ASSUME NEW e \in Eller, NEW yer \in SekmeYerleri \cup ZamYerleri
    PROVE  /\ Donus(e, yer) \in Eller /\ Donus(e, yer).yer = yer /\ Donus(e, yer).durum = e.durum
           /\ Donus(e, yer).is = e.is /\ Donus(e, yer).gor = e.gor
           /\ Donus(e, yer) = [e EXCEPT !.yer = yer]
<1>1. yer # "bos"
  BY DEF SekmeYerleri, ZamYerleri, Geride, Stopta, Silmede, Planda
<1>2. Donus(e, yer) = [e EXCEPT !.yer = yer]
  BY <1>1 DEF Donus
<1>. QED BY <1>2 DEF Eller

LEMMA BaslamisAlan ==
    ASSUME NEW e \in Eller, NEW yaz \in SekmeYerleri \cup ZamYerleri, NEW n \in Nat
    PROVE  /\ Baslamis(e, yaz, n) \in Eller /\ Baslamis(e, yaz, n).yer = yaz
           /\ Baslamis(e, yaz, n).durum = e.durum
           /\ Baslamis(e, yaz, n).is = n /\ Baslamis(e, yaz, n).gor = e.gor
  BY DEF Baslamis, Eller, NatYok

LEMMA TipBaslat ==
    ASSUME TipInv, NEW a \in El, NEW tur, NEW plan, NEW liste, NEW yaz, NEW red,
           Baslat(a, tur, plan, liste, yaz, red),
           tur \in {"stop", "sil", "geri"}, plan \in BOOLEAN, liste = Yok \/ (IsMi(isler, liste) /\ isler[liste].tur = tur),
           ~plan /\ tur # "stop" => liste # Yok,
           yaz \in Yazan,
           \A M, n : Uzar(isler, M) /\ Is(M, n, tur, plan) /\ M[n].liste = liste =>
                ElTipi(M, a, Baslamis(el[a], yaz, n)),
           red # "bos" => red \notin Yazan /\ ElTipi(isler, a, Donus(el[a], red))
    PROVE  TipInv'
<1>. DEFINE x == YeniIs(tur, plan, liste)
            M == Append(isler, x)
            n == Len(isler) + 1
            geri == Donus(el[a], red)
            e == Baslamis(el[a], yaz, n)
<1>. HIDE DEF x, M, n, geri, e
<1>1. isler \in Seq(Isler) /\ el[a] \in Eller
  BY DEF TipInv
<1>2. Len(isler) \in Nat
  BY <1>1
<1>2a. n \in 1 .. n
  BY <1>2 DEF n
<1>3. /\ hedef' = hedef /\ uygulama' = uygulama /\ SayacInv' /\ x \in Isler
      /\ \/ isler' = M /\ kayip' = kayip /\ el' = [el EXCEPT ![a] = e]
         \/ isler' = isler /\ kayip' = kayip /\ el' = [el EXCEPT ![a] = geri]
         \/ isler' = M /\ kayip' = kayip \cup {n} /\ el' = [el EXCEPT ![a] = geri]
  BY BaslatSonucu DEF x, M, n, geri, e
<1>4. x.tur = tur /\ x.plan = plan /\ x.liste = liste /\ x.durum = "kosar"
  BY DEF YeniIs, x
<1>5. Uzar(isler, M) /\ Len(M) = n /\ M[n] = x
  BY <1>1, <1>3, EkleUzar DEF M, n
<1>6. Is(M, n, tur, plan) /\ M[n].liste = liste
  BY <1>2a, <1>4, <1>5 DEF Is, IsMi
<1>7. ElTipi(M, a, e)
  BY <1>5, <1>6, Zenon DEF e
<1>8. e.yer = yaz /\ e.is = n
  <2>1. yaz \in SekmeYerleri \cup ZamYerleri /\ n \in Nat
    BY <1>2 DEF Yazan, SekmeYerleri, ZamYerleri, Geride, Stopta, Silmede, Planda, n
  <2>. QED BY <1>1, <2>1, BaslamisAlan DEF e
<1>9. ElTipi(isler, a, geri) /\ geri.yer \notin Yazan
  <2>1. CASE red = "bos"
    BY <2>1, BostaTipi DEF Donus, Yazan, geri
  <2>2. CASE red # "bos"
    <3>1. geri.yer = red
      BY <1>1, <2>2 DEF Eller, Donus, geri
    <3>. QED BY <2>2, <3>1 DEF geri
  <2>. QED BY <2>1, <2>2
<1>10. ElTipi(M, a, geri)
  BY <1>5, <1>9, ElUzar
<1>10a. ListeVerir(isler, x)
  BY <1>4 DEF ListeVerir
<1>11. CASE isler' = isler /\ kayip' = kayip /\ el' = [el EXCEPT ![a] = geri]
  <2>1. ElIsi(isler, geri) /\ SatirTipi(isler, hedef')
    BY <1>3, <1>9 DEF ElIsi, TipInv
  <2>. QED BY <1>3, <1>9, <1>11, <2>1, TipAdim
<1>12. CASE isler' = M /\ kayip' = kayip /\ el' = [el EXCEPT ![a] = e]
  BY <1>3, <1>4, <1>7, <1>8, <1>10a, <1>12, TipEkle, Zenon DEF n, M
<1>13. CASE isler' = M /\ kayip' = kayip \cup {n} /\ el' = [el EXCEPT ![a] = geri]
  BY <1>3, <1>4, <1>9, <1>10, <1>10a, <1>13, TipEkle, Zenon DEF n, M
<1>. QED BY <1>3, <1>11, <1>12, <1>13

-----------------------------------------------------------------------------
\* From one place to the next, with and without a job.
Gecis(y, z) ==
    \/ y = "gBaslat" /\ z = "gGeri"
    \/ y = "dBaslat" /\ z = "dGeri"
    \/ y = "pBaslat" /\ z = "pGeri"
    \/ y = "sBaslat" /\ z = "sGeri"
    \/ y = "gClaim" /\ z = "gBaslat"
    \/ y = "dClaim" /\ z = "dBaslat"
    \/ y = "pClaim" /\ z = "pBaslat"
    \/ y = "sClaim" /\ z = "sBaslat"
    \/ y = "fYaz" /\ z = "fKayit"
IsleGecis(y, z) ==
    \/ y = "kBaslat" /\ z = "kYaz"
    \/ y = "oBaslat" /\ z = "oYaz"
    \/ y = "gpBaslat" /\ z = "gpYaz"
    \/ y = "gBaslat" /\ z = "gYaz"
    \/ y = "spBaslat" /\ z = "spYaz"
    \/ y = "dBaslat" /\ z = "dYaz"
    \/ y = "pBaslat" /\ z = "pYaz"
    \/ y = "sBaslat" /\ z = "sYaz"

LEMMA DonusTipi ==
    ASSUME NEW J, NEW a, NEW e, ElTipi(J, a, e), NEW yer, Gecis(e.yer, yer)
    PROVE  ElTipi(J, a, Donus(e, yer)) /\ yer \notin Yazan
<1>1. e \in Eller /\ yer \in SekmeYerleri \cup ZamYerleri /\ yer \notin Yazan
  BY DEF ElTipi, Gecis, SekmeYerleri, ZamYerleri, Geride, Stopta, Silmede, Planda, Yazan
<1>. DEFINE f == Donus(e, yer)
<1>2. f \in Eller /\ f.yer = yer /\ f.durum = e.durum /\ f.is = e.is /\ f.gor = e.gor
  BY <1>1, DonusAlan
<1>. HIDE DEF f
<1>3. /\ a = Zam => yer \in ZamYerleri
      /\ a # Zam => yer \in SekmeYerleri
  BY DEF ElTipi, Gecis, SekmeYerleri, ZamYerleri, Geride, Stopta, Silmede, Planda
<1>4. /\ yer \notin Hukumde \cup Soran
      /\ yer \notin {"jOn", "onYaz", "gClaim", "gpBaslat", "gpYaz", "sClaim", "tNo"}
      /\ yer \notin {"kBaslat", "kYaz", "zYaz", "oBaslat", "oYaz", "dClaim", "gYaz", "sYaz"}
  BY DEF Gecis, Hukumde, Soran
<1>5. yer \in Geride => e.yer \in {"gClaim"} \cup Geride
  BY DEF Gecis, Geride
<1>6. yer \in Silmede => e.yer \in {"sClaim"} \cup Silmede
  BY DEF Gecis, Silmede
<1>7. yer \in Planda => e.yer \in Planda
  BY DEF Gecis, Planda
<1>8. yer = "dBaslat" => e.yer = "dClaim"
  BY DEF Gecis
<1>9. e.yer \in {"gClaim"} \cup Geride => e.yer \in {"gClaim", "gpBaslat", "gpYaz"} \cup Geride
  OBVIOUS
<1>10. ElTipi(J, a, f)
  BY <1>1, <1>2, <1>3, <1>4, <1>5, <1>6, <1>7, <1>8, <1>9, Zenon DEF ElTipi
<1>. QED BY <1>1, <1>10 DEF f

LEMMA BaslamisTipi ==
    ASSUME NEW J, Len(J) \in Nat, NEW a, NEW e, ElTipi(J, a, e), NEW yaz, IsleGecis(e.yer, yaz),
           NEW n, Is(J, n, YerTuru(yaz), yaz \in PlanYazan),
           yaz \in {"gYaz", "sYaz"} => J[n].liste = e.gor.is
    PROVE  ElTipi(J, a, Baslamis(e, yaz, n)) /\ yaz \in Yazan
<1>1. e \in Eller /\ yaz \in SekmeYerleri \cup ZamYerleri /\ yaz \in Yazan
  BY DEF ElTipi, IsleGecis, SekmeYerleri, ZamYerleri, Geride, Stopta, Silmede, Planda, Yazan
<1>2. n \in Nat /\ IsMi(J, n)
  BY DEF Is, IsMi
<1>. DEFINE f == Baslamis(e, yaz, n)
<1>3. f \in Eller /\ f.yer = yaz /\ f.durum = e.durum /\ f.is = n /\ f.gor = e.gor
  BY <1>1, <1>2, BaslamisAlan
<1>. HIDE DEF f
<1>4. /\ a = Zam => yaz \in ZamYerleri
      /\ a # Zam => yaz \in SekmeYerleri
  BY DEF ElTipi, IsleGecis, SekmeYerleri, ZamYerleri, Geride, Stopta, Silmede, Planda
<1>5. /\ yaz \notin Hukumde \cup Soran
      /\ yaz \notin {"jOn", "onYaz", "gClaim", "gpBaslat", "sClaim", "tNo"}
      /\ yaz \notin {"kBaslat", "zYaz", "oBaslat", "dClaim", "dBaslat"}
  BY DEF IsleGecis, Hukumde, Soran
<1>6. yaz \in Geride => e.yer \in Geride
  BY DEF IsleGecis, Geride
<1>7. yaz \in Silmede => e.yer \in Silmede
  BY DEF IsleGecis, Silmede
<1>8. yaz \in Planda => e.yer \in Planda
  BY DEF IsleGecis, Planda
<1>9. /\ yaz = "gpYaz" => e.yer = "gpBaslat"
      /\ yaz = "kYaz" => e.yer = "kBaslat"
      /\ yaz = "oYaz" => e.yer = "oBaslat"
  BY DEF IsleGecis
<1>10. /\ yaz \in {"gClaim"} \cup Geride => Liste(J, e.gor, "geri") /\ Taze(e.gor)
       /\ yaz \in {"sClaim"} \cup Silmede => Liste(J, e.gor, "sil") /\ Taze(e.gor)
       /\ yaz \in Planda => ListeYa(J, e.gor, "sil")
  BY <1>5, <1>6, <1>7, <1>8 DEF ElTipi
<1>11. yaz \in {"gClaim", "gpBaslat", "gpYaz"} \cup Geride => e.durum \in GeriDurumlari
  BY <1>5, <1>6, <1>9 DEF ElTipi
<1>12. /\ yaz \in {"kBaslat", "kYaz"} => e.durum \in OnDurumlari
       /\ yaz \in {"zYaz", "oBaslat", "oYaz"} => e.durum = "planned"
       /\ yaz \in {"oBaslat", "oYaz"} => e.gor \in Onaylar
  BY <1>5, <1>9 DEF ElTipi
<1>13. ElTipi(J, a, f)
  BY <1>2, <1>3, <1>4, <1>5, <1>10, <1>11, <1>12, Zenon DEF ElTipi
<1>. QED BY <1>1, <1>13 DEF f

\* A launch, with what may become of the handler.
LEMMA TipBaslatYer ==
    ASSUME TipInv, NEW a \in El, NEW tur, NEW plan, NEW liste, NEW yaz, NEW red,
           Baslat(a, tur, plan, liste, yaz, red),
           tur = YerTuru(yaz), plan = (yaz \in PlanYazan),
           liste = Yok \/ (IsMi(isler, liste) /\ isler[liste].tur = tur), ~plan /\ tur # "stop" => liste # Yok,
           yaz \in {"gYaz", "sYaz"} => liste = el[a].gor.is,
           IsleGecis(el[a].yer, yaz), red # "bos" => Gecis(el[a].yer, red)
    PROVE  TipInv'
<1>1. ElTipi(isler, a, el[a])
  BY DEF TipInv
<1>2. tur \in {"stop", "sil", "geri"} /\ plan \in BOOLEAN
  BY DEF YerTuru
<1>3. yaz \in Yazan
  BY DEF IsleGecis, Yazan
<1>4. \A M, n : Uzar(isler, M) /\ Is(M, n, tur, plan) /\ M[n].liste = liste =>
           ElTipi(M, a, Baslamis(el[a], yaz, n))
  <2>. SUFFICES ASSUME NEW M, NEW n, Uzar(isler, M), Is(M, n, tur, plan), M[n].liste = liste
                PROVE  ElTipi(M, a, Baslamis(el[a], yaz, n))
    OBVIOUS
  <2>1. ElTipi(M, a, el[a]) /\ Len(M) \in Nat
    BY <1>1, ElUzar DEF Uzar
  <2>. QED BY <2>1, BaslamisTipi
<1>5. red # "bos" => red \notin Yazan /\ ElTipi(isler, a, Donus(el[a], red))
  BY <1>1, DonusTipi
<1>. QED BY <1>2, <1>3, <1>4, <1>5, TipBaslat

-----------------------------------------------------------------------------
\* What a handler starts with.
Elde(yer, durum, is, gor) == [yer |-> yer, durum |-> durum, is |-> is, gor |-> gor]

LEMMA EldeAlan ==
    ASSUME NEW yer \in SekmeYerleri \cup ZamYerleri, NEW durum \in Durumlar \cup {"silmeOn", "geriOn"},
           NEW is \in NatYok, NEW gor \in Gorulen
    PROVE  /\ Elde(yer, durum, is, gor) \in Eller /\ Elde(yer, durum, is, gor).yer = yer
           /\ Elde(yer, durum, is, gor).durum = durum
           /\ Elde(yer, durum, is, gor).is = is /\ Elde(yer, durum, is, gor).gor = gor
  BY DEF Elde, Eller

LEMMA TipBasla ==
    ASSUME TipInv, NEW a \in El, NEW yer, NEW durum, NEW is, NEW gor, Basla(a, yer, durum, is, gor),
           hedef' = hedef, isler' = isler, kayip' = kayip, uygulama' = uygulama, SayacInv',
           yer \notin Yazan, ElTipi(isler, a, Elde(yer, durum, is, gor))
    PROVE  TipInv'
<1>. DEFINE e == Elde(yer, durum, is, gor)
<1>1. e.yer = yer /\ el' = [el EXCEPT ![a] = e]
  BY DEF Basla, Elde
<1>2. ElTipi(isler, a, e)
  OBVIOUS
<1>. HIDE DEF e
<1>3. ElIsi(isler, e) /\ SatirTipi(isler, hedef')
  BY <1>1 DEF ElIsi, TipInv
<1>. QED BY <1>1, <1>2, <1>3, TipAdim

LEMMA Kalanlar ==
    ASSUME UNCHANGED satirDisi
    PROVE  /\ isler' = isler /\ kayip' = kayip /\ uygulama' = uygulama /\ kayit' = kayit /\ kanit' = kanit
           /\ ezilen' = ezilen /\ eskiHukum' = eskiHukum
  BY DEF satirDisi, disari, ortam, gecmis

LEMMA SekmeZam == El = Sekme \cup {Zam} /\ Zam \notin Sekme /\ Yok \notin Nat
  BY EmeklilikVarsayimi DEF El

\* The number that a status waits for is that of a job of its kind.
LEMMA AlanTipi ==
    ASSUME SatirTipi(isler, hedef), hedef.durum \in {"planning", "stopping", "deleting", "rolling_back"},
           Alan(hedef.durum) # Yok
    PROVE  /\ IsMi(isler, Alan(hedef.durum)) /\ Alan(hedef.durum) \in {hedef.sonIs, hedef.silmeIs, hedef.geriIs}
           /\ \/ hedef.durum \in {"planning", "stopping"} /\ isler[Alan(hedef.durum)].tur = "stop"
              \/ hedef.durum = "deleting" /\ Is(isler, Alan(hedef.durum), "sil", FALSE)
              \/ hedef.durum = "rolling_back" /\ Is(isler, Alan(hedef.durum), "geri", FALSE)
<1>1. CASE hedef.durum \in {"planning", "stopping"}
  BY <1>1 DEF SatirTipi, Alan, IsMi, StopMi
<1>2. CASE hedef.durum = "deleting"
  BY <1>2 DEF SatirTipi, Alan, IsMi, Is
<1>3. CASE hedef.durum = "rolling_back"
  BY <1>3 DEF SatirTipi, Alan, IsMi, Is
<1>. QED BY <1>1, <1>2, <1>3

\* A handler with the verdict about the job of the row's status, or about to ask for it.
LEMMA HukumBasla ==
    ASSUME TipInv, NEW a \in El, NEW yer,
           \/ a = Zam /\ yer = "fSor" /\ hedef.durum # "planning"
           \/ a # Zam /\ yer = "jYaz" /\ hedef.durum \in {"planning", "stopping"},
           hedef.durum \in {"planning", "stopping", "deleting", "rolling_back"},
           NEW j, j = Alan(hedef.durum), j # Yok, yer = "jYaz" => Biter(j), Basla(a, yer, hedef.durum, j, Yok),
           UNCHANGED <<hedef, satirDisi>>
    PROVE  TipInv'
<1>1. SatirTipi(isler, hedef) /\ SayacInv
  BY DEF TipInv
<1>2. /\ IsMi(isler, j) /\ (yer = "jYaz" => Bitti(isler, j))
      /\ \/ hedef.durum \in {"planning", "stopping"} /\ isler[j].tur = "stop"
         \/ hedef.durum = "deleting" /\ Is(isler, j, "sil", FALSE)
         \/ hedef.durum = "rolling_back" /\ Is(isler, j, "geri", FALSE)
  BY <1>1, AlanTipi DEF Biter, Bitti
<1>3. hedef.durum \in Durumlar /\ j \in NatYok
  BY <1>1, AlanTipi DEF SatirTipi, Satirlar
<1>. DEFINE e == Elde(yer, hedef.durum, j, Yok)
<1>4. yer \in SekmeYerleri \cup ZamYerleri
  BY DEF SekmeYerleri, ZamYerleri
<1>5. e \in Eller /\ e.yer = yer /\ e.durum = hedef.durum /\ e.is = j /\ e.gor = Yok
  BY <1>3, <1>4, EldeAlan DEF NatYok, Gorulen
<1>. HIDE DEF e
<1>6. /\ a = Zam => e.yer \in {"bos"} \cup ZamYerleri
      /\ a # Zam => e.yer \in {"bos"} \cup SekmeYerleri
  BY <1>5 DEF SekmeYerleri, ZamYerleri
<1>7. HukumTipi(isler, e)
  BY <1>2, <1>5 DEF HukumTipi, Hukumde
<1>8. e.yer \in {"jYaz", "fSor"} /\ e.yer \notin Yazan
  BY <1>5 DEF Yazan
<1>9. ElTipi(isler, a, e)
  BY <1>2, <1>5, <1>6, <1>7, <1>8 DEF ElTipi, Geride, Silmede, Planda, Yazan
<1>10. SayacInv'
  BY <1>1, SayacKalir
<1>. QED BY <1>5, <1>8, <1>9, <1>10, Kalanlar, TipBasla DEF e

\* A handler with the result of a preflight of the deletion or the way back.
LEMMA OnBasla ==
    ASSUME TipInv, NEW a \in El, NEW yer,
           \/ a # Zam /\ yer = "jOn"
           \/ a = Zam /\ yer = "onYaz",
           NEW alan \in {"silmeOn", "geriOn"}, hedef[alan] # Yok, hedef[alan].durum = "kosar",
           NEW j, j = hedef[alan].is, Biter(j), Basla(a, yer, alan, j, hedef[alan]),
           UNCHANGED <<hedef, satirDisi>>
    PROVE  TipInv'
<1>1. SatirTipi(isler, hedef) /\ SayacInv
  BY DEF TipInv
<1>2. /\ \/ alan = "silmeOn" /\ Liste(isler, hedef[alan], "sil")
         \/ alan = "geriOn" /\ Liste(isler, hedef[alan], "geri")
  BY <1>1 DEF SatirTipi, ListeYa
<1>. DEFINE o == hedef[alan]
<1>3. o \in Listeler /\ IsMi(isler, j) /\ Bitti(isler, j) /\ j \in NatYok
  BY <1>2 DEF Liste, Is, Listeler, Biter, Bitti
<1>. DEFINE e == Elde(yer, alan, j, o)
<1>4. yer \in SekmeYerleri \cup ZamYerleri
  BY DEF SekmeYerleri, ZamYerleri
<1>. HIDE DEF o
<1>5. e \in Eller /\ e.yer = yer /\ e.durum = alan /\ e.is = j /\ e.gor = o
  <2>1. o \in Gorulen
    BY <1>3 DEF Gorulen
  <2>. QED BY <1>3, <1>4, <2>1, EldeAlan
<1>. HIDE DEF e
<1>6. /\ a = Zam => e.yer \in {"bos"} \cup ZamYerleri
      /\ a # Zam => e.yer \in {"bos"} \cup SekmeYerleri
  BY <1>5 DEF SekmeYerleri, ZamYerleri
<1>7. e.yer \in {"jOn", "onYaz"} /\ e.yer \notin Yazan
  BY <1>5 DEF Yazan
<1>8. ElTipi(isler, a, e)
  BY <1>2, <1>3, <1>5, <1>6, <1>7 DEF o, ElTipi, Geride, Silmede, Planda, Yazan, Hukumde, Soran
<1>9. SayacInv'
  BY <1>1, SayacKalir
<1>. QED BY <1>5, <1>7, <1>8, <1>9, Kalanlar, TipBasla DEF e, o

\* A request that only reads the row: it starts with a list of it or with none.
LEMMA OkuyanBasla ==
    ASSUME TipInv, NEW a \in El, NEW yer, NEW gor, Basla(a, yer, hedef.durum, Yok, gor),
           hedef' = hedef, isler' = isler, kayip' = kayip, uygulama' = uygulama, SayacInv',
           gor \in Gorulen,
           a # Zam => yer \in {"kBaslat", "zYaz", "oBaslat", "gpBaslat", "gClaim", "spBaslat", "tNo"},
           a = Zam => yer \in {"dDus", "dClaim", "sClaim", "pClaim"},
           yer = "kBaslat" => hedef.durum \in OnDurumlari,
           yer \in {"zYaz", "oBaslat"} => hedef.durum = "planned",
           yer \in {"gpBaslat", "gClaim"} => hedef.durum \in GeriDurumlari,
           yer = "gClaim" => Liste(isler, gor, "geri") /\ Taze(gor) /\ gor # Yok,
           yer = "sClaim" => Liste(isler, gor, "sil") /\ Taze(gor),
           yer = "pClaim" => ListeYa(isler, gor, "sil"),
           yer = "oBaslat" => gor \in Onaylar /\ (gor.is = Yok \/ StopMi(isler, gor.is)),
           yer = "dClaim" => gor = Yok \/ StopMi(isler, gor),
           yer = "tNo" => hedef.durum \in {"planning", "stopping", "deleting", "rolling_back"}
    PROVE  TipInv'
<1>1. SatirTipi(isler, hedef) /\ SayacInv
  BY DEF TipInv
<1>2. hedef.durum \in Durumlar
  BY <1>1 DEF SatirTipi, Satirlar
<1>3. /\ yer \in {"kBaslat", "zYaz", "oBaslat", "gpBaslat", "gClaim", "spBaslat", "tNo", "dDus",
                  "dClaim", "sClaim", "pClaim"}
      /\ yer \in SekmeYerleri \cup ZamYerleri
  BY DEF SekmeYerleri, ZamYerleri, Planda
<1>. DEFINE e == Elde(yer, hedef.durum, Yok, gor)
<1>4. e \in Eller /\ e.yer = yer /\ e.durum = hedef.durum /\ e.is = Yok /\ e.gor = gor
  <2>1. Yok \in NatYok
    BY DEF NatYok
  <2>. QED BY <1>2, <1>3, <2>1, EldeAlan
<1>. HIDE DEF e
<1>5. /\ a = Zam => yer \in ZamYerleri
      /\ a # Zam => yer \in SekmeYerleri
  BY DEF SekmeYerleri, ZamYerleri, Planda
<1>6. /\ yer \notin Yazan \cup Hukumde \cup Soran \cup Geride \cup Silmede
      /\ yer \notin {"jOn", "onYaz", "gpYaz", "dBaslat", "kYaz", "oYaz", "gYaz", "sYaz"}
  BY <1>3 DEF Yazan, Hukumde, Soran, Geride, Silmede
<1>7. yer \in Planda => yer = "pClaim"
  BY <1>3 DEF Planda
<1>8. ElTipi(isler, a, e)
  BY <1>4, <1>5, <1>6, <1>7, Zenon DEF ElTipi
<1>. QED BY <1>6, <1>8, TipBasla DEF e

LEMMA GeriAlinirTipi == ASSUME GeriAlinir PROVE hedef.durum \in GeriDurumlari
  BY DEF GeriAlinir, GeriDurumlari

LEMMA BasKalir ==
    ASSUME SayacInv, Bas, UNCHANGED <<kayit, ortam, isler, ariza, gecmis>>
    PROVE  SayacInv' /\ isler' = isler /\ kayip' = kayip /\ uygulama' = uygulama
<1>1. /\ isler' = isler /\ kayip' = kayip /\ uygulama' = uygulama /\ kanit' = kanit /\ kayit' = kayit
      /\ pencere' = pencere /\ gun' = gun /\ iptal' = iptal /\ ezilen' = ezilen /\ eskiHukum' = eskiHukum
      /\ ariza' = ariza
  BY DEF ortam, gecmis
<1>. QED BY <1>1, SayacAdim DEF SayacInv

LEMMA TipIstek ==
    ASSUME TipInv, NEW s \in Sekme, Istek(s)
    PROVE  TipInv'
<1>1. s \in El /\ s # Zam
  BY SekmeZam
<1>2. SatirTipi(isler, hedef) /\ SayacInv
  BY DEF TipInv
<1>3. CASE OnKontrolIste(s)
  <2>1. hedef.durum \in OnDurumlari
    BY <1>2, <1>3 DEF OnKontrolIste, OnDurumlari, SatirTipi, Satirlar
  <2>2. Basla(s, "kBaslat", hedef.durum, Yok, Yok) /\ hedef' = hedef
    BY <1>3 DEF OnKontrolIste
  <2>3. SayacInv' /\ isler' = isler /\ kayip' = kayip /\ uygulama' = uygulama
    BY <1>2, <1>3, BasKalir DEF OnKontrolIste
  <2>. QED BY <1>1, <2>1, <2>2, <2>3, OkuyanBasla DEF NatYok, Gorulen
<1>4. CASE Onayla(s)
  <2>1. SayacInv' /\ hedef' = hedef /\ hedef.durum = "planned"
    BY <1>2, <1>4, SayacKalir DEF Onayla
  <2>2. isler' = isler /\ kayip' = kayip /\ uygulama' = uygulama
    BY <1>4, Kalanlar DEF Onayla
  <2>3. hedef.izin \in NatYok /\ (hedef.izin = Yok \/ StopMi(isler, hedef.izin))
    BY <1>2 DEF SatirTipi, Satirlar
  <2>4. CASE Basla(s, "zYaz", hedef.durum, Yok, Yok)
    BY <1>1, <2>1, <2>2, <2>4, OkuyanBasla DEF NatYok, Gorulen
  <2>. DEFINE gor == [is |-> hedef.izin, acik |-> kayit = "acik"]
  <2>5. CASE Basla(s, "oBaslat", hedef.durum, Yok, gor)
    <3>1. gor \in Onaylar /\ (gor.is = Yok \/ StopMi(isler, gor.is))
      BY <2>3 DEF Onaylar
    <3>2. gor \in Gorulen
      BY <3>1 DEF Gorulen
    <3>. HIDE DEF gor
    <3>. QED BY <1>1, <2>1, <2>2, <2>5, <3>1, <3>2, OkuyanBasla
  <2>. QED BY <1>4, <2>4, <2>5 DEF Onayla
<1>5. CASE GeriOnIste(s)
  <2>1. Basla(s, "gpBaslat", hedef.durum, Yok, Yok) /\ hedef' = hedef /\ hedef.durum \in GeriDurumlari
    BY <1>5, GeriAlinirTipi DEF GeriOnIste
  <2>2. SayacInv' /\ isler' = isler /\ kayip' = kayip /\ uygulama' = uygulama
    BY <1>2, <1>5, BasKalir DEF GeriOnIste
  <2>. QED BY <1>1, <2>1, <2>2, OkuyanBasla DEF NatYok, Gorulen
<1>6. CASE GeriOnayla(s)
  <2>1. Basla(s, "gClaim", hedef.durum, Yok, hedef.geriOn) /\ hedef' = hedef /\ hedef.durum \in GeriDurumlari
    BY <1>6, GeriAlinirTipi DEF GeriOnayla
  <2>2. SayacInv' /\ isler' = isler /\ kayip' = kayip /\ uygulama' = uygulama
    BY <1>2, <1>6, SayacKalir, Kalanlar DEF GeriOnayla
  <2>3. /\ Liste(isler, hedef.geriOn, "geri") /\ Taze(hedef.geriOn) /\ hedef.geriOn \in Listeler
        /\ hedef.geriOn # Yok
    BY <1>2, <1>6 DEF SatirTipi, ListeYa, Liste, GeriOnayla, Gecerli, Taze
  <2>. QED BY <1>1, <2>1, <2>2, <2>3, OkuyanBasla DEF Gorulen
<1>7. CASE SilmeOnIste(s)
  <2>1. Basla(s, "spBaslat", hedef.durum, Yok, Yok) /\ hedef' = hedef
    BY <1>7 DEF SilmeOnIste
  <2>2. SayacInv' /\ isler' = isler /\ kayip' = kayip /\ uygulama' = uygulama
    BY <1>2, <1>7, BasKalir DEF SilmeOnIste
  <2>. QED BY <1>1, <2>1, <2>2, OkuyanBasla DEF NatYok, Gorulen
<1>8. CASE Tazele(s)
  <2>1. /\ hedef.durum \in {"planning", "stopping", "deleting", "rolling_back"}
        /\ Basla(s, "tNo", hedef.durum, Yok, Yok) /\ hedef' = hedef
    BY <1>8 DEF Tazele
  <2>2. SayacInv' /\ isler' = isler /\ kayip' = kayip /\ uygulama' = uygulama
    BY <1>2, <1>8, SayacKalir, Kalanlar DEF Tazele
  <2>. QED BY <1>1, <2>1, <2>2, OkuyanBasla DEF NatYok, Gorulen
<1>9. ASSUME NEW j \in IsNo, IsDurumu(s, j)
      PROVE  TipInv'
  <2>1. j # Yok /\ Biter(j) /\ UNCHANGED <<hedef, satirDisi>>
    BY <1>9, SekmeZam DEF IsDurumu, IsNo
  <2>2. ASSUME NEW alan \in {"silmeOn", "geriOn"}, hedef[alan] # Yok, hedef[alan].is = j,
               hedef[alan].durum = "kosar", Basla(s, "jOn", alan, j, hedef[alan])
        PROVE  TipInv'
    BY <1>1, <2>1, <2>2, OnBasla
  <2>3. CASE hedef.sonIs = j /\ hedef.durum \in {"planning", "stopping"} /\ Basla(s, "jYaz", hedef.durum, j, Yok)
    <3>1. j = Alan(hedef.durum)
      BY <2>3 DEF Alan
    <3>. QED BY <1>1, <2>1, <2>3, <3>1, HukumBasla
  <2>. QED BY <1>9, <2>2, <2>3 DEF IsDurumu
<1>. QED BY <1>3, <1>4, <1>5, <1>6, <1>7, <1>8, <1>9 DEF Istek

LEMMA TipZamBasla == ASSUME TipInv, ZamBasla PROVE TipInv'
<1>1. Zam \in El
  BY SekmeZam
<1>2. SatirTipi(isler, hedef) /\ SayacInv
  BY DEF TipInv
<1>3. ASSUME UNCHANGED <<hedef, satirDisi>>
      PROVE  SayacInv' /\ hedef' = hedef /\ isler' = isler /\ kayip' = kayip /\ uygulama' = uygulama
  BY <1>2, <1>3, SayacKalir, Kalanlar
<1>4. CASE StopListele
  <2>. DEFINE yer == IF pencere = "gecti" \/ ~IzinVar THEN "dDus" ELSE "dClaim"
  <2>1. Basla(Zam, yer, hedef.durum, Yok, hedef.izin) /\ UNCHANGED <<hedef, satirDisi>>
    BY <1>4 DEF StopListele
  <2>2. yer \in {"dDus", "dClaim"}
    OBVIOUS
  <2>. HIDE DEF yer
  <2>3. hedef.izin \in NatYok /\ (hedef.izin = Yok \/ StopMi(isler, hedef.izin))
    BY <1>2 DEF SatirTipi, Satirlar
  <2>. QED BY <1>1, <1>3, <2>1, <2>2, <2>3, OkuyanBasla DEF Gorulen
<1>5. CASE SilmeListele
  <2>1. ListeYa(isler, hedef.silmeOn, "sil") /\ hedef.silmeOn \in Gorulen
    BY <1>2 DEF SatirTipi, Satirlar, NatYok, Gorulen
  <2>2. UNCHANGED <<hedef, satirDisi>>
    BY <1>5 DEF SilmeListele
  <2>3. \/ Gecerli(hedef.silmeOn) /\ Basla(Zam, "sClaim", hedef.durum, Yok, hedef.silmeOn)
        \/ Basla(Zam, "pClaim", hedef.durum, Yok, hedef.silmeOn)
    BY <1>5 DEF SilmeListele
  <2>4. CASE Gecerli(hedef.silmeOn) /\ Basla(Zam, "sClaim", hedef.durum, Yok, hedef.silmeOn)
    <3>1. Liste(isler, hedef.silmeOn, "sil") /\ Taze(hedef.silmeOn)
      BY <2>1, <2>4 DEF Gecerli, ListeYa, Taze
    <3>. QED BY <1>1, <1>3, <2>1, <2>2, <2>4, <3>1, OkuyanBasla
  <2>5. CASE Basla(Zam, "pClaim", hedef.durum, Yok, hedef.silmeOn)
    BY <1>1, <1>3, <2>1, <2>2, <2>5, OkuyanBasla
  <2>. QED BY <2>3, <2>4, <2>5
<1>6. CASE OnKontrolTick
  BY <1>1, <1>6, OnBasla DEF OnKontrolTick
<1>7. CASE Finalize
  <2>. DEFINE j == Alan(hedef.durum)
  <2>1. /\ hedef.durum \in {"stopping", "deleting", "rolling_back"}
        /\ j # Yok /\ Basla(Zam, "fSor", hedef.durum, j, Yok) /\ UNCHANGED <<hedef, satirDisi>>
    BY <1>7 DEF Finalize
  <2>. HIDE DEF j
  <2>. QED BY <1>1, <2>1, HukumBasla DEF j
<1>. QED BY <1>4, <1>5, <1>6, <1>7 DEF ZamBasla

-----------------------------------------------------------------------------
\* What is written into the row.
LEMMA SatirDurum ==
    ASSUME NEW J, NEW h, SatirTipi(J, h), NEW d \in Durumlar \ {"deleted"}
    PROVE  SatirTipi(J, [h EXCEPT !.durum = d])
  BY DEF SatirTipi, Satirlar

LEMMA SatirSonIs ==
    ASSUME NEW J, Len(J) \in Nat, NEW h, SatirTipi(J, h), NEW j, StopMi(J, j)
    PROVE  SatirTipi(J, [h EXCEPT !.sonIs = j])
<1>1. j \in NatYok
  BY DEF StopMi, IsMi, NatYok
<1>. QED BY <1>1 DEF SatirTipi, Satirlar

LEMMA SatirIzin ==
    ASSUME NEW J, Len(J) \in Nat, NEW h, SatirTipi(J, h), NEW j, j = Yok \/ StopMi(J, j)
    PROVE  SatirTipi(J, [h EXCEPT !.izin = j])
<1>1. j \in NatYok
  BY DEF StopMi, IsMi, NatYok
<1>. QED BY <1>1 DEF SatirTipi, Satirlar

LEMMA SatirSilmeIs ==
    ASSUME NEW J, Len(J) \in Nat, NEW h, SatirTipi(J, h), NEW j, Is(J, j, "sil", FALSE)
    PROVE  SatirTipi(J, [h EXCEPT !.silmeIs = j])
<1>1. j \in NatYok
  BY DEF IsMi, NatYok, Is
<1>. QED BY <1>1 DEF SatirTipi, Satirlar

LEMMA SatirGeriIs ==
    ASSUME NEW J, Len(J) \in Nat, NEW h, SatirTipi(J, h), NEW j, j = Yok \/ Is(J, j, "geri", FALSE)
    PROVE  SatirTipi(J, [h EXCEPT !.geriIs = j])
<1>1. j \in NatYok
  BY DEF IsMi, NatYok, Is
<1>. QED BY <1>1 DEF SatirTipi, Satirlar

LEMMA SatirSilmeOn ==
    ASSUME NEW J, NEW h, SatirTipi(J, h), NEW o, ListeYa(J, o, "sil")
    PROVE  SatirTipi(J, [h EXCEPT !.silmeOn = o])
<1>1. o \in Listeler \cup {Yok}
  BY DEF ListeYa, Liste
<1>. QED BY <1>1 DEF SatirTipi, Satirlar

LEMMA SatirGeriOn ==
    ASSUME NEW J, NEW h, SatirTipi(J, h), NEW o, ListeYa(J, o, "geri")
    PROVE  SatirTipi(J, [h EXCEPT !.geriOn = o])
<1>1. o \in Listeler \cup {Yok}
  BY DEF ListeYa, Liste
<1>. QED BY <1>1 DEF SatirTipi, Satirlar

\* A ready list that is used, a list that gets old, and a new one.
Kullan(o) == [o EXCEPT !.kul = TRUE]
Yasla(o) == [o EXCEPT !.taze = FALSE]

LEMMA KullanTipi ==
    ASSUME NEW J, NEW o, NEW t, Liste(J, o, t), o.durum = "ok"
    PROVE  /\ Liste(J, Kullan(o), t) /\ Kullan(o).kul /\ Kullan(o).is = o.is /\ Kullan(o).durum = "ok"
           /\ Kullan(o).taze = o.taze
  BY DEF Kullan, Liste, Listeler

LEMMA YaslaTipi ==
    ASSUME NEW J, NEW o, NEW t, Liste(J, o, t)
    PROVE  /\ Liste(J, Yasla(o), t) /\ Yasla(o).kul = o.kul /\ Yasla(o).is = o.is
           /\ Yasla(o).durum = o.durum
  BY DEF Yasla, Liste, Listeler

LEMMA OnKontrolTipi ==
    ASSUME NEW J, Len(J) \in Nat, NEW t, NEW d \in {"baslar", "kosar", "ok", "failed"}, NEW j,
           d = "baslar" => j = Yok, d # "baslar" => Is(J, j, t, TRUE)
    PROVE  /\ Liste(J, OnKontrol(d, j), t) /\ ~OnKontrol(d, j).kul /\ OnKontrol(d, j).is = j
           /\ OnKontrol(d, j).durum = d /\ OnKontrol(d, j).taze
<1>1. j \in NatYok
  BY DEF Is, IsMi, NatYok
<1>. QED BY <1>1 DEF OnKontrol, Liste, Listeler

\* The same text of a list: the same, but for its age.
LEMMA AyniTipi ==
    ASSUME NEW J, NEW o, NEW p, NEW t, ListeYa(J, o, t), Liste(J, p, t), Ayni(o, p)
    PROVE  Liste(J, o, t) /\ o.durum = p.durum /\ o.is = p.is /\ o.kul = p.kul
  BY DEF ListeYa, Ayni

\* The row with the verdict about job j in it.
LEMMA SatirSonuc ==
    ASSUME SatirTipi(isler, hedef), Len(isler) \in Nat, NEW e, HukumTipi(isler, e), e.durum # "planning"
    PROVE  SatirTipi(isler, SonucYaz(e.durum, e.is))
<1>. DEFINE d == Sonuc(e.durum, e.is)
<1>1. d \in Durumlar /\ (d = "deleted" => Is(isler, e.is, "sil", FALSE) /\ Oldu(e.is))
  BY DEF HukumTipi, Sonuc, Durumlar
<1>2. SonucYaz(e.durum, e.is) =
        IF hedef.durum # e.durum THEN hedef
        ELSE [hedef EXCEPT !.durum = d, !.silindi = @ \/ d = "deleted"]
  BY DEF SonucYaz
<1>. HIDE DEF d
<1>. DEFINE r == [hedef EXCEPT !.durum = d, !.silindi = hedef.silindi \/ d = "deleted"]
<1>3. /\ r \in Satirlar /\ r.durum = d /\ r.izin = hedef.izin /\ r.sonIs = hedef.sonIs
      /\ r.silmeIs = hedef.silmeIs /\ r.geriIs = hedef.geriIs /\ r.silmeOn = hedef.silmeOn
      /\ r.geriOn = hedef.geriOn
  BY <1>1 DEF SatirTipi, Satirlar
<1>4. SonucYaz(e.durum, e.is) \in {hedef, r}
  BY <1>2
<1>. HIDE DEF r
<1>5. r.durum = "deleted" => \E j \in 1 .. Len(isler) : Is(isler, j, "sil", FALSE) /\ isler[j].durum = "ok"
  BY <1>1, <1>3 DEF Oldu, Is, IsMi
<1>6. SatirTipi(isler, r)
  BY <1>3, <1>5 DEF SatirTipi
<1>. QED BY <1>4, <1>6

\* The row with the verdict about the preflight j of a STOP in it: no more than its status and the
\* list of the STOP change.
PlanYazilir(j) == PlanSonucu(j) \/ hedef' = [hedef EXCEPT !.durum = "failed", !.izin = Yok]

LEMMA PlanSonucuAlan ==
    ASSUME NEW j, PlanYazilir(j)
    PROVE  \E d \in {"planned", "failed"}, iz \in {j, Yok} :
              /\ hedef' = [hedef EXCEPT !.durum = d, !.izin = iz]
              /\ d = "planned" => Oldu(j)
<1>1. CASE hedef' = [hedef EXCEPT !.durum = "failed", !.izin = Yok]
  BY <1>1
<1>2. CASE PlanSonucu(j)
  <2>. DEFINE d == IF Oldu(j) THEN "planned" ELSE "failed"
              S == IF Oldu(j) /\ ~Gercek(j) THEN {j, Yok} ELSE {Yok}
  <2>1. /\ d \in {"planned", "failed"} /\ S \subseteq {j, Yok}
        /\ d = "planned" => Oldu(j)
    OBVIOUS
  <2>2. \E iz \in S : hedef' = [hedef EXCEPT !.durum = d, !.izin = iz]
    BY <1>2, Zenon DEF PlanSonucu
  <2>. HIDE DEF d, S
  <2>. QED BY <2>1, <2>2
<1>. QED BY <1>1, <1>2 DEF PlanYazilir

LEMMA SatirPlanSonucu ==
    ASSUME SatirTipi(isler, hedef), NEW j, StopMi(isler, j), PlanYazilir(j)
    PROVE  SatirTipi(isler, hedef')
<1>1. PICK d \in {"planned", "failed"}, iz \in {j, Yok} :
         /\ hedef' = [hedef EXCEPT !.durum = d, !.izin = iz]
         /\ d = "planned" => Oldu(j)
  BY PlanSonucuAlan, Zenon
<1>2. iz \in NatYok /\ (iz # Yok => StopMi(isler, iz)) /\ d \in Durumlar \ {"deleted"}
  BY DEF StopMi, IsMi, NatYok, Durumlar
<1>. QED BY <1>1, <1>2 DEF SatirTipi, Satirlar

-----------------------------------------------------------------------------
LEMMA Acilim ==
    ASSUME TipInv, NEW a \in El
    PROVE  /\ isler \in Seq(Isler) /\ Len(isler) \in Nat /\ SayacInv /\ SatirTipi(isler, hedef)
           /\ hedef \in Satirlar /\ el[a] \in Eller /\ ElTipi(isler, a, el[a]) /\ ElIsi(isler, el[a])
<1>1. isler \in Seq(Isler)
  BY DEF TipInv
<1>2. Len(isler) \in Nat
  BY <1>1
<1>3. SayacInv /\ SatirTipi(isler, hedef) /\ el[a] \in Eller /\ ElTipi(isler, a, el[a]) /\ ElIsi(isler, el[a])
  BY DEF TipInv
<1>. QED BY <1>1, <1>2, <1>3 DEF SatirTipi

\* A handler that writes the row and ends, and nothing else.
LEMMA TipYazBitir ==
    ASSUME TipInv, NEW a \in El, Bitir(a), UNCHANGED satirDisi, SatirTipi(isler, hedef')
    PROVE  TipInv'
  BY Kalanlar, SayacKalir, TipBitir DEF TipInv

\* A handler that writes the row and goes on.
LEMMA TipYazGec ==
    ASSUME TipInv, NEW a \in El, NEW yer, Gecis(el[a].yer, yer), el' = [el EXCEPT ![a].yer = yer],
           isler' = isler, kayip' = kayip, uygulama' = uygulama, SayacInv', SatirTipi(isler, hedef')
    PROVE  TipInv'
<1>1. el \in [El -> Eller] /\ el[a] \in Eller /\ ElTipi(isler, a, el[a])
  BY Acilim DEF TipInv
<1>2. yer \in SekmeYerleri \cup ZamYerleri
  BY DEF Gecis, SekmeYerleri, ZamYerleri, Geride, Stopta, Silmede, Planda
<1>. DEFINE e == Donus(el[a], yer)
<1>3. ElTipi(isler, a, e) /\ e.yer = yer /\ yer \notin Yazan /\ e = [el[a] EXCEPT !.yer = yer]
  BY <1>1, <1>2, DonusTipi, DonusAlan
<1>4. el' = [el EXCEPT ![a] = e]
  BY <1>1, <1>3
<1>. HIDE DEF e
<1>5. ElIsi(isler, e)
  BY <1>3 DEF ElIsi
<1>. QED BY <1>3, <1>4, <1>5, TipAdim

\* A handler that writes the row and ends, with an unconditional UPDATE or a verdict.
LEMMA TipEzerBitir ==
    ASSUME TipInv, NEW a \in El, Bitir(a), SatirTipi(isler, hedef'),
           kayit' \in {"acik", "deleted", "cancelled"},
           UNCHANGED <<disari, isler, ariza, kayip, kanit>>, ezilen' \in BOOLEAN, eskiHukum' \in BOOLEAN
    PROVE  TipInv'
<1>1. /\ isler' = isler /\ kayip' = kayip /\ uygulama' = uygulama /\ kanit' = kanit
      /\ pencere' = pencere /\ gun' = gun /\ iptal' = iptal /\ ariza' = ariza /\ basma' = basma
  BY DEF disari, ortam
<1>2. SayacInv
  BY DEF TipInv
<1>3. SayacInv'
  BY <1>1, <1>2, SayacAdim DEF SayacInv
<1>. QED BY <1>1, <1>3, TipBitir

LEMMA EzerHukumTipi ==
    ASSUME TipInv
    PROVE  /\ \A a : Ezer(a) => ezilen' \in BOOLEAN
           /\ \A d, j : Hukum(d, j) => eskiHukum' \in BOOLEAN
           /\ eskiHukum \in BOOLEAN /\ ezilen \in BOOLEAN /\ kayit \in {"acik", "deleted", "cancelled"}
<1>1. ezilen \in BOOLEAN /\ eskiHukum \in BOOLEAN /\ kayit \in {"acik", "deleted", "cancelled"}
  BY DEF TipInv, SayacInv
<1>. QED BY <1>1, Zenon DEF Ezer, Hukum

\* A handler that launches a job of the kind of its place: a preflight has no list, a way back and a
\* deletion have the one that the handler has read.
Baslatir(a, tur, plan, liste, yaz, red) ==
    /\ Baslat(a, tur, plan, liste, yaz, red)
    /\ tur = YerTuru(yaz) /\ plan = (yaz \in PlanYazan)
    /\ liste = Yok \/ (IsMi(isler, liste) /\ isler[liste].tur = tur)
    /\ plan => liste = Yok
    /\ ~plan /\ tur # "stop" => liste # Yok
    /\ yaz \in {"gYaz", "sYaz"} => liste = el[a].gor.is
    /\ IsleGecis(el[a].yer, yaz)
    /\ red # "bos" => Gecis(el[a].yer, red)

LEMMA SekmeBaslatir ==
    ASSUME TipInv, NEW s \in Sekme,
           \/ OnKontrolBaslat(s) \/ OnayBaslat(s) \/ GeriOnBaslat(s) \/ GeriBaslat(s) \/ SilmeOnBaslat(s)
    PROVE  \E tur, plan, liste, yaz, red : Baslatir(s, tur, plan, liste, yaz, red)
<1>1. s \in El /\ ElTipi(isler, s, el[s])
  BY SekmeZam, Acilim
<1>2. CASE OnKontrolBaslat(s)
  <2>1. Baslat(s, "stop", TRUE, Yok, "kYaz", "bos") /\ IsleGecis(el[s].yer, "kYaz")
    BY <1>2 DEF OnKontrolBaslat, Yerinde, IsleGecis
  <2>2. "stop" = YerTuru("kYaz") /\ TRUE = ("kYaz" \in PlanYazan)
    BY DEF YerTuru, PlanYazan
  <2>. QED BY <1>1, <2>1, <2>2, Zenon DEF Baslatir
<1>3. CASE OnayBaslat(s)
  <2>1. Baslat(s, "stop", FALSE, el[s].gor.is, "oYaz", "bos") /\ IsleGecis(el[s].yer, "oYaz")
    BY <1>3 DEF OnayBaslat, Yerinde, IsleGecis
  <2>2. "stop" = YerTuru("oYaz") /\ FALSE = ("oYaz" \in PlanYazan)
    BY DEF YerTuru, PlanYazan
  <2>3. el[s].gor.is = Yok \/ (IsMi(isler, el[s].gor.is) /\ isler[el[s].gor.is].tur = "stop")
    BY <1>1, <1>3 DEF OnayBaslat, Yerinde, ElTipi, StopMi
  <2>. QED BY <1>1, <2>1, <2>2, <2>3, Zenon DEF Baslatir
<1>4. CASE GeriOnBaslat(s)
  <2>1. Baslat(s, "geri", TRUE, Yok, "gpYaz", "bos") /\ IsleGecis(el[s].yer, "gpYaz")
    BY <1>4 DEF GeriOnBaslat, Yerinde, IsleGecis
  <2>2. "geri" = YerTuru("gpYaz") /\ TRUE = ("gpYaz" \in PlanYazan)
    BY DEF YerTuru, PlanYazan
  <2>. QED BY <1>1, <2>1, <2>2, Zenon DEF Baslatir
<1>5. CASE GeriBaslat(s)
  <2>1. Baslat(s, "geri", FALSE, el[s].gor.is, "gYaz", "gGeri") /\ IsleGecis(el[s].yer, "gYaz")
        /\ Gecis(el[s].yer, "gGeri")
    BY <1>5 DEF GeriBaslat, Yerinde, IsleGecis, Gecis
  <2>2. "geri" = YerTuru("gYaz") /\ FALSE = ("gYaz" \in PlanYazan)
    BY DEF YerTuru, PlanYazan
  <2>3. el[s].gor.is # Yok /\ IsMi(isler, el[s].gor.is) /\ isler[el[s].gor.is].tur = "geri"
    BY <1>1, <1>5, Acilim, SekmeZam DEF GeriBaslat, Yerinde, ElTipi, Geride, Liste, Is, IsMi, Taze
  <2>. QED BY <1>1, <2>1, <2>2, <2>3, Zenon DEF Baslatir
<1>6. CASE SilmeOnBaslat(s)
  <2>1. Baslat(s, "sil", TRUE, Yok, "spYaz", "bos") /\ IsleGecis(el[s].yer, "spYaz")
    BY <1>6 DEF SilmeOnBaslat, Yerinde, IsleGecis
  <2>2. "sil" = YerTuru("spYaz") /\ TRUE = ("spYaz" \in PlanYazan)
    BY DEF YerTuru, PlanYazan
  <2>. QED BY <1>1, <2>1, <2>2, Zenon DEF Baslatir
<1>. QED BY <1>2, <1>3, <1>4, <1>5, <1>6

LEMMA ZamBaslatir ==
    ASSUME TipInv, StopBaslat \/ PlanBaslat \/ SilmeBaslat
    PROVE  \E tur, plan, liste, yaz, red : Baslatir(Zam, tur, plan, liste, yaz, red)
<1>1. Zam \in El /\ ElTipi(isler, Zam, el[Zam])
  BY SekmeZam, Acilim
<1>2. CASE StopBaslat
  <2>1. Baslat(Zam, "stop", FALSE, el[Zam].gor, "dYaz", "dGeri") /\ IsleGecis(el[Zam].yer, "dYaz")
        /\ Gecis(el[Zam].yer, "dGeri")
    BY <1>2 DEF StopBaslat, Yerinde, IsleGecis, Gecis
  <2>2. "stop" = YerTuru("dYaz") /\ FALSE = ("dYaz" \in PlanYazan)
    BY DEF YerTuru, PlanYazan
  <2>3. el[Zam].gor = Yok \/ (IsMi(isler, el[Zam].gor) /\ isler[el[Zam].gor].tur = "stop")
    BY <1>1, <1>2 DEF StopBaslat, Yerinde, ElTipi, StopMi
  <2>. QED BY <1>1, <2>1, <2>2, <2>3, Zenon DEF Baslatir
<1>3. CASE PlanBaslat
  <2>1. Baslat(Zam, "sil", TRUE, Yok, "pYaz", "pGeri") /\ IsleGecis(el[Zam].yer, "pYaz")
        /\ Gecis(el[Zam].yer, "pGeri")
    BY <1>3 DEF PlanBaslat, Yerinde, IsleGecis, Gecis
  <2>2. "sil" = YerTuru("pYaz") /\ TRUE = ("pYaz" \in PlanYazan)
    BY DEF YerTuru, PlanYazan
  <2>. QED BY <1>1, <2>1, <2>2, Zenon DEF Baslatir
<1>4. CASE SilmeBaslat
  <2>1. Baslat(Zam, "sil", FALSE, el[Zam].gor.is, "sYaz", "sGeri") /\ IsleGecis(el[Zam].yer, "sYaz")
        /\ Gecis(el[Zam].yer, "sGeri")
    BY <1>4 DEF SilmeBaslat, Yerinde, IsleGecis, Gecis
  <2>2. "sil" = YerTuru("sYaz") /\ FALSE = ("sYaz" \in PlanYazan)
    BY DEF YerTuru, PlanYazan
  <2>3. el[Zam].gor.is # Yok /\ IsMi(isler, el[Zam].gor.is) /\ isler[el[Zam].gor.is].tur = "sil"
    BY <1>1, <1>4, Acilim, SekmeZam DEF SilmeBaslat, Yerinde, ElTipi, Silmede, Liste, Is, IsMi, Taze
  <2>. QED BY <1>1, <2>1, <2>2, <2>3, Zenon DEF Baslatir
<1>. QED BY <1>2, <1>3, <1>4

LEMMA TipSekmeBaslar ==
    ASSUME TipInv, NEW s \in Sekme,
           \/ OnKontrolBaslat(s) \/ OnayBaslat(s) \/ GeriOnBaslat(s) \/ GeriBaslat(s) \/ SilmeOnBaslat(s)
    PROVE  TipInv'
<1>1. PICK tur, plan, liste, yaz, red : Baslatir(s, tur, plan, liste, yaz, red)
  BY SekmeBaslatir
<1>. QED BY <1>1, SekmeZam, TipBaslatYer DEF Baslatir

LEMMA TipZamBaslar == ASSUME TipInv, StopBaslat \/ PlanBaslat \/ SilmeBaslat PROVE TipInv'
<1>1. PICK tur, plan, liste, yaz, red : Baslatir(Zam, tur, plan, liste, yaz, red)
  BY ZamBaslatir
<1>. QED BY <1>1, SekmeZam, TipBaslatYer DEF Baslatir

\* The UPDATEs of the requests.
LEMMA TipSekmeYazar ==
    ASSUME TipInv, NEW s \in Sekme,
           \/ OnKontrolYaz(s) \/ Zamanla(s) \/ OnayYaz(s) \/ GeriOnYaz(s) \/ GeriClaim(s)
           \/ GeriGeri(s) \/ GeriYaz(s) \/ SilmeOnYaz(s)
    PROVE  TipInv'
<1>. DEFINE e == el[s]
<1>1. s \in El
  BY SekmeZam
<1>2. /\ Len(isler) \in Nat /\ SayacInv /\ SatirTipi(isler, hedef) /\ hedef \in Satirlar
      /\ e \in Eller /\ ElTipi(isler, s, e)
  BY <1>1, Acilim
<1>. HIDE DEF e
<1>3. CASE OnKontrolYaz(s)
  <2>1. e.yer = "kYaz" /\ hedef' = [hedef EXCEPT !.durum = "planning", !.sonIs = e.is, !.izin = Yok]
    BY <1>3 DEF OnKontrolYaz, Yerinde, e
  <2>2. StopMi(isler, e.is)
    BY <1>2, <2>1 DEF ElTipi, Yazan, Is, YerTuru, StopMi
  <2>3. e.is \in NatYok
    BY <1>2, <2>2 DEF StopMi, IsMi, NatYok
  <2>4. SatirTipi(isler, hedef')
    BY <1>2, <2>1, <2>2, <2>3 DEF SatirTipi, Satirlar, Durumlar, NatYok
  <2>. QED BY <1>1, <1>3, <2>4, EzerHukumTipi, TipEzerBitir DEF OnKontrolYaz
<1>4. CASE Zamanla(s)
  <2>1. hedef' = [hedef EXCEPT !.durum = "stop_scheduled"]
    BY <1>4 DEF Zamanla
  <2>2. SatirTipi(isler, hedef')
    BY <1>2, <2>1, SatirDurum DEF Durumlar
  <2>. QED BY <1>1, <1>4, <2>2, EzerHukumTipi, TipEzerBitir DEF Zamanla
<1>5. CASE OnayYaz(s)
  <2>1. e.yer = "oYaz" /\ hedef' = [hedef EXCEPT !.durum = "stopping", !.sonIs = e.is]
    BY <1>5 DEF OnayYaz, Yerinde, e
  <2>2. StopMi(isler, e.is)
    BY <1>2, <2>1 DEF ElTipi, Yazan, Is, YerTuru, StopMi
  <2>3. e.is \in NatYok
    BY <1>2, <2>2 DEF StopMi, IsMi, NatYok
  <2>4. SatirTipi(isler, hedef')
    BY <1>2, <2>1, <2>2, <2>3 DEF SatirTipi, Satirlar, Durumlar
  <2>5. kayit' \in {"acik", "deleted", "cancelled"}
    BY <1>5, EzerHukumTipi, Zenon DEF OnayYaz
  <2>. QED BY <1>1, <1>5, <2>4, <2>5, EzerHukumTipi, TipEzerBitir DEF OnayYaz
<1>6. CASE GeriOnYaz(s)
  <2>. DEFINE o == OnKontrol("kosar", e.is)
  <2>1. e.yer = "gpYaz" /\ hedef' \in {[hedef EXCEPT !.geriOn = o], hedef}
    BY <1>6 DEF GeriOnYaz, Yerinde, e
  <2>2. Is(isler, e.is, "geri", TRUE)
    BY <1>2, <2>1 DEF ElTipi, Yazan, PlanYazan, YerTuru
  <2>3. ListeYa(isler, o, "geri")
    BY <1>2, <2>2, OnKontrolTipi DEF ListeYa
  <2>. HIDE DEF o
  <2>4. SatirTipi(isler, hedef')
    BY <1>2, <2>1, <2>3, SatirGeriOn
  <2>. QED BY <1>1, <1>6, <2>4, TipYazBitir DEF GeriOnYaz
<1>7. CASE GeriClaim(s)
  <2>1. e.yer = "gClaim" /\ UNCHANGED satirDisi
    BY <1>7 DEF GeriClaim, Yerinde, e
  <2>2. CASE hedef' = hedef /\ Bitir(s)
    BY <1>1, <1>2, <2>1, <2>2, TipYazBitir
  <2>3. CASE /\ Ayni(hedef.geriOn, e.gor) /\ el' = [el EXCEPT ![s].yer = "gBaslat"]
             /\ hedef' = [hedef EXCEPT !.durum = "rolling_back", !.geriIs = Yok, !.geriOn = Kullan(hedef.geriOn)]
    <3>1. Liste(isler, e.gor, "geri") /\ e.gor.durum = "ok"
      BY <1>2, <2>1 DEF ElTipi, Taze
    <3>2. Liste(isler, hedef.geriOn, "geri") /\ hedef.geriOn.durum = "ok"
      BY <1>2, <2>3, <3>1, AyniTipi DEF SatirTipi
    <3>. DEFINE o == Kullan(hedef.geriOn)
    <3>3. Liste(isler, o, "geri") /\ o \in Listeler
      BY <3>2, KullanTipi DEF Liste
    <3>. HIDE DEF o
    <3>4. hedef' = [hedef EXCEPT !.durum = "rolling_back", !.geriIs = Yok, !.geriOn = o]
      BY <2>3 DEF o
    <3>5. SatirTipi(isler, hedef')
      BY <1>2, <3>3, <3>4 DEF SatirTipi, Satirlar, Durumlar, NatYok, ListeYa
    <3>6. Gecis(el[s].yer, "gBaslat")
      BY <2>1 DEF Gecis, e
    <3>. QED BY <1>1, <1>2, <2>1, <2>3, <3>5, <3>6, Kalanlar, SayacKalir, TipYazGec
  <2>. QED BY <1>7, <2>2, <2>3 DEF GeriClaim, Kullan, e
<1>8. CASE GeriGeri(s)
  <2>1. e.yer = "gGeri" /\ hedef' \in {[hedef EXCEPT !.durum = e.durum, !.geriOn = e.gor], hedef}
    BY <1>8 DEF GeriGeri, Yerinde, e
  <2>2. Liste(isler, e.gor, "geri") /\ e.durum \in GeriDurumlari
    BY <1>2, <2>1 DEF ElTipi, Geride
  <2>3. e.gor \in Listeler /\ e.durum \in Durumlar \ {"deleted"} /\ ListeYa(isler, e.gor, "geri")
    BY <2>2 DEF GeriDurumlari, Durumlar, ListeYa, Liste
  <2>4. SatirTipi(isler, hedef')
    BY <1>2, <2>1, <2>3 DEF SatirTipi, Satirlar
  <2>. QED BY <1>1, <1>8, <2>4, TipYazBitir DEF GeriGeri
<1>9. CASE GeriYaz(s)
  <2>. DEFINE o == Kullan(e.gor)
  <2>1. e.yer = "gYaz" /\ hedef' \in {[hedef EXCEPT !.geriIs = e.is, !.geriOn = o], hedef}
    BY <1>9 DEF GeriYaz, Yerinde, e, Kullan
  <2>1a. Is(isler, e.is, "geri", FALSE)
    <3>1. Is(isler, e.is, YerTuru(e.yer), e.yer \in PlanYazan)
      BY <1>2, <2>1 DEF ElTipi, Yazan
    <3>2. YerTuru(e.yer) = "geri" /\ (e.yer \in PlanYazan) = FALSE
      BY <2>1 DEF YerTuru, PlanYazan
    <3>. QED BY <3>1, <3>2
  <2>2. Liste(isler, e.gor, "geri") /\ e.gor.durum = "ok" /\ Is(isler, e.is, "geri", FALSE)
    BY <1>2, <2>1, <2>1a DEF ElTipi, Geride, Taze
  <2>3. Liste(isler, o, "geri")
    BY <2>2, KullanTipi
  <2>4. e.is \in NatYok /\ o \in Listeler /\ ListeYa(isler, o, "geri")
    BY <1>2, <2>2, <2>3 DEF Is, IsMi, NatYok, ListeYa, Liste
  <2>. HIDE DEF o
  <2>5. SatirTipi(isler, hedef')
    BY <1>2, <2>1, <2>2, <2>4 DEF SatirTipi, Satirlar
  <2>. QED BY <1>1, <1>9, <2>5, TipYazBitir DEF GeriYaz
<1>10. CASE SilmeOnYaz(s)
  <2>. DEFINE o == OnKontrol("kosar", e.is)
  <2>1. e.yer = "spYaz" /\ hedef' \in {[hedef EXCEPT !.silmeOn = o], hedef}
    BY <1>10 DEF SilmeOnYaz, Yerinde, e
  <2>2. Is(isler, e.is, "sil", TRUE)
    BY <1>2, <2>1 DEF ElTipi, Yazan, PlanYazan, YerTuru
  <2>3. ListeYa(isler, o, "sil")
    BY <1>2, <2>2, OnKontrolTipi DEF ListeYa
  <2>. HIDE DEF o
  <2>4. SatirTipi(isler, hedef')
    BY <1>2, <2>1, <2>3, SatirSilmeOn
  <2>. QED BY <1>1, <1>10, <2>4, TipYazBitir DEF SilmeOnYaz
<1>. QED BY <1>3, <1>4, <1>5, <1>6, <1>7, <1>8, <1>9, <1>10

\* The verdicts and results that are written into the row.
LEMMA OnSonucTipi ==
    ASSUME TipInv, NEW a \in El, NEW yer \in {"jOn", "onYaz"}, OnSonuc(a, yer)
    PROVE  TipInv'
<1>. DEFINE e == el[a]
            o == OnKontrol(IF Oldu(e.is) THEN "ok" ELSE "failed", e.is)
<1>1. Len(isler) \in Nat /\ SatirTipi(isler, hedef) /\ ElTipi(isler, a, e)
  BY Acilim
<1>2. /\ e.yer = yer /\ Bitir(a) /\ UNCHANGED satirDisi
      /\ hedef' \in {[hedef EXCEPT ![e.durum] = o], hedef}
  BY DEF OnSonuc, Yerinde
<1>. HIDE DEF e
<1>3. /\ \/ e.durum = "silmeOn" /\ Liste(isler, e.gor, "sil")
         \/ e.durum = "geriOn" /\ Liste(isler, e.gor, "geri")
      /\ e.gor.durum = "kosar" /\ e.gor.is = e.is
  BY <1>1, <1>2 DEF ElTipi
<1>4. ASSUME NEW t, Is(isler, e.is, t, TRUE) PROVE ListeYa(isler, o, t)
  <2>. DEFINE d == IF Oldu(e.is) THEN "ok" ELSE "failed"
  <2>1. d \in {"baslar", "kosar", "ok", "failed"} /\ d # "baslar"
    OBVIOUS
  <2>. HIDE DEF d
  <2>2. Liste(isler, OnKontrol(d, e.is), t)
    BY <1>1, <1>4, <2>1, OnKontrolTipi
  <2>. QED BY <2>2 DEF ListeYa, d
<1>. HIDE DEF o
<1>5. CASE e.durum = "silmeOn"
  <2>1. ListeYa(isler, o, "sil") /\ hedef' \in {[hedef EXCEPT !.silmeOn = o], hedef}
    BY <1>2, <1>3, <1>4, <1>5 DEF Liste
  <2>2. SatirTipi(isler, hedef')
    BY <1>1, <2>1, SatirSilmeOn
  <2>. QED BY <1>2, <2>2, TipYazBitir
<1>6. CASE e.durum = "geriOn"
  <2>1. ListeYa(isler, o, "geri") /\ hedef' \in {[hedef EXCEPT !.geriOn = o], hedef}
    BY <1>2, <1>3, <1>4, <1>6 DEF Liste
  <2>2. SatirTipi(isler, hedef')
    BY <1>1, <2>1, SatirGeriOn
  <2>. QED BY <1>2, <2>2, TipYazBitir
<1>. QED BY <1>3, <1>5, <1>6

LEMMA TipSekmeHukum ==
    ASSUME TipInv, NEW s \in Sekme, IsDurumuYaz(s) \/ OnDurumuYaz(s) \/ TazeleYaz(s)
    PROVE  TipInv'
<1>. DEFINE e == el[s]
<1>1. s \in El
  BY SekmeZam
<1>2. Len(isler) \in Nat /\ SatirTipi(isler, hedef) /\ hedef \in Satirlar /\ ElTipi(isler, s, e)
  BY <1>1, Acilim
<1>. HIDE DEF e
<1>3. CASE IsDurumuYaz(s)
  <2>1. /\ e.yer = "jYaz"
        /\ Ezer(s) /\ Hukum(e.durum, e.is) /\ Bitir(s) /\ kayit' \in {kayit, "acik"}
        /\ UNCHANGED <<disari, isler, ariza, kayip, kanit>>
    BY <1>3 DEF IsDurumuYaz, Yerinde, e
  <2>2. StopMi(isler, e.is)
    BY <1>2, <2>1 DEF ElTipi, HukumTipi, Hukumde, StopMi
  <2>3. \/ PlanYazilir(e.is)
        \/ \E d \in {"stopped", "failed"} : hedef' = [hedef EXCEPT !.durum = d]
    BY <1>3 DEF IsDurumuYaz, PlanYazilir, e
  <2>4. SatirTipi(isler, hedef')
    <3>1. CASE PlanYazilir(e.is)
      BY <1>2, <2>2, <3>1, SatirPlanSonucu
    <3>2. CASE \E d \in {"stopped", "failed"} : hedef' = [hedef EXCEPT !.durum = d]
      <4>1. PICK d \in {"stopped", "failed"} : hedef' = [hedef EXCEPT !.durum = d]
        BY <3>2
      <4>2. d \in Durumlar \ {"deleted"}
        BY DEF Durumlar
      <4>. QED BY <1>2, <4>1, <4>2, SatirDurum
    <3>. QED BY <2>3, <3>1, <3>2
  <2>5. kayit' \in {"acik", "deleted", "cancelled"} /\ ezilen' \in BOOLEAN /\ eskiHukum' \in BOOLEAN
    BY <2>1, EzerHukumTipi
  <2>. QED BY <1>1, <2>1, <2>4, <2>5, TipEzerBitir
<1>4. CASE OnDurumuYaz(s)
  BY <1>1, <1>4, OnSonucTipi DEF OnDurumuYaz
<1>5. CASE TazeleYaz(s)
  <2>1. /\ e.yer = "tYaz" /\ Hukum(e.durum, e.is) /\ Bitir(s)
        /\ kayit' = kayit /\ ezilen' = ezilen /\ UNCHANGED <<disari, isler, ariza, kayip, kanit>>
    BY <1>5 DEF TazeleYaz, Yerinde, e
  <2>2. HukumTipi(isler, e)
    BY <1>2, <2>1 DEF ElTipi, Hukumde
  <2>3. SatirTipi(isler, hedef')
    <3>1. CASE e.durum = "planning" /\ hedef.durum = e.durum
      <4>1. PlanYazilir(e.is)
        BY <1>5, <3>1 DEF TazeleYaz, PlanYazilir, e
      <4>2. StopMi(isler, e.is)
        BY <2>2, <3>1 DEF HukumTipi, StopMi
      <4>. QED BY <1>2, <4>1, <4>2, SatirPlanSonucu
    <3>2. CASE ~(e.durum = "planning" /\ hedef.durum = e.durum)
      <4>1. hedef' = SonucYaz(e.durum, e.is)
        BY <1>5, <3>2 DEF TazeleYaz, e
      <4>2. CASE e.durum = "planning"
        BY <1>2, <3>2, <4>1, <4>2 DEF SonucYaz
      <4>. QED BY <1>2, <2>2, <4>1, <4>2, SatirSonuc
    <3>. QED BY <3>1, <3>2
  <2>. QED BY <1>1, <2>1, <2>3, EzerHukumTipi, TipEzerBitir
<1>. QED BY <1>3, <1>4, <1>5

\* The number of the job that the status waits for, if there is one.
LEMMA TazeleNoTipi ==
    ASSUME TipInv, NEW s \in Sekme, TazeleNo(s)
    PROVE  /\ el[s].yer = "tNo" /\ UNCHANGED <<hedef, satirDisi>>
           /\ \/ Bitir(s)
              \/ \E f : /\ el' = [el EXCEPT ![s] = f] /\ f \in Eller /\ f.yer = "tSor"
                        /\ f.durum = el[s].durum /\ ElTipi(isler, s, f) /\ ElIsi(isler, f)
<1>. DEFINE e == el[s]
            j == Alan(e.durum)
            f == [e EXCEPT !.yer = "tSor", !.is = j]
<1>1. s \in El /\ s # Zam
  BY SekmeZam
<1>2. /\ SatirTipi(isler, hedef) /\ el \in [El -> Eller] /\ e \in Eller /\ ElTipi(isler, s, e)
  BY <1>1, Acilim DEF TipInv
<1>3. e.yer = "tNo" /\ UNCHANGED <<hedef, satirDisi>>
  BY DEF TazeleNo, Yerinde
<1>4. CASE j = Yok
  BY <1>3, <1>4 DEF TazeleNo
<1>5. CASE j # Yok
  <2>1. el' = [el EXCEPT ![s] = f]
    BY <1>2, <1>5 DEF TazeleNo
  <2>2. e.durum \in {"planning", "stopping", "deleting", "rolling_back"}
    BY <1>2, <1>3 DEF ElTipi
  <2>3. /\ IsMi(isler, j)
        /\ \/ e.durum \in {"planning", "stopping"} /\ isler[j].tur = "stop"
           \/ e.durum = "deleting" /\ Is(isler, j, "sil", FALSE)
           \/ e.durum = "rolling_back" /\ Is(isler, j, "geri", FALSE)
    BY <1>2, <1>5, <2>2 DEF Alan, SatirTipi, StopMi, Is
  <2>4. j \in NatYok /\ "tSor" \in SekmeYerleri
    BY <2>3 DEF IsMi, NatYok, SekmeYerleri
  <2>5. f \in Eller /\ f.yer = "tSor" /\ f.durum = e.durum /\ f.is = j
    BY <1>2, <2>4 DEF Eller
  <2>. HIDE DEF f, j, e
  <2>6. HukumTipi(isler, f)
    BY <2>3, <2>5 DEF HukumTipi, Hukumde
  <2>7. ElTipi(isler, s, f) /\ ElIsi(isler, f)
    BY <1>1, <2>3, <2>4, <2>5, <2>6 DEF ElTipi, ElIsi, Geride, Silmede, Planda, Yazan, Hukumde
  <2>. QED BY <1>3, <2>1, <2>5, <2>7 DEF e
<1>. QED BY <1>4, <1>5

\* What AWX says of that job: the handler goes on with the verdict, or ends.
LEMMA SorTipi ==
    ASSUME TipInv, NEW a \in El, NEW yer, NEW yaz, Sor(a, yer, yaz),
           \/ a # Zam /\ yer = "tSor" /\ yaz = "tYaz"
           \/ a = Zam /\ yer = "fSor" /\ yaz = "fYaz"
    PROVE  /\ el[a].yer = yer /\ UNCHANGED <<hedef, satirDisi>>
           /\ \/ Bitir(a)
              \/ \E f : /\ el' = [el EXCEPT ![a] = f] /\ f \in Eller /\ f.yer = yaz
                        /\ f.durum = el[a].durum /\ ElTipi(isler, a, f) /\ ElIsi(isler, f)
<1>. DEFINE e == el[a]
            f == Donus(e, yaz)
<1>1. el \in [El -> Eller] /\ e \in Eller /\ ElTipi(isler, a, e)
  BY Acilim DEF TipInv
<1>2. e.yer = yer /\ UNCHANGED <<hedef, satirDisi>>
  BY DEF Sor, Yerinde
<1>3. CASE ~Biter(e.is)
  BY <1>2, <1>3 DEF Sor
<1>4. CASE Biter(e.is)
  <2>1. yaz \in SekmeYerleri \cup ZamYerleri
    BY DEF SekmeYerleri, ZamYerleri
  <2>2. /\ f \in Eller /\ f.yer = yaz /\ f.durum = e.durum /\ f.is = e.is /\ f.gor = e.gor
        /\ f = [e EXCEPT !.yer = yaz]
    BY <1>1, <2>1, DonusAlan
  <2>3. el' = [el EXCEPT ![a] = f]
    BY <1>1, <1>4, <2>2 DEF Sor
  <2>4. HukumTipi(isler, e)
    BY <1>1, <1>2 DEF ElTipi, Soran
  <2>. HIDE DEF f, e
  <2>5. HukumTipi(isler, f)
    <3>1. yaz # "jYaz" /\ (yaz = "fYaz" => e.yer = "fSor") /\ yaz # "fSor"
      BY <1>2
    <3>2. Bitti(isler, e.is)
      BY <1>4 DEF Biter, Bitti
    <3>3. IsMi(isler, e.is) /\ (e.durum = "planning" => e.yer # "fSor")
      BY <2>4 DEF HukumTipi
    <3>4. \/ e.durum \in {"planning", "stopping"} /\ isler[e.is].tur = "stop"
          \/ e.durum = "deleting" /\ Is(isler, e.is, "sil", FALSE)
          \/ e.durum = "rolling_back" /\ Is(isler, e.is, "geri", FALSE)
      BY <2>4 DEF HukumTipi
    <3>. QED BY <2>2, <3>1, <3>2, <3>3, <3>4 DEF HukumTipi
  <2>6. /\ a = Zam => f.yer \in {"bos"} \cup ZamYerleri
        /\ a # Zam => f.yer \in {"bos"} \cup SekmeYerleri
        /\ f.is # Yok => IsMi(isler, f.is)
    BY <2>2, <2>4 DEF SekmeYerleri, ZamYerleri, HukumTipi
  <2>7. ElTipi(isler, a, f) /\ ElIsi(isler, f)
    BY <2>2, <2>5, <2>6 DEF ElTipi, ElIsi, Geride, Silmede, Planda, Yazan, Hukumde
  <2>. QED BY <1>2, <2>2, <2>3, <2>7 DEF e
<1>. QED BY <1>3, <1>4

\* The steps that read and write nothing.
Sorar == FinalizeSor \/ \E s \in Sekme : TazeleNo(s) \/ TazeleSor(s)

LEMMA SorarSonucu ==
    ASSUME TipInv, Sorar
    PROVE  /\ UNCHANGED <<hedef, satirDisi>>
           /\ \E a \in El :
                 /\ el[a].yer \in {"tNo", "tSor", "fSor"}
                 /\ \/ Bitir(a)
                    \/ \E f : /\ el' = [el EXCEPT ![a] = f] /\ f \in Eller
                              /\ f.yer \in {"tSor", "tYaz", "fYaz"}
                              /\ ElTipi(isler, a, f) /\ ElIsi(isler, f)
<1>1. Zam \in El /\ \A s \in Sekme : s \in El /\ s # Zam
  BY SekmeZam
<1>2. CASE FinalizeSor
  <2>1. Sor(Zam, "fSor", "fYaz")
    BY <1>2 DEF FinalizeSor
  <2>. QED BY <1>1, <2>1, SorTipi
<1>3. ASSUME NEW s \in Sekme, TazeleNo(s)
      PROVE  /\ UNCHANGED <<hedef, satirDisi>> /\ el[s].yer = "tNo"
             /\ \/ Bitir(s)
                \/ \E f : /\ el' = [el EXCEPT ![s] = f] /\ f \in Eller /\ f.yer = "tSor"
                          /\ ElTipi(isler, s, f) /\ ElIsi(isler, f)
  BY <1>3, TazeleNoTipi
<1>4. ASSUME NEW s \in Sekme, TazeleSor(s)
      PROVE  /\ UNCHANGED <<hedef, satirDisi>> /\ el[s].yer = "tSor"
             /\ \/ Bitir(s)
                \/ \E f : /\ el' = [el EXCEPT ![s] = f] /\ f \in Eller /\ f.yer = "tYaz"
                          /\ ElTipi(isler, s, f) /\ ElIsi(isler, f)
  <2>1. Sor(s, "tSor", "tYaz")
    BY <1>4 DEF TazeleSor
  <2>. QED BY <1>1, <2>1, SorTipi
<1>. QED BY <1>1, <1>2, <1>3, <1>4 DEF Sorar

LEMMA TipSorar == ASSUME TipInv, Sorar PROVE TipInv'
<1>1. SayacInv /\ SatirTipi(isler, hedef)
  BY DEF TipInv
<1>2. UNCHANGED <<hedef, satirDisi>>
  BY SorarSonucu
<1>3. SayacInv' /\ SatirTipi(isler, hedef') /\ isler' = isler /\ kayip' = kayip /\ uygulama' = uygulama
  BY <1>1, <1>2, Kalanlar, SayacKalir
<1>. QED BY <1>3, SorarSonucu, TipAdim, TipBitir

\* The UPDATEs of the poller.
LEMMA TipZamYazar ==
    ASSUME TipInv,
           \/ StopDus \/ StopClaim \/ StopGeri \/ StopYaz \/ PlanClaim \/ PlanGeri \/ PlanYaz
           \/ SilmeClaim \/ SilmeGeri \/ SilmeYaz \/ OnKontrolTickYaz \/ FinalizeYaz \/ FinalizeKayit
    PROVE  TipInv'
<1>. DEFINE e == el[Zam]
<1>1. Zam \in El
  BY SekmeZam
<1>2. /\ Len(isler) \in Nat /\ SayacInv /\ SatirTipi(isler, hedef) /\ hedef \in Satirlar
      /\ e \in Eller /\ ElTipi(isler, Zam, e)
  BY <1>1, Acilim
<1>. HIDE DEF e
<1>3. ASSUME Bitir(Zam), UNCHANGED satirDisi, hedef' = hedef
      PROVE  TipInv'
  BY <1>1, <1>2, <1>3, TipYazBitir
<1>4. ASSUME NEW d \in Durumlar \ {"deleted"}, hedef' = [hedef EXCEPT !.durum = d]
      PROVE  SatirTipi(isler, hedef')
  BY <1>2, <1>4, SatirDurum
<1>5. CASE StopDus
  <2>1. Bitir(Zam) /\ UNCHANGED satirDisi /\ hedef' \in {[hedef EXCEPT !.durum = "failed"], hedef}
    BY <1>5 DEF StopDus
  <2>2. SatirTipi(isler, hedef')
    BY <1>2, <1>4, <2>1 DEF Durumlar
  <2>. QED BY <1>1, <2>1, <2>2, TipYazBitir
<1>6. CASE StopClaim
  <2>1. CASE hedef' = [hedef EXCEPT !.durum = "stopping"] /\ el' = [el EXCEPT ![Zam].yer = "dBaslat"]
    <3>1. SatirTipi(isler, hedef') /\ Gecis(el[Zam].yer, "dBaslat") /\ UNCHANGED satirDisi
      BY <1>4, <1>6, <2>1 DEF Durumlar, Gecis, StopClaim, Yerinde
    <3>. QED BY <1>1, <1>2, <2>1, <3>1, Kalanlar, SayacKalir, TipYazGec
  <2>. QED BY <1>3, <1>6, <2>1 DEF StopClaim
<1>7. CASE StopGeri
  <2>1. Bitir(Zam) /\ UNCHANGED satirDisi /\ hedef' \in {[hedef EXCEPT !.durum = "stop_scheduled"], hedef}
    BY <1>7 DEF StopGeri
  <2>2. SatirTipi(isler, hedef')
    BY <1>2, <1>4, <2>1 DEF Durumlar
  <2>. QED BY <1>1, <2>1, <2>2, TipYazBitir
<1>8. CASE StopYaz
  <2>1. e.yer = "dYaz" /\ Bitir(Zam) /\ UNCHANGED satirDisi /\ hedef' = [hedef EXCEPT !.sonIs = e.is]
    BY <1>8 DEF StopYaz, Yerinde, e
  <2>2. StopMi(isler, e.is)
    BY <1>2, <2>1 DEF ElTipi, Yazan, Is, YerTuru, StopMi
  <2>. QED BY <1>1, <1>2, <2>1, <2>2, SatirSonIs, TipYazBitir
<1>9. CASE PlanClaim
  <2>. DEFINE o == OnKontrol("baslar", Yok)
  <2>1. ListeYa(isler, o, "sil")
    BY <1>2, OnKontrolTipi DEF ListeYa
  <2>2. CASE hedef' = [hedef EXCEPT !.silmeOn = o] /\ el' = [el EXCEPT ![Zam].yer = "pBaslat"]
    <3>1. SatirTipi(isler, hedef')
      <4>. HIDE DEF o
      <4>. QED BY <1>2, <2>1, <2>2, SatirSilmeOn
    <3>2. Gecis(el[Zam].yer, "pBaslat") /\ UNCHANGED satirDisi
      BY <1>9 DEF Gecis, PlanClaim, Yerinde
    <3>. QED BY <1>1, <1>2, <2>2, <3>1, <3>2, Kalanlar, SayacKalir, TipYazGec
  <2>. QED BY <1>3, <1>9, <2>2 DEF PlanClaim
<1>10. CASE PlanGeri
  <2>1. e.yer = "pGeri" /\ Bitir(Zam) /\ UNCHANGED satirDisi /\ hedef' \in {[hedef EXCEPT !.silmeOn = e.gor], hedef}
    BY <1>10 DEF PlanGeri, Yerinde, e
  <2>2. ListeYa(isler, e.gor, "sil")
    BY <1>2, <2>1 DEF ElTipi, Planda
  <2>. QED BY <1>1, <1>2, <2>1, <2>2, SatirSilmeOn, TipYazBitir
<1>11. CASE PlanYaz
  <2>. DEFINE o == OnKontrol("kosar", e.is)
  <2>1. e.yer = "pYaz" /\ Bitir(Zam) /\ UNCHANGED satirDisi /\ hedef' \in {[hedef EXCEPT !.silmeOn = o], hedef}
    BY <1>11 DEF PlanYaz, Yerinde, e
  <2>2. Is(isler, e.is, "sil", TRUE)
    BY <1>2, <2>1 DEF ElTipi, Yazan, PlanYazan, YerTuru
  <2>3. ListeYa(isler, o, "sil")
    BY <1>2, <2>2, OnKontrolTipi DEF ListeYa
  <2>. HIDE DEF o
  <2>. QED BY <1>1, <1>2, <2>1, <2>3, SatirSilmeOn, TipYazBitir
<1>12. CASE SilmeClaim
  <2>1. CASE hedef' = [hedef EXCEPT !.durum = "deleting"] /\ el' = [el EXCEPT ![Zam].yer = "sBaslat"]
    <3>1. SatirTipi(isler, hedef') /\ Gecis(el[Zam].yer, "sBaslat") /\ UNCHANGED satirDisi
      BY <1>4, <1>12, <2>1 DEF Durumlar, Gecis, SilmeClaim, Yerinde
    <3>. QED BY <1>1, <1>2, <2>1, <3>1, Kalanlar, SayacKalir, TipYazGec
  <2>. QED BY <1>3, <1>12, <2>1 DEF SilmeClaim
<1>13. CASE SilmeGeri
  <2>1. Bitir(Zam) /\ UNCHANGED satirDisi /\ hedef' \in {[hedef EXCEPT !.durum = "stopped"], hedef}
    BY <1>13 DEF SilmeGeri
  <2>2. SatirTipi(isler, hedef')
    BY <1>2, <1>4, <2>1 DEF Durumlar
  <2>. QED BY <1>1, <2>1, <2>2, TipYazBitir
<1>14. CASE SilmeYaz
  <2>. DEFINE o == Kullan(e.gor)
  <2>1. /\ e.yer = "sYaz" /\ Bitir(Zam) /\ UNCHANGED satirDisi
        /\ hedef' = [hedef EXCEPT !.silmeIs = e.is, !.silmeOn = o]
    BY <1>14 DEF SilmeYaz, Yerinde, e, Kullan
  <2>2. Is(isler, e.is, "sil", FALSE)
    <3>1. Is(isler, e.is, YerTuru(e.yer), e.yer \in PlanYazan)
      BY <1>2, <2>1 DEF ElTipi, Yazan
    <3>2. YerTuru(e.yer) = "sil" /\ (e.yer \in PlanYazan) = FALSE
      BY <2>1 DEF YerTuru, PlanYazan
    <3>. QED BY <3>1, <3>2
  <2>3. Liste(isler, e.gor, "sil") /\ e.gor.durum = "ok"
    BY <1>2, <2>1 DEF ElTipi, Silmede, Taze
  <2>4. Liste(isler, o, "sil")
    BY <2>3, KullanTipi
  <2>5. e.is \in NatYok /\ o \in Listeler /\ ListeYa(isler, o, "sil")
    BY <1>2, <2>2, <2>4 DEF Is, IsMi, NatYok, ListeYa, Liste
  <2>. HIDE DEF o
  <2>6. SatirTipi(isler, hedef')
    BY <1>2, <2>1, <2>2, <2>5 DEF SatirTipi, Satirlar
  <2>. QED BY <1>1, <2>1, <2>6, TipYazBitir
<1>15. CASE OnKontrolTickYaz
  BY <1>1, <1>15, OnSonucTipi DEF OnKontrolTickYaz
<1>16. CASE FinalizeYaz
  <2>1. /\ e.yer = "fYaz" /\ hedef' = SonucYaz(e.durum, e.is) /\ Hukum(e.durum, e.is)
        /\ el' = [el EXCEPT ![Zam].yer = "fKayit"] \/ Bitir(Zam)
        /\ kayit' = kayit /\ ezilen' = ezilen /\ UNCHANGED <<disari, isler, ariza, kayip, kanit>>
    BY <1>16 DEF FinalizeYaz, Yerinde, e
  <2>2. HukumTipi(isler, e)
    BY <1>2, <2>1 DEF ElTipi, Hukumde
  <2>3. SatirTipi(isler, hedef')
    <3>1. e.durum # "planning"
      BY <2>1, <2>2 DEF HukumTipi
    <3>. QED BY <1>2, <2>1, <2>2, <3>1, SatirSonuc
  <2>4. eskiHukum' \in BOOLEAN /\ ezilen' \in BOOLEAN /\ kayit' \in {"acik", "deleted", "cancelled"}
    BY <2>1, EzerHukumTipi
  <2>5. CASE Bitir(Zam)
    BY <1>1, <2>1, <2>3, <2>4, <2>5, TipEzerBitir
  <2>6. CASE el' = [el EXCEPT ![Zam].yer = "fKayit"]
    <3>1. /\ isler' = isler /\ kayip' = kayip /\ uygulama' = uygulama /\ kanit' = kanit
          /\ pencere' = pencere /\ gun' = gun /\ iptal' = iptal /\ ariza' = ariza /\ basma' = basma
      BY <2>1 DEF disari, ortam
    <3>2. SayacInv'
      BY <1>2, <2>4, <3>1, SayacAdim DEF SayacInv
    <3>3. Gecis(el[Zam].yer, "fKayit")
      BY <2>1 DEF Gecis, e
    <3>. QED BY <1>1, <2>3, <2>6, <3>1, <3>2, <3>3, TipYazGec
  <2>. QED BY <2>1, <2>5, <2>6
<1>17. CASE FinalizeKayit
  <2>1. /\ Bitir(Zam) /\ hedef' = hedef /\ UNCHANGED <<disari, isler, ariza, gecmis>>
        /\ kayit' \in {kayit, "deleted"}
    BY <1>17 DEF FinalizeKayit
  <2>2. /\ kayit' \in {"acik", "deleted", "cancelled"} /\ ezilen' \in BOOLEAN /\ eskiHukum' \in BOOLEAN
        /\ UNCHANGED <<disari, isler, ariza, kayip, kanit>>
    BY <2>1, EzerHukumTipi DEF gecmis
  <2>. QED BY <1>1, <1>2, <2>1, <2>2, TipEzerBitir
<1>. QED BY <1>5, <1>6, <1>7, <1>8, <1>9, <1>10, <1>11, <1>12, <1>13, <1>14, <1>15, <1>16, <1>17

LEMMA IsTipi == ASSUME TipInv PROVE \A j \in IsNo : isler[j] \in Isler
<1>1. isler \in Seq(Isler)
  BY DEF TipInv
<1>. QED BY <1>1 DEF IsNo

\* The record, the row and time.
LEMMA TipDisari ==
    ASSUME TipInv, Iptal \/ Cikar \/ PencereIlerler \/ SilmeGunu \/ Bayatla \/ \E j \in IsNo : Uzlastir(j)
    PROVE  TipInv'
<1>1. Len(isler) \in Nat /\ SayacInv /\ SatirTipi(isler, hedef) /\ hedef \in Satirlar
  BY SekmeZam, Acilim
<1>2. CASE Iptal
  <2>1. /\ kayit' = "cancelled" /\ iptal' = TRUE /\ Bas /\ hedef' = hedef /\ pencere' = pencere /\ gun' = gun
        /\ uygulama' = uygulama /\ isler' = isler /\ el' = el /\ ariza' = ariza /\ kayip' = kayip /\ kanit' = kanit
        /\ ezilen' = ezilen /\ eskiHukum' = eskiHukum
    BY <1>2 DEF Iptal, gecmis
  <2>2. SayacInv'
    BY <1>1, <2>1, SayacAdim DEF SayacInv
  <2>. QED BY <1>1, <2>1, <2>2, TipOrtam
<1>3. CASE Cikar
  <2>1. SatirTipi(isler, hedef') /\ UNCHANGED <<kayit, ortam, isler, el, ariza, gecmis>> /\ Bas
    BY <1>1, <1>3, SatirDurum DEF Cikar, Durumlar
  <2>2. SayacInv' /\ isler' = isler /\ kayip' = kayip /\ uygulama' = uygulama
    BY <1>1, <2>1, BasKalir
  <2>. QED BY <2>1, <2>2, TipOrtam
<1>4. CASE PencereIlerler
  <2>1. /\ pencere' \in {"acik", "gecti"} /\ hedef' = hedef /\ kayit' = kayit /\ gun' = gun /\ basma' = basma
        /\ iptal' = iptal /\ uygulama' = uygulama /\ isler' = isler /\ el' = el /\ ariza' = ariza /\ kayip' = kayip
        /\ kanit' = kanit /\ ezilen' = ezilen /\ eskiHukum' = eskiHukum
    BY <1>4 DEF PencereIlerler, gecmis
  <2>2. SayacInv'
    BY <1>1, <2>1, SayacAdim DEF SayacInv
  <2>. QED BY <1>1, <2>1, <2>2, TipOrtam
<1>5. CASE SilmeGunu
  <2>1. /\ gun' = TRUE /\ hedef' = hedef /\ kayit' = kayit /\ pencere' = pencere /\ basma' = basma
        /\ iptal' = iptal /\ uygulama' = uygulama /\ isler' = isler /\ el' = el /\ ariza' = ariza /\ kayip' = kayip
        /\ kanit' = kanit /\ ezilen' = ezilen /\ eskiHukum' = eskiHukum
    BY <1>5 DEF SilmeGunu, gecmis
  <2>2. SayacInv'
    BY <1>1, <2>1, SayacAdim DEF SayacInv
  <2>. QED BY <1>1, <2>1, <2>2, TipOrtam
<1>6. CASE Bayatla
  <2>. DEFINE o == Yasla(hedef.silmeOn)
  <2>1. /\ hedef' = [hedef EXCEPT !.silmeOn = o] /\ hedef.silmeOn # Yok
        /\ UNCHANGED satirDisi /\ el' = el
    BY <1>6 DEF Bayatla, Yasla, satirDisi
  <2>2. ListeYa(isler, o, "sil")
    BY <1>1, <2>1, YaslaTipi DEF SatirTipi, ListeYa
  <2>. HIDE DEF o
  <2>. QED BY <1>1, <2>1, <2>2, SatirSilmeOn, Kalanlar, SayacKalir, TipOrtam
<1>7. ASSUME NEW j \in IsNo, Uzlastir(j)
      PROVE  TipInv'
  <2>1. UNCHANGED satirDisi /\ el' = el /\ IsMi(isler, j)
    BY <1>7 DEF Uzlastir, satirDisi, IsNo, IsMi
  <2>2. \/ hedef' = [hedef EXCEPT !.sonIs = j] /\ isler[j].tur = "stop"
        \/ hedef' = [hedef EXCEPT !.silmeIs = j] /\ isler[j].tur = "sil" /\ ~isler[j].plan
    BY <1>7 DEF Uzlastir, Gercek
  <2>3. isler[j].plan \in BOOLEAN
    BY <1>7, IsTipi DEF Isler
  <2>4. isler[j].tur = "sil" /\ ~isler[j].plan => Is(isler, j, "sil", FALSE)
    BY <2>1, <2>3 DEF Is
  <2>5. SatirTipi(isler, hedef')
    <3>1. CASE hedef' = [hedef EXCEPT !.sonIs = j] /\ isler[j].tur = "stop"
      BY <1>1, <2>1, <3>1, SatirSonIs DEF StopMi
    <3>2. CASE hedef' = [hedef EXCEPT !.silmeIs = j] /\ isler[j].tur = "sil" /\ ~isler[j].plan
      BY <1>1, <2>4, <3>2, SatirSilmeIs
    <3>. QED BY <2>2, <3>1, <3>2
  <2>. QED BY <1>1, <2>1, <2>5, Kalanlar, SayacKalir, TipOrtam
<1>. QED BY <1>2, <1>3, <1>4, <1>5, <1>6, <1>7

\* A job ends: what it does, and what is left alone.
Etkisi(t) == IF t = "stop" THEN "durdu" ELSE IF t = "sil" THEN "silindi" ELSE "calisir"

LEMMA AwxSonucu ==
    ASSUME TipInv, NEW j \in IsNo, AwxBiter(j)
    PROVE  /\ IsMi(isler, j) /\ ~Bitti(isler, j) /\ \A a \in El : el[a].yer \notin DbArasi
           /\ hedef' = hedef /\ kayit' = kayit /\ pencere' = pencere /\ gun' = gun /\ el' = el /\ basma' = basma
           /\ iptal' = iptal /\ kayip' = kayip /\ kanit' = kanit /\ ezilen' = ezilen /\ eskiHukum' = eskiHukum
           /\ \E d \in {"ok", "hata"} :
                /\ isler' = Bitmis(isler, j, d) /\ (ariza' = ariza \/ Kusur(1))
                /\ d = "ok" => uygulama # "silindi" \/ isler[j].tur = "sil"
                /\ d = "ok" /\ ~isler[j].plan => uygulama' = Etkisi(isler[j].tur)
                /\ \/ uygulama' = uygulama
                   \/ /\ ~isler[j].plan /\ (uygulama # "silindi" \/ isler[j].tur = "sil")
                      /\ uygulama' = Etkisi(isler[j].tur)
<1>. DEFINE etki == CASE isler[j].tur = "stop" -> "durdu"
                      [] isler[j].tur = "sil" -> "silindi"
                      [] isler[j].tur = "geri" -> "calisir"
            olur == uygulama # "silindi" \/ isler[j].tur = "sil"
<1>1. isler[j].tur \in {"stop", "sil", "geri"} /\ IsMi(isler, j)
  BY IsTipi DEF Isler, IsNo, IsMi
<1>2. etki = Etkisi(isler[j].tur)
  BY <1>1 DEF Etkisi
<1>3. /\ ~Biter(j) /\ \A a \in El : el[a].yer \notin DbArasi
      /\ \E d \in {"ok", "hata"} :
             /\ d = "ok" => olur
             /\ IF d = "hata" /\ olur THEN Kusur(1) ELSE ariza' = ariza
             /\ isler' = Bitmis(isler, j, d)
             /\ uygulama' \in IF isler[j].plan \/ ~olur THEN {uygulama}
                              ELSE IF d = "ok" THEN {etki} ELSE {uygulama, etki}
      /\ UNCHANGED <<hedef, kayit, pencere, gun, el, basma, iptal, gecmis>>
  BY DEF AwxBiter, Bitmis
<1>. HIDE DEF etki
<1>4. PICK d \in {"ok", "hata"} :
             /\ d = "ok" => olur
             /\ IF d = "hata" /\ olur THEN Kusur(1) ELSE ariza' = ariza
             /\ isler' = Bitmis(isler, j, d)
             /\ uygulama' \in IF isler[j].plan \/ ~olur THEN {uygulama}
                              ELSE IF d = "ok" THEN {etki} ELSE {uygulama, etki}
  BY <1>3
<1>5. /\ d = "ok" /\ ~isler[j].plan => uygulama' = etki
      /\ uygulama' = uygulama \/ (~isler[j].plan /\ olur /\ uygulama' = etki)
      /\ ariza' = ariza \/ Kusur(1)
  BY <1>4
<1>6. /\ hedef' = hedef /\ kayit' = kayit /\ pencere' = pencere /\ gun' = gun /\ el' = el /\ basma' = basma
      /\ iptal' = iptal /\ kayip' = kayip /\ kanit' = kanit /\ ezilen' = ezilen /\ eskiHukum' = eskiHukum
  BY <1>3 DEF gecmis
<1>. QED BY <1>1, <1>2, <1>3, <1>4, <1>5, <1>6, Zenon DEF Biter, Bitti

LEMMA TipAwx == ASSUME TipInv, NEW j \in IsNo, AwxBiter(j) PROVE TipInv'
<1>1. isler \in Seq(Isler) /\ SayacInv /\ SatirTipi(isler, hedef) /\ j \in 1 .. Len(isler)
  BY DEF TipInv, IsNo
<1>2. PICK d \in {"ok", "hata"} :
           /\ isler' = Bitmis(isler, j, d) /\ (ariza' = ariza \/ Kusur(1))
           /\ d = "ok" => uygulama # "silindi" \/ isler[j].tur = "sil"
           /\ d = "ok" /\ ~isler[j].plan => uygulama' = Etkisi(isler[j].tur)
           /\ \/ uygulama' = uygulama
              \/ /\ ~isler[j].plan /\ (uygulama # "silindi" \/ isler[j].tur = "sil")
                 /\ uygulama' = Etkisi(isler[j].tur)
  BY AwxSonucu
<1>3. /\ ~Bitti(isler, j) /\ \A a \in El : el[a].yer \notin DbArasi
      /\ hedef' = hedef /\ kayit' = kayit /\ pencere' = pencere /\ gun' = gun /\ el' = el /\ basma' = basma
      /\ iptal' = iptal /\ kayip' = kayip /\ kanit' = kanit /\ ezilen' = ezilen /\ eskiHukum' = eskiHukum
  BY AwxSonucu
<1>. DEFINE M == Bitmis(isler, j, d)
<1>4. /\ M \in Seq(Isler) /\ Uzar(isler, M) /\ Len(M) = Len(isler)
      /\ \A i \in 1 .. Len(isler) :
           /\ M[i].tur = isler[i].tur /\ M[i].plan = isler[i].plan /\ M[i].liste = isler[i].liste
           /\ M[i].durum = IF i = j THEN d ELSE isler[i].durum
  BY <1>1, <1>3, BiterUzar
<1>. HIDE DEF M
<1>5. isler' = M
  BY <1>2 DEF M
<1>6. uygulama' \in {"calisir", "durdu", "silindi"}
  BY <1>1, <1>2 DEF Etkisi, SayacInv
<1>7. ariza' \in Nat /\ ariza' <= EnCokAriza
  BY <1>1, <1>2, EmeklilikVarsayimi DEF SayacInv, Kusur
<1>8. SayacInv'
  BY <1>1, <1>3, <1>4, <1>5, <1>6, <1>7 DEF SayacInv, IsNo
<1>9. \A i \in 1 .. Len(M) : ListeVerir(M, M[i])
  <2>. SUFFICES ASSUME NEW i \in 1 .. Len(isler) PROVE ListeVerir(M, M[i])
    BY <1>4
  <2>1. ListeVerir(isler, isler[i])
    BY DEF TipInv, IsNo
  <2>. QED BY <1>4, <2>1, IsUzar DEF ListeVerir
<1>10. (\E i \in 1 .. Len(M) : Is(M, i, "sil", FALSE) /\ M[i].durum = "ok") => uygulama' = "silindi"
  <2>. SUFFICES ASSUME NEW i \in 1 .. Len(isler), Is(M, i, "sil", FALSE), M[i].durum = "ok"
                PROVE  uygulama' = "silindi"
    BY <1>4
  <2>1. isler[i].tur = "sil" /\ ~isler[i].plan
    BY <1>4 DEF Is
  <2>2. CASE i = j
    BY <1>2, <1>4, <2>1, <2>2 DEF Etkisi
  <2>3. CASE i # j
    <3>1. Is(isler, i, "sil", FALSE) /\ isler[i].durum = "ok"
      BY <1>4, <2>1, <2>3 DEF Is, IsMi
    <3>2. uygulama = "silindi"
      BY <3>1 DEF TipInv, IsNo
    <3>. QED BY <1>2, <3>2 DEF Etkisi
  <2>. QED BY <2>2, <2>3
<1>11. SatirTipi(M, hedef)
  BY <1>1, <1>4, SatirUzar
<1>12. \A a \in El : ElTipi(M, a, el[a]) /\ ElIsi(M, el[a])
  <2>. SUFFICES ASSUME NEW a \in El PROVE ElTipi(M, a, el[a]) /\ ElIsi(M, el[a])
    OBVIOUS
  <2>1. el[a].yer \notin Yazan
    BY <1>3 DEF DbArasi, Yazan
  <2>. QED BY <1>4, <2>1, ElUzar DEF TipInv, ElIsi
<1>. QED BY <1>3, <1>4, <1>5, <1>8, <1>9, <1>10, <1>11, <1>12 DEF TipInv, IsNo

\* A handler ends by a fault.
LEMMA TipArizalar == ASSUME TipInv, Cokme \/ \E a \in El : DbHata(a) PROVE TipInv'
<1>1. isler \in Seq(Isler) /\ SayacInv /\ SatirTipi(isler, hedef)
  BY DEF TipInv
<1>2. ASSUME Ariza PROVE ariza' \in Nat /\ ariza' <= EnCokAriza
  BY <1>1, <1>2, EmeklilikVarsayimi DEF SayacInv, Ariza, Kusur
<1>3. \A E \in SUBSET El : Yazilmamis(E) \subseteq IsNo
  <2>. SUFFICES ASSUME NEW a \in El, el[a].yer \in Yazan PROVE el[a].is \in IsNo
    BY DEF Yazilmamis, Yazan
  <2>. QED BY DEF TipInv, ElTipi, Is, IsMi, IsNo
<1>4. CASE Cokme
  <2>1. /\ Ariza /\ el' = [a \in El |-> Bosta] /\ kayip' = kayip \cup Yazilmamis(El) /\ hedef' = hedef
        /\ kayit' = kayit /\ pencere' = pencere /\ gun' = gun /\ uygulama' = uygulama /\ iptal' = iptal /\ basma' = basma
        /\ isler' = isler /\ kanit' = kanit /\ ezilen' = ezilen /\ eskiHukum' = eskiHukum
    BY <1>4 DEF Cokme, disari, ortam
  <2>2. SayacInv'
    BY <1>1, <1>2, <1>3, <2>1 DEF SayacInv, IsNo
  <2>3. \A a \in El : el'[a] \in Eller /\ ElTipi(isler, a, el'[a]) /\ ElIsi(isler, el'[a])
    <3>. HIDE DEF Bosta
    <3>. QED BY <2>1, BostaTipi
  <2>4. el' \in [El -> Eller]
    BY <2>1, <2>3
  <2>. QED BY <1>1, <2>1, <2>2, <2>3, <2>4 DEF TipInv, IsNo
<1>5. ASSUME NEW a \in El, DbHata(a)
      PROVE  TipInv'
  <2>1. /\ Ariza /\ Bitir(a) /\ kayip' = kayip \cup Yazilmamis({a}) /\ hedef' = hedef
        /\ kayit' = kayit /\ pencere' = pencere /\ gun' = gun /\ uygulama' = uygulama /\ iptal' = iptal /\ basma' = basma
        /\ isler' = isler /\ kanit' \subseteq kanit \cup Yazilmamis({a}) /\ ezilen' = ezilen
        /\ eskiHukum' = eskiHukum
    BY <1>5 DEF DbHata, disari, ortam, Yazilmamis
  <2>2. Yazilmamis({a}) \subseteq IsNo
    BY <1>3
  <2>3. SayacInv'
    BY <1>1, <1>2, <2>1, <2>2 DEF SayacInv, IsNo
  <2>4. el \in [El -> Eller] /\ el' = [el EXCEPT ![a] = Bosta]
    BY <2>1 DEF TipInv, Bitir
  <2>5. el' \in [El -> Eller] /\ \A b \in El : el'[b] = Bosta \/ el'[b] = el[b]
    <3>. HIDE DEF Bosta
    <3>. QED BY <2>4, BostaTipi
  <2>6. \A b \in El : ElTipi(isler, b, el'[b]) /\ ElIsi(isler, el'[b])
    <3>. HIDE DEF Bosta
    <3>. QED BY <2>5, BostaTipi DEF TipInv
  <2>. QED BY <1>1, <2>1, <2>3, <2>5, <2>6 DEF TipInv, IsNo
<1>. QED BY <1>4, <1>5

LEMMA TipBaslangic == Init => TipInv
<1>. SUFFICES ASSUME Init PROVE TipInv
  OBVIOUS
<1>1. isler = <<>> /\ isler \in Seq(Isler) /\ Len(isler) = 0 /\ IsNo = {}
  BY DEF Init, IsNo
<1>2. hedef \in Satirlar
  BY DEF Init, IlkHedef, Satirlar, Durumlar, NatYok
<1>3. SatirTipi(isler, hedef)
  BY <1>2 DEF Init, IlkHedef, SatirTipi, ListeYa
<1>4. el \in [El -> Eller] /\ \A a \in El : ElTipi(isler, a, el[a]) /\ ElIsi(isler, el[a])
  <2>. HIDE DEF Bosta
  <2>. QED BY BostaTipi DEF Init
<1>5. /\ kayit = "acik" /\ pencere = "once" /\ gun = FALSE /\ uygulama = "calisir" /\ iptal = FALSE
      /\ ariza = 0 /\ basma = 0 /\ kayip = {} /\ kanit = {} /\ ezilen = FALSE /\ eskiHukum = FALSE
  BY DEF Init
<1>6. SayacInv
  <2>1. ariza \in Nat /\ basma \in Nat /\ Len(isler) <= EnCokIs /\ ariza <= EnCokAriza /\ basma <= EnCokBasma
    BY <1>1, <1>5, EmeklilikVarsayimi
  <2>. QED BY <1>5, <2>1 DEF SayacInv
<1>. QED BY <1>1, <1>3, <1>4, <1>6 DEF TipInv, IsNo

LEMMA TipKorunur == TipInv /\ [Next]_vars => TipInv'
<1>. SUFFICES ASSUME TipInv, [Next]_vars PROVE TipInv'
  OBVIOUS
<1>1. CASE UNCHANGED vars
  BY <1>1 DEF vars, satirDisi, disari, ortam, gecmis, TipInv, SayacInv, IsNo
<1>2. ASSUME NEW s \in Sekme, Istek(s) PROVE TipInv'
  BY <1>2, TipIstek
<1>3. ASSUME NEW s \in Sekme, SekmeAdimi(s) PROVE TipInv'
  BY <1>3, TipSekmeBaslar, TipSekmeYazar, TipSekmeHukum, TipSorar DEF SekmeAdimi, Sorar
<1>4. CASE ZamBasla \/ ZamAdimi
  BY <1>4, TipZamBasla, TipZamBaslar, TipZamYazar, TipSorar DEF ZamAdimi, Sorar
<1>5. CASE Iptal \/ Cikar \/ PencereIlerler \/ SilmeGunu \/ Bayatla \/ Cokme \/ \E a \in El : DbHata(a)
  BY <1>5, TipDisari, TipArizalar
<1>6. ASSUME NEW j \in IsNo, Uzlastir(j) \/ AwxBiter(j) PROVE TipInv'
  BY <1>6, TipDisari, TipAwx
<1>. QED BY <1>1, <1>2, <1>3, <1>4, <1>5, <1>6 DEF Next

THEOREM TipInvDogru == Spec => []TipInv
  BY TipBaslangic, TipKorunur, PTL DEF Spec

LEMMA ListeTipi ==
    ASSUME NEW o, NEW t, ListeYa(isler, o, t)
    PROVE  o \in OnKontroller \cup {Yok}
<1>1. CASE Liste(isler, o, t)
  <2>1. o \in Listeler /\ o.is \in IsVeyaYok
    BY <1>1 DEF Liste, Is, IsMi, IsVeyaYok, IsNo
  <2>. QED BY <2>1 DEF Listeler, OnKontroller
<1>. QED BY <1>1 DEF ListeYa

\* Every number in the row, in a list and in a handler is that of a job that AWX has started;
\* launches, lost answers, faults and restarts leave none behind that leads nowhere.
THEOREM TipDogru == Spec => []TypeOK
<1>1. TipInv => TypeOK
  <2>. SUFFICES ASSUME TipInv PROVE TypeOK
    OBVIOUS
  <2>1. SatirTipi(isler, hedef) /\ hedef \in Satirlar /\ SayacInv
    BY DEF TipInv, SatirTipi
  <2>2. hedef.durum \in Durumlar /\ hedef.silindi \in BOOLEAN
    BY <2>1 DEF Satirlar
  <2>3. {hedef.sonIs, hedef.silmeIs, hedef.geriIs, hedef.izin} \subseteq IsVeyaYok
    BY <2>1 DEF SatirTipi, Is, IsMi, StopMi, IsVeyaYok, IsNo
  <2>4. {hedef.silmeOn, hedef.geriOn} \subseteq OnKontroller \cup {Yok}
    BY <2>1, ListeTipi DEF SatirTipi
  <2>5. \A j \in IsNo : isler[j] \in [tur : {"stop", "sil", "geri"}, plan : BOOLEAN, liste : IsVeyaYok,
                                      durum : {"kosar", "ok", "hata"}]
    <3>. SUFFICES ASSUME NEW j \in IsNo
                  PROVE  isler[j] \in [tur : {"stop", "sil", "geri"}, plan : BOOLEAN, liste : IsVeyaYok,
                                       durum : {"kosar", "ok", "hata"}]
      OBVIOUS
    <3>1. isler[j] \in Isler
      BY IsTipi
    <3>2. isler[j].liste \in IsVeyaYok
      BY DEF TipInv, IsVeyaYok, IsMi, IsNo, ListeVerir
    <3>. QED BY <3>1, <3>2 DEF Isler
  <2>6. \A a \in El : el[a].is \in IsVeyaYok
    BY DEF TipInv, ElTipi, IsMi, IsVeyaYok, IsNo
  <2>. QED BY <2>1, <2>2, <2>3, <2>4, <2>5, <2>6 DEF TypeOK, SayacInv
<1>. QED BY <1>1, TipInvDogru, PTL

-----------------------------------------------------------------------------
(***************************************************************************)
(* The lists                                                               *)
(***************************************************************************)

\* The jobs M are J, and others whose lists do not count or whose numbers are in L.
Katar(J, M, L) ==
    \A j \in 1 .. Len(M) :
        \/ /\ j \in 1 .. Len(J)
           /\ M[j].tur = J[j].tur /\ M[j].plan = J[j].plan /\ M[j].liste = J[j].liste
        \/ M[j].plan \/ M[j].tur = "stop" \/ j \in L

LEMMA TemizKatar ==
    ASSUME NEW J, NEW M, NEW L, Katar(J, M, L), NEW K, K \subseteq L, NEW l, Temiz(J, K, l)
    PROVE  Temiz(M, L, l)
  BY DEF Katar, Temiz

LEMMA ElListesiKatar ==
    ASSUME NEW J, NEW M, NEW L, Katar(J, M, L), NEW K, K \subseteq L, NEW e, ElListesi(J, K, e)
    PROVE  ElListesi(M, L, e)
  BY TemizKatar DEF ElListesi

LEMMA AyriSimetrik == ASSUME NEW e, NEW f, Ayri(e, f) PROVE Ayri(f, e)
  BY DEF Ayri

\* A step of the handler a, which comes to f.
Gecer(E, a, f, F) == F = [E EXCEPT ![a] = f]

LEMMA ListeAdim ==
    ASSUME NEW J, NEW K, NEW h, NEW E \in [El -> Eller], ListeKurali(J, K, h, E),
           NEW M, NEW L, NEW r, NEW a \in El, NEW f \in Eller, NEW F, Gecer(E, a, f, F),
           BirKez(M, L), \A b \in El \ {a} : ElListesi(M, L, E[b]) /\ SatirAyri(r, E[b]) /\ Ayri(f, E[b]),
           SilmeListesi(M, L, r.silmeOn, F[Zam]), GeriListesi(M, L, r.geriOn, F),
           ElListesi(M, L, f), SatirAyri(r, f)
    PROVE  ListeKurali(M, L, r, F)
<1>1. F[a] = f /\ \A b \in El \ {a} : F[b] = E[b]
  BY DEF Gecer
<1>2. \A b \in El : ElListesi(M, L, F[b]) /\ SatirAyri(r, F[b])
  BY <1>1
<1>3. \A b, c \in El : b # c => Ayri(F[b], F[c])
  <2>. SUFFICES ASSUME NEW b \in El, NEW c \in El, b # c PROVE Ayri(F[b], F[c])
    OBVIOUS
  <2>1. CASE b = a
    BY <1>1, <2>1
  <2>2. CASE c = a
    BY <1>1, <2>2, AyriSimetrik
  <2>3. CASE b # a /\ c # a
    BY <1>1, <2>3 DEF ListeKurali
  <2>. QED BY <2>1, <2>2, <2>3
<1>. QED BY <1>2, <1>3 DEF ListeKurali

\* What a handler that stands at e may put in the place of the row's list p; a list it has read
\* only at one of the places S.
Uygun(J, K, o, p, e, S) ==
    \/ o = Yok
    \/ o.is = Yok
    \/ p # Yok /\ o.is = p.is /\ (~o.kul => ~p.kul)
    \/ e.yer \in YeniListe /\ o.is = e.is
    \/ e.yer \in S /\ Okur(e) /\ o.is = e.gor.is /\ (~o.kul => Temiz(J, K, o.is))

\* The handler a comes to f, without a new list and without a job of its own on one.
LEMMA ListeYazar ==
    ASSUME NEW J, NEW K, NEW h, NEW E \in [El -> Eller], ListeKurali(J, K, h, E),
           NEW M, NEW L, NEW r, NEW a \in El, NEW f \in Eller, NEW F, Gecer(E, a, f, F),
           Katar(J, M, L), K \subseteq L, BirKez(M, L),
           \A b \in El : E[b].yer \in YeniListe => E[b].is # Yok,
           f.yer \notin YeniListe, ElListesi(M, L, f),
           Okur(f) => \/ Okur(E[a]) /\ f.gor.is = E[a].gor.is
                      \/ h.silmeOn # Yok /\ f.gor.is = h.silmeOn.is
                      \/ h.geriOn # Yok /\ f.gor.is = h.geriOn.is,
           f.yer \in Geride => \/ E[a].yer \in Geride /\ f.gor.is = E[a].gor.is /\ r.geriOn = h.geriOn
                               \/ /\ h.geriOn # Yok /\ ~h.geriOn.kul /\ h.geriOn.is # Yok
                                  /\ f.gor.is = h.geriOn.is /\ r.geriOn.kul,
           Uygun(J, K, r.silmeOn, h.silmeOn, E[a], Silmede \cup Planda),
           Uygun(J, K, r.geriOn, h.geriOn, E[a], Geride),
           a = Zam /\ E[a].yer = "sYaz" => r.silmeOn.kul \/ E[a].is \in L
    PROVE  ListeKurali(M, L, r, F)
<1>. DEFINE e == E[a]
<1>1. F[a] = f /\ \A b \in El \ {a} : F[b] = E[b]
  BY DEF Gecer
<1>2. /\ ElListesi(J, K, e) /\ SatirAyri(h, e)
      /\ \A b \in El \ {a} : ElListesi(J, K, E[b]) /\ SatirAyri(h, E[b]) /\ Ayri(e, E[b])
  BY DEF ListeKurali
<1>2a. SilmeListesi(J, K, h.silmeOn, E[Zam]) /\ GeriListesi(J, K, h.geriOn, E)
  BY DEF ListeKurali
<1>. HIDE DEF e
<1>3. \A b \in El \ {a} : ElListesi(M, L, E[b])
  BY <1>2, ElListesiKatar
<1>4. \A b \in El \ {a} : \A o, p, S : p \in {h.silmeOn, h.geriOn} /\ Uygun(J, K, o, p, e, S) /\ o # Yok
                                  /\ E[b].yer \in YeniListe => o.is # E[b].is
  BY <1>2 DEF Uygun, SatirAyri, Ayri
<1>5. \A b \in El \ {a} : SatirAyri(r, E[b])
  BY <1>4 DEF SatirAyri, e
<1>6. \A b \in El \ {a} : Ayri(f, E[b])
  <2>. SUFFICES ASSUME NEW b \in El \ {a} PROVE Ayri(f, E[b])
    OBVIOUS
  <2>1. f.yer \in Geride /\ E[b].yer \in Geride => f.gor.is # E[b].gor.is
    BY <1>2, <1>2a DEF Ayri, e, GeriListesi
  <2>2. E[b].yer \in YeniListe /\ Okur(f) => f.gor.is # E[b].is
    BY <1>2 DEF Ayri, SatirAyri, e
  <2>. QED BY <2>1, <2>2 DEF Ayri
<1>7. SatirAyri(r, f)
  BY DEF SatirAyri
<1>8. SilmeListesi(M, L, r.silmeOn, F[Zam])
  <2>. DEFINE o == r.silmeOn
              z == E[Zam]
  <2>. SUFFICES ASSUME o # Yok, ~o.kul, o.is # Yok
                PROVE  \/ Temiz(M, L, o.is)
                       \/ F[Zam].yer = "sYaz" /\ Temiz(M, L \cup {F[Zam].is}, o.is)
    BY DEF SilmeListesi
  <2>1. Temiz(J, K, o.is) \/ (z.yer = "sYaz" /\ Temiz(J, K \cup {z.is}, o.is))
    <3>. HIDE DEF o, z
    <3>1. CASE h.silmeOn # Yok /\ o.is = h.silmeOn.is /\ ~h.silmeOn.kul
      BY <1>2a, <3>1 DEF SilmeListesi, z
    <3>2. CASE e.yer \in YeniListe /\ o.is = e.is
      BY <1>2, <3>2 DEF ElListesi
    <3>. QED BY <3>1, <3>2 DEF Uygun, o, e
  <2>2. CASE Temiz(J, K, o.is)
    BY <2>2, TemizKatar
  <2>3. CASE z.yer = "sYaz" /\ Temiz(J, K \cup {z.is}, o.is)
    <3>1. CASE a = Zam
      <4>1. K \cup {z.is} \subseteq L
        BY <2>3, <3>1
      <4>. QED BY <2>3, <4>1, TemizKatar
    <3>2. CASE a # Zam
      <4>1. F[Zam] = z
        BY <1>1, <3>2, SekmeZam
      <4>2. Katar(J, M, L \cup {z.is}) /\ K \cup {z.is} \subseteq L \cup {z.is}
        BY DEF Katar
      <4>3. Temiz(M, L \cup {z.is}, o.is)
        BY <2>3, <4>2, TemizKatar
      <4>. QED BY <2>3, <4>1, <4>3
    <3>. QED BY <3>1, <3>2
  <2>. QED BY <2>1, <2>2, <2>3
<1>9. GeriListesi(M, L, r.geriOn, F)
  <2>. DEFINE o == r.geriOn
  <2>. SUFFICES ASSUME o # Yok, ~o.kul, o.is # Yok
                PROVE  Temiz(M, L, o.is) /\ \A b \in El : F[b].yer \in Geride => F[b].gor.is # o.is
    BY DEF GeriListesi
  <2>1. Temiz(J, K, o.is) /\ \A b \in El \ {a} : E[b].yer \in Geride => E[b].gor.is # o.is
    <3>1. CASE h.geriOn # Yok /\ o.is = h.geriOn.is /\ ~h.geriOn.kul
      BY <1>2a, <3>1 DEF GeriListesi
    <3>2. CASE e.yer \in YeniListe /\ o.is = e.is
      <4>1. \A b : E[b].yer \in Geride => Okur(E[b])
        BY DEF Okur, Okumus
      <4>. QED BY <1>2, <3>2, <4>1 DEF ElListesi, Ayri
    <3>3. CASE e.yer \in Geride /\ Okur(e) /\ o.is = e.gor.is /\ Temiz(J, K, o.is)
      BY <1>2, <3>3 DEF Ayri
    <3>. QED BY <3>1, <3>2, <3>3 DEF Uygun, e
  <2>2. f.yer \in Geride => f.gor.is # o.is
    BY <1>2a DEF GeriListesi
  <2>3. Temiz(M, L, o.is)
    BY <2>1, TemizKatar
  <2>. QED BY <1>1, <2>1, <2>2, <2>3
<1>10. \A b \in El \ {a} : ElListesi(M, L, E[b]) /\ SatirAyri(r, E[b]) /\ Ayri(f, E[b])
  BY <1>3, <1>5, <1>6
<1>. QED BY <1>7, <1>8, <1>9, <1>10, ListeAdim

\* The jobs of a step: the same ones, or one more.
LEMMA AyniKatar ==
    ASSUME ListeInv, isler' = isler, kayip \subseteq kayip'
    PROVE  Katar(isler, isler', kayip') /\ BirKez(isler', kayip')
  BY DEF Katar, ListeInv, ListeKurali, BirKez

LEMMA YeniKatar ==
    ASSUME TipInv, ListeInv, NEW x \in Isler, ListeVerir(isler, x), NEW n, n = Len(isler) + 1, NEW M,
           M = Append(isler, x), NEW L, kayip \subseteq L, x.plan \/ x.tur = "stop" \/ n \in L
    PROVE  Katar(isler, M, L) /\ BirKez(M, L)
<1>1. isler \in Seq(Isler) /\ \A j \in 1 .. Len(isler) : ListeVerir(isler, isler[j])
  BY DEF TipInv, IsNo
<1>2. /\ Len(M) = n /\ M[n] = x /\ \A j \in 1 .. Len(isler) : M[j] = isler[j]
      /\ \A j \in 1 .. n : j = n \/ j \in 1 .. Len(isler)
  BY <1>1, EkleUzar
<1>3. Katar(isler, M, L)
  BY <1>2 DEF Katar
<1>4. BirKez(isler, kayip)
  BY DEF ListeInv, ListeKurali
<1>5. BirKez(M, L)
  <2>. SUFFICES ASSUME NEW i \in 1 .. n, NEW j \in 1 .. n, i # j, ~M[i].plan, ~M[j].plan, M[i].tur # "stop",
                       M[i].liste = M[j].liste
                PROVE  i \in L \/ j \in L
    BY <1>2 DEF BirKez
  <2>1. CASE i = n
    BY <1>2, <2>1
  <2>2. CASE j = n /\ i \in 1 .. Len(isler)
    <3>1. ListeVerir(isler, M[i]) /\ ListeVerir(isler, x)
      BY <1>1, <1>2, <2>2
    <3>. QED BY <1>2, <2>2, <3>1 DEF ListeVerir
  <2>3. CASE i \in 1 .. Len(isler) /\ j \in 1 .. Len(isler)
    BY <1>2, <1>4, <2>3 DEF BirKez
  <2>. QED BY <1>2, <2>1, <2>2, <2>3
<1>. QED BY <1>3, <1>5

\* The number of a new list is a job's.
LEMMA YeniListeNo == ASSUME TipInv PROVE \A b \in El : el[b].yer \in YeniListe => el[b].is # Yok /\ IsMi(isler, el[b].is)
<1>. SUFFICES ASSUME NEW b \in El, el[b].yer \in YeniListe PROVE el[b].is # Yok /\ IsMi(isler, el[b].is)
  OBVIOUS
<1>1. IsMi(isler, el[b].is) /\ Len(isler) \in Nat
  BY Acilim DEF ElTipi, Yazan, YeniListe, Is
<1>. QED BY <1>1, SekmeZam DEF IsMi

\* Places where a handler has no list.
Duzler == {"bos", "kBaslat", "kYaz", "zYaz", "oBaslat", "oYaz", "gpBaslat", "spBaslat", "jYaz", "tNo", "tSor",
           "tYaz", "dDus", "dClaim", "dBaslat", "dYaz", "dGeri", "fSor", "fYaz", "fKayit"}

LEMMA DuzYer ==
    ASSUME NEW e, e.yer \in Duzler
    PROVE  /\ e.yer \notin YeniListe /\ ~Okur(e) /\ e.yer \notin Geride
           /\ \A J, K : ElListesi(J, K, e)
  BY DEF Duzler, YeniListe, Okur, Okumus, Geride, Silmede, Planda, ElListesi

LEMMA AyniUygun == \A J, K, o, e, S : Uygun(J, K, o, o, e, S)
  BY DEF Uygun

\* The lists of the row stay, and the handler comes to a place where it has none.
LEMMA ListeDuz ==
    ASSUME TipInv, ListeInv, NEW a \in El, NEW f \in Eller, el' = [el EXCEPT ![a] = f], f.yer \in Duzler,
           kayip \subseteq kayip', Katar(isler, isler', kayip'), BirKez(isler', kayip'),
           hedef'.silmeOn = hedef.silmeOn, hedef'.geriOn = hedef.geriOn,
           el[a].yer = "sYaz" => el[a].is \in kayip'
    PROVE  ListeInv'
<1>1. el \in [El -> Eller] /\ ListeKurali(isler, kayip, hedef, el) /\ Gecer(el, a, f, el')
  BY DEF TipInv, ListeInv, Gecer
<1>2. /\ Uygun(isler, kayip, hedef'.silmeOn, hedef.silmeOn, el[a], Silmede \cup Planda)
      /\ Uygun(isler, kayip, hedef'.geriOn, hedef.geriOn, el[a], Geride)
  BY AyniUygun
<1>3. ListeKurali(isler', kayip', hedef', el')
  BY <1>1, <1>2, DuzYer, YeniListeNo, ListeYazar
<1>. QED BY <1>3 DEF ListeInv

\* Jobs and lost jobs stay too.
LEMMA ListeDuzYer ==
    ASSUME TipInv, ListeInv, NEW a \in El, NEW f \in Eller, el' = [el EXCEPT ![a] = f], f.yer \in Duzler,
           isler' = isler, kayip' = kayip, hedef'.silmeOn = hedef.silmeOn, hedef'.geriOn = hedef.geriOn,
           el[a].yer # "sYaz"
    PROVE  ListeInv'
  BY AyniKatar, ListeDuz

LEMMA BosDuz == Bosta \in Eller /\ Bosta.yer = "bos" /\ "bos" \in Duzler
  BY BostaTipi DEF Duzler

LEMMA ListeBitir ==
    ASSUME TipInv, ListeInv, NEW a \in El, Bitir(a), isler' = isler, kayip' = kayip,
           hedef'.silmeOn = hedef.silmeOn, hedef'.geriOn = hedef.geriOn, el[a].yer # "sYaz"
    PROVE  ListeInv'
<1>. HIDE DEF Bosta
<1>. QED BY BosDuz, ListeDuzYer DEF Bitir

LEMMA ListeDuzBasla ==
    ASSUME TipInv, ListeInv, NEW a \in El, NEW yer \in Duzler \ {"bos"}, NEW durum \in Durumlar,
           NEW is \in NatYok, NEW gor \in Gorulen, Basla(a, yer, durum, is, gor),
           hedef' = hedef, isler' = isler, kayip' = kayip
    PROVE  ListeInv'
<1>. DEFINE e == Elde(yer, durum, is, gor)
<1>1. yer \in SekmeYerleri \cup ZamYerleri
  BY DEF Duzler, SekmeYerleri, ZamYerleri, Stopta
<1>2. e \in Eller /\ e.yer = yer
  BY <1>1, EldeAlan
<1>3. el' = [el EXCEPT ![a] = e] /\ el[a].yer = "bos"
  BY DEF Basla, Elde
<1>. HIDE DEF e
<1>. QED BY <1>2, <1>3, ListeDuzYer

\* A handler that starts with a list of the row.
LEMMA ListeOkurBasla ==
    ASSUME TipInv, ListeInv, NEW a \in El, NEW yer \in {"jOn", "onYaz", "gClaim", "sClaim", "pClaim"},
           NEW durum \in Durumlar \cup {"silmeOn", "geriOn"}, NEW is \in NatYok, NEW gor,
           Basla(a, yer, durum, is, gor), gor \in {hedef.silmeOn, hedef.geriOn},
           gor # Yok \/ yer = "pClaim", yer \in {"sClaim", "pClaim"} => a = Zam /\ gor = hedef.silmeOn,
           yer = "sClaim" => Taze(gor),
           hedef' = hedef, isler' = isler, kayip' = kayip
    PROVE  ListeInv'
<1>. DEFINE f == Elde(yer, durum, is, gor)
<1>1. /\ el \in [El -> Eller] /\ ListeKurali(isler, kayip, hedef, el) /\ SatirTipi(isler, hedef)
      /\ Len(isler) \in Nat /\ hedef \in Satirlar
  BY Acilim DEF TipInv, ListeInv
<1>2. f \in Eller /\ f.yer = yer /\ f.gor = gor
  <2>1. gor \in Gorulen
    BY <1>1 DEF Satirlar, NatYok, Gorulen
  <2>2. yer \in SekmeYerleri \cup ZamYerleri
    BY DEF SekmeYerleri, ZamYerleri, Planda
  <2>. QED BY <2>1, <2>2, EldeAlan
<1>3. el' = [el EXCEPT ![a] = f] /\ el[a].yer = "bos"
  BY DEF Basla, Elde
<1>. HIDE DEF f
<1>4. f.yer \notin YeniListe /\ f.yer \notin Geride
  BY <1>2 DEF YeniListe, Geride
<1>5. f.yer \in {"sClaim", "pClaim"} /\ gor # Yok /\ ~gor.kul /\ gor.is # Yok => Temiz(isler, kayip, gor.is)
  BY <1>1, <1>2, <1>3 DEF ListeKurali, SilmeListesi
<1>6. f.yer = "sClaim" => ~gor.kul /\ gor.is # Yok
  <2>. SUFFICES ASSUME yer = "sClaim" PROVE ~gor.kul /\ gor.is # Yok
    BY <1>2
  <2>1. Liste(isler, gor, "sil") /\ Taze(gor)
    BY <1>1 DEF SatirTipi, ListeYa
  <2>. QED BY <1>1, <2>1, SekmeZam DEF Liste, Taze, Is, IsMi
<1>7. ElListesi(isler, kayip, f)
  BY <1>2, <1>4, <1>5, <1>6 DEF ElListesi, Planda
<1>8. Okur(f) => \/ hedef.silmeOn # Yok /\ f.gor.is = hedef.silmeOn.is
                 \/ hedef.geriOn # Yok /\ f.gor.is = hedef.geriOn.is
  <2>1. Okur(f) => gor # Yok
    BY <1>2 DEF Okur, Okumus, Planda, Geride, Silmede
  <2>. QED BY <1>2, <2>1
<1>9. Gecer(el, a, f, el')
  BY <1>3 DEF Gecer
<1>10. /\ Uygun(isler, kayip, hedef'.silmeOn, hedef.silmeOn, el[a], Silmede \cup Planda)
       /\ Uygun(isler, kayip, hedef'.geriOn, hedef.geriOn, el[a], Geride)
  BY AyniUygun
<1>11. ListeKurali(isler', kayip', hedef', el')
  BY <1>1, <1>2, <1>3, <1>4, <1>7, <1>8, <1>9, <1>10, AyniKatar, YeniListeNo, ListeYazar
<1>. QED BY <1>11 DEF ListeInv

\* A handler that goes on with what it has read; GeriClaim is apart.
LEMMA ListeGecer ==
    ASSUME TipInv, ListeInv, NEW a \in El, NEW yer, Gecis(el[a].yer, yer), yer # "gBaslat",
           el' = [el EXCEPT ![a] = Donus(el[a], yer)],
           kayip \subseteq kayip', Katar(isler, isler', kayip'), BirKez(isler', kayip'),
           Uygun(isler, kayip, hedef'.silmeOn, hedef.silmeOn, el[a], Silmede \cup Planda),
           hedef'.geriOn = hedef.geriOn
    PROVE  ListeInv'
<1>. DEFINE e == el[a]
            f == Donus(e, yer)
<1>1. el \in [El -> Eller] /\ ListeKurali(isler, kayip, hedef, el) /\ e \in Eller
  BY Acilim DEF TipInv, ListeInv
<1>2. f \in Eller /\ f.yer = yer /\ f.gor = e.gor
  <2>1. yer \in SekmeYerleri \cup ZamYerleri
    BY DEF Gecis, SekmeYerleri, ZamYerleri, Geride, Stopta, Silmede, Planda
  <2>. QED BY <1>1, <2>1, DonusAlan
<1>3. Gecer(el, a, f, el')
  BY DEF Gecer
<1>. HIDE DEF f
<1>4. ElListesi(isler, kayip, e)
  BY <1>1 DEF ListeKurali
<1>. HIDE DEF e
<1>5. Gecis(e.yer, yer)
  BY DEF e
<1>6. f.yer \notin YeniListe /\ e.yer # "sYaz"
  BY <1>2, <1>5 DEF YeniListe, Gecis
<1>7. f.yer \in Geride => e.yer \in Geride
  BY <1>2, <1>5 DEF Gecis, Geride
<1>8. Okur(f) => Okur(e)
  BY <1>2, <1>5 DEF Gecis, Okur, Okumus, Geride, Silmede, Planda
<1>9. ElListesi(isler, kayip, f)
  BY <1>2, <1>4, <1>5 DEF Gecis, ElListesi, Planda, YeniListe
<1>10. ElListesi(isler', kayip', f)
  BY <1>9, ElListesiKatar
<1>11. Uygun(isler, kayip, hedef'.geriOn, hedef.geriOn, e, Geride)
  BY AyniUygun
<1>12. ListeKurali(isler', kayip', hedef', el')
  BY <1>1, <1>2, <1>3, <1>6, <1>7, <1>8, <1>10, <1>11, YeniListeNo, ListeYazar DEF e
<1>. QED BY <1>12 DEF ListeInv

\* The row and time.
LEMMA ListeOrtam ==
    ASSUME TipInv, ListeInv, el' = el, kayip' = kayip, Katar(isler, isler', kayip'), BirKez(isler', kayip'),
           hedef'.geriOn = hedef.geriOn,
           \/ hedef'.silmeOn = hedef.silmeOn
           \/ /\ hedef.silmeOn # Yok /\ hedef'.silmeOn.is = hedef.silmeOn.is
              /\ hedef'.silmeOn.kul = hedef.silmeOn.kul
    PROVE  ListeInv'
<1>1. ListeKurali(isler, kayip, hedef, el)
  BY DEF ListeInv
<1>2. \A a \in El : ElListesi(isler', kayip', el[a]) /\ SatirAyri(hedef', el[a])
  <2>. SUFFICES ASSUME NEW a \in El PROVE ElListesi(isler', kayip', el[a]) /\ SatirAyri(hedef', el[a])
    OBVIOUS
  <2>1. ElListesi(isler', kayip', el[a])
    BY <1>1, ElListesiKatar DEF ListeKurali
  <2>. QED BY <1>1, <2>1 DEF ListeKurali, SatirAyri
<1>3. SilmeListesi(isler', kayip', hedef'.silmeOn, el[Zam])
  <2>. DEFINE o == hedef'.silmeOn
              z == el[Zam]
  <2>. SUFFICES ASSUME o # Yok, ~o.kul, o.is # Yok
                PROVE  Temiz(isler', kayip', o.is) \/ (z.yer = "sYaz" /\ Temiz(isler', kayip' \cup {z.is}, o.is))
    BY DEF SilmeListesi
  <2>1. Temiz(isler, kayip, o.is) \/ (z.yer = "sYaz" /\ Temiz(isler, kayip \cup {z.is}, o.is))
    BY <1>1 DEF ListeKurali, SilmeListesi
  <2>2. Katar(isler, isler', kayip' \cup {z.is})
    BY DEF Katar
  <2>3. CASE Temiz(isler, kayip, o.is)
    BY <2>3, TemizKatar
  <2>4. CASE z.yer = "sYaz" /\ Temiz(isler, kayip \cup {z.is}, o.is)
    <3>1. Temiz(isler', kayip' \cup {z.is}, o.is)
      BY <2>2, <2>4, TemizKatar
    <3>. QED BY <2>4, <3>1
  <2>. QED BY <2>1, <2>3, <2>4
<1>4. GeriListesi(isler', kayip', hedef'.geriOn, el)
  BY <1>1, TemizKatar DEF ListeKurali, GeriListesi
<1>5. \A a \in El : \A b \in El \ {a} : Ayri(el[a], el[b])
  BY <1>1 DEF ListeKurali
<1>6. ListeKurali(isler', kayip', hedef', el')
  BY <1>2, <1>3, <1>4, <1>5 DEF ListeKurali
<1>. QED BY <1>6 DEF ListeInv

-----------------------------------------------------------------------------
\* What a handler may start with.
Baslar(a) ==
    \/ \E yer \in {"kBaslat", "zYaz", "oBaslat", "gpBaslat", "spBaslat", "tNo", "dDus", "dClaim"},
          gor \in NatYok \cup Onaylar :
          Basla(a, yer, hedef.durum, Yok, gor)
    \/ Basla(a, "gClaim", hedef.durum, Yok, hedef.geriOn) /\ Gecerli(hedef.geriOn) /\ GeriAlinir
    \/ /\ a = Zam /\ hedef.durum = "stopped"
       /\ \/ Basla(a, "sClaim", hedef.durum, Yok, hedef.silmeOn) /\ Gecerli(hedef.silmeOn)
          \/ Basla(a, "pClaim", hedef.durum, Yok, hedef.silmeOn)
    \/ \E yer \in {"jOn", "onYaz"}, alan \in {"silmeOn", "geriOn"} :
          /\ hedef[alan] # Yok /\ hedef[alan].durum = "kosar" /\ Biter(hedef[alan].is)
          /\ Basla(a, yer, alan, hedef[alan].is, hedef[alan])
    \/ \E yer \in {"jYaz", "fSor"} :
          /\ hedef.durum \in {"planning", "stopping", "deleting", "rolling_back"}
          /\ Alan(hedef.durum) # Yok
          /\ Basla(a, yer, hedef.durum, Alan(hedef.durum), Yok)

LEMMA IstekSonucu ==
    ASSUME TipInv, NEW s \in Sekme, Istek(s)
    PROVE  Baslar(s) /\ UNCHANGED <<hedef, isler, kayip, uygulama, ezilen, eskiHukum>>
<1>. DEFINE Kalir == UNCHANGED <<hedef, isler, kayip, uygulama, ezilen, eskiHukum>>
<1>1. Yok \in NatYok /\ hedef.izin \in NatYok /\ SayacInv
  BY SekmeZam, Acilim DEF NatYok, Satirlar
<1>2. ASSUME UNCHANGED <<hedef, satirDisi>> PROVE Kalir
  BY <1>2, Kalanlar
<1>3. ASSUME UNCHANGED <<hedef, kayit, ortam, isler, ariza, gecmis>> PROVE Kalir
  BY <1>3 DEF ortam, gecmis
<1>. HIDE DEF Kalir
<1>4. CASE OnKontrolIste(s)
  BY <1>1, <1>3, <1>4 DEF OnKontrolIste, Baslar, Kalir
<1>5. CASE Onayla(s)
  <2>1. [is |-> hedef.izin, acik |-> kayit = "acik"] \in Onaylar
    BY <1>1 DEF Onaylar
  <2>2. \E yer \in {"zYaz", "oBaslat"}, gor \in NatYok \cup Onaylar : Basla(s, yer, hedef.durum, Yok, gor)
    BY <1>1, <1>5, <2>1 DEF Onayla
  <2>. QED BY <1>2, <1>5, <2>2 DEF Onayla, Baslar, Kalir
<1>6. CASE GeriOnIste(s)
  BY <1>1, <1>3, <1>6 DEF GeriOnIste, Baslar, Kalir
<1>7. CASE GeriOnayla(s)
  BY <1>2, <1>7 DEF GeriOnayla, Baslar, Kalir
<1>8. CASE SilmeOnIste(s)
  BY <1>1, <1>3, <1>8 DEF SilmeOnIste, Baslar, Kalir
<1>9. CASE Tazele(s)
  BY <1>1, <1>2, <1>9 DEF Tazele, Baslar, Kalir
<1>10. ASSUME NEW j \in IsNo, IsDurumu(s, j)
       PROVE  Baslar(s) /\ Kalir
  <2>1. Kalir /\ Biter(j) /\ j # Yok
    BY <1>2, <1>10, SekmeZam DEF IsDurumu, IsNo
  <2>2. CASE \E alan \in {"silmeOn", "geriOn"} :
               /\ hedef[alan] # Yok /\ hedef[alan].is = j /\ hedef[alan].durum = "kosar"
               /\ Basla(s, "jOn", alan, j, hedef[alan])
    BY <2>1, <2>2 DEF Baslar
  <2>3. CASE hedef.sonIs = j /\ hedef.durum \in {"planning", "stopping"} /\ Basla(s, "jYaz", hedef.durum, j, Yok)
    <3>1. j = Alan(hedef.durum)
      BY <2>3 DEF Alan
    <3>. QED BY <2>1, <2>3, <3>1 DEF Baslar
  <2>. QED BY <1>10, <2>1, <2>2, <2>3 DEF IsDurumu
<1>. QED BY <1>4, <1>5, <1>6, <1>7, <1>8, <1>9, <1>10 DEF Istek, Kalir

LEMMA ZamBaslaSonucu ==
    ASSUME TipInv, ZamBasla
    PROVE  Baslar(Zam) /\ UNCHANGED <<hedef, isler, kayip, uygulama, ezilen, eskiHukum>>
<1>1. hedef.izin \in NatYok
  BY SekmeZam, Acilim DEF Satirlar
<1>2. UNCHANGED <<hedef, satirDisi>>
  BY DEF ZamBasla, StopListele, SilmeListele, OnKontrolTick, Finalize
<1>3. UNCHANGED <<hedef, isler, kayip, uygulama, ezilen, eskiHukum>>
  BY <1>2, Kalanlar
<1>4. CASE StopListele
  <2>1. \E yer \in {"dDus", "dClaim"} : Basla(Zam, yer, hedef.durum, Yok, hedef.izin)
    BY <1>4 DEF StopListele
  <2>. QED BY <1>1, <1>3, <2>1 DEF Baslar
<1>5. CASE SilmeListele
  BY <1>3, <1>5 DEF SilmeListele, Baslar
<1>6. CASE OnKontrolTick
  BY <1>3, <1>6 DEF OnKontrolTick, Baslar
<1>7. CASE Finalize
  BY <1>3, <1>7 DEF Finalize, Baslar
<1>. QED BY <1>4, <1>5, <1>6, <1>7 DEF ZamBasla

LEMMA ListeBaslar ==
    ASSUME TipInv, ListeInv, NEW a \in El, Baslar(a), hedef' = hedef, isler' = isler, kayip' = kayip
    PROVE  ListeInv'
<1>1. /\ hedef \in Satirlar /\ SatirTipi(isler, hedef) /\ hedef.durum \in Durumlar
      /\ Yok \in NatYok
  BY Acilim DEF Satirlar, NatYok
<1>2. ASSUME NEW yer \in {"kBaslat", "zYaz", "oBaslat", "gpBaslat", "spBaslat", "tNo", "dDus", "dClaim"},
             NEW gor \in NatYok \cup Onaylar, Basla(a, yer, hedef.durum, Yok, gor)
      PROVE  ListeInv'
  <2>1. yer \in Duzler \ {"bos"} /\ gor \in Gorulen
    BY DEF Duzler, Gorulen
  <2>. QED BY <1>1, <1>2, <2>1, ListeDuzBasla
<1>3. CASE Basla(a, "gClaim", hedef.durum, Yok, hedef.geriOn) /\ Gecerli(hedef.geriOn)
  <2>1. hedef.geriOn # Yok
    BY <1>3 DEF Gecerli
  <2>. QED BY <1>1, <1>3, <2>1, ListeOkurBasla
<1>4. CASE a = Zam /\ Basla(a, "sClaim", hedef.durum, Yok, hedef.silmeOn) /\ Gecerli(hedef.silmeOn)
  <2>1. hedef.silmeOn # Yok /\ Taze(hedef.silmeOn)
    BY <1>4 DEF Gecerli, Taze
  <2>. QED BY <1>1, <1>4, <2>1, ListeOkurBasla
<1>5. CASE a = Zam /\ Basla(a, "pClaim", hedef.durum, Yok, hedef.silmeOn)
  BY <1>1, <1>5, ListeOkurBasla
<1>6. ASSUME NEW yer \in {"jOn", "onYaz"}, NEW alan \in {"silmeOn", "geriOn"}, hedef[alan] # Yok,
             Basla(a, yer, alan, hedef[alan].is, hedef[alan])
      PROVE  ListeInv'
  <2>1. hedef[alan] \in {hedef.silmeOn, hedef.geriOn} /\ hedef[alan].is \in NatYok
    BY <1>1, <1>6 DEF Satirlar, Listeler
  <2>. QED BY <1>1, <1>6, <2>1, ListeOkurBasla
<1>7. ASSUME NEW yer \in {"jYaz", "fSor"}, Alan(hedef.durum) # Yok,
             hedef.durum \in {"planning", "stopping", "deleting", "rolling_back"},
             Basla(a, yer, hedef.durum, Alan(hedef.durum), Yok)
      PROVE  ListeInv'
  <2>1. yer \in Duzler \ {"bos"} /\ Yok \in Gorulen
    BY <1>1 DEF Duzler, Gorulen
  <2>2. Alan(hedef.durum) \in NatYok
    BY <1>1, <1>7, AlanTipi DEF Satirlar
  <2>. QED BY <1>1, <1>7, <2>1, <2>2, ListeDuzBasla
<1>. QED BY <1>2, <1>3, <1>4, <1>5, <1>6, <1>7 DEF Baslar

-----------------------------------------------------------------------------
\* The lists in the row and those that handlers have read are of jobs of their kind.
LEMMA ListeNo ==
    ASSUME TipInv
    PROVE  /\ \A b \in El : Okur(el[b]) => el[b].gor.is = Yok \/ IsMi(isler, el[b].gor.is)
           /\ hedef.silmeOn # Yok /\ hedef.silmeOn.is # Yok =>
                 IsMi(isler, hedef.silmeOn.is) /\ isler[hedef.silmeOn.is].tur = "sil"
           /\ hedef.geriOn # Yok /\ hedef.geriOn.is # Yok =>
                 IsMi(isler, hedef.geriOn.is) /\ isler[hedef.geriOn.is].tur = "geri"
           /\ \A b \in El : (el[b].yer \in Planda /\ el[b].gor # Yok) \/ el[b].yer \in {"sClaim", "sBaslat"} =>
                 (el[b].gor.is # Yok => IsMi(isler, el[b].gor.is) /\ isler[el[b].gor.is].tur = "sil")
           /\ \A b \in El : el[b].yer \in Geride => IsMi(isler, el[b].gor.is) /\ isler[el[b].gor.is].tur = "geri"
<1>1. \A o, t : Liste(isler, o, t) /\ o.is # Yok => IsMi(isler, o.is) /\ isler[o.is].tur = t
  BY DEF Liste, Is
<1>2. SatirTipi(isler, hedef) /\ \A b \in El : ElTipi(isler, b, el[b])
  BY DEF TipInv
<1>3. ASSUME NEW b \in El, Okur(el[b])
      PROVE  \E t : Liste(isler, el[b].gor, t)
  <2>1. ElTipi(isler, b, el[b])
    BY <1>2
  <2>2. el[b].yer \in {"jOn", "onYaz"} => \E t : Liste(isler, el[b].gor, t)
    BY <2>1 DEF ElTipi
  <2>3. el[b].yer \in {"gClaim", "sClaim"} \cup Geride \cup Silmede => \E t : Liste(isler, el[b].gor, t)
    BY <2>1 DEF ElTipi
  <2>4. el[b].yer \in Planda /\ el[b].gor # Yok => \E t : Liste(isler, el[b].gor, t)
    BY <2>1 DEF ElTipi, ListeYa
  <2>. QED BY <1>3, <2>2, <2>3, <2>4 DEF Okur, Okumus
<1>4. \A b \in El : Okur(el[b]) => el[b].gor.is = Yok \/ IsMi(isler, el[b].gor.is)
  BY <1>1, <1>3
<1>5. \A b \in El : (el[b].yer \in Planda /\ el[b].gor # Yok) \/ el[b].yer \in {"sClaim", "sBaslat"} =>
         Liste(isler, el[b].gor, "sil")
  BY <1>2 DEF ElTipi, Silmede, ListeYa
<1>6. \A b \in El : el[b].yer \in Geride => Liste(isler, el[b].gor, "geri") /\ Taze(el[b].gor)
  BY <1>2 DEF ElTipi
<1>7. \A b \in El : el[b].yer \in Geride => IsMi(isler, el[b].gor.is) /\ isler[el[b].gor.is].tur = "geri"
  BY <1>6 DEF Liste, Taze, Is
<1>. QED BY <1>1, <1>2, <1>4, <1>5, <1>7 DEF SatirTipi, ListeYa

LEMMA ListeYeni ==
    ASSUME ListeInv, el \in [El -> Eller], NEW a \in El, NEW f \in Eller, Gecer(el, a, f, el'),
           NEW M, isler' = M, kayip' = kayip, hedef' = hedef, BirKez(M, kayip),
           \A b \in El \ {a} : ElListesi(M, kayip, el[b]) /\ SatirAyri(hedef, el[b]) /\ Ayri(f, el[b]),
           SilmeListesi(M, kayip, hedef.silmeOn, el'[Zam]), GeriListesi(M, kayip, hedef.geriOn, el'),
           ElListesi(M, kayip, f), SatirAyri(hedef, f)
    PROVE  ListeInv'
<1>1. ListeKurali(isler, kayip, hedef, el)
  BY DEF ListeInv
<1>2. ListeKurali(M, kayip, hedef, el')
  BY <1>1, ListeAdim
<1>. QED BY <1>2 DEF ListeInv

\* A preflight is started whose list is going to be a new one: nobody has it.
LEMMA ListeYeniPlan ==
    ASSUME TipInv, ListeInv, NEW a \in El, NEW x \in Isler, x.plan, x.liste = Yok, NEW yaz \in YeniListe,
           IsleGecis(el[a].yer, yaz), NEW n, n = Len(isler) + 1,
           isler' = Append(isler, x), kayip' = kayip, hedef' = hedef,
           el' = [el EXCEPT ![a] = Baslamis(el[a], yaz, n)]
    PROVE  ListeInv'
<1>. DEFINE e == el[a]
            f == Baslamis(e, yaz, n)
            M == Append(isler, x)
<1>1. /\ el \in [El -> Eller] /\ ListeKurali(isler, kayip, hedef, el) /\ e \in Eller
      /\ isler \in Seq(Isler) /\ Len(isler) \in Nat
  BY Acilim DEF TipInv, ListeInv
<1>2. n \in Nat /\ n # Yok /\ ~IsMi(isler, n)
  BY <1>1, SekmeZam DEF IsMi
<1>3. f \in Eller /\ f.yer = yaz /\ f.is = n /\ f.gor = e.gor
  <2>1. yaz \in SekmeYerleri \cup ZamYerleri
    BY DEF YeniListe, SekmeYerleri, ZamYerleri, Planda
  <2>. QED BY <1>1, <1>2, <2>1, BaslamisAlan
<1>4. Gecer(el, a, f, el')
  BY DEF Gecer
<1>. HIDE DEF f
<1>5. Katar(isler, M, kayip) /\ BirKez(M, kayip)
  <2>1. ListeVerir(isler, x)
    BY DEF ListeVerir
  <2>. QED BY <1>2, <2>1, YeniKatar
<1>6. /\ Len(M) = n /\ M[n] = x /\ \A j \in 1 .. Len(isler) : M[j] = isler[j]
      /\ \A j \in 1 .. n : j = n \/ j \in 1 .. Len(isler)
  BY <1>1, EkleUzar
<1>. HIDE DEF M
<1>7. Temiz(M, kayip, n)
  <2>. SUFFICES ASSUME NEW j \in 1 .. n, ~M[j].plan, M[j].liste = n PROVE FALSE
    BY <1>6 DEF Temiz
  <2>1. j \in 1 .. Len(isler)
    BY <1>6
  <2>2. ListeVerir(isler, isler[j]) /\ isler[j].liste = n
    BY <1>6, <2>1 DEF TipInv, IsNo
  <2>. QED BY <1>2, <2>2 DEF ListeVerir
<1>8. \/ e.yer = "pBaslat" /\ a = Zam /\ yaz = "pYaz"
      \/ e.yer \in {"gpBaslat", "spBaslat"} /\ yaz \in {"gpYaz", "spYaz"}
  <2>1. a = Zam \/ e.yer # "pBaslat"
    BY Acilim DEF ElTipi, SekmeYerleri, Geride
  <2>. QED BY <2>1 DEF IsleGecis, YeniListe
<1>9. Okur(f) => Okur(e)
  BY <1>3, <1>8 DEF Okur, Okumus, Planda, Geride, Silmede
<1>10. ElListesi(M, kayip, f)
  <2>1. ElListesi(M, kayip, e)
    BY <1>1, <1>5, ElListesiKatar DEF ListeKurali
  <2>2. f.yer \in Planda => e.yer \in Planda
    BY <1>3, <1>8 DEF Planda
  <2>. QED BY <1>3, <1>7, <2>1, <2>2 DEF ElListesi, YeniListe
<1>11. SatirAyri(hedef, f)
  BY <1>2, <1>3, ListeNo DEF SatirAyri
<1>12. \A b \in El \ {a} : ElListesi(M, kayip, el[b]) /\ SatirAyri(hedef, el[b]) /\ Ayri(f, el[b])
  <2>. SUFFICES ASSUME NEW b \in El \ {a}
                PROVE  ElListesi(M, kayip, el[b]) /\ SatirAyri(hedef, el[b]) /\ Ayri(f, el[b])
    OBVIOUS
  <2>1. ElListesi(M, kayip, el[b]) /\ SatirAyri(hedef, el[b]) /\ Ayri(e, el[b])
    BY <1>1, <1>5, ElListesiKatar DEF ListeKurali
  <2>2. el[b].yer \in YeniListe => el[b].is # n
    BY <1>2, YeniListeNo
  <2>3. Okur(el[b]) => el[b].gor.is # n
    BY <1>2, ListeNo
  <2>4. f.yer \notin Geride
    BY <1>3 DEF YeniListe, Geride
  <2>. QED BY <1>3, <1>9, <2>1, <2>2, <2>3, <2>4 DEF Ayri
<1>13. el'[a] = f /\ \A b \in El \ {a} : el'[b] = el[b]
  BY <1>1, <1>3, <1>4 DEF Gecer
<1>14. SilmeListesi(M, kayip, hedef.silmeOn, el'[Zam])
  <2>. DEFINE o == hedef.silmeOn
              z == el[Zam]
  <2>. SUFFICES ASSUME o # Yok, ~o.kul, o.is # Yok
                PROVE  Temiz(M, kayip, o.is) \/ (el'[Zam].yer = "sYaz" /\ Temiz(M, kayip \cup {el'[Zam].is}, o.is))
    BY DEF SilmeListesi
  <2>1. Temiz(isler, kayip, o.is) \/ (z.yer = "sYaz" /\ Temiz(isler, kayip \cup {z.is}, o.is))
    BY <1>1 DEF ListeKurali, SilmeListesi
  <2>2. CASE Temiz(isler, kayip, o.is)
    BY <1>5, <2>2, TemizKatar
  <2>3. CASE z.yer = "sYaz" /\ Temiz(isler, kayip \cup {z.is}, o.is)
    <3>1. el'[Zam] = z
      BY <1>8, <1>13, <2>3, SekmeZam
    <3>2. Katar(isler, M, kayip \cup {z.is})
      BY <1>5 DEF Katar
    <3>3. Temiz(M, kayip \cup {z.is}, o.is)
      BY <2>3, <3>2, TemizKatar
    <3>. QED BY <2>3, <3>1, <3>3
  <2>. QED BY <2>1, <2>2, <2>3
<1>15. GeriListesi(M, kayip, hedef.geriOn, el')
  <2>1. GeriListesi(isler, kayip, hedef.geriOn, el)
    BY <1>1 DEF ListeKurali
  <2>2. \A b \in El : el'[b].yer \in Geride => el'[b] = el[b]
    BY <1>3, <1>13 DEF YeniListe, Geride
  <2>. QED BY <1>5, <2>1, <2>2, TemizKatar DEF GeriListesi
<1>16. isler' = M
  BY DEF M
<1>. QED BY <1>1, <1>3, <1>4, <1>5, <1>10, <1>11, <1>12, <1>14, <1>15, <1>16, ListeYeni

\* A way back or a deletion is started with its list, which no other job has.
LEMMA ListeYeniGercek ==
    ASSUME TipInv, ListeInv, NEW a \in El, NEW yaz \in {"gYaz", "sYaz"}, NEW x \in Isler,
           ~x.plan, x.tur = YerTuru(yaz), x.liste = el[a].gor.is, ListeVerir(isler, x),
           IsleGecis(el[a].yer, yaz), NEW n, n = Len(isler) + 1,
           isler' = Append(isler, x), kayip' = kayip, hedef' = hedef,
           el' = [el EXCEPT ![a] = Baslamis(el[a], yaz, n)]
    PROVE  ListeInv'
<1>. DEFINE e == el[a]
            f == Baslamis(e, yaz, n)
            M == Append(isler, x)
            g == e.gor.is
<1>1. /\ el \in [El -> Eller] /\ ListeKurali(isler, kayip, hedef, el) /\ e \in Eller
      /\ isler \in Seq(Isler) /\ Len(isler) \in Nat
  BY Acilim DEF TipInv, ListeInv
<1>2. n \in Nat
  BY <1>1
<1>3. f \in Eller /\ f.yer = yaz /\ f.is = n /\ f.gor = e.gor
  <2>1. yaz \in SekmeYerleri \cup ZamYerleri
    BY DEF SekmeYerleri, ZamYerleri, Geride, Silmede
  <2>. QED BY <1>1, <1>2, <2>1, BaslamisAlan
<1>4. Gecer(el, a, f, el')
  BY DEF Gecer
<1>. HIDE DEF f
<1>5. Katar(isler, M, kayip \cup {n})
  BY <1>1, YeniKatar
<1>6. /\ Len(M) = n /\ M[n] = x /\ \A j \in 1 .. Len(isler) : M[j] = isler[j]
      /\ \A j \in 1 .. n : j = n \/ j \in 1 .. Len(isler)
  BY <1>1, EkleUzar
<1>. HIDE DEF M
<1>7. \/ yaz = "gYaz" /\ e.yer = "gBaslat" /\ a # Zam /\ x.tur = "geri"
      \/ yaz = "sYaz" /\ e.yer = "sBaslat" /\ a = Zam /\ x.tur = "sil"
  <2>1. /\ a = Zam => e.yer # "gBaslat"
        /\ a # Zam => e.yer # "sBaslat"
    BY Acilim DEF ElTipi, SekmeYerleri, ZamYerleri, Geride, Silmede, Stopta, Planda
  <2>. QED BY <2>1 DEF IsleGecis, YerTuru
<1>8. g # Yok /\ IsMi(isler, g) /\ isler[g].tur = x.tur /\ Temiz(isler, kayip, g)
  <2>1. Temiz(isler, kayip, g)
    BY <1>1, <1>7 DEF ListeKurali, ElListesi
  <2>. QED BY <1>7, <2>1 DEF ListeVerir
<1>. HIDE DEF g
<1>9. \A l, K : l # g /\ Temiz(isler, K, l) => Temiz(M, K, l)
  BY <1>6 DEF Temiz, g
<1>10. BirKez(M, kayip)
  <2>. SUFFICES ASSUME NEW i \in 1 .. n, NEW j \in 1 .. n, i # j, ~M[i].plan, ~M[j].plan, M[i].tur # "stop",
                       M[i].liste = M[j].liste
                PROVE  i \in kayip \/ j \in kayip
    BY <1>6 DEF BirKez
  <2>1. CASE i = n /\ j \in 1 .. Len(isler)
    <3>1. isler[j].liste = g /\ ~isler[j].plan
      BY <1>6, <2>1 DEF g
    <3>2. ListeVerir(isler, isler[j])
      BY <2>1 DEF TipInv, IsNo
    <3>3. isler[j].tur # "stop"
      BY <1>7, <1>8, <3>1, <3>2 DEF ListeVerir
    <3>. QED BY <1>8, <2>1, <3>1, <3>3 DEF Temiz
  <2>2. CASE j = n /\ i \in 1 .. Len(isler)
    <3>1. isler[i].liste = g /\ ~isler[i].plan /\ isler[i].tur # "stop"
      BY <1>6, <2>2 DEF g
    <3>. QED BY <1>8, <2>2, <3>1 DEF Temiz
  <2>3. CASE i \in 1 .. Len(isler) /\ j \in 1 .. Len(isler)
    <3>1. BirKez(isler, kayip) /\ M[i] = isler[i] /\ M[j] = isler[j]
      BY <1>1, <1>6, <2>3 DEF ListeKurali
    <3>. QED BY <2>3, <3>1 DEF BirKez
  <2>. QED BY <1>6, <2>1, <2>2, <2>3
<1>11. Okur(f) /\ Okur(e) /\ (f.yer \in Geride <=> e.yer \in Geride) /\ f.yer \notin YeniListe /\ e.yer \notin YeniListe
  BY <1>3, <1>7 DEF Okur, Okumus, Geride, Silmede, YeniListe
<1>12. ElListesi(M, kayip, f) /\ SatirAyri(hedef, f)
  BY <1>3, <1>7 DEF ElListesi, SatirAyri, YeniListe, Planda
<1>13. \A b \in El \ {a} : ElListesi(M, kayip, el[b]) /\ SatirAyri(hedef, el[b]) /\ Ayri(f, el[b])
  <2>. SUFFICES ASSUME NEW b \in El \ {a}
                PROVE  ElListesi(M, kayip, el[b]) /\ SatirAyri(hedef, el[b]) /\ Ayri(f, el[b])
    OBVIOUS
  <2>. DEFINE h == el[b]
  <2>1. ElListesi(isler, kayip, h) /\ SatirAyri(hedef, h) /\ Ayri(e, h)
    BY <1>1 DEF ListeKurali
  <2>2. Ayri(f, h)
    BY <1>3, <1>11, <2>1 DEF Ayri
  <2>3. h.yer \in YeniListe => h.is # g
    BY <1>11, <2>1 DEF Ayri, g
  <2>4. h.yer \in {"gBaslat", "gGeri"} => h.gor.is # g
    <3>1. CASE a # Zam
      BY <1>7, <2>1, <3>1 DEF Ayri, g, Geride
    <3>2. CASE a = Zam
      <4>1. h.yer \in Geride => isler[h.gor.is].tur = "geri"
        BY ListeNo
      <4>. QED BY <1>7, <1>8, <3>2, <4>1 DEF Geride
    <3>. QED BY <3>1, <3>2
  <2>5. /\ (h.yer \in Planda /\ h.gor # Yok) \/ h.yer \in {"sClaim", "sBaslat"}
        /\ h.gor.is # Yok
        => h.gor.is # g
    <3>. SUFFICES ASSUME (h.yer \in Planda /\ h.gor # Yok) \/ h.yer \in {"sClaim", "sBaslat"}, h.gor.is # Yok
                  PROVE  h.gor.is # g
      OBVIOUS
    <3>1. isler[h.gor.is].tur = "sil"
      BY ListeNo
    <3>2. b = Zam
      BY Acilim DEF ElTipi, SekmeYerleri, Geride, Planda
    <3>. QED BY <1>7, <1>8, <3>1, <3>2
  <2>6. h.yer \in {"sClaim", "sBaslat"} => h.gor.is # Yok
    <3>. SUFFICES ASSUME h.yer \in {"sClaim", "sBaslat"} PROVE h.gor.is # Yok
      OBVIOUS
    <3>1. Liste(isler, h.gor, "sil") /\ Taze(h.gor) /\ Len(isler) \in Nat
      BY Acilim DEF ElTipi, Silmede
    <3>. QED BY <3>1, SekmeZam DEF Liste, Taze, Is, IsMi
  <2>7. ElListesi(M, kayip, h)
    <3>. HIDE DEF h
    <3>. QED BY <1>9, <2>1, <2>3, <2>4, <2>5, <2>6 DEF ElListesi
  <2>. QED BY <2>1, <2>2, <2>7
<1>14. el'[a] = f /\ \A b \in El \ {a} : el'[b] = el[b]
  BY <1>1, <1>3, <1>4 DEF Gecer
<1>15. SilmeListesi(M, kayip, hedef.silmeOn, el'[Zam])
  <2>. DEFINE o == hedef.silmeOn
              z == el[Zam]
  <2>. SUFFICES ASSUME o # Yok, ~o.kul, o.is # Yok
                PROVE  Temiz(M, kayip, o.is) \/ (el'[Zam].yer = "sYaz" /\ Temiz(M, kayip \cup {el'[Zam].is}, o.is))
    BY DEF SilmeListesi
  <2>1. Temiz(isler, kayip, o.is) \/ (z.yer = "sYaz" /\ Temiz(isler, kayip \cup {z.is}, o.is))
    BY <1>1 DEF ListeKurali, SilmeListesi
  <2>2. CASE a = Zam
    <3>1. Temiz(isler, kayip, o.is)
      BY <1>7, <2>1, <2>2
    <3>2. Temiz(M, kayip \cup {n}, o.is)
      BY <1>5, <3>1, TemizKatar
    <3>. QED BY <1>3, <1>7, <1>14, <2>2, <3>2
  <2>3. CASE a # Zam
    <3>1. el'[Zam] = z
      BY <1>14, <2>3, SekmeZam
    <3>2. o.is # g
      BY <1>7, <1>8, <2>3, ListeNo
    <3>. QED BY <1>9, <2>1, <3>1, <3>2
  <2>. QED BY <2>2, <2>3
<1>16. GeriListesi(M, kayip, hedef.geriOn, el')
  <2>. DEFINE o == hedef.geriOn
  <2>. SUFFICES ASSUME o # Yok, ~o.kul, o.is # Yok
                PROVE  Temiz(M, kayip, o.is) /\ \A b \in El : el'[b].yer \in Geride => el'[b].gor.is # o.is
    BY DEF GeriListesi
  <2>1. Temiz(isler, kayip, o.is) /\ \A b \in El : el[b].yer \in Geride => el[b].gor.is # o.is
    BY <1>1 DEF ListeKurali, GeriListesi
  <2>2. o.is # g
    <3>1. CASE a = Zam
      BY <1>7, <1>8, <3>1, ListeNo
    <3>2. CASE a # Zam
      BY <1>7, <2>1, <3>2 DEF Geride, g
    <3>. QED BY <3>1, <3>2
  <2>. QED BY <1>3, <1>9, <1>11, <1>14, <2>1, <2>2
<1>17. isler' = M
  BY DEF M
<1>. QED BY <1>1, <1>3, <1>4, <1>10, <1>12, <1>13, <1>15, <1>16, <1>17, ListeYeni

\* Whatever a launch leads to.
LEMMA ListeBaslatir ==
    ASSUME TipInv, ListeInv, NEW a \in El, NEW tur, NEW plan, NEW liste, NEW yaz, NEW red,
           Baslatir(a, tur, plan, liste, yaz, red)
    PROVE  ListeInv'
<1>. DEFINE x == YeniIs(tur, plan, liste)
            n == Len(isler) + 1
            e == el[a]
<1>1. tur \in {"stop", "sil", "geri"} /\ plan \in BOOLEAN
  BY DEF Baslatir, YerTuru
<1>2. Baslat(a, tur, plan, liste, yaz, red) /\ (liste = Yok \/ IsMi(isler, liste))
  BY DEF Baslatir
<1>3. /\ hedef' = hedef /\ x \in Isler
      /\ \/ /\ isler' = Append(isler, x) /\ kayip' = kayip
            /\ el' = [el EXCEPT ![a] = Baslamis(e, yaz, n)]
         \/ isler' = isler /\ kayip' = kayip /\ el' = [el EXCEPT ![a] = Donus(e, red)]
         \/ /\ isler' = Append(isler, x) /\ kayip' = kayip \cup {n}
            /\ el' = [el EXCEPT ![a] = Donus(e, red)]
  BY <1>1, <1>2, BaslatSonucu
<1>4. x.tur = tur /\ x.plan = plan /\ x.liste = liste
  BY DEF YeniIs
<1>5. ListeVerir(isler, x)
  BY <1>4 DEF ListeVerir, Baslatir
<1>6. e \in Eller /\ n \in Nat /\ e.yer # "sYaz"
  BY Acilim DEF Baslatir, IsleGecis
<1>. HIDE DEF x
<1>7. \A L : kayip \subseteq L /\ (plan \/ tur = "stop" \/ n \in L) =>
         Katar(isler, Append(isler, x), L) /\ BirKez(Append(isler, x), L)
  BY <1>3, <1>4, <1>5, YeniKatar
<1>8. CASE /\ isler' = Append(isler, x) /\ kayip' = kayip
           /\ el' = [el EXCEPT ![a] = Baslamis(e, yaz, n)]
  <2>1. CASE yaz \in YeniListe
    <3>1. x.plan /\ x.liste = Yok
      BY <1>4, <2>1 DEF Baslatir, YeniListe, PlanYazan
    <3>. QED BY <1>3, <1>8, <2>1, <3>1, ListeYeniPlan DEF Baslatir
  <2>2. CASE yaz \in {"gYaz", "sYaz"}
    <3>0. (yaz \in PlanYazan) = FALSE
      BY <2>2 DEF PlanYazan
    <3>0a. plan = (yaz \in PlanYazan) /\ liste = el[a].gor.is /\ tur = YerTuru(yaz)
      BY <2>2 DEF Baslatir
    <3>1. ~x.plan /\ x.liste = e.gor.is /\ x.tur = YerTuru(yaz)
      BY <1>4, <3>0, <3>0a
    <3>. QED BY <1>3, <1>5, <1>8, <2>2, <3>1, ListeYeniGercek DEF Baslatir
  <2>3. CASE yaz \in {"kYaz", "oYaz", "dYaz"}
    <3>. DEFINE f == Baslamis(e, yaz, n)
    <3>1. yaz \in SekmeYerleri \cup ZamYerleri /\ yaz \in Duzler /\ tur = "stop"
      BY <2>3 DEF SekmeYerleri, ZamYerleri, Stopta, Duzler, Baslatir, YerTuru
    <3>2. f \in Eller /\ f.yer = yaz
      BY <1>6, <3>1, BaslamisAlan
    <3>. HIDE DEF f
    <3>3. Katar(isler, isler', kayip') /\ BirKez(isler', kayip') /\ kayip \subseteq kayip'
      BY <1>7, <1>8, <3>1
    <3>4. el' = [el EXCEPT ![a] = f]
      BY <1>8 DEF f
    <3>. QED BY <1>3, <1>6, <3>1, <3>2, <3>3, <3>4, ListeDuz
  <2>. QED BY <2>1, <2>2, <2>3 DEF Baslatir, IsleGecis, YeniListe
<1>9. ASSUME el' = [el EXCEPT ![a] = Donus(e, red)], kayip \subseteq kayip',
             Katar(isler, isler', kayip'), BirKez(isler', kayip')
      PROVE  ListeInv'
  <2>1. CASE red = "bos"
    <3>1. el' = [el EXCEPT ![a] = Bosta]
      BY <1>9, <2>1 DEF Donus
    <3>. HIDE DEF Bosta
    <3>. QED BY <1>3, <1>6, <1>9, <3>1, BosDuz, ListeDuz
  <2>2. CASE red # "bos"
    <3>1. Gecis(e.yer, red) /\ red # "gBaslat"
      BY <2>2 DEF Baslatir, Gecis, IsleGecis
    <3>2. Uygun(isler, kayip, hedef'.silmeOn, hedef.silmeOn, e, Silmede \cup Planda)
      BY <1>3, AyniUygun
    <3>. QED BY <1>3, <1>9, <3>1, <3>2, ListeGecer
  <2>. QED BY <2>1, <2>2
<1>10. CASE isler' = isler /\ kayip' = kayip /\ el' = [el EXCEPT ![a] = Donus(e, red)]
  BY <1>9, <1>10, AyniKatar
<1>11. CASE /\ isler' = Append(isler, x) /\ kayip' = kayip \cup {n}
            /\ el' = [el EXCEPT ![a] = Donus(e, red)]
  <2>1. Katar(isler, isler', kayip') /\ BirKez(isler', kayip') /\ kayip \subseteq kayip'
    BY <1>7, <1>11
  <2>. QED BY <1>9, <1>11, <2>1
<1>. QED BY <1>3, <1>8, <1>10, <1>11

\* A handler that writes the row and ends.
LEMMA ListeYazBitir ==
    ASSUME TipInv, ListeInv, NEW a \in El, Bitir(a), isler' = isler, kayip' = kayip,
           Uygun(isler, kayip, hedef'.silmeOn, hedef.silmeOn, el[a], Silmede \cup Planda),
           Uygun(isler, kayip, hedef'.geriOn, hedef.geriOn, el[a], Geride),
           el[a].yer = "sYaz" => hedef'.silmeOn.kul
    PROVE  ListeInv'
<1>. DEFINE f == Bosta
<1>1. el \in [El -> Eller] /\ ListeKurali(isler, kayip, hedef, el) /\ f \in Eller /\ f.yer \in Duzler
  BY BosDuz DEF TipInv, ListeInv
<1>2. Gecer(el, a, f, el')
  BY DEF Gecer, Bitir
<1>. HIDE DEF f
<1>3. Katar(isler, isler', kayip') /\ BirKez(isler', kayip') /\ kayip \subseteq kayip'
  BY AyniKatar
<1>4. ListeKurali(isler', kayip', hedef', el')
  BY <1>1, <1>2, <1>3, DuzYer, YeniListeNo, ListeYazar
<1>. QED BY <1>4 DEF ListeInv

LEMMA OnKontrolAlan == \A d, j : OnKontrol(d, j).is = j /\ OnKontrol(d, j).kul = FALSE
  BY DEF OnKontrol

LEMMA ListeSekmeYazar ==
    ASSUME TipInv, ListeInv, NEW s \in Sekme,
           \/ OnKontrolYaz(s) \/ Zamanla(s) \/ OnayYaz(s) \/ GeriOnYaz(s) \/ GeriClaim(s)
           \/ GeriGeri(s) \/ GeriYaz(s) \/ SilmeOnYaz(s)
    PROVE  ListeInv'
<1>. DEFINE e == el[s]
<1>1. s \in El
  BY SekmeZam
<1>2. /\ SatirTipi(isler, hedef) /\ hedef \in Satirlar
      /\ e \in Eller /\ ElTipi(isler, s, e) /\ ListeKurali(isler, kayip, hedef, el)
  BY <1>1, Acilim DEF ListeInv
<1>3. \A S : Uygun(isler, kayip, hedef.silmeOn, hedef.silmeOn, e, S) /\ Uygun(isler, kayip, hedef.geriOn, hedef.geriOn, e, S)
  BY AyniUygun
<1>4. ElListesi(isler, kayip, e)
  BY <1>1, <1>2 DEF ListeKurali
<1>5. isler' = isler /\ kayip' = kayip
  BY DEF OnKontrolYaz, Zamanla, OnayYaz, GeriOnYaz, GeriClaim, GeriGeri, GeriYaz, SilmeOnYaz,
         satirDisi, disari, gecmis
<1>6. CASE OnKontrolYaz(s) \/ Zamanla(s) \/ OnayYaz(s)
  <2>1. hedef'.silmeOn = hedef.silmeOn /\ hedef'.geriOn = hedef.geriOn
    BY <1>2, <1>6 DEF OnKontrolYaz, Zamanla, OnayYaz, Satirlar
  <2>2. Bitir(s) /\ el[s].yer # "sYaz"
    BY <1>6 DEF OnKontrolYaz, Zamanla, OnayYaz, Yerinde
  <2>. QED BY <1>1, <1>5, <2>1, <2>2, ListeBitir
<1>. HIDE DEF e
<1>7. CASE GeriOnYaz(s)
  <2>. DEFINE o == OnKontrol("kosar", e.is)
  <2>1. e.yer = "gpYaz" /\ hedef' \in {[hedef EXCEPT !.geriOn = o], hedef} /\ Bitir(s)
    BY <1>7 DEF GeriOnYaz, Yerinde, e
  <2>2. o.is = e.is
    BY OnKontrolAlan
  <2>. HIDE DEF o
  <2>3. hedef'.silmeOn = hedef.silmeOn /\ hedef'.geriOn \in {o, hedef.geriOn}
    BY <1>2, <2>1 DEF Satirlar
  <2>4. Uygun(isler, kayip, o, hedef.geriOn, e, Geride)
    BY <2>1, <2>2 DEF Uygun, YeniListe
  <2>. QED BY <1>1, <1>3, <1>5, <2>1, <2>3, <2>4, ListeYazBitir DEF e
<1>8. CASE SilmeOnYaz(s)
  <2>. DEFINE o == OnKontrol("kosar", e.is)
  <2>1. e.yer = "spYaz" /\ hedef' \in {[hedef EXCEPT !.silmeOn = o], hedef} /\ Bitir(s)
    BY <1>8 DEF SilmeOnYaz, Yerinde, e
  <2>2. o.is = e.is
    BY OnKontrolAlan
  <2>. HIDE DEF o
  <2>3. hedef'.geriOn = hedef.geriOn /\ hedef'.silmeOn \in {o, hedef.silmeOn}
    BY <1>2, <2>1 DEF Satirlar
  <2>4. Uygun(isler, kayip, o, hedef.silmeOn, e, Silmede \cup Planda)
    BY <2>1, <2>2 DEF Uygun, YeniListe
  <2>. QED BY <1>1, <1>3, <1>5, <2>1, <2>3, <2>4, ListeYazBitir DEF e
<1>9. CASE GeriGeri(s)
  <2>1. e.yer = "gGeri" /\ hedef' \in {[hedef EXCEPT !.durum = e.durum, !.geriOn = e.gor], hedef} /\ Bitir(s)
    BY <1>9 DEF GeriGeri, Yerinde, e
  <2>2. hedef'.silmeOn = hedef.silmeOn /\ hedef'.geriOn \in {e.gor, hedef.geriOn}
    BY <1>2, <2>1 DEF Satirlar
  <2>3. Uygun(isler, kayip, e.gor, hedef.geriOn, e, Geride)
    BY <1>4, <2>1 DEF Uygun, ElListesi, Okur, Okumus, Geride
  <2>. QED BY <1>1, <1>3, <1>5, <2>1, <2>2, <2>3, ListeYazBitir DEF e
<1>10. CASE GeriYaz(s)
  <2>. DEFINE o == Kullan(e.gor)
  <2>1. e.yer = "gYaz" /\ hedef' \in {[hedef EXCEPT !.geriIs = e.is, !.geriOn = o], hedef} /\ Bitir(s)
    BY <1>10 DEF GeriYaz, Yerinde, e, Kullan
  <2>2. o.is = e.gor.is /\ o.kul
    BY <1>2, <2>1, KullanTipi DEF ElTipi, Geride, Taze
  <2>. HIDE DEF o
  <2>3. hedef'.silmeOn = hedef.silmeOn /\ hedef'.geriOn \in {o, hedef.geriOn}
    BY <1>2, <2>1 DEF Satirlar
  <2>4. Uygun(isler, kayip, o, hedef.geriOn, e, Geride)
    BY <2>1, <2>2 DEF Uygun, Okur, Okumus, Geride
  <2>. QED BY <1>1, <1>3, <1>5, <2>1, <2>3, <2>4, ListeYazBitir DEF e
<1>11. CASE GeriClaim(s)
  <2>1. e.yer = "gClaim"
    BY <1>11 DEF GeriClaim, Yerinde, e
  <2>2. CASE hedef' = hedef /\ Bitir(s)
    BY <1>1, <1>5, <2>1, <2>2, ListeBitir DEF e
  <2>3. CASE /\ Ayni(hedef.geriOn, e.gor) /\ el' = [el EXCEPT ![s].yer = "gBaslat"]
             /\ hedef' = [hedef EXCEPT !.durum = "rolling_back", !.geriIs = Yok, !.geriOn = Kullan(hedef.geriOn)]
    <3>. DEFINE p == hedef.geriOn
                f == Donus(e, "gBaslat")
    <3>1. Liste(isler, e.gor, "geri") /\ e.gor.durum = "ok" /\ ~e.gor.kul
      BY <1>2, <2>1 DEF ElTipi, Taze
    <3>2. Liste(isler, p, "geri") /\ p.durum = "ok" /\ ~p.kul /\ p.is = e.gor.is
      BY <1>2, <2>3, <3>1, AyniTipi DEF SatirTipi
    <3>3. p # Yok /\ p.is # Yok
      <4>1. e.gor # Yok /\ Len(isler) \in Nat
        BY <1>1, <1>2, <2>1, Acilim DEF ElTipi
      <4>2. p # Yok
        BY <2>3, <4>1 DEF Ayni
      <4>3. IsMi(isler, p.is)
        BY <3>2 DEF Liste, Is
      <4>. QED BY <4>1, <4>2, <4>3, SekmeZam DEF IsMi
    <3>4. hedef'.silmeOn = hedef.silmeOn /\ hedef'.geriOn = Kullan(p)
      BY <1>2, <2>3 DEF Satirlar
    <3>5. hedef'.geriOn.is = p.is /\ hedef'.geriOn.kul
      BY <3>2, <3>4, KullanTipi
    <3>6. f \in Eller /\ f.yer = "gBaslat" /\ f.gor = e.gor /\ f = [e EXCEPT !.yer = "gBaslat"]
      <4>1. "gBaslat" \in SekmeYerleri \cup ZamYerleri
        BY DEF SekmeYerleri, Geride
      <4>. QED BY <1>2, <4>1, DonusAlan
    <3>7. el \in [El -> Eller]
      BY DEF TipInv
    <3>8. Gecer(el, s, f, el')
      BY <1>1, <2>3, <3>6, <3>7 DEF Gecer, e
    <3>. HIDE DEF f
    <3>9. Temiz(isler, kayip, p.is)
      BY <1>2, <3>2, <3>3 DEF ListeKurali, GeriListesi
    <3>10. ElListesi(isler, kayip, f) /\ f.yer \notin YeniListe
      BY <3>2, <3>6, <3>9 DEF ElListesi, Planda, YeniListe
    <3>11. Okur(e) /\ e.yer # "sYaz"
      BY <2>1 DEF Okur, Okumus
    <3>12. Uygun(isler, kayip, hedef'.geriOn, p, e, Geride)
      BY <3>3, <3>5 DEF Uygun
    <3>13. Uygun(isler, kayip, hedef'.silmeOn, hedef.silmeOn, e, Silmede \cup Planda)
      BY <1>3, <3>4
    <3>. HIDE DEF p
    <3>14. Katar(isler, isler', kayip') /\ BirKez(isler', kayip') /\ kayip \subseteq kayip'
      BY <1>5, AyniKatar
    <3>15. ElListesi(isler', kayip', f)
      BY <1>5, <3>10
    <3>16. ListeKurali(isler', kayip', hedef', el')
      BY <1>1, <1>2, <3>2, <3>3, <3>5, <3>6, <3>7, <3>8, <3>10, <3>11, <3>12, <3>13, <3>14, <3>15,
         YeniListeNo, ListeYazar DEF e, p
    <3>. QED BY <3>16 DEF ListeInv
  <2>. QED BY <1>11, <2>2, <2>3 DEF GeriClaim, Kullan, e
<1>. QED BY <1>6, <1>7, <1>8, <1>9, <1>10, <1>11

LEMMA ListeOnSonuc ==
    ASSUME TipInv, ListeInv, NEW a \in El, NEW yer \in {"jOn", "onYaz"}, OnSonuc(a, yer)
    PROVE  ListeInv'
<1>. DEFINE e == el[a]
            o == OnKontrol(IF Oldu(e.is) THEN "ok" ELSE "failed", e.is)
<1>1. SatirTipi(isler, hedef) /\ hedef \in Satirlar /\ ElTipi(isler, a, e)
  BY Acilim
<1>2. e.yer = yer /\ Bitir(a) /\ isler' = isler /\ kayip' = kayip
  BY Kalanlar DEF OnSonuc, Yerinde
<1>3. \/ hedef' = hedef
      \/ Ayni(hedef[e.durum], e.gor) /\ hedef' = [hedef EXCEPT ![e.durum] = o]
  BY DEF OnSonuc
<1>4. o.is = e.is /\ o.kul = FALSE
  BY OnKontrolAlan
<1>. HIDE DEF o, e
<1>5. /\ \/ e.durum = "silmeOn" /\ Liste(isler, e.gor, "sil")
         \/ e.durum = "geriOn" /\ Liste(isler, e.gor, "geri")
      /\ e.gor.durum = "kosar" /\ e.gor.is = e.is /\ e.gor # Yok
  BY <1>1, <1>2 DEF ElTipi
<1>6. ~e.gor.kul
  BY <1>5 DEF Liste, Listeler
<1>7. \A p, S : Ayni(p, e.gor) => Uygun(isler, kayip, o, p, e, S)
  BY <1>4, <1>5, <1>6 DEF Ayni, Uygun
<1>8. \A p, S : Uygun(isler, kayip, p, p, e, S)
  BY AyniUygun
<1>9. /\ \/ hedef'.silmeOn = hedef.silmeOn
         \/ Ayni(hedef.silmeOn, e.gor) /\ hedef'.silmeOn = o
      /\ \/ hedef'.geriOn = hedef.geriOn
         \/ Ayni(hedef.geriOn, e.gor) /\ hedef'.geriOn = o
  BY <1>1, <1>3, <1>5 DEF Satirlar
<1>10. e.yer # "sYaz"
  BY <1>2
<1>. QED BY <1>2, <1>7, <1>8, <1>9, <1>10, ListeYazBitir DEF e

LEMMA SonucListe ==
    ASSUME hedef \in Satirlar, NEW d, NEW j
    PROVE  /\ SonucYaz(d, j).silmeOn = hedef.silmeOn /\ SonucYaz(d, j).geriOn = hedef.geriOn
           /\ SonucYaz(d, j).sonIs = hedef.sonIs /\ SonucYaz(d, j).silmeIs = hedef.silmeIs
           /\ SonucYaz(d, j).geriIs = hedef.geriIs
           /\ SonucYaz(d, j).durum = IF hedef.durum # d THEN hedef.durum ELSE Sonuc(d, j)
<1>. DEFINE s == Sonuc(d, j)
<1>1. SonucYaz(d, j) = IF hedef.durum # d THEN hedef
                       ELSE [hedef EXCEPT !.durum = s, !.silindi = @ \/ s = "deleted"]
  BY DEF SonucYaz
<1>. HIDE DEF s
<1>2. CASE hedef.durum # d
  BY <1>1, <1>2
<1>3. CASE hedef.durum = d
  BY <1>1, <1>3 DEF Satirlar, s
<1>. QED BY <1>2, <1>3

\* The verdict about a preflight of a STOP leaves the numbers and the lists alone.
LEMMA PlanListe ==
    ASSUME hedef \in Satirlar, NEW j, PlanYazilir(j)
    PROVE  /\ hedef'.silmeOn = hedef.silmeOn /\ hedef'.geriOn = hedef.geriOn
           /\ hedef'.sonIs = hedef.sonIs /\ hedef'.silmeIs = hedef.silmeIs /\ hedef'.geriIs = hedef.geriIs
           /\ hedef'.durum \in {"planned", "failed"}
<1>1. PICK d \in {"planned", "failed"}, iz \in {j, Yok} : hedef' = [hedef EXCEPT !.durum = d, !.izin = iz]
  BY PlanSonucuAlan, Zenon
<1>. QED BY <1>1 DEF Satirlar

LEMMA ListeSekmeHukum ==
    ASSUME TipInv, ListeInv, NEW s \in Sekme, IsDurumuYaz(s) \/ OnDurumuYaz(s) \/ TazeleYaz(s)
    PROVE  ListeInv'
<1>1. s \in El /\ hedef \in Satirlar
  BY SekmeZam, Acilim
<1>2. CASE IsDurumuYaz(s)
  <2>1. hedef'.silmeOn = hedef.silmeOn /\ hedef'.geriOn = hedef.geriOn
    <3>1. \/ PlanYazilir(el[s].is)
          \/ \E d \in {"stopped", "failed"} : hedef' = [hedef EXCEPT !.durum = d]
      BY <1>2 DEF IsDurumuYaz, PlanYazilir
    <3>2. CASE \E d \in {"stopped", "failed"} : hedef' = [hedef EXCEPT !.durum = d]
      BY <1>1, <3>2 DEF Satirlar
    <3>. QED BY <1>1, <3>1, <3>2, PlanListe
  <2>2. Bitir(s) /\ el[s].yer # "sYaz" /\ isler' = isler /\ kayip' = kayip
    BY <1>2 DEF IsDurumuYaz, Yerinde
  <2>. QED BY <1>1, <2>1, <2>2, ListeBitir
<1>3. CASE OnDurumuYaz(s)
  BY <1>1, <1>3, ListeOnSonuc DEF OnDurumuYaz
<1>4. CASE TazeleYaz(s)
  <2>1. hedef'.silmeOn = hedef.silmeOn /\ hedef'.geriOn = hedef.geriOn
    <3>1. PlanYazilir(el[s].is) \/ hedef' = SonucYaz(el[s].durum, el[s].is)
      BY <1>4 DEF TazeleYaz, PlanYazilir
    <3>. QED BY <1>1, <3>1, PlanListe, SonucListe
  <2>2. Bitir(s) /\ el[s].yer # "sYaz" /\ isler' = isler /\ kayip' = kayip
    BY <1>4 DEF TazeleYaz, Yerinde
  <2>. QED BY <1>1, <2>1, <2>2, ListeBitir
<1>. QED BY <1>2, <1>3, <1>4

\* A question reads no list.
LEMMA ListeSorar == ASSUME TipInv, ListeInv, Sorar PROVE ListeInv'
<1>1. UNCHANGED <<hedef, satirDisi>>
  BY SorarSonucu
<1>2. hedef' = hedef /\ isler' = isler /\ kayip' = kayip
  BY <1>1, Kalanlar
<1>3. PICK a \in El :
         /\ el[a].yer \in {"tNo", "tSor", "fSor"}
         /\ \/ Bitir(a)
            \/ \E f : /\ el' = [el EXCEPT ![a] = f] /\ f \in Eller
                      /\ f.yer \in {"tSor", "tYaz", "fYaz"}
  BY SorarSonucu
<1>4. CASE Bitir(a)
  BY <1>2, <1>3, <1>4, ListeBitir
<1>5. ASSUME NEW f \in Eller, el' = [el EXCEPT ![a] = f], f.yer \in {"tSor", "tYaz", "fYaz"}
      PROVE  ListeInv'
  <2>1. f.yer \in Duzler
    BY <1>5 DEF Duzler
  <2>. QED BY <1>2, <1>3, <1>5, <2>1, ListeDuzYer
<1>. QED BY <1>3, <1>4, <1>5

LEMMA ListeZamYazar ==
    ASSUME TipInv, ListeInv,
           \/ StopDus \/ StopClaim \/ StopGeri \/ StopYaz \/ PlanClaim \/ PlanGeri \/ PlanYaz
           \/ SilmeClaim \/ SilmeGeri \/ SilmeYaz \/ OnKontrolTickYaz \/ FinalizeYaz \/ FinalizeKayit
    PROVE  ListeInv'
<1>. DEFINE e == el[Zam]
<1>1. Zam \in El
  BY SekmeZam
<1>2. /\ SatirTipi(isler, hedef) /\ hedef \in Satirlar /\ el \in [El -> Eller]
      /\ e \in Eller /\ ElTipi(isler, Zam, e) /\ ListeKurali(isler, kayip, hedef, el)
  BY <1>1, Acilim DEF ListeInv, TipInv
<1>3. \A S : Uygun(isler, kayip, hedef.silmeOn, hedef.silmeOn, e, S) /\ Uygun(isler, kayip, hedef.geriOn, hedef.geriOn, e, S)
  BY AyniUygun
<1>4. ElListesi(isler, kayip, e)
  BY <1>1, <1>2 DEF ListeKurali
<1>5. isler' = isler /\ kayip' = kayip
  BY DEF StopDus, StopClaim, StopGeri, StopYaz, PlanClaim, PlanGeri, PlanYaz, SilmeClaim, SilmeGeri, SilmeYaz,
         OnKontrolTickYaz, OnSonuc, FinalizeYaz, FinalizeKayit, satirDisi, disari, gecmis
<1>6. Katar(isler, isler', kayip') /\ BirKez(isler', kayip') /\ kayip \subseteq kayip'
  BY <1>5, AyniKatar
<1>7. ASSUME Bitir(Zam), hedef'.silmeOn = hedef.silmeOn, hedef'.geriOn = hedef.geriOn, e.yer # "sYaz"
      PROVE  ListeInv'
  BY <1>1, <1>5, <1>7, ListeBitir
<1>8. ASSUME NEW yer \in ZamYerleri, Gecis(e.yer, yer), yer # "gBaslat", el' = [el EXCEPT ![Zam].yer = yer],
             Uygun(isler, kayip, hedef'.silmeOn, hedef.silmeOn, e, Silmede \cup Planda),
             hedef'.geriOn = hedef.geriOn
      PROVE  ListeInv'
  <2>1. Donus(e, yer) = [e EXCEPT !.yer = yer]
    BY <1>2, DonusAlan
  <2>2. el' = [el EXCEPT ![Zam] = Donus(e, yer)]
    BY <1>1, <1>2, <1>8, <2>1
  <2>. QED BY <1>1, <1>6, <1>8, <2>2, ListeGecer
<1>9. CASE StopDus \/ StopGeri \/ StopYaz \/ SilmeGeri \/ FinalizeKayit
  <2>1. hedef'.silmeOn = hedef.silmeOn /\ hedef'.geriOn = hedef.geriOn
    BY <1>2, <1>9 DEF StopDus, StopGeri, StopYaz, SilmeGeri, FinalizeKayit, Satirlar
  <2>2. Bitir(Zam) /\ e.yer # "sYaz"
    BY <1>9 DEF StopDus, StopGeri, StopYaz, SilmeGeri, FinalizeKayit, Yerinde
  <2>. QED BY <1>7, <2>1, <2>2
<1>10. CASE StopClaim
  <2>1. hedef'.silmeOn = hedef.silmeOn /\ hedef'.geriOn = hedef.geriOn
    BY <1>2, <1>10 DEF StopClaim, Satirlar
  <2>2. Gecis(e.yer, "dBaslat") /\ e.yer # "sYaz" /\ "dBaslat" \in ZamYerleri
    BY <1>10 DEF StopClaim, Yerinde, Gecis, ZamYerleri, Stopta
  <2>3. Bitir(Zam) \/ el' = [el EXCEPT ![Zam].yer = "dBaslat"]
    BY <1>10 DEF StopClaim
  <2>. QED BY <1>3, <1>7, <1>8, <2>1, <2>2, <2>3
<1>11. CASE SilmeClaim
  <2>1. hedef'.silmeOn = hedef.silmeOn /\ hedef'.geriOn = hedef.geriOn
    BY <1>2, <1>11 DEF SilmeClaim, Satirlar
  <2>2. Gecis(e.yer, "sBaslat") /\ e.yer # "sYaz" /\ "sBaslat" \in ZamYerleri
    BY <1>11 DEF SilmeClaim, Yerinde, Gecis, ZamYerleri, Silmede
  <2>3. Bitir(Zam) \/ el' = [el EXCEPT ![Zam].yer = "sBaslat"]
    BY <1>11 DEF SilmeClaim
  <2>. QED BY <1>3, <1>7, <1>8, <2>1, <2>2, <2>3
<1>12. CASE FinalizeYaz
  <2>1. hedef'.silmeOn = hedef.silmeOn /\ hedef'.geriOn = hedef.geriOn
    BY <1>2, <1>12, SonucListe DEF FinalizeYaz
  <2>2. Gecis(e.yer, "fKayit") /\ e.yer # "sYaz" /\ "fKayit" \in ZamYerleri
    BY <1>12 DEF FinalizeYaz, Yerinde, Gecis, ZamYerleri
  <2>3. Bitir(Zam) \/ el' = [el EXCEPT ![Zam].yer = "fKayit"]
    BY <1>12 DEF FinalizeYaz
  <2>. QED BY <1>3, <1>7, <1>8, <2>1, <2>2, <2>3
<1>13. CASE PlanClaim
  <2>. DEFINE o == OnKontrol("baslar", Yok)
  <2>1. o.is = Yok
    BY OnKontrolAlan
  <2>2. \/ hedef' = hedef /\ Bitir(Zam)
        \/ hedef' = [hedef EXCEPT !.silmeOn = o] /\ el' = [el EXCEPT ![Zam].yer = "pBaslat"]
    BY <1>13 DEF PlanClaim
  <2>. HIDE DEF o
  <2>3. Gecis(e.yer, "pBaslat") /\ e.yer # "sYaz" /\ "pBaslat" \in ZamYerleri
    BY <1>13 DEF PlanClaim, Yerinde, Gecis, ZamYerleri, Planda
  <2>4. CASE hedef' = hedef /\ Bitir(Zam)
    BY <1>7, <2>3, <2>4
  <2>5. CASE hedef' = [hedef EXCEPT !.silmeOn = o] /\ el' = [el EXCEPT ![Zam].yer = "pBaslat"]
    <3>1. hedef'.silmeOn = o /\ hedef'.geriOn = hedef.geriOn
      BY <1>2, <2>5 DEF Satirlar
    <3>2. Uygun(isler, kayip, hedef'.silmeOn, hedef.silmeOn, e, Silmede \cup Planda)
      BY <2>1, <3>1 DEF Uygun
    <3>. QED BY <1>8, <2>3, <2>5, <3>1, <3>2
  <2>. QED BY <2>2, <2>4, <2>5
<1>. HIDE DEF e
<1>14. CASE PlanGeri
  <2>1. e.yer = "pGeri" /\ Bitir(Zam) /\ hedef' \in {[hedef EXCEPT !.silmeOn = e.gor], hedef}
    BY <1>14 DEF PlanGeri, Yerinde, e
  <2>2. hedef'.geriOn = hedef.geriOn /\ hedef'.silmeOn \in {e.gor, hedef.silmeOn}
    BY <1>2, <2>1 DEF Satirlar
  <2>3. Uygun(isler, kayip, e.gor, hedef.silmeOn, e, Silmede \cup Planda)
    BY <1>4, <2>1 DEF Uygun, ElListesi, Okur, Planda
  <2>. QED BY <1>1, <1>3, <1>5, <2>1, <2>2, <2>3, ListeYazBitir DEF e
<1>15. CASE PlanYaz
  <2>. DEFINE o == OnKontrol("kosar", e.is)
  <2>1. e.yer = "pYaz" /\ Bitir(Zam) /\ hedef' \in {[hedef EXCEPT !.silmeOn = o], hedef}
    BY <1>15 DEF PlanYaz, Yerinde, e
  <2>2. o.is = e.is
    BY OnKontrolAlan
  <2>. HIDE DEF o
  <2>3. hedef'.geriOn = hedef.geriOn /\ hedef'.silmeOn \in {o, hedef.silmeOn}
    BY <1>2, <2>1 DEF Satirlar
  <2>4. Uygun(isler, kayip, o, hedef.silmeOn, e, Silmede \cup Planda)
    BY <2>1, <2>2 DEF Uygun, YeniListe
  <2>. QED BY <1>1, <1>3, <1>5, <2>1, <2>3, <2>4, ListeYazBitir DEF e
<1>16. CASE SilmeYaz
  <2>. DEFINE o == Kullan(e.gor)
  <2>1. e.yer = "sYaz" /\ Bitir(Zam) /\ hedef' = [hedef EXCEPT !.silmeIs = e.is, !.silmeOn = o]
    BY <1>16 DEF SilmeYaz, Yerinde, e, Kullan
  <2>2. o.is = e.gor.is /\ o.kul
    BY <1>2, <2>1, KullanTipi DEF ElTipi, Silmede, Taze
  <2>. HIDE DEF o
  <2>3. hedef'.geriOn = hedef.geriOn /\ hedef'.silmeOn = o
    BY <1>2, <2>1 DEF Satirlar
  <2>4. Uygun(isler, kayip, o, hedef.silmeOn, e, Silmede \cup Planda)
    BY <2>1, <2>2 DEF Uygun, Okur, Okumus, Silmede
  <2>. QED BY <1>1, <1>3, <1>5, <2>1, <2>2, <2>3, <2>4, ListeYazBitir DEF e
<1>17. CASE OnKontrolTickYaz
  BY <1>1, <1>17, ListeOnSonuc DEF OnKontrolTickYaz
<1>. QED BY <1>9, <1>10, <1>11, <1>12, <1>13, <1>14, <1>15, <1>16, <1>17

LEMMA ListeDisari ==
    ASSUME TipInv, ListeInv, Iptal \/ Cikar \/ PencereIlerler \/ SilmeGunu \/ Bayatla \/ \E j \in IsNo : Uzlastir(j)
    PROVE  ListeInv'
<1>1. hedef \in Satirlar /\ SatirTipi(isler, hedef)
  BY SekmeZam, Acilim
<1>2. el' = el /\ isler' = isler /\ kayip' = kayip
  BY DEF Iptal, Cikar, PencereIlerler, SilmeGunu, Bayatla, Uzlastir, gecmis
<1>3. CASE Iptal \/ Cikar \/ PencereIlerler \/ SilmeGunu \/ \E j \in IsNo : Uzlastir(j)
  <2>1. hedef'.silmeOn = hedef.silmeOn /\ hedef'.geriOn = hedef.geriOn
    BY <1>1, <1>3 DEF Iptal, Cikar, PencereIlerler, SilmeGunu, Uzlastir, Satirlar
  <2>. QED BY <1>2, <2>1, AyniKatar, ListeOrtam
<1>4. CASE Bayatla
  <2>1. hedef' = [hedef EXCEPT !.silmeOn = Yasla(hedef.silmeOn)] /\ hedef.silmeOn # Yok
    BY <1>4 DEF Bayatla, Yasla
  <2>2. hedef'.silmeOn = Yasla(hedef.silmeOn) /\ hedef'.geriOn = hedef.geriOn
    BY <1>1, <2>1 DEF Satirlar
  <2>3. Liste(isler, hedef.silmeOn, "sil")
    BY <1>1, <2>1 DEF SatirTipi, ListeYa
  <2>4. hedef'.silmeOn.is = hedef.silmeOn.is /\ hedef'.silmeOn.kul = hedef.silmeOn.kul
    BY <2>2, <2>3, YaslaTipi
  <2>. QED BY <1>2, <2>1, <2>2, <2>4, AyniKatar, ListeOrtam
<1>. QED BY <1>3, <1>4

LEMMA ListeAwx == ASSUME TipInv, ListeInv, NEW j \in IsNo, AwxBiter(j) PROVE ListeInv'
<1>1. isler \in Seq(Isler) /\ j \in 1 .. Len(isler)
  BY DEF TipInv, IsNo
<1>2. PICK d \in {"ok", "hata"} : isler' = Bitmis(isler, j, d)
  BY AwxSonucu
<1>3. ~Bitti(isler, j) /\ hedef' = hedef /\ el' = el /\ kayip' = kayip
  BY AwxSonucu
<1>. DEFINE M == Bitmis(isler, j, d)
<1>4. /\ Len(M) = Len(isler)
      /\ \A i \in 1 .. Len(isler) :
           M[i].tur = isler[i].tur /\ M[i].plan = isler[i].plan /\ M[i].liste = isler[i].liste
  BY <1>1, <1>3, BiterUzar
<1>. HIDE DEF M
<1>5. isler' = M
  BY <1>2 DEF M
<1>6. Katar(isler, M, kayip)
  BY <1>4 DEF Katar
<1>7. BirKez(M, kayip)
  BY <1>4 DEF ListeInv, ListeKurali, BirKez
<1>8. Katar(isler, isler', kayip') /\ BirKez(isler', kayip')
  BY <1>3, <1>5, <1>6, <1>7
<1>. QED BY <1>3, <1>8, ListeOrtam

LEMMA ListeArizalar == ASSUME TipInv, ListeInv, Cokme \/ \E a \in El : DbHata(a) PROVE ListeInv'
<1>1. \A E \in SUBSET El : \A a \in E : el[a].yer = "sYaz" => el[a].is \in Yazilmamis(E)
  BY DEF Yazilmamis
<1>2. ASSUME NEW a \in El, DbHata(a)
      PROVE  ListeInv'
  <2>1. /\ Bitir(a) /\ kayip' = kayip \cup Yazilmamis({a}) /\ hedef' = hedef /\ isler' = isler
    BY <1>2 DEF DbHata
  <2>2. el[a].yer = "sYaz" => el[a].is \in kayip'
    BY <1>1, <2>1
  <2>3. kayip \subseteq kayip' /\ Katar(isler, isler', kayip') /\ BirKez(isler', kayip')
    BY <2>1, AyniKatar
  <2>4. el' = [el EXCEPT ![a] = Bosta]
    BY <2>1 DEF Bitir
  <2>. HIDE DEF Bosta
  <2>. QED BY <2>1, <2>2, <2>3, <2>4, BosDuz, ListeDuz
<1>3. CASE Cokme
  <2>1. /\ el' = [a \in El |-> Bosta] /\ kayip' = kayip \cup Yazilmamis(El) /\ hedef' = hedef /\ isler' = isler
    BY <1>3 DEF Cokme
  <2>2. kayip \subseteq kayip' /\ Katar(isler, isler, kayip') /\ BirKez(isler, kayip')
    BY <2>1, AyniKatar
  <2>3. ListeKurali(isler, kayip, hedef, el)
    BY DEF ListeInv
  <2>4. \A a \in El : el'[a].yer = "bos"
    <3>. HIDE DEF Bosta
    <3>. QED BY <2>1, BosDuz
  <2>5. \A a \in El : ElListesi(isler, kayip', el'[a]) /\ SatirAyri(hedef, el'[a])
    BY <2>4 DEF ElListesi, SatirAyri, YeniListe, Planda
  <2>6. \A a \in El : \A b \in El \ {a} : Ayri(el'[a], el'[b])
    BY <2>4 DEF Ayri, YeniListe, Geride
  <2>7. GeriListesi(isler, kayip', hedef.geriOn, el')
    BY <2>2, <2>3, <2>4, TemizKatar DEF ListeKurali, GeriListesi, Geride
  <2>8. SilmeListesi(isler, kayip', hedef.silmeOn, el'[Zam])
    <3>. DEFINE o == hedef.silmeOn
                z == el[Zam]
    <3>. SUFFICES ASSUME o # Yok, ~o.kul, o.is # Yok PROVE Temiz(isler, kayip', o.is)
      BY DEF SilmeListesi
    <3>1. Temiz(isler, kayip, o.is) \/ (z.yer = "sYaz" /\ Temiz(isler, kayip \cup {z.is}, o.is))
      BY <2>3 DEF ListeKurali, SilmeListesi
    <3>2. z.yer = "sYaz" => kayip \cup {z.is} \subseteq kayip'
      BY <1>1, <2>1, SekmeZam
    <3>. QED BY <2>2, <3>1, <3>2, TemizKatar
  <2>9. ListeKurali(isler, kayip', hedef, el')
    BY <2>2, <2>5, <2>6, <2>7, <2>8 DEF ListeKurali
  <2>. QED BY <2>1, <2>9 DEF ListeInv
<1>. QED BY <1>2, <1>3

LEMMA ListeBaslangic == Init => ListeInv
<1>. SUFFICES ASSUME Init PROVE ListeInv
  OBVIOUS
<1>1. Len(isler) = 0 /\ hedef.silmeOn = Yok /\ hedef.geriOn = Yok
  BY DEF Init, IlkHedef
<1>2. \A a \in El : el[a].yer = "bos"
  <2>1. el = [a \in El |-> Bosta]
    BY DEF Init
  <2>. HIDE DEF Bosta
  <2>. QED BY <2>1, BosDuz
<1>3. SilmeListesi(isler, kayip, hedef.silmeOn, el[Zam]) /\ GeriListesi(isler, kayip, hedef.geriOn, el)
  BY <1>1 DEF SilmeListesi, GeriListesi
<1>4. \A a \in El : ElListesi(isler, kayip, el[a]) /\ SatirAyri(hedef, el[a])
  BY <1>2 DEF ElListesi, SatirAyri, YeniListe, Planda
<1>5. \A a \in El : \A b \in El \ {a} : Ayri(el[a], el[b])
  BY <1>2 DEF Ayri, YeniListe, Geride
<1>6. BirKez(isler, kayip)
  BY <1>1 DEF BirKez
<1>. QED BY <1>3, <1>4, <1>5, <1>6 DEF ListeInv, ListeKurali

LEMMA ListeKorunur == TipInv /\ ListeInv /\ [Next]_vars => ListeInv'
<1>. SUFFICES ASSUME TipInv, ListeInv, [Next]_vars PROVE ListeInv'
  OBVIOUS
<1>1. CASE UNCHANGED vars
  BY <1>1 DEF vars, satirDisi, disari, ortam, gecmis, ListeInv
<1>2. ASSUME NEW s \in Sekme, Istek(s) PROVE ListeInv'
  BY <1>2, IstekSonucu, ListeBaslar, SekmeZam
<1>3. ASSUME NEW s \in Sekme, SekmeAdimi(s) PROVE ListeInv'
  <2>1. CASE OnKontrolBaslat(s) \/ OnayBaslat(s) \/ GeriOnBaslat(s) \/ GeriBaslat(s) \/ SilmeOnBaslat(s)
    <3>1. PICK tur, plan, liste, yaz, red : Baslatir(s, tur, plan, liste, yaz, red)
      BY <2>1, SekmeBaslatir
    <3>. QED BY <3>1, SekmeZam, ListeBaslatir
  <2>. QED BY <1>3, <2>1, ListeSekmeYazar, ListeSekmeHukum, ListeSorar DEF SekmeAdimi, Sorar
<1>4. CASE ZamBasla
  BY <1>4, ZamBaslaSonucu, ListeBaslar, SekmeZam
<1>5. CASE ZamAdimi
  <2>1. CASE StopBaslat \/ PlanBaslat \/ SilmeBaslat
    <3>1. PICK tur, plan, liste, yaz, red : Baslatir(Zam, tur, plan, liste, yaz, red)
      BY <2>1, ZamBaslatir
    <3>. QED BY <3>1, SekmeZam, ListeBaslatir
  <2>. QED BY <1>5, <2>1, ListeZamYazar, ListeSorar DEF ZamAdimi, Sorar
<1>6. CASE Iptal \/ Cikar \/ PencereIlerler \/ SilmeGunu \/ Bayatla \/ Cokme \/ \E a \in El : DbHata(a)
  BY <1>6, ListeDisari, ListeArizalar
<1>7. ASSUME NEW j \in IsNo, Uzlastir(j) \/ AwxBiter(j) PROVE ListeInv'
  BY <1>7, ListeDisari, ListeAwx
<1>. QED BY <1>1, <1>2, <1>3, <1>4, <1>5, <1>6, <1>7 DEF Next

\* Where the lists are: what is in the row unused, what a handler has read and what a preflight that
\* is not written yet will become are lists that no job was given but for those the portal lost.
THEOREM ListeInvDogru == Spec => []ListeInv
  BY ListeBaslangic, ListeKorunur, TipInvDogru, PTL DEF Spec

\* The list of one preflight is given to one deletion or one way back, for any number of tabs,
\* jobs, refusals, lost answers, faults and restarts; only a job that the portal lost may share it.
THEOREM ListeBirKezDogru == Spec => []ListeBirKez
<1>1. ListeInv => ListeBirKez
  BY DEF ListeInv, ListeKurali, BirKez, ListeBirKez, Gercek, IsNo
<1>. QED BY <1>1, ListeInvDogru, PTL

-----------------------------------------------------------------------------
(***************************************************************************)
(* The status: what a step of a handler, or of the row, keeps              *)
(***************************************************************************)

Gecici == {"stopping", "deleting", "rolling_back"}
Calisan(J) == {j \in 1 .. Len(J) : ~J[j].plan /\ ~Bitti(J, j)}

LEMMA BirSimetrik == ASSUME NEW e, NEW f, Bir(e, f) PROVE Bir(f, e)
  BY DEF Bir

\* The handler a comes to f, and the row and the jobs may change.
LEMMA DurumAdim ==
    ASSUME NEW J, NEW h, NEW u, NEW E \in [El -> Eller], DurumKurali(J, h, u, E),
           NEW M, NEW r, NEW v, NEW a \in El, NEW f \in Eller, NEW F, Gecer(E, a, f, F),
           \A j \in Calisan(M) : Bagli(M, r, F, j),
           SatirKurali(M, r, v), ElKurali(M, r, v, f),
           \A b \in El \ {a} : ElKurali(M, r, v, E[b]) /\ Bir(f, E[b])
    PROVE  DurumKurali(M, r, v, F)
<1>1. F[a] = f /\ \A b \in El \ {a} : F[b] = E[b]
  BY DEF Gecer
<1>2. \A b \in El : ElKurali(M, r, v, F[b])
  BY <1>1
<1>3. \A b, c \in El : b # c => Bir(F[b], F[c])
  <2>. SUFFICES ASSUME NEW b \in El, NEW c \in El, b # c PROVE Bir(F[b], F[c])
    OBVIOUS
  <2>1. CASE b = a
    BY <1>1, <2>1
  <2>2. CASE c = a
    BY <1>1, <2>2, BirSimetrik
  <2>3. CASE b # a /\ c # a
    BY <1>1, <2>3 DEF DurumKurali
  <2>. QED BY <2>1, <2>2, <2>3
<1>. QED BY <1>2, <1>3 DEF DurumKurali, Calisan

\* The handler alone: a job it was bound to must be that of the row.
LEMMA DurumEl ==
    ASSUME NEW J, NEW h, NEW u, NEW E \in [El -> Eller], DurumKurali(J, h, u, E),
           NEW a \in El, NEW f \in Eller, NEW F, Gecer(E, a, f, F),
           E[a].yer \in {"oYaz", "dYaz"} => h.durum = "stopping" /\ h.sonIs = E[a].is,
           E[a].yer \notin {"gYaz", "sYaz"},
           ElKurali(J, h, u, f), \A b \in El \ {a} : Bir(f, E[b])
    PROVE  DurumKurali(J, h, u, F)
<1>1. F[a] = f /\ \A b \in El \ {a} : F[b] = E[b]
  BY DEF Gecer
<1>2. ASSUME NEW j \in Calisan(J) PROVE Bagli(J, h, F, j)
  <2>1. Bagli(J, h, E, j)
    BY DEF DurumKurali, Calisan
  <2>2. J[j].tur = "stop" => (h.durum = "stopping" /\ h.sonIs = j)
                             \/ \E b \in El : F[b].yer \in {"oYaz", "dYaz"} /\ F[b].is = j
    BY <1>1, <2>1 DEF Bagli
  <2>3. J[j].tur = "sil" => h.durum = "deleting" /\ (h.silmeIs = j \/ (F[Zam].yer = "sYaz" /\ F[Zam].is = j))
    BY <1>1, <2>1, SekmeZam DEF Bagli
  <2>4. J[j].tur = "geri" => h.durum = "rolling_back"
                             /\ (h.geriIs = j \/ \E b \in El : F[b].yer = "gYaz" /\ F[b].is = j)
    BY <1>1, <2>1 DEF Bagli
  <2>. QED BY <2>2, <2>3, <2>4 DEF Bagli
<1>3. \A b \in El \ {a} : ElKurali(J, h, u, E[b])
  BY DEF DurumKurali
<1>4. SatirKurali(J, h, u)
  BY DEF DurumKurali
<1>. QED BY <1>2, <1>3, <1>4, DurumAdim

LEMMA BosKurali ==
    \A J, h, u, e : ElKurali(J, h, u, Bosta) /\ Bir(Bosta, e)
  BY DEF ElKurali, Bir, Bosta, Stopta, Silmede, Planda, Geride

LEMMA DurumBitir ==
    ASSUME NEW J, NEW h, NEW u, NEW E \in [El -> Eller], DurumKurali(J, h, u, E),
           NEW a \in El, NEW F, Gecer(E, a, Bosta, F),
           E[a].yer \in {"oYaz", "dYaz"} => h.durum = "stopping" /\ h.sonIs = E[a].is,
           E[a].yer \notin {"gYaz", "sYaz"}
    PROVE  DurumKurali(J, h, u, F)
<1>1. Bosta \in Eller
  BY BosDuz
<1>2. \A b \in El : ElKurali(J, h, u, Bosta) /\ Bir(Bosta, E[b])
  BY BosKurali
<1>. HIDE DEF Bosta
<1>. QED BY <1>1, <1>2, DurumEl

\* While the row waits for no job at work, nothing works but STOPs that are not written yet, and
\* no handler holds a claim.
LEMMA Sakin ==
    ASSUME NEW J, NEW h, NEW u, NEW E, DurumKurali(J, h, u, E), h.durum \notin Gecici
    PROVE  /\ \A a \in El : E[a].yer \notin Stopta \cup Silmede \cup Geride
           /\ \A j \in Calisan(J) : /\ J[j].tur \notin {"sil", "geri"}
                                    /\ J[j].tur = "stop" => \E a \in El : E[a].yer = "oYaz" /\ E[a].is = j
<1>1. \A a \in El : ElKurali(J, h, u, E[a])
  BY DEF DurumKurali
<1>2. \A a \in El : E[a].yer \notin Stopta \cup Silmede \cup Geride
  BY <1>1 DEF ElKurali, Gecici
<1>3. \A j \in Calisan(J) : Bagli(J, h, E, j)
  BY DEF DurumKurali, Calisan
<1>. QED BY <1>2, <1>3 DEF Bagli, Gecici, Stopta

\* Such a row alone.
LEMMA DurumSakin ==
    ASSUME NEW J, NEW h, NEW u, NEW E, DurumKurali(J, h, u, E), h.durum \notin Gecici,
           NEW r, SatirKurali(J, r, u), r.durum # "deleting", r.silmeOn = h.silmeOn,
           \A j \in 1 .. Len(J) : J[j].tur \in {"stop", "sil", "geri"}
    PROVE  DurumKurali(J, r, u, E)
<1>1. \A j \in Calisan(J) : Bagli(J, r, E, j)
  BY Sakin DEF Bagli, Calisan
<1>2. ASSUME NEW b \in El PROVE ElKurali(J, r, u, E[b])
  <2>1. E[b].yer \notin Stopta \cup Silmede \cup Geride
    BY Sakin
  <2>2. ElKurali(J, h, u, E[b])
    BY DEF DurumKurali
  <2>. QED BY <2>1, <2>2 DEF ElKurali
<1>. QED BY <1>1, <1>2 DEF DurumKurali, Calisan

\* The lists of the row alone.
LEMMA DurumListe ==
    ASSUME NEW J, NEW h, NEW u, NEW E, DurumKurali(J, h, u, E),
           NEW r, r.durum = h.durum, r.sonIs = h.sonIs, r.silmeIs = h.silmeIs, r.geriIs = h.geriIs,
           \/ r.silmeOn = h.silmeOn
           \/ r.silmeOn # Yok /\ ~r.silmeOn.kul
           \/ h.durum # "deleting" /\ \A b \in El : E[b].yer # "sClaim",
           r.geriOn = h.geriOn \/ h.durum # "rolling_back"
    PROVE  DurumKurali(J, r, u, E)
<1>1. \A j \in Calisan(J) : Bagli(J, r, E, j)
  BY DEF Bagli, Calisan, DurumKurali
<1>2. SatirKurali(J, h, u)
  BY DEF DurumKurali
<1>3. SatirKurali(J, r, u)
  BY <1>2 DEF SatirKurali
<1>4. ASSUME NEW b \in El PROVE ElKurali(J, r, u, E[b])
  <2>1. ElKurali(J, h, u, E[b])
    BY DEF DurumKurali
  <2>2. E[b].yer \in {"sClaim"} \cup Silmede => r.silmeOn # Yok /\ ~r.silmeOn.kul
    BY <2>1 DEF ElKurali
  <2>. QED BY <2>1, <2>2 DEF ElKurali
<1>. QED BY <1>1, <1>3, <1>4 DEF DurumKurali, Calisan

LEMMA Turler == ASSUME TipInv PROVE \A j \in 1 .. Len(isler) : isler[j].tur \in {"stop", "sil", "geri"} /\ isler[j].plan \in BOOLEAN
  BY IsTipi DEF IsNo, Isler

\* A handler starts.
LEMMA DurumBaslar ==
    ASSUME TipInv, DurumKurali(isler, hedef, uygulama, el), NEW a \in El, Baslar(a)
    PROVE  DurumKurali(isler, hedef, uygulama, el')
<1>1. /\ hedef \in Satirlar /\ SatirTipi(isler, hedef) /\ hedef.durum \in Durumlar /\ Yok \in NatYok
      /\ el \in [El -> Eller]
  BY Acilim DEF Satirlar, NatYok, TipInv
<1>3. ASSUME NEW yer \in SekmeYerleri \cup ZamYerleri, NEW durum \in Durumlar \cup {"silmeOn", "geriOn"},
             NEW is \in NatYok, NEW gor \in Gorulen, Basla(a, yer, durum, is, gor),
             yer \notin Stopta \cup Silmede \cup Geride,
             yer \in {"sClaim", "pClaim"} => hedef.durum # "deleting",
             yer = "sClaim" => hedef.silmeOn # Yok /\ ~hedef.silmeOn.kul,
             yer \notin {"pBaslat", "pYaz", "pGeri"}
      PROVE  DurumKurali(isler, hedef, uygulama, el')
  <2>. DEFINE f == Elde(yer, durum, is, gor)
  <2>1. f \in Eller /\ f.yer = yer
    BY <1>3, EldeAlan
  <2>2. Gecer(el, a, f, el') /\ el[a].yer = "bos"
    BY <1>3 DEF Basla, Elde, Gecer
  <2>. HIDE DEF f
  <2>3. ElKurali(isler, hedef, uygulama, f)
    BY <1>3, <2>1 DEF ElKurali, Planda
  <2>4. \A b \in El : Bir(f, el[b])
    BY <1>3, <2>1 DEF Bir
  <2>. QED BY <1>1, <2>1, <2>2, <2>3, <2>4, DurumEl
<1>4. ASSUME NEW yer \in {"kBaslat", "zYaz", "oBaslat", "gpBaslat", "spBaslat", "tNo", "dDus", "dClaim"},
             NEW gor \in NatYok \cup Onaylar, Basla(a, yer, hedef.durum, Yok, gor)
      PROVE  DurumKurali(isler, hedef, uygulama, el')
  <2>1. /\ yer \in SekmeYerleri \cup ZamYerleri /\ yer \notin Stopta \cup Silmede \cup Geride
        /\ yer \notin {"pBaslat", "pYaz", "pGeri", "sClaim", "pClaim"} /\ gor \in Gorulen
    BY DEF SekmeYerleri, ZamYerleri, Stopta, Silmede, Geride, Gorulen
  <2>. QED BY <1>1, <1>3, <1>4, <2>1
<1>5. CASE Basla(a, "gClaim", hedef.durum, Yok, hedef.geriOn) /\ Gecerli(hedef.geriOn)
  <2>1. "gClaim" \in SekmeYerleri \cup ZamYerleri /\ "gClaim" \notin Stopta \cup Silmede \cup Geride
    BY DEF SekmeYerleri, Stopta, Silmede, Geride
  <2>2. hedef.geriOn \in Gorulen
    BY <1>1 DEF Satirlar, NatYok, Gorulen
  <2>. QED BY <1>1, <1>3, <1>5, <2>1, <2>2
<1>6. ASSUME NEW yer \in {"sClaim", "pClaim"}, Basla(a, yer, hedef.durum, Yok, hedef.silmeOn),
             hedef.durum = "stopped", yer = "sClaim" => Gecerli(hedef.silmeOn)
      PROVE  DurumKurali(isler, hedef, uygulama, el')
  <2>1. /\ yer \in SekmeYerleri \cup ZamYerleri /\ yer \notin Stopta \cup Silmede \cup Geride
        /\ yer \notin {"pBaslat", "pYaz", "pGeri"}
    BY DEF ZamYerleri, Stopta, Silmede, Geride, Planda
  <2>2. hedef.silmeOn \in Gorulen
    BY <1>1 DEF Satirlar, NatYok, Gorulen
  <2>3. yer = "sClaim" => hedef.silmeOn # Yok /\ ~hedef.silmeOn.kul
    BY <1>6 DEF Gecerli
  <2>. QED BY <1>1, <1>3, <1>6, <2>1, <2>2, <2>3
<1>7. ASSUME NEW yer \in {"jOn", "onYaz"}, NEW alan \in {"silmeOn", "geriOn"}, hedef[alan] # Yok,
             Basla(a, yer, alan, hedef[alan].is, hedef[alan])
      PROVE  DurumKurali(isler, hedef, uygulama, el')
  <2>1. hedef[alan] \in Gorulen /\ hedef[alan].is \in NatYok
    BY <1>1, <1>7 DEF Satirlar, Listeler, Gorulen
  <2>2. /\ yer \in SekmeYerleri \cup ZamYerleri /\ yer \notin Stopta \cup Silmede \cup Geride
        /\ yer \notin {"pBaslat", "pYaz", "pGeri", "sClaim", "pClaim"}
    BY DEF SekmeYerleri, ZamYerleri, Stopta, Silmede, Geride
  <2>. QED BY <1>3, <1>7, <2>1, <2>2
<1>8. ASSUME NEW yer \in {"jYaz", "fSor"}, NEW j, j = Alan(hedef.durum), j # Yok,
             hedef.durum \in {"planning", "stopping", "deleting", "rolling_back"},
             Basla(a, yer, hedef.durum, j, Yok)
      PROVE  DurumKurali(isler, hedef, uygulama, el')
  <2>1. /\ yer \in SekmeYerleri \cup ZamYerleri /\ yer \notin Stopta \cup Silmede \cup Geride
        /\ yer \notin {"pBaslat", "pYaz", "pGeri", "sClaim", "pClaim"} /\ Yok \in Gorulen
    BY <1>1 DEF SekmeYerleri, ZamYerleri, Stopta, Silmede, Geride, Gorulen
  <2>2. j \in NatYok
    BY <1>1, <1>8, AlanTipi DEF Satirlar
  <2>. QED BY <1>1, <1>3, <1>8, <2>1, <2>2
<1>. QED BY <1>4, <1>5, <1>6, <1>7, <1>8 DEF Baslar

\* One more job: the jobs that were there stay what they were.
LEMMA KuralEkle ==
    ASSUME NEW J, NEW M, \A j : IsMi(J, j) => IsMi(M, j) /\ M[j] = J[j],
           NEW h, NEW u, SatirTipi(J, h), SatirKurali(J, h, u)
    PROVE  /\ SatirKurali(M, h, u)
           /\ \A e : ElKurali(J, h, u, e) => ElKurali(M, h, u, e)
<1>1. /\ h.sonIs # Yok => IsMi(J, h.sonIs)
      /\ h.silmeIs # Yok => IsMi(J, h.silmeIs)
      /\ h.geriIs # Yok => IsMi(J, h.geriIs)
  BY DEF SatirTipi, StopMi, Is
<1>2. \A j : IsMi(J, j) => (Bitti(M, j) <=> Bitti(J, j)) /\ M[j].plan = J[j].plan
  BY DEF Bitti
<1>3. SatirKurali(M, h, u)
  BY <1>1 DEF SatirKurali
<1>4. ASSUME NEW e, ElKurali(J, h, u, e) PROVE ElKurali(M, h, u, e)
  <2>1. e.yer \in Stopta => h.durum = "stopping" /\ h.sonIs # Yok /\ M[h.sonIs].plan
    BY <1>1, <1>2, <1>4 DEF ElKurali
  <2>2. e.yer \in Silmede => h.durum = "deleting" /\ (h.silmeIs # Yok => Bitti(M, h.silmeIs))
    BY <1>1, <1>2, <1>4 DEF ElKurali
  <2>. QED BY <1>4, <2>1, <2>2 DEF ElKurali
<1>. QED BY <1>3, <1>4

\* A handler that goes on, at a place of the same kind.
LEMMA DurumGecer ==
    ASSUME NEW h, NEW u, NEW J, NEW e, NEW f, ElKurali(J, h, u, e), f.durum = e.durum,
           f.yer \in Stopta <=> e.yer \in Stopta,
           f.yer \in Silmede <=> e.yer \in Silmede, f.yer \in {"sClaim"} \cup Planda <=> e.yer \in {"sClaim"} \cup Planda,
           f.yer \in Geride <=> e.yer \in Geride, f.yer # "sClaim",
           e.yer \notin {"sYaz", "gYaz"}
    PROVE  ElKurali(J, h, u, f) /\ \A g : Bir(e, g) => Bir(f, g)
  BY DEF ElKurali, Bir

LEMMA DurumBaslatir ==
    ASSUME TipInv, DurumKurali(isler, hedef, uygulama, el), NEW a \in El, NEW tur, NEW plan, NEW liste, NEW yaz, NEW red,
           Baslatir(a, tur, plan, liste, yaz, red), kayip' = {}
    PROVE  DurumKurali(isler', hedef', uygulama', el')
<1>. DEFINE x == YeniIs(tur, plan, liste)
            n == Len(isler) + 1
            e == el[a]
<1>1. tur \in {"stop", "sil", "geri"} /\ plan \in BOOLEAN
  BY DEF Baslatir, YerTuru
<1>2. Baslat(a, tur, plan, liste, yaz, red) /\ (liste = Yok \/ IsMi(isler, liste))
  BY DEF Baslatir
<1>3. /\ hedef' = hedef /\ uygulama' = uygulama /\ x \in Isler
      /\ \/ isler' = Append(isler, x) /\ el' = [el EXCEPT ![a] = Baslamis(e, yaz, n)]
         \/ isler' = isler /\ el' = [el EXCEPT ![a] = Donus(e, red)]
  BY <1>1, <1>2, BaslatSonucu
<1>4. x.tur = tur /\ x.plan = plan
  BY DEF YeniIs
<1>5. /\ el \in [El -> Eller] /\ e \in Eller /\ isler \in Seq(Isler) /\ n \in Nat /\ SatirTipi(isler, hedef)
      /\ ElTipi(isler, a, e)
  BY Acilim DEF TipInv
<1>6. /\ SatirKurali(isler, hedef, uygulama) /\ \A b \in El : ElKurali(isler, hedef, uygulama, el[b])
      /\ \A b \in El \ {a} : Bir(e, el[b])
  BY DEF DurumKurali
<1>7. IsleGecis(e.yer, yaz) /\ (red # "bos" => Gecis(e.yer, red)) /\ tur = YerTuru(yaz) /\ plan = (yaz \in PlanYazan)
  BY DEF Baslatir
<1>. HIDE DEF x, e, n
<1>8. CASE isler' = isler /\ el' = [el EXCEPT ![a] = Donus(e, red)]
  <2>1. CASE red = "bos"
    <3>1. Gecer(el, a, Bosta, el')
      BY <1>8, <2>1 DEF Donus, Gecer
    <3>2. e.yer \notin {"oYaz", "dYaz", "gYaz", "sYaz"}
      BY <1>7 DEF IsleGecis
    <3>. HIDE DEF Bosta
    <3>. QED BY <1>3, <1>5, <1>8, <3>1, <3>2, DurumBitir DEF e
  <2>2. CASE red # "bos"
    <3>. DEFINE f == Donus(e, red)
    <3>1. Gecis(e.yer, red) /\ red \in SekmeYerleri \cup ZamYerleri
      BY <1>7, <2>2 DEF Gecis, SekmeYerleri, ZamYerleri, Geride, Stopta, Silmede, Planda
    <3>2. f \in Eller /\ f.yer = red /\ f.durum = e.durum
      BY <1>5, <3>1, DonusAlan
    <3>3. Gecer(el, a, f, el')
      BY <1>8 DEF Gecer
    <3>. HIDE DEF f
    <3>4. /\ red \in Stopta <=> e.yer \in Stopta
          /\ red \in Silmede <=> e.yer \in Silmede
          /\ red \in {"sClaim"} \cup Planda <=> e.yer \in {"sClaim"} \cup Planda
          /\ red \in Geride <=> e.yer \in Geride
          /\ red # "sClaim" /\ e.yer \notin {"oYaz", "dYaz", "gYaz", "sYaz"}
      BY <1>7, <3>1 DEF IsleGecis, Gecis, Stopta, Silmede, Planda, Geride
    <3>5. ElKurali(isler, hedef, uygulama, f) /\ \A b \in El \ {a} : Bir(f, el[b])
      BY <1>6, <3>2, <3>4, DurumGecer DEF e
    <3>. QED BY <1>3, <1>5, <1>8, <3>3, <3>2, <3>4, <3>5, DurumEl DEF e
  <2>. QED BY <2>1, <2>2
<1>9. CASE isler' = Append(isler, x) /\ el' = [el EXCEPT ![a] = Baslamis(e, yaz, n)]
  <2>. DEFINE M == Append(isler, x)
              f == Baslamis(e, yaz, n)
  <2>1. /\ \A j : IsMi(isler, j) => IsMi(M, j) /\ M[j] = isler[j]
        /\ Len(M) = n /\ M[n] = x
    BY <1>3, <1>5 DEF IsMi, n
  <2>2. \A j \in 1 .. Len(M) : j = n \/ IsMi(isler, j)
    BY <1>5, <2>1 DEF IsMi, n
  <2>3. yaz \in SekmeYerleri \cup ZamYerleri
    BY <1>7 DEF IsleGecis, SekmeYerleri, ZamYerleri, Geride, Stopta, Silmede, Planda
  <2>4. f \in Eller /\ f.yer = yaz /\ f.durum = e.durum /\ f.is = n
    BY <1>5, <2>3, BaslamisAlan
  <2>5. Gecer(el, a, f, el') /\ f = el'[a] /\ \A b \in El \ {a} : el'[b] = el[b]
    BY <1>5, <1>9 DEF Gecer
  <2>. HIDE DEF M, f
  <2>6. /\ yaz \in Stopta <=> e.yer \in Stopta
        /\ yaz \in Silmede <=> e.yer \in Silmede
        /\ yaz \in {"sClaim"} \cup Planda <=> e.yer \in {"sClaim"} \cup Planda
        /\ yaz \in Geride <=> e.yer \in Geride
        /\ yaz # "sClaim" /\ e.yer \notin {"oYaz", "dYaz", "gYaz", "sYaz"}
    BY <1>7 DEF IsleGecis, Stopta, Silmede, Planda, Geride
  <2>7. ElKurali(isler, hedef, uygulama, f) /\ \A b \in El \ {a} : Bir(f, el[b])
    BY <1>6, <2>4, <2>6, DurumGecer DEF e
  <2>8. /\ SatirKurali(M, hedef, uygulama) /\ ElKurali(M, hedef, uygulama, f)
        /\ \A b \in El \ {a} : ElKurali(M, hedef, uygulama, el[b])
    BY <1>5, <1>6, <2>1, <2>7, KuralEkle
  <2>9. ASSUME NEW j \in Calisan(M) PROVE Bagli(M, hedef, el', j)
    <3>1. CASE IsMi(isler, j)
      <4>1. j \in Calisan(isler) /\ M[j] = isler[j]
        BY <2>1, <2>9, <3>1 DEF Calisan, Bitti, IsMi
      <4>2. Bagli(isler, hedef, el, j)
        BY <4>1 DEF DurumKurali, Calisan
      <4>3. \A b \in El : el[b].yer \in {"oYaz", "dYaz", "gYaz", "sYaz"} => el'[b] = el[b]
        BY <2>5, <2>6 DEF e
      <4>. QED BY <4>1, <4>2, <4>3, SekmeZam DEF Bagli
    <3>2. CASE j = n
      <4>1. ~plan /\ M[j].tur = tur
        BY <1>4, <2>1, <2>9, <3>2 DEF Calisan
      <4>2. yaz \notin PlanYazan
        BY <1>7, <4>1
      <4>3. yaz \in {"oYaz", "dYaz", "gYaz", "sYaz"}
        BY <1>7, <4>2 DEF IsleGecis, PlanYazan
      <4>4. yaz = "sYaz" => a = Zam
        BY <1>5, <1>7 DEF ElTipi, IsleGecis, SekmeYerleri, Geride
      <4>5. yaz \in Silmede => hedef.durum = "deleting"
        BY <2>4, <2>7 DEF ElKurali
      <4>6. yaz \in Geride => hedef.durum = "rolling_back"
        BY <2>4, <2>7 DEF ElKurali
      <4>7. el'[a].yer = yaz /\ el'[a].is = j
        BY <2>4, <2>5, <3>2
      <4>. QED BY <1>7, <4>1, <4>3, <4>4, <4>5, <4>6, <4>7 DEF Bagli, YerTuru, Silmede, Geride
    <3>. QED BY <2>2, <2>9, <3>1, <3>2 DEF Calisan
  <2>10. DurumKurali(M, hedef, uygulama, el')
    BY <1>5, <2>4, <2>5, <2>7, <2>8, <2>9, DurumAdim
  <2>. QED BY <1>3, <1>9, <2>10 DEF M
<1>. QED BY <1>3, <1>8, <1>9

\* NULL is no list.
LEMMA ListeDegilYok ==
    /\ \A o \in Listeler : o # Yok
    /\ \A d \in {"baslar", "kosar", "ok", "failed"}, j \in NatYok :
         /\ OnKontrol(d, j) \in Listeler /\ OnKontrol(d, j) # Yok /\ ~OnKontrol(d, j).kul
         /\ OnKontrol(d, j).is = j /\ OnKontrol(d, j).durum = d
<1>1. Yok \notin Listeler
  BY EmeklilikVarsayimi DEF Listeler, NatYok
<1>2. \A d \in {"baslar", "kosar", "ok", "failed"}, j \in NatYok :
         /\ OnKontrol(d, j) \in Listeler /\ OnKontrol(d, j).kul = FALSE
         /\ OnKontrol(d, j).is = j /\ OnKontrol(d, j).durum = d
  BY DEF OnKontrol, Listeler
<1>. QED BY <1>1, <1>2

\* The row of a status that waits for nothing takes another one, and then the handler ends or goes on.
LEMMA SakinBitir ==
    ASSUME TipInv, DurumKurali(isler, hedef, uygulama, el), hedef.durum \notin Gecici, NEW a \in El, Bitir(a),
           NEW r, SatirKurali(isler, r, uygulama), r.durum # "deleting", r.silmeOn = hedef.silmeOn,
           el[a].yer = "oYaz" => r.durum = "stopping" /\ r.sonIs = el[a].is
    PROVE  DurumKurali(isler, r, uygulama, el')
<1>1. el \in [El -> Eller]
  BY DEF TipInv
<1>2. DurumKurali(isler, r, uygulama, el)
  BY Turler, DurumSakin
<1>3. el[a].yer \notin {"dYaz", "gYaz", "sYaz"}
  BY Sakin DEF Stopta, Silmede, Geride
<1>4. Gecer(el, a, Bosta, el')
  BY DEF Bitir, Gecer
<1>. HIDE DEF Bosta
<1>. QED BY <1>1, <1>2, <1>3, <1>4, DurumBitir

\* The row, or its lists, stay and the handler ends.
LEMMA ListeSonBitir ==
    ASSUME TipInv, DurumKurali(isler, hedef, uygulama, el), NEW a \in El, Bitir(a),
           NEW r, DurumKurali(isler, r, uygulama, el), el[a].yer \notin {"oYaz", "dYaz", "gYaz", "sYaz"}
    PROVE  DurumKurali(isler, r, uygulama, el')
<1>1. el \in [El -> Eller] /\ Gecer(el, a, Bosta, el')
  BY DEF TipInv, Bitir, Gecer
<1>. HIDE DEF Bosta
<1>. QED BY <1>1, DurumBitir

LEMMA DurumSekmeYazar ==
    ASSUME TipInv, DurumKurali(isler, hedef, uygulama, el), ~ezilen', NEW s \in Sekme,
           \/ OnKontrolYaz(s) \/ Zamanla(s) \/ OnayYaz(s) \/ GeriOnYaz(s) \/ SilmeOnYaz(s)
    PROVE  DurumKurali(isler, hedef', uygulama, el')
<1>. DEFINE e == el[s]
<1>1. s \in El
  BY SekmeZam
<1>2. /\ SatirTipi(isler, hedef) /\ hedef \in Satirlar /\ e \in Eller /\ ElTipi(isler, s, e) /\ ElIsi(isler, e)
      /\ SatirKurali(isler, hedef, uygulama)
  BY <1>1, Acilim DEF DurumKurali
<1>5. ASSUME Ezer(s) PROVE hedef.durum = e.durum
  BY <1>5 DEF Ezer
<1>. HIDE DEF e
<1>6. CASE OnKontrolYaz(s)
  <2>1. e.yer = "kYaz" /\ hedef' = [hedef EXCEPT !.durum = "planning", !.sonIs = e.is, !.izin = Yok] /\ Bitir(s) /\ Ezer(s)
    BY <1>6 DEF OnKontrolYaz, Yerinde, e
  <2>2. hedef.durum \in OnDurumlari
    BY <1>2, <1>5, <2>1 DEF ElTipi
  <2>3. Is(isler, e.is, "stop", TRUE) /\ ~Bitti(isler, e.is)
    <3>1. Is(isler, e.is, YerTuru(e.yer), e.yer \in PlanYazan) /\ ~Bitti(isler, e.is)
      BY <1>2, <2>1 DEF ElTipi, ElIsi, Yazan
    <3>2. YerTuru(e.yer) = "stop" /\ (e.yer \in PlanYazan) = TRUE
      BY <2>1 DEF YerTuru, PlanYazan
    <3>. QED BY <3>1, <3>2
  <2>4. /\ hedef'.durum = "planning" /\ hedef'.sonIs = e.is /\ hedef'.silmeOn = hedef.silmeOn
        /\ hedef'.geriOn = hedef.geriOn
    BY <1>2, <2>1 DEF Satirlar
  <2>5. e.is # Yok
    BY <2>3, SekmeZam DEF Is, IsMi
  <2>6. SatirKurali(isler, hedef', uygulama)
    BY <2>3, <2>4, <2>5 DEF SatirKurali, Is
  <2>7. hedef.durum \notin Gecici
    BY <2>2 DEF OnDurumlari, Gecici
  <2>. QED BY <1>1, <2>1, <2>4, <2>6, <2>7, SakinBitir DEF e
<1>7. CASE Zamanla(s)
  <2>1. e.yer = "zYaz" /\ hedef' = [hedef EXCEPT !.durum = "stop_scheduled"] /\ Bitir(s) /\ Ezer(s)
    BY <1>7 DEF Zamanla, Yerinde, e
  <2>2. hedef.durum = "planned"
    BY <1>2, <1>5, <2>1 DEF ElTipi
  <2>3. /\ hedef'.durum = "stop_scheduled" /\ hedef'.sonIs = hedef.sonIs /\ hedef'.silmeOn = hedef.silmeOn
        /\ hedef'.geriOn = hedef.geriOn
    BY <1>2, <2>1 DEF Satirlar
  <2>4. SatirKurali(isler, hedef', uygulama)
    BY <1>2, <2>2, <2>3 DEF SatirKurali
  <2>. QED BY <1>1, <2>1, <2>2, <2>3, <2>4, SakinBitir DEF e, Gecici
<1>8. CASE OnayYaz(s)
  <2>1. e.yer = "oYaz" /\ hedef' = [hedef EXCEPT !.durum = "stopping", !.sonIs = e.is] /\ Bitir(s) /\ Ezer(s)
    BY <1>8 DEF OnayYaz, Yerinde, e
  <2>2. hedef.durum = "planned"
    BY <1>2, <1>5, <2>1 DEF ElTipi
  <2>3. IsMi(isler, e.is) /\ ~Bitti(isler, e.is)
    BY <1>2, <2>1 DEF ElTipi, ElIsi, Yazan, Is
  <2>4. /\ hedef'.durum = "stopping" /\ hedef'.sonIs = e.is /\ hedef'.silmeOn = hedef.silmeOn
        /\ hedef'.geriOn = hedef.geriOn
    BY <1>2, <2>1 DEF Satirlar
  <2>5. e.is # Yok
    BY <2>3, SekmeZam DEF IsMi
  <2>6. SatirKurali(isler, hedef', uygulama)
    BY <2>3, <2>4, <2>5 DEF SatirKurali, Bitti
  <2>. QED BY <1>1, <2>1, <2>2, <2>4, <2>6, SakinBitir DEF e, Gecici
<1>9. CASE GeriOnYaz(s)
  <2>. DEFINE o == OnKontrol("kosar", e.is)
  <2>1. e.yer = "gpYaz" /\ Bitir(s) /\ hedef' = IF hedef.durum = e.durum THEN [hedef EXCEPT !.geriOn = o] ELSE hedef
    BY <1>9 DEF GeriOnYaz, Yerinde, e
  <2>2. e.durum \in GeriDurumlari
    BY <1>2, <2>1 DEF ElTipi
  <2>. HIDE DEF o
  <2>4. CASE hedef.durum = e.durum
    <3>1. hedef' = [hedef EXCEPT !.geriOn = o]
      BY <2>1, <2>4
    <3>2. /\ hedef'.durum = hedef.durum /\ hedef'.sonIs = hedef.sonIs /\ hedef'.silmeIs = hedef.silmeIs
          /\ hedef'.geriIs = hedef.geriIs /\ hedef'.silmeOn = hedef.silmeOn /\ hedef'.geriOn = o
      BY <1>2, <3>1 DEF Satirlar
    <3>3. hedef.durum # "rolling_back"
      BY <2>2, <2>4 DEF GeriDurumlari
    <3>4. DurumKurali(isler, hedef', uygulama, el)
      BY <3>2, <3>3, DurumListe
    <3>. QED BY <1>1, <2>1, <3>4, ListeSonBitir DEF e
  <2>5. CASE hedef.durum # e.durum
    BY <1>1, <2>1, <2>5, ListeSonBitir DEF e
  <2>. QED BY <2>4, <2>5
<1>10. CASE SilmeOnYaz(s)
  <2>. DEFINE o == OnKontrol("kosar", e.is)
  <2>1. e.yer = "spYaz" /\ Bitir(s) /\ hedef' \in {[hedef EXCEPT !.silmeOn = o], hedef}
    BY <1>10 DEF SilmeOnYaz, Yerinde, e
  <2>2. o # Yok /\ ~o.kul
    <3>1. Is(isler, e.is, YerTuru(e.yer), e.yer \in PlanYazan)
      BY <1>2, <2>1 DEF ElTipi, Yazan
    <3>2. e.is \in NatYok
      BY <3>1, <1>2 DEF Eller
    <3>. QED BY <3>2, ListeDegilYok
  <2>. HIDE DEF o
  <2>3. CASE hedef' = [hedef EXCEPT !.silmeOn = o]
    <3>1. /\ hedef'.durum = hedef.durum /\ hedef'.sonIs = hedef.sonIs /\ hedef'.silmeIs = hedef.silmeIs
          /\ hedef'.geriIs = hedef.geriIs /\ hedef'.silmeOn = o /\ hedef'.geriOn = hedef.geriOn
      BY <1>2, <2>3 DEF Satirlar
    <3>2. DurumKurali(isler, hedef', uygulama, el)
      BY <2>2, <3>1, DurumListe
    <3>. QED BY <1>1, <2>1, <3>2, ListeSonBitir DEF e
  <2>4. CASE hedef' = hedef
    BY <1>1, <2>1, <2>4, ListeSonBitir DEF e
  <2>. QED BY <2>1, <2>3, <2>4
<1>. QED BY <1>6, <1>7, <1>8, <1>9, <1>10

LEMMA DurumGeriClaim ==
    ASSUME TipInv, DurumKurali(isler, hedef, uygulama, el), NEW s \in Sekme, GeriClaim(s)
    PROVE  DurumKurali(isler, hedef', uygulama, el')
<1>. DEFINE e == el[s]
            f == Donus(e, "gBaslat")
            p == hedef.geriOn
<1>1. s \in El
  BY SekmeZam
<1>2. /\ SatirTipi(isler, hedef) /\ hedef \in Satirlar /\ e \in Eller /\ ElTipi(isler, s, e)
      /\ SatirKurali(isler, hedef, uygulama) /\ el \in [El -> Eller]
  BY <1>1, Acilim DEF DurumKurali, TipInv
<1>5. e.yer = "gClaim"
  BY DEF GeriClaim, Yerinde
<1>6. CASE hedef' = hedef /\ Bitir(s)
  BY <1>1, <1>5, <1>6, ListeSonBitir
<1>7. CASE /\ hedef.durum = e.durum /\ Ayni(p, e.gor) /\ el' = [el EXCEPT ![s].yer = "gBaslat"]
           /\ hedef' = [hedef EXCEPT !.durum = "rolling_back", !.geriIs = Yok, !.geriOn = Kullan(p)]
  <2>1. "gBaslat" \in SekmeYerleri \cup ZamYerleri
    BY DEF SekmeYerleri, Geride
  <2>2. f \in Eller /\ f.yer = "gBaslat" /\ f.durum = e.durum /\ f = [e EXCEPT !.yer = "gBaslat"]
    BY <1>2, <2>1, DonusAlan
  <2>3. Gecer(el, s, f, el')
    BY <1>1, <1>2, <1>7, <2>2 DEF Gecer
  <2>. HIDE DEF f, e
  <2>4. Liste(isler, e.gor, "geri") /\ e.gor.durum = "ok" /\ ~e.gor.kul /\ e.gor # Yok /\ e.durum \in GeriDurumlari
    BY <1>2, <1>5 DEF ElTipi, Taze
  <2>5. Liste(isler, p, "geri") /\ p.durum = "ok" /\ ~p.kul /\ p # Yok
    <3>1. Liste(isler, p, "geri") /\ p.durum = "ok" /\ ~p.kul
      BY <1>2, <1>7, <2>4, AyniTipi DEF SatirTipi
    <3>. QED BY <1>7, <2>4, <3>1 DEF Ayni
  <2>6. /\ hedef'.durum = "rolling_back" /\ hedef'.geriIs = Yok /\ hedef'.silmeOn = hedef.silmeOn
        /\ hedef'.geriOn = Kullan(p)
    BY <1>2, <1>7 DEF Satirlar
  <2>7. Kullan(p).kul
    BY <2>5, KullanTipi
  <2>. HIDE DEF p
  <2>8. hedef.durum \notin Gecici /\ (e.durum = "stopped" => uygulama = "durdu")
    BY <1>2, <1>7, <2>4 DEF GeriDurumlari, Gecici, SatirKurali
  <2>9. SatirKurali(isler, hedef', uygulama)
    BY <2>6, <2>7 DEF SatirKurali
  <2>11. DurumKurali(isler, hedef', uygulama, el)
    BY <2>6, <2>8, <2>9, Turler, DurumSakin
  <2>12. ElKurali(isler, hedef', uygulama, f)
    BY <2>2, <2>6, <2>8 DEF ElKurali, Stopta, Silmede, Planda, Geride
  <2>13. \A b \in El : Bir(f, el[b])
    BY <2>2, <2>8, Sakin DEF Bir
  <2>. QED BY <1>1, <1>2, <1>5, <2>2, <2>3, <2>11, <2>12, <2>13, DurumEl DEF e
<1>. QED BY <1>6, <1>7 DEF GeriClaim, Kullan

\* The way back that a handler holds is the only one.
LEMMA GeriTek ==
    ASSUME TipInv, DurumKurali(isler, hedef, uygulama, el), NEW s \in El, el[s].yer \in Geride
    PROVE  /\ hedef.durum = "rolling_back" /\ hedef.geriIs = Yok
           /\ \A b \in El : el[b].yer \notin Stopta \cup Silmede /\ (b # s => el[b].yer \notin Geride)
           /\ \A j \in Calisan(isler) :
                /\ isler[j].tur # "sil"
                /\ isler[j].tur = "stop" => \E b \in El : el[b].yer = "oYaz" /\ el[b].is = j
                /\ isler[j].tur = "geri" => el[s].yer = "gYaz" /\ el[s].is = j
<1>1. hedef.durum = "rolling_back" /\ hedef.geriIs = Yok
  BY DEF DurumKurali, ElKurali
<1>2. \A b \in El : el[b].yer \notin Stopta \cup Silmede
  BY <1>1 DEF DurumKurali, ElKurali
<1>3. \A b \in El : b # s => el[b].yer \notin Geride
  BY DEF DurumKurali, Bir
<1>4. \A j \in Calisan(isler) : Bagli(isler, hedef, el, j) /\ j # Yok
  BY SekmeZam DEF DurumKurali, Calisan
<1>5. \A b \in El : el[b].yer = "gYaz" => b = s
  BY <1>3 DEF Geride
<1>6. \A j \in Calisan(isler) :
                /\ isler[j].tur # "sil"
                /\ isler[j].tur = "stop" => \E b \in El : el[b].yer = "oYaz" /\ el[b].is = j
                /\ isler[j].tur = "geri" => el[s].yer = "gYaz" /\ el[s].is = j
  BY <1>1, <1>2, <1>4, <1>5 DEF Bagli, Stopta
<1>. QED BY <1>1, <1>2, <1>3, <1>6

LEMMA DurumGeriYazar ==
    ASSUME TipInv, DurumKurali(isler, hedef, uygulama, el), NEW s \in Sekme, GeriGeri(s) \/ GeriYaz(s)
    PROVE  DurumKurali(isler, hedef', uygulama, el')
<1>. DEFINE e == el[s]
<1>1. s \in El
  BY SekmeZam
<1>2. /\ SatirTipi(isler, hedef) /\ hedef \in Satirlar /\ e \in Eller /\ ElTipi(isler, s, e) /\ ElIsi(isler, e)
      /\ ElKurali(isler, hedef, uygulama, e) /\ el \in [El -> Eller]
      /\ \A b \in El : ElKurali(isler, hedef, uygulama, el[b])
  BY <1>1, Acilim DEF DurumKurali, TipInv
<1>4. Bosta \in Eller /\ \A J, h, u, g : ElKurali(J, h, u, Bosta) /\ Bir(Bosta, g)
  BY BosDuz, BosKurali
<1>. HIDE DEF e, Bosta
<1>5. CASE GeriGeri(s)
  <2>1. e.yer = "gGeri" /\ Bitir(s) /\ hedef' \in {[hedef EXCEPT !.durum = e.durum, !.geriOn = e.gor], hedef}
    BY <1>5 DEF GeriGeri, Yerinde, e
  <2>2. CASE hedef' = hedef
    BY <1>1, <2>1, <2>2, ListeSonBitir DEF e
  <2>3. CASE hedef' = [hedef EXCEPT !.durum = e.durum, !.geriOn = e.gor]
    <3>1. el[s].yer \in Geride /\ e.durum \in GeriDurumlari
      BY <1>2, <2>1 DEF Geride, ElTipi, e
    <3>2. /\ hedef.durum = "rolling_back" /\ hedef.geriIs = Yok
          /\ \A b \in El : el[b].yer \notin Stopta \cup Silmede /\ (b # s => el[b].yer \notin Geride)
          /\ \A j \in Calisan(isler) :
               /\ isler[j].tur # "sil"
               /\ isler[j].tur = "stop" => \E b \in El : el[b].yer = "oYaz" /\ el[b].is = j
               /\ isler[j].tur = "geri" => el[s].yer = "gYaz" /\ el[s].is = j
      BY <1>1, <3>1, GeriTek
    <3>3. hedef'.durum = e.durum /\ hedef'.silmeOn = hedef.silmeOn
      BY <1>2, <2>3 DEF Satirlar
    <3>4. hedef'.durum = "stopped" => uygulama = "durdu"
      BY <1>2, <2>1, <3>3 DEF ElKurali, Geride
    <3>5. SatirKurali(isler, hedef', uygulama)
      BY <3>1, <3>3, <3>4 DEF SatirKurali, GeriDurumlari
    <3>6. Gecer(el, s, Bosta, el') /\ el'[s] = Bosta /\ \A b \in El \ {s} : el'[b] = el[b]
      BY <1>1, <1>2, <2>1 DEF Bitir, Gecer
    <3>7. ASSUME NEW j \in Calisan(isler) PROVE Bagli(isler, hedef', el', j)
      BY <2>1, <3>2, <3>6 DEF Bagli, e
    <3>8. ASSUME NEW b \in El \ {s} PROVE ElKurali(isler, hedef', uygulama, el[b])
      BY <1>2, <3>1, <3>2, <3>3 DEF ElKurali, GeriDurumlari
    <3>. QED BY <1>1, <1>2, <1>4, <3>5, <3>6, <3>7, <3>8, DurumAdim
  <2>. QED BY <2>1, <2>2, <2>3
<1>6. CASE GeriYaz(s)
  <2>. DEFINE o == Kullan(e.gor)
  <2>1. /\ e.yer = "gYaz" /\ Bitir(s)
        /\ hedef' = IF hedef.durum = "rolling_back" THEN [hedef EXCEPT !.geriIs = e.is, !.geriOn = o] ELSE hedef
    BY <1>6 DEF GeriYaz, Yerinde, e, Kullan
  <2>2. el[s].yer \in Geride
    BY <2>1 DEF Geride, e
  <2>3. /\ hedef.durum = "rolling_back" /\ hedef.geriIs = Yok
        /\ \A b \in El : el[b].yer \notin Stopta \cup Silmede /\ (b # s => el[b].yer \notin Geride)
        /\ \A j \in Calisan(isler) :
             /\ isler[j].tur # "sil"
             /\ isler[j].tur = "stop" => \E b \in El : el[b].yer = "oYaz" /\ el[b].is = j
             /\ isler[j].tur = "geri" => el[s].yer = "gYaz" /\ el[s].is = j
    BY <1>1, <2>2, GeriTek
  <2>4. Liste(isler, e.gor, "geri") /\ e.gor.durum = "ok" /\ ~Bitti(isler, e.is)
    BY <1>2, <2>1 DEF ElTipi, ElIsi, Geride, Taze, Yazan
  <2>5. o.kul
    BY <2>4, KullanTipi
  <2>. HIDE DEF o
  <2>6. hedef' = [hedef EXCEPT !.geriIs = e.is, !.geriOn = o]
    BY <2>1, <2>3
  <2>7. /\ hedef'.durum = "rolling_back" /\ hedef'.geriIs = e.is /\ hedef'.silmeOn = hedef.silmeOn
        /\ hedef'.geriOn = o
    BY <1>2, <2>3, <2>6 DEF Satirlar
  <2>8. SatirKurali(isler, hedef', uygulama)
    BY <2>4, <2>5, <2>7 DEF SatirKurali, Bitti
  <2>9. Gecer(el, s, Bosta, el') /\ el'[s] = Bosta /\ \A b \in El \ {s} : el'[b] = el[b]
    BY <1>1, <1>2, <2>1 DEF Bitir, Gecer
  <2>10. ASSUME NEW j \in Calisan(isler) PROVE Bagli(isler, hedef', el', j)
    BY <2>1, <2>3, <2>7, <2>9 DEF Bagli, e
  <2>11. ASSUME NEW b \in El \ {s} PROVE ElKurali(isler, hedef', uygulama, el[b])
    BY <1>2, <2>3, <2>7 DEF ElKurali
  <2>. QED BY <1>1, <1>2, <1>4, <2>8, <2>9, <2>10, <2>11, DurumAdim
<1>. QED BY <1>5, <1>6

\* The result of a preflight of the deletion or the way back.
LEMMA DurumOnSonuc ==
    ASSUME TipInv, DurumKurali(isler, hedef, uygulama, el), NEW a \in El, NEW yer \in {"jOn", "onYaz"}, OnSonuc(a, yer)
    PROVE  DurumKurali(isler, hedef', uygulama, el')
<1>. DEFINE e == el[a]
            o == OnKontrol(IF Oldu(e.is) THEN "ok" ELSE "failed", e.is)
<1>1. /\ SatirTipi(isler, hedef) /\ hedef \in Satirlar /\ ElTipi(isler, a, e) /\ e \in Eller
      /\ SatirKurali(isler, hedef, uygulama)
  BY Acilim DEF DurumKurali
<1>2. /\ e.yer = yer /\ Bitir(a)
      /\ hedef' = IF Ayni(hedef[e.durum], e.gor) THEN [hedef EXCEPT ![e.durum] = o] ELSE hedef
  BY DEF OnSonuc, Yerinde
<1>. HIDE DEF e
<1>3. /\ \/ e.durum = "silmeOn" /\ Liste(isler, e.gor, "sil")
         \/ e.durum = "geriOn" /\ Liste(isler, e.gor, "geri")
      /\ e.gor.durum = "kosar" /\ e.gor.is = e.is /\ Bitti(isler, e.is) /\ e.gor # Yok
  BY <1>1, <1>2 DEF ElTipi
<1>4. o # Yok /\ ~o.kul
  <2>1. e.is \in NatYok
    BY <1>1 DEF Eller
  <2>. QED BY <2>1, ListeDegilYok
<1>. HIDE DEF o
<1>5. el[a].yer \notin {"oYaz", "dYaz", "gYaz", "sYaz"}
  BY <1>2 DEF e
<1>6. CASE hedef' = hedef
  BY <1>2, <1>5, <1>6, ListeSonBitir
<1>7. CASE e.durum = "silmeOn" /\ hedef' = [hedef EXCEPT ![e.durum] = o]
  <2>1. /\ hedef'.durum = hedef.durum /\ hedef'.sonIs = hedef.sonIs /\ hedef'.silmeIs = hedef.silmeIs
        /\ hedef'.geriIs = hedef.geriIs /\ hedef'.silmeOn = o /\ hedef'.geriOn = hedef.geriOn
    BY <1>1, <1>7 DEF Satirlar
  <2>2. DurumKurali(isler, hedef', uygulama, el)
    BY <1>4, <2>1, DurumListe
  <2>. QED BY <1>2, <1>5, <2>2, ListeSonBitir
<1>8. CASE e.durum = "geriOn" /\ hedef' = [hedef EXCEPT ![e.durum] = o] /\ Ayni(hedef[e.durum], e.gor)
  <2>1. /\ hedef'.durum = hedef.durum /\ hedef'.sonIs = hedef.sonIs /\ hedef'.silmeIs = hedef.silmeIs
        /\ hedef'.geriIs = hedef.geriIs /\ hedef'.silmeOn = hedef.silmeOn /\ hedef'.geriOn = o
    BY <1>1, <1>8 DEF Satirlar
  <2>. DEFINE p == hedef.geriOn
  <2>2. Ayni(p, e.gor) /\ Liste(isler, e.gor, "geri") /\ ListeYa(isler, p, "geri")
    BY <1>1, <1>3, <1>8 DEF SatirTipi
  <2>3. p # Yok /\ p.durum = "kosar" /\ p.is = e.is /\ p.kul = e.gor.kul
    BY <1>3, <2>2, AyniTipi DEF Ayni
  <2>4. ~p.kul
    BY <1>3, <2>2, <2>3 DEF Liste
  <2>5. hedef.durum # "rolling_back"
    BY <1>1, <2>3, <2>4 DEF SatirKurali
  <2>6. DurumKurali(isler, hedef', uygulama, el)
    BY <2>1, <2>5, DurumListe
  <2>. QED BY <1>2, <1>5, <2>6, ListeSonBitir
<1>. QED BY <1>2, <1>3, <1>6, <1>7, <1>8

\* After its verdict a handler ends, or goes on to the record.
LEMMA SonKurali ==
    ASSUME NEW f, f.yer \in {"bos", "fKayit"}
    PROVE  \A J, h, u, g : ElKurali(J, h, u, f) /\ Bir(f, g)
  BY DEF ElKurali, Bir, Stopta, Silmede, Planda, Geride

\* The verdict that is no foreign one: the row waits for this job.
LEMMA HukumUyar ==
    ASSUME NEW d \in {"planning", "stopping", "deleting", "rolling_back"}, NEW j, Hukum(d, j), ~eskiHukum',
           hedef.durum = d
    PROVE  /\ d \in {"planning", "stopping"} => hedef.sonIs = j
           /\ d = "stopping" => ~isler[j].plan
           /\ d = "deleting" => hedef.silmeOn.is = isler[j].liste
           /\ d = "rolling_back" => hedef.geriIs = j
<1>1. /\ Alan(d) = j
      /\ d = "stopping" => ~isler[j].plan
      /\ d = "deleting" => hedef.silmeOn.is = isler[j].liste
  BY DEF Hukum, Gercek
<1>2. /\ d \in {"planning", "stopping"} => Alan(d) = hedef.sonIs
      /\ d = "rolling_back" => Alan(d) = hedef.geriIs
  BY DEF Alan
<1>. QED BY <1>1, <1>2

\* A verdict on the row, which has its status.
LEMMA HukumPlan ==
    ASSUME TipInv, DurumKurali(isler, hedef, uygulama, el), NEW a \in El, el[a].yer \in Hukumde,
           hedef.durum = "planning",
           NEW r, r.durum \in {"planned", "failed"}, r.sonIs = hedef.sonIs,
           r.geriOn = hedef.geriOn, r.silmeOn = hedef.silmeOn,
           NEW f \in Eller, f.yer \in {"bos", "fKayit"}, Gecer(el, a, f, el')
    PROVE  DurumKurali(isler, r, uygulama, el')
<1>1. SatirKurali(isler, hedef, uygulama) /\ el \in [El -> Eller]
  BY DEF DurumKurali, TipInv
<1>2. SatirKurali(isler, r, uygulama)
  BY <1>1 DEF SatirKurali
<1>3. DurumKurali(isler, r, uygulama, el)
  BY <1>2, Turler, DurumSakin DEF Gecici
<1>4. el[a].yer \notin {"oYaz", "dYaz", "gYaz", "sYaz"}
  BY DEF Hukumde
<1>5. ElKurali(isler, r, uygulama, f) /\ \A b \in El : Bir(f, el[b])
  BY SonKurali
<1>. QED BY <1>1, <1>3, <1>4, <1>5, DurumEl

LEMMA HukumStop ==
    ASSUME TipInv, DurumKurali(isler, hedef, uygulama, el), NEW a \in El, el[a].yer \in Hukumde,
           hedef.durum = "stopping", hedef.sonIs = el[a].is, Bitti(isler, el[a].is), ~isler[el[a].is].plan,
           NEW r, r.durum \in {"stopped", "failed"}, r.durum = "stopped" => isler[el[a].is].durum = "ok",
           r.geriOn = hedef.geriOn, r.silmeOn = hedef.silmeOn,
           NEW f \in Eller, f.yer \in {"bos", "fKayit"}, Gecer(el, a, f, el')
    PROVE  DurumKurali(isler, r, uygulama, el')
<1>1. SatirKurali(isler, hedef, uygulama) /\ el \in [El -> Eller]
  BY DEF DurumKurali, TipInv
<1>2. \A b \in El : ElKurali(isler, hedef, uygulama, el[b])
  BY DEF DurumKurali
<1>4. SatirKurali(isler, r, uygulama)
  BY <1>1 DEF SatirKurali
<1>5. \A b \in El : el[b].yer \notin Stopta \cup Silmede \cup Geride
  BY <1>2 DEF ElKurali
<1>6. ASSUME NEW b \in El \ {a} PROVE ElKurali(isler, r, uygulama, el[b])
  <2>1. el[b].yer # "sClaim" \/ (r.silmeOn # Yok /\ ~r.silmeOn.kul)
    BY <1>2 DEF ElKurali
  <2>. QED BY <1>2, <1>5, <2>1 DEF ElKurali
<1>7. ASSUME NEW j \in Calisan(isler) PROVE Bagli(isler, r, el', j)
  <2>1. Bagli(isler, hedef, el, j)
    BY DEF DurumKurali, Calisan
  <2>2. \A b \in El : el[b].yer \in {"oYaz", "dYaz"} => el'[b] = el[b]
    BY <1>1 DEF Gecer, Hukumde
  <2>. QED BY <2>1, <2>2 DEF Bagli, Calisan
<1>8. ElKurali(isler, r, uygulama, f) /\ \A b \in El : Bir(f, el[b])
  BY SonKurali
<1>. QED BY <1>1, <1>4, <1>6, <1>7, <1>8, DurumAdim

LEMMA HukumGeri ==
    ASSUME TipInv, DurumKurali(isler, hedef, uygulama, el), NEW a \in El, el[a].yer \in Hukumde,
           hedef.durum = "rolling_back", hedef.geriIs = el[a].is, el[a].is # Yok, Bitti(isler, el[a].is),
           NEW r, r.durum \in {"active", "rollback_failed"}, r.durum = "active" => isler[el[a].is].durum = "ok",
           r.geriOn = hedef.geriOn, r.silmeOn = hedef.silmeOn,
           NEW f \in Eller, f.yer \in {"bos", "fKayit"}, Gecer(el, a, f, el')
    PROVE  DurumKurali(isler, r, uygulama, el')
<1>1. SatirKurali(isler, hedef, uygulama) /\ el \in [El -> Eller]
  BY DEF DurumKurali, TipInv
<1>2. \A b \in El : ElKurali(isler, hedef, uygulama, el[b])
  BY DEF DurumKurali
<1>4. SatirKurali(isler, r, uygulama)
  BY <1>1 DEF SatirKurali
<1>5. \A b \in El : el[b].yer \notin Stopta \cup Silmede \cup Geride
  BY <1>2 DEF ElKurali
<1>6. ASSUME NEW b \in El \ {a} PROVE ElKurali(isler, r, uygulama, el[b])
  BY <1>2, <1>5 DEF ElKurali
<1>7. ASSUME NEW j \in Calisan(isler) PROVE Bagli(isler, r, el', j)
  <2>1. Bagli(isler, hedef, el, j)
    BY DEF DurumKurali, Calisan
  <2>2. \A b \in El : el[b].yer \in {"oYaz", "dYaz"} => el'[b] = el[b]
    BY <1>1 DEF Gecer, Hukumde
  <2>. QED BY <1>5, <2>1, <2>2 DEF Bagli, Calisan, Geride
<1>8. ElKurali(isler, r, uygulama, f) /\ \A b \in El : Bir(f, el[b])
  BY SonKurali
<1>. QED BY <1>1, <1>4, <1>6, <1>7, <1>8, DurumAdim

\* The row waits for the deletion whose verdict this is: its list is used, and was given to no other.
LEMMA SilIsi ==
    ASSUME TipInv, ListeInv, kayip = {}, DurumKurali(isler, hedef, uygulama, el), NEW j, Is(isler, j, "sil", FALSE),
           Bitti(isler, j), hedef.durum = "deleting", hedef.silmeOn.is = isler[j].liste
    PROVE  hedef.silmeOn.kul /\ hedef.silmeIs = j
<1>1. SatirKurali(isler, hedef, uygulama) /\ SatirTipi(isler, hedef) /\ ElIsi(isler, el[Zam])
  BY SekmeZam, Acilim DEF DurumKurali
<1>2. SilmeListesi(isler, {}, hedef.silmeOn, el[Zam]) /\ BirKez(isler, {})
  BY DEF ListeInv, ListeKurali
<1>3. hedef.silmeOn # Yok
  BY <1>1 DEF SatirKurali
<1>4. IsMi(isler, j) /\ isler[j].tur = "sil" /\ ~isler[j].plan
  BY DEF Is
<1>5. isler[j].liste # Yok
  BY <1>4 DEF TipInv, IsNo, IsMi, ListeVerir
<1>6. hedef.silmeOn.kul
  <2>. SUFFICES ASSUME ~hedef.silmeOn.kul PROVE FALSE
    OBVIOUS
  <2>1. \/ Temiz(isler, {}, isler[j].liste)
        \/ el[Zam].yer = "sYaz" /\ Temiz(isler, {el[Zam].is}, isler[j].liste)
    BY <1>2, <1>3, <1>5 DEF SilmeListesi
  <2>2. el[Zam].yer = "sYaz" /\ j = el[Zam].is
    BY <1>4, <2>1 DEF Temiz, IsMi
  <2>. QED BY <1>1, <2>2 DEF ElIsi, Yazan
<1>7. hedef.silmeIs # Yok /\ isler[hedef.silmeIs].liste = isler[j].liste
  BY <1>1, <1>6 DEF SatirKurali
<1>8. IsMi(isler, hedef.silmeIs) /\ ~isler[hedef.silmeIs].plan
  BY <1>1, <1>7 DEF SatirTipi, Is
<1>9. hedef.silmeIs = j
  BY <1>2, <1>4, <1>7, <1>8 DEF BirKez, IsMi
<1>. QED BY <1>6, <1>9

LEMMA HukumSil ==
    ASSUME TipInv, ListeInv, kayip = {}, DurumKurali(isler, hedef, uygulama, el), NEW a \in El, el[a].yer \in Hukumde,
           el[a].durum = "deleting", hedef.durum = "deleting", hedef.silmeOn.is = isler[el[a].is].liste,
           NEW r, r.durum \in {"deleted", "failed"}, r.geriOn = hedef.geriOn, r.silmeOn = hedef.silmeOn,
           NEW f \in Eller, f.yer \in {"bos", "fKayit"}, Gecer(el, a, f, el')
    PROVE  DurumKurali(isler, r, uygulama, el')
<1>1. el \in [El -> Eller] /\ ElTipi(isler, a, el[a])
  BY Acilim DEF TipInv
<1>2. \A b \in El : ElKurali(isler, hedef, uygulama, el[b])
  BY DEF DurumKurali
<1>3. Is(isler, el[a].is, "sil", FALSE) /\ Bitti(isler, el[a].is)
  BY <1>1 DEF ElTipi, HukumTipi
<1>4. hedef.silmeOn.kul /\ hedef.silmeIs = el[a].is
  BY <1>3, SilIsi
<1>5. SatirKurali(isler, r, uygulama)
  BY DEF SatirKurali
<1>6. \A b \in El : el[b].yer \notin Stopta \cup Silmede \cup Geride \cup {"sClaim"}
  BY <1>2, <1>4 DEF ElKurali
<1>7. ASSUME NEW b \in El \ {a} PROVE ElKurali(isler, r, uygulama, el[b])
  BY <1>6 DEF ElKurali
<1>8. ASSUME NEW j \in Calisan(isler) PROVE Bagli(isler, r, el', j)
  <2>1. Bagli(isler, hedef, el, j)
    BY DEF DurumKurali, Calisan
  <2>2. \A b \in El : el[b].yer \in {"oYaz", "dYaz"} => el'[b] = el[b]
    BY DEF Gecer, Hukumde
  <2>. QED BY <1>3, <1>4, <1>6, <2>1, <2>2, SekmeZam DEF Bagli, Calisan, Silmede
<1>9. ElKurali(isler, r, uygulama, f) /\ \A b \in El : Bir(f, el[b])
  BY SonKurali
<1>. QED BY <1>1, <1>5, <1>7, <1>8, <1>9, DurumAdim

\* A verdict that is written: the row has changed its status since, or it has the one of the job.
LEMMA DurumSonuc ==
    ASSUME TipInv, ListeInv, kayip = {}, DurumKurali(isler, hedef, uygulama, el), NEW a \in El,
           el[a].yer \in Hukumde, Hukum(el[a].durum, el[a].is), ~eskiHukum',
           el[a].durum = "planning" => hedef.durum # "planning",
           hedef' = SonucYaz(el[a].durum, el[a].is),
           NEW f \in Eller, f.yer \in {"bos", "fKayit"}, Gecer(el, a, f, el')
    PROVE  DurumKurali(isler, hedef', uygulama, el')
<1>. DEFINE d == el[a].durum
            j == el[a].is
<1>1. /\ hedef \in Satirlar /\ ElTipi(isler, a, el[a]) /\ el \in [El -> Eller]
  BY Acilim DEF TipInv
<1>2. HukumTipi(isler, el[a])
  BY <1>1 DEF ElTipi
<1>3. /\ hedef'.silmeOn = hedef.silmeOn /\ hedef'.geriOn = hedef.geriOn /\ hedef'.sonIs = hedef.sonIs
      /\ hedef'.durum = IF hedef.durum # d THEN hedef.durum ELSE Sonuc(d, j)
  BY <1>1, SonucListe
<1>4. hedef.durum = d => /\ d = "stopping" => hedef.sonIs = j /\ ~isler[j].plan
                         /\ d = "deleting" => hedef.silmeOn.is = isler[j].liste
                         /\ d = "rolling_back" => hedef.geriIs = j
  BY <1>2, HukumUyar DEF HukumTipi
<1>11. Bitti(isler, j) /\ j # Yok
  BY <1>2, SekmeZam DEF HukumTipi, IsMi
<1>5. CASE hedef.durum # d
  <2>1. hedef' = hedef
    BY <1>5 DEF SonucYaz
  <2>2. el[a].yer \notin {"oYaz", "dYaz", "gYaz", "sYaz"}
    BY DEF Hukumde
  <2>3. ElKurali(isler, hedef', uygulama, f) /\ \A b \in El : Bir(f, el[b])
    BY SonKurali
  <2>. QED BY <1>1, <2>1, <2>2, <2>3, DurumEl
<1>6. ASSUME hedef.durum = d PROVE hedef'.durum = Sonuc(d, j)
  BY <1>3, <1>6
<1>8. CASE hedef.durum = d /\ d = "stopping"
  <2>1. hedef'.durum \in {"stopped", "failed"} /\ (hedef'.durum = "stopped" => isler[j].durum = "ok")
    BY <1>6, <1>8 DEF Sonuc, Oldu
  <2>. QED BY <1>3, <1>4, <1>8, <1>11, <2>1, HukumStop
<1>9. CASE hedef.durum = d /\ d = "deleting"
  <2>1. hedef'.durum \in {"deleted", "failed"}
    BY <1>6, <1>9 DEF Sonuc
  <2>. QED BY <1>3, <1>4, <1>9, <2>1, HukumSil
<1>10. CASE hedef.durum = d /\ d = "rolling_back"
  <2>1. hedef'.durum \in {"active", "rollback_failed"} /\ (hedef'.durum = "active" => isler[j].durum = "ok")
    BY <1>6, <1>10 DEF Sonuc, Oldu
  <2>. QED BY <1>3, <1>4, <1>10, <1>11, <2>1, HukumGeri
<1>. QED BY <1>2, <1>5, <1>8, <1>9, <1>10 DEF HukumTipi

LEMMA DurumIsDurumu ==
    ASSUME TipInv, DurumKurali(isler, hedef, uygulama, el), NEW s \in Sekme, IsDurumuYaz(s), ~ezilen', ~eskiHukum'
    PROVE  DurumKurali(isler, hedef', uygulama, el')
<1>. DEFINE e == el[s]
            f == Bosta
<1>1. s \in El
  BY SekmeZam
<1>2. /\ e.yer = "jYaz" /\ Ezer(s) /\ Hukum(e.durum, e.is) /\ Gecer(el, s, f, el')
      /\ \/ (isler[e.is].plan \/ e.durum = "planning") /\ PlanYazilir(e.is)
         \/ ~isler[e.is].plan /\ hedef' = [hedef EXCEPT !.durum = IF Oldu(e.is) THEN "stopped" ELSE "failed"]
         \/ e.durum = "stopping" /\ hedef' = [hedef EXCEPT !.durum = "failed"]
  BY DEF IsDurumuYaz, Yerinde, Bitir, Gecer, Gercek, PlanYazilir
<1>3. /\ hedef \in Satirlar /\ ElTipi(isler, s, e) /\ f \in Eller /\ f.yer \in {"bos", "fKayit"}
      /\ SatirKurali(isler, hedef, uygulama)
  BY <1>1, Acilim, BosDuz DEF DurumKurali
<1>. HIDE DEF e, f
<1>4. hedef.durum = e.durum /\ e.durum \in {"planning", "stopping"} /\ e.yer \in Hukumde /\ Bitti(isler, e.is)
  BY <1>2, <1>3 DEF Ezer, ElTipi, HukumTipi, Hukumde, e
<1>5. hedef.sonIs = e.is /\ (e.durum = "stopping" => ~isler[e.is].plan)
  BY <1>2, <1>4, HukumUyar
<1>6. e.durum = "planning" => isler[e.is].plan
  BY <1>3, <1>4, <1>5 DEF SatirKurali
<1>7. el[s].yer \in Hukumde
  BY <1>4 DEF e
<1>8. Gecer(el, s, f, el')
  BY <1>2
<1>9. CASE e.durum = "planning"
  <2>1. PlanYazilir(e.is)
    BY <1>2, <1>6, <1>9
  <2>2. /\ hedef'.durum \in {"planned", "failed"} /\ hedef'.sonIs = hedef.sonIs
        /\ hedef'.geriOn = hedef.geriOn /\ hedef'.silmeOn = hedef.silmeOn
    BY <1>3, <2>1, PlanListe
  <2>3. hedef.durum = "planning"
    BY <1>4, <1>9
  <2>. QED BY <1>1, <1>3, <1>7, <1>8, <2>2, <2>3, HukumPlan
<1>10. CASE e.durum = "stopping"
  <2>1. \E d \in {"stopped", "failed"} : hedef' = [hedef EXCEPT !.durum = d] /\ (d = "stopped" => Oldu(e.is))
    BY <1>2, <1>5, <1>10
  <2>2. /\ hedef'.durum \in {"stopped", "failed"} /\ (hedef'.durum = "stopped" => isler[e.is].durum = "ok")
        /\ hedef'.geriOn = hedef.geriOn /\ hedef'.silmeOn = hedef.silmeOn
    BY <1>3, <2>1 DEF Satirlar, Oldu
  <2>3. hedef.durum = "stopping" /\ hedef.sonIs = e.is /\ Bitti(isler, e.is) /\ ~isler[e.is].plan
    BY <1>4, <1>5, <1>10
  <2>. QED BY <1>1, <1>3, <1>7, <1>8, <2>2, <2>3, HukumStop DEF e
<1>. QED BY <1>4, <1>9, <1>10

LEMMA DurumSekmeHukum ==
    ASSUME TipInv, ListeInv, kayip = {}, DurumKurali(isler, hedef, uygulama, el), NEW s \in Sekme,
           IsDurumuYaz(s) \/ OnDurumuYaz(s) \/ TazeleYaz(s), ~ezilen', ~eskiHukum'
    PROVE  DurumKurali(isler, hedef', uygulama, el')
<1>1. s \in El
  BY SekmeZam
<1>2. CASE IsDurumuYaz(s)
  BY <1>2, DurumIsDurumu
<1>3. CASE OnDurumuYaz(s)
  BY <1>1, <1>3, DurumOnSonuc DEF OnDurumuYaz
<1>4. CASE TazeleYaz(s)
  <2>1. /\ el[s].yer = "tYaz" /\ Hukum(el[s].durum, el[s].is) /\ Gecer(el, s, Bosta, el')
        /\ IF el[s].durum = "planning" /\ hedef.durum = el[s].durum THEN PlanYazilir(el[s].is)
           ELSE hedef' = SonucYaz(el[s].durum, el[s].is)
    BY <1>4 DEF TazeleYaz, Yerinde, Bitir, Gecer, PlanYazilir
  <2>2. el[s].yer \in Hukumde /\ Bosta \in Eller /\ Bosta.yer \in {"bos", "fKayit"}
    BY <2>1, BosDuz DEF Hukumde
  <2>. HIDE DEF Bosta
  <2>3. CASE el[s].durum = "planning" /\ hedef.durum = "planning"
    <3>1. /\ hedef'.durum \in {"planned", "failed"} /\ hedef'.sonIs = hedef.sonIs
          /\ hedef'.geriOn = hedef.geriOn /\ hedef'.silmeOn = hedef.silmeOn
      <4>1. PlanYazilir(el[s].is) /\ hedef \in Satirlar
        BY <1>1, <2>1, <2>3, Acilim
      <4>. QED BY <4>1, PlanListe
    <3>. QED BY <1>1, <2>1, <2>2, <2>3, <3>1, HukumPlan
  <2>4. CASE ~(el[s].durum = "planning" /\ hedef.durum = "planning")
    BY <1>1, <2>1, <2>2, <2>4, DurumSonuc
  <2>. QED BY <2>3, <2>4
<1>. QED BY <1>2, <1>3, <1>4

\* Only the poller stands at these places.
LEMMA ZamTek ==
    ASSUME TipInv
    PROVE  \A b \in El : el[b].yer \in Stopta \cup Silmede \cup Planda \cup {"sClaim"} => b = Zam
<1>1. \A b \in El : b # Zam => el[b].yer \in {"bos"} \cup SekmeYerleri
  BY DEF TipInv, ElTipi
<1>. QED BY <1>1 DEF SekmeYerleri, Geride, Stopta, Silmede, Planda

\* The STOP whose window is open.
LEMMA DurumStop ==
    ASSUME TipInv, DurumKurali(isler, hedef, uygulama, el), StopDus \/ StopClaim \/ StopGeri \/ StopYaz
    PROVE  DurumKurali(isler, hedef', uygulama, el')
<1>. DEFINE e == el[Zam]
<1>1. Zam \in El
  BY SekmeZam
<1>2. /\ SatirTipi(isler, hedef) /\ hedef \in Satirlar /\ e \in Eller /\ ElTipi(isler, Zam, e) /\ ElIsi(isler, e)
      /\ SatirKurali(isler, hedef, uygulama) /\ el \in [El -> Eller]
      /\ \A b \in El : ElKurali(isler, hedef, uygulama, el[b])
  BY <1>1, Acilim DEF DurumKurali, TipInv
<1>. HIDE DEF e
<1>5. CASE StopDus
  <2>1. /\ e.yer = "dDus" /\ Bitir(Zam)
        /\ hedef' = IF hedef.durum = "stop_scheduled" THEN [hedef EXCEPT !.durum = "failed"] ELSE hedef
    BY <1>5 DEF StopDus, Yerinde, e
  <2>2. CASE hedef.durum # "stop_scheduled"
    BY <1>1, <2>1, <2>2, ListeSonBitir DEF e
  <2>3. CASE hedef.durum = "stop_scheduled"
    <3>1. hedef' = [hedef EXCEPT !.durum = "failed"]
      BY <2>1, <2>3
    <3>2. hedef'.durum = "failed" /\ hedef'.silmeOn = hedef.silmeOn /\ hedef'.geriOn = hedef.geriOn
      BY <1>2, <3>1 DEF Satirlar
    <3>3. SatirKurali(isler, hedef', uygulama)
      BY <3>2 DEF SatirKurali
    <3>4. Bitir(Zam) /\ el[Zam].yer # "oYaz"
      BY <2>1 DEF e
    <3>. QED BY <1>1, <2>3, <3>2, <3>3, <3>4, SakinBitir DEF Gecici
  <2>. QED BY <2>2, <2>3
<1>6. CASE StopClaim
  <2>1. e.yer = "dClaim"
    BY <1>6 DEF StopClaim, Yerinde, e
  <2>2. CASE hedef' = hedef /\ Bitir(Zam)
    BY <1>1, <2>1, <2>2, ListeSonBitir DEF e
  <2>3. CASE /\ hedef.durum = "stop_scheduled" /\ hedef' = [hedef EXCEPT !.durum = "stopping"]
             /\ el' = [el EXCEPT ![Zam].yer = "dBaslat"]
    <3>. DEFINE f == Donus(e, "dBaslat")
    <3>1. "dBaslat" \in SekmeYerleri \cup ZamYerleri
      BY DEF ZamYerleri, Stopta
    <3>2. f \in Eller /\ f.yer = "dBaslat" /\ f = [e EXCEPT !.yer = "dBaslat"]
      BY <1>2, <3>1, DonusAlan
    <3>3. Gecer(el, Zam, f, el')
      BY <1>1, <1>2, <2>3, <3>2 DEF Gecer, e
    <3>. HIDE DEF f
    <3>4. /\ hedef'.durum = "stopping" /\ hedef'.silmeOn = hedef.silmeOn /\ hedef'.geriOn = hedef.geriOn
          /\ hedef'.sonIs = hedef.sonIs
      BY <1>2, <2>3 DEF Satirlar
    <3>5. hedef.durum = "stop_scheduled" /\ hedef.sonIs # Yok /\ isler[hedef.sonIs].plan
      BY <1>2, <2>3 DEF SatirKurali
    <3>6. SatirKurali(isler, hedef', uygulama)
      BY <3>4, <3>5 DEF SatirKurali
    <3>8. DurumKurali(isler, hedef', uygulama, el)
      BY <3>4, <3>5, <3>6, Turler, DurumSakin DEF Gecici
    <3>9. ElKurali(isler, hedef', uygulama, f) /\ \A b \in El : Bir(f, el[b])
      BY <3>2, <3>4, <3>5 DEF ElKurali, Bir, Silmede, Planda, Geride
    <3>10. el[Zam].yer \notin {"oYaz", "dYaz", "gYaz", "sYaz"}
      BY <2>1 DEF e
    <3>. QED BY <1>1, <1>2, <3>2, <3>3, <3>8, <3>9, <3>10, DurumEl
  <2>. QED BY <1>6, <2>2, <2>3 DEF StopClaim
<1>7. CASE StopGeri
  <2>1. e.yer = "dGeri" /\ Bitir(Zam)
    BY <1>7 DEF StopGeri, Yerinde, e
  <2>2. hedef.sonIs # Yok
    BY <1>1, <1>2, <2>1 DEF ElKurali, Stopta, e
  <2>3. hedef' = hedef
    BY <1>7, <2>2 DEF StopGeri
  <2>. QED BY <1>1, <2>1, <2>3, ListeSonBitir DEF e
<1>8. CASE StopYaz
  <2>1. e.yer = "dYaz" /\ Bitir(Zam) /\ hedef' = [hedef EXCEPT !.sonIs = e.is]
    BY <1>8 DEF StopYaz, Yerinde, e
  <2>2. hedef.durum = "stopping" /\ hedef.sonIs # Yok /\ isler[hedef.sonIs].plan
    BY <1>1, <1>2, <2>1 DEF ElKurali, Stopta, e
  <2>3. IsMi(isler, e.is) /\ ~Bitti(isler, e.is) /\ e.is # Yok
    BY <1>2, <2>1, SekmeZam DEF ElTipi, ElIsi, Yazan, Is, IsMi
  <2>4. /\ hedef'.durum = "stopping" /\ hedef'.silmeOn = hedef.silmeOn /\ hedef'.geriOn = hedef.geriOn
        /\ hedef'.sonIs = e.is
    BY <1>2, <2>1, <2>2 DEF Satirlar
  <2>5. SatirKurali(isler, hedef', uygulama)
    BY <2>3, <2>4 DEF SatirKurali, Bitti
  <2>6. Gecer(el, Zam, Bosta, el') /\ \A b \in El \ {Zam} : el'[b] = el[b]
    BY <1>1, <1>2, <2>1 DEF Bitir, Gecer
  <2>7. Bosta \in Eller /\ \A J, h, u, g : ElKurali(J, h, u, Bosta) /\ Bir(Bosta, g)
    BY BosDuz, BosKurali
  <2>. HIDE DEF Bosta
  <2>8. ASSUME NEW j \in Calisan(isler) PROVE Bagli(isler, hedef', el', j)
    <3>1. Bagli(isler, hedef, el, j) /\ ~isler[j].plan
      BY DEF DurumKurali, Calisan
    <3>2. \A b \in El : el[b].yer \in {"oYaz", "dYaz"} => b = Zam \/ el'[b] = el[b]
      BY <2>6
    <3>. QED BY <2>1, <2>2, <2>4, <3>1, <3>2 DEF Bagli, e
  <2>9. ASSUME NEW b \in El \ {Zam} PROVE ElKurali(isler, hedef', uygulama, el[b])
    BY <1>2, <2>2, <2>4, ZamTek DEF ElKurali
  <2>. QED BY <1>1, <1>2, <2>5, <2>6, <2>7, <2>8, <2>9, DurumAdim
<1>. QED BY <1>5, <1>6, <1>7, <1>8

\* The preflight of the deletion that is due.
LEMMA DurumPlan ==
    ASSUME TipInv, DurumKurali(isler, hedef, uygulama, el), PlanClaim \/ PlanGeri \/ PlanYaz
    PROVE  DurumKurali(isler, hedef', uygulama, el')
<1>. DEFINE e == el[Zam]
<1>1. Zam \in El
  BY SekmeZam
<1>2. /\ hedef \in Satirlar /\ e \in Eller /\ ElTipi(isler, Zam, e) /\ el \in [El -> Eller]
      /\ \A b \in El : ElKurali(isler, hedef, uygulama, el[b])
  BY <1>1, Acilim DEF DurumKurali, TipInv
<1>3. e.yer \in Planda
  BY DEF PlanClaim, PlanGeri, PlanYaz, Yerinde, Planda
<1>4. hedef.durum # "deleting" /\ \A b \in El : el[b].yer # "sClaim"
  <2>1. hedef.durum # "deleting" /\ e.yer # "sClaim"
    BY <1>1, <1>2, <1>3 DEF ElKurali, Planda
  <2>. QED BY <2>1, ZamTek
<1>5. e.yer \notin {"oYaz", "dYaz", "gYaz", "sYaz"}
  BY <1>3 DEF Planda
<1>6. ASSUME NEW o, hedef' = [hedef EXCEPT !.silmeOn = o]
      PROVE  DurumKurali(isler, hedef', uygulama, el)
  <2>1. /\ hedef'.durum = hedef.durum /\ hedef'.sonIs = hedef.sonIs /\ hedef'.silmeIs = hedef.silmeIs
        /\ hedef'.geriIs = hedef.geriIs /\ hedef'.silmeOn = o /\ hedef'.geriOn = hedef.geriOn
    BY <1>2, <1>6 DEF Satirlar
  <2>. QED BY <1>4, <2>1, DurumListe
<1>. HIDE DEF e
<1>7. CASE PlanClaim
  <2>1. CASE hedef' = hedef /\ Bitir(Zam)
    BY <1>1, <1>5, <2>1, ListeSonBitir DEF e
  <2>2. CASE /\ hedef' = [hedef EXCEPT !.silmeOn = OnKontrol("baslar", Yok)]
             /\ el' = [el EXCEPT ![Zam].yer = "pBaslat"]
    <3>. DEFINE f == Donus(e, "pBaslat")
    <3>1. "pBaslat" \in SekmeYerleri \cup ZamYerleri
      BY DEF ZamYerleri, Planda
    <3>2. f \in Eller /\ f.yer = "pBaslat" /\ f = [e EXCEPT !.yer = "pBaslat"]
      BY <1>2, <3>1, DonusAlan
    <3>3. Gecer(el, Zam, f, el')
      BY <1>1, <1>2, <2>2, <3>2 DEF Gecer, e
    <3>. HIDE DEF f
    <3>4. DurumKurali(isler, hedef', uygulama, el)
      BY <1>6, <2>2
    <3>5. hedef'.durum = hedef.durum
      BY <1>2, <2>2 DEF Satirlar
    <3>6. ElKurali(isler, hedef', uygulama, f) /\ \A b \in El : Bir(f, el[b])
      BY <1>4, <3>2, <3>5 DEF ElKurali, Bir, Stopta, Silmede, Geride
    <3>. QED BY <1>1, <1>2, <1>5, <3>2, <3>3, <3>4, <3>6, DurumEl DEF e
  <2>. QED BY <1>7, <2>1, <2>2 DEF PlanClaim
<1>8. CASE PlanGeri
  <2>1. Bitir(Zam) /\ hedef' \in {[hedef EXCEPT !.silmeOn = e.gor], hedef}
    BY <1>8 DEF PlanGeri, e
  <2>2. DurumKurali(isler, hedef', uygulama, el)
    BY <1>6, <2>1
  <2>. QED BY <1>1, <1>5, <2>1, <2>2, ListeSonBitir DEF e
<1>9. CASE PlanYaz
  <2>1. Bitir(Zam) /\ hedef' \in {[hedef EXCEPT !.silmeOn = OnKontrol("kosar", e.is)], hedef}
    BY <1>9 DEF PlanYaz, e
  <2>2. DurumKurali(isler, hedef', uygulama, el)
    BY <1>6, <2>1
  <2>. QED BY <1>1, <1>5, <2>1, <2>2, ListeSonBitir DEF e
<1>. QED BY <1>7, <1>8, <1>9

\* The deletion that is due.
LEMMA DurumSil ==
    ASSUME TipInv, DurumKurali(isler, hedef, uygulama, el), SilmeClaim \/ SilmeGeri \/ SilmeYaz
    PROVE  DurumKurali(isler, hedef', uygulama, el')
<1>. DEFINE e == el[Zam]
<1>1. Zam \in El
  BY SekmeZam
<1>2. /\ SatirTipi(isler, hedef) /\ hedef \in Satirlar /\ e \in Eller /\ ElTipi(isler, Zam, e) /\ ElIsi(isler, e)
      /\ SatirKurali(isler, hedef, uygulama) /\ el \in [El -> Eller]
      /\ \A b \in El : ElKurali(isler, hedef, uygulama, el[b])
  BY <1>1, Acilim DEF DurumKurali, TipInv
<1>4. ASSUME NEW j \in Calisan(isler) PROVE Bagli(isler, hedef, el, j) /\ j # Yok
  BY SekmeZam DEF DurumKurali, Calisan
<1>5. Bosta \in Eller /\ \A J, h, u, g : ElKurali(J, h, u, Bosta) /\ Bir(Bosta, g)
  BY BosDuz, BosKurali
<1>. HIDE DEF e, Bosta
\* No other handler is at a place that the status of the row matters to.
<1>6. ASSUME NEW r, r.durum \in {"deleting", "stopped"}, r.geriOn = hedef.geriOn, hedef.durum \in {"deleting", "stopped"}
      PROVE  \A b \in El \ {Zam} : ElKurali(isler, r, uygulama, el[b])
  <2>. SUFFICES ASSUME NEW b \in El \ {Zam} PROVE ElKurali(isler, r, uygulama, el[b])
    OBVIOUS
  <2>1. el[b].yer \notin Stopta \cup Silmede \cup Planda \cup {"sClaim"}
    BY ZamTek
  <2>2. el[b].yer \notin Geride
    BY <1>2, <1>6 DEF ElKurali
  <2>. QED BY <2>1, <2>2 DEF ElKurali
<1>7. CASE SilmeClaim
  <2>1. e.yer = "sClaim"
    BY <1>7 DEF SilmeClaim, Yerinde, e
  <2>2. CASE hedef' = hedef /\ Bitir(Zam)
    BY <1>1, <2>1, <2>2, ListeSonBitir DEF e
  <2>3. CASE /\ hedef.durum = "stopped" /\ hedef' = [hedef EXCEPT !.durum = "deleting"]
             /\ el' = [el EXCEPT ![Zam].yer = "sBaslat"]
    <3>. DEFINE f == Donus(e, "sBaslat")
    <3>1. "sBaslat" \in SekmeYerleri \cup ZamYerleri
      BY DEF ZamYerleri, Silmede
    <3>2. f \in Eller /\ f.yer = "sBaslat" /\ f = [e EXCEPT !.yer = "sBaslat"]
      BY <1>2, <3>1, DonusAlan
    <3>3. Gecer(el, Zam, f, el') /\ el'[Zam] = f /\ \A b \in El \ {Zam} : el'[b] = el[b]
      BY <1>1, <1>2, <2>3, <3>2 DEF Gecer, e
    <3>. HIDE DEF f
    <3>4. /\ hedef'.durum = "deleting" /\ hedef'.silmeOn = hedef.silmeOn /\ hedef'.geriOn = hedef.geriOn
          /\ hedef'.silmeIs = hedef.silmeIs /\ hedef.durum = "stopped"
      BY <1>2, <2>3 DEF Satirlar
    <3>5. hedef.silmeOn # Yok /\ ~hedef.silmeOn.kul /\ uygulama = "durdu"
      BY <1>1, <1>2, <2>1, <3>4 DEF ElKurali, SatirKurali, e
    <3>6. \A j \in Calisan(isler) : /\ isler[j].tur \notin {"sil", "geri"}
                                    /\ isler[j].tur = "stop" => \E b \in El : el[b].yer = "oYaz" /\ el[b].is = j
      BY <3>4, Sakin DEF Gecici
    <3>7. hedef.silmeIs # Yok => Bitti(isler, hedef.silmeIs)
      BY <1>2, <3>6 DEF SatirTipi, Is, IsMi, Calisan
    <3>8. SatirKurali(isler, hedef', uygulama)
      BY <3>4, <3>5 DEF SatirKurali
    <3>9. ElKurali(isler, hedef', uygulama, f)
      BY <3>2, <3>4, <3>5, <3>7 DEF ElKurali, Stopta, Planda, Geride
    <3>10. \A b \in El : Bir(f, el[b])
      BY <3>2 DEF Bir, Geride
    <3>11. ASSUME NEW j \in Calisan(isler) PROVE Bagli(isler, hedef', el', j)
      BY <2>1, <3>3, <3>6 DEF Bagli, e
    <3>. QED BY <1>1, <1>2, <1>6, <3>2, <3>3, <3>4, <3>8, <3>9, <3>10, <3>11, DurumAdim
  <2>. QED BY <1>7, <2>2, <2>3 DEF SilmeClaim
<1>8. CASE SilmeGeri
  <2>1. /\ e.yer = "sGeri" /\ Bitir(Zam)
        /\ hedef' = IF hedef.durum = "deleting" /\ hedef.silmeIs = Yok THEN [hedef EXCEPT !.durum = "stopped"] ELSE hedef
    BY <1>8 DEF SilmeGeri, Yerinde, e
  <2>2. hedef.durum = "deleting" /\ uygulama = "durdu"
    BY <1>1, <1>2, <2>1 DEF ElKurali, Silmede, e
  <2>3. CASE hedef.silmeIs # Yok
    BY <1>1, <2>1, <2>3, ListeSonBitir DEF e
  <2>4. CASE hedef.silmeIs = Yok
    <3>1. hedef' = [hedef EXCEPT !.durum = "stopped"]
      BY <2>1, <2>2, <2>4
    <3>2. hedef'.durum = "stopped" /\ hedef'.geriOn = hedef.geriOn
      BY <1>2, <3>1 DEF Satirlar
    <3>3. SatirKurali(isler, hedef', uygulama)
      BY <2>2, <3>2 DEF SatirKurali
    <3>4. Gecer(el, Zam, Bosta, el') /\ \A b \in El \ {Zam} : el'[b] = el[b]
      BY <1>1, <1>2, <2>1 DEF Bitir, Gecer
    <3>5. ASSUME NEW j \in Calisan(isler) PROVE Bagli(isler, hedef', el', j)
      <4>1. Bagli(isler, hedef, el, j) /\ j # Yok
        BY <1>4
      <4>2. \A b \in El : el[b].yer \in {"oYaz", "dYaz"} => el'[b] = el[b]
        BY <2>1, <3>4 DEF e
      <4>. QED BY <2>1, <2>2, <2>4, <4>1, <4>2 DEF Bagli, e
    <3>. QED BY <1>1, <1>2, <1>5, <1>6, <2>2, <3>2, <3>3, <3>4, <3>5, DurumAdim
  <2>. QED BY <2>3, <2>4
<1>9. CASE SilmeYaz
  <2>. DEFINE o == Kullan(e.gor)
  <2>1. e.yer = "sYaz" /\ Bitir(Zam) /\ hedef' = [hedef EXCEPT !.silmeIs = e.is, !.silmeOn = o]
    BY <1>9 DEF SilmeYaz, Yerinde, e, Kullan
  <2>2. hedef.durum = "deleting" /\ (hedef.silmeIs # Yok => Bitti(isler, hedef.silmeIs))
    BY <1>1, <1>2, <2>1 DEF ElKurali, Silmede, e
  <2>3. /\ Liste(isler, e.gor, "sil") /\ e.gor.durum = "ok" /\ isler[e.is].liste = e.gor.is
        /\ IsMi(isler, e.is) /\ e.is # Yok
    BY <1>2, <2>1, SekmeZam DEF ElTipi, Silmede, Taze, Yazan, Is, IsMi
  <2>4. o \in Listeler /\ o # Yok /\ o.is = e.gor.is
    <3>1. Liste(isler, o, "sil") /\ o.is = e.gor.is
      BY <2>3, KullanTipi
    <3>. QED BY <3>1, ListeDegilYok DEF Liste
  <2>. HIDE DEF o
  <2>5. /\ hedef'.durum = "deleting" /\ hedef'.silmeIs = e.is /\ hedef'.silmeOn = o /\ hedef'.geriOn = hedef.geriOn
    BY <1>2, <2>1, <2>2 DEF Satirlar
  <2>6. SatirKurali(isler, hedef', uygulama)
    BY <2>3, <2>4, <2>5 DEF SatirKurali
  <2>7. Gecer(el, Zam, Bosta, el') /\ \A b \in El \ {Zam} : el'[b] = el[b]
    BY <1>1, <1>2, <2>1 DEF Bitir, Gecer
  <2>8. ASSUME NEW j \in Calisan(isler) PROVE Bagli(isler, hedef', el', j)
    <3>1. Bagli(isler, hedef, el, j) /\ j # Yok /\ ~Bitti(isler, j)
      BY <1>4 DEF Calisan
    <3>2. \A b \in El : el[b].yer \in {"oYaz", "dYaz"} => el'[b] = el[b]
      BY <2>1, <2>7 DEF e
    <3>. QED BY <2>1, <2>2, <2>5, <3>1, <3>2 DEF Bagli, e
  <2>. QED BY <1>1, <1>2, <1>5, <1>6, <2>2, <2>5, <2>6, <2>7, <2>8, DurumAdim
<1>. QED BY <1>7, <1>8, <1>9

LEMMA DurumZamHukum ==
    ASSUME TipInv, ListeInv, kayip = {}, DurumKurali(isler, hedef, uygulama, el),
           OnKontrolTickYaz \/ FinalizeYaz \/ FinalizeKayit, ~eskiHukum'
    PROVE  DurumKurali(isler, hedef', uygulama, el')
<1>1. Zam \in El /\ el[Zam] \in Eller /\ el \in [El -> Eller]
  BY SekmeZam, Acilim DEF TipInv
<1>2. CASE OnKontrolTickYaz
  BY <1>1, <1>2, DurumOnSonuc DEF OnKontrolTickYaz
<1>3. CASE FinalizeKayit
  <2>1. Bitir(Zam) /\ hedef' = hedef /\ el[Zam].yer = "fKayit"
    BY <1>3 DEF FinalizeKayit, Yerinde
  <2>. QED BY <1>1, <2>1, ListeSonBitir
<1>4. CASE FinalizeYaz
  <2>1. /\ el[Zam].yer = "fYaz" /\ hedef' = SonucYaz(el[Zam].durum, el[Zam].is)
        /\ Hukum(el[Zam].durum, el[Zam].is)
        /\ el' = [el EXCEPT ![Zam].yer = "fKayit"] \/ Bitir(Zam)
    BY <1>4 DEF FinalizeYaz, Yerinde
  <2>2. el[Zam].yer \in Hukumde /\ el[Zam].durum # "planning"
    BY <1>1, <2>1, Acilim DEF Hukumde, ElTipi, HukumTipi
  <2>3. CASE Bitir(Zam)
    <3>1. Bosta \in Eller /\ Bosta.yer \in {"bos", "fKayit"} /\ Gecer(el, Zam, Bosta, el')
      BY <2>3, BosDuz DEF Bitir, Gecer
    <3>. HIDE DEF Bosta
    <3>. QED BY <1>1, <2>1, <2>2, <3>1, DurumSonuc
  <2>4. CASE el' = [el EXCEPT ![Zam].yer = "fKayit"]
    <3>. DEFINE f == Donus(el[Zam], "fKayit")
    <3>1. "fKayit" \in SekmeYerleri \cup ZamYerleri
      BY DEF ZamYerleri
    <3>2. f \in Eller /\ f.yer \in {"bos", "fKayit"} /\ f = [el[Zam] EXCEPT !.yer = "fKayit"]
      BY <1>1, <3>1, DonusAlan
    <3>3. Gecer(el, Zam, f, el')
      BY <1>1, <2>4, <3>2 DEF Gecer
    <3>. HIDE DEF f
    <3>4. f \in Eller /\ f.yer \in {"bos", "fKayit"}
      BY <3>2
    <3>. QED BY <1>1, <2>1, <2>2, <3>3, <3>4, DurumSonuc
  <2>. QED BY <2>1, <2>3, <2>4
<1>. QED BY <1>2, <1>3, <1>4

\* What AWX says of a job: the handler alone goes on.
LEMMA DurumSorar ==
    ASSUME TipInv, DurumKurali(isler, hedef, uygulama, el), Sorar
    PROVE  DurumKurali(isler, hedef, uygulama, el')
<1>1. PICK a \in El :
         /\ el[a].yer \in {"tNo", "tSor", "fSor"}
         /\ \/ Bitir(a)
            \/ \E f : el' = [el EXCEPT ![a] = f] /\ f \in Eller /\ f.yer \in {"tSor", "tYaz", "fYaz"}
  BY SorarSonucu
<1>2. CASE Bitir(a)
  BY <1>1, <1>2, ListeSonBitir
<1>3. ASSUME NEW f, el' = [el EXCEPT ![a] = f], f \in Eller, f.yer \in {"tSor", "tYaz", "fYaz"}
      PROVE  DurumKurali(isler, hedef, uygulama, el')
  <2>1. el \in [El -> Eller] /\ Gecer(el, a, f, el')
    BY <1>3 DEF TipInv, Gecer
  <2>2. ElKurali(isler, hedef, uygulama, f) /\ \A b \in El : Bir(f, el[b])
    BY <1>3 DEF ElKurali, Bir, Stopta, Silmede, Planda, Geride
  <2>. QED BY <1>1, <1>3, <2>1, <2>2, DurumEl
<1>. QED BY <1>1, <1>2, <1>3

\* The record, the row and time.
LEMMA DurumDisari ==
    ASSUME TipInv, kayip = {}, DurumKurali(isler, hedef, uygulama, el),
           Iptal \/ Cikar \/ PencereIlerler \/ SilmeGunu \/ Bayatla \/ \E j \in IsNo : Uzlastir(j)
    PROVE  DurumKurali(isler', hedef', uygulama', el')
<1>1. hedef \in Satirlar /\ kanit \subseteq kayip
  BY SekmeZam, Acilim DEF SayacInv
<1>3. CASE Iptal \/ PencereIlerler \/ SilmeGunu
  <2>1. isler' = isler /\ hedef' = hedef /\ uygulama' = uygulama /\ el' = el
    BY <1>3 DEF Iptal, PencereIlerler, SilmeGunu
  <2>. QED BY <2>1
<1>4. CASE Cikar
  <2>1. /\ hedef.durum \notin Gecici /\ hedef' = [hedef EXCEPT !.durum = "skipped"]
        /\ isler' = isler /\ uygulama' = uygulama /\ el' = el
    BY <1>4 DEF Cikar, Gecici, ortam
  <2>2. hedef'.durum = "skipped" /\ hedef'.silmeOn = hedef.silmeOn /\ hedef'.geriOn = hedef.geriOn
    BY <1>1, <2>1 DEF Satirlar
  <2>3. SatirKurali(isler, hedef', uygulama)
    BY <2>2 DEF SatirKurali
  <2>4. hedef.durum \notin Gecici
    BY <2>1
  <2>6. DurumKurali(isler, hedef', uygulama, el)
    BY <2>2, <2>3, <2>4, Turler, DurumSakin
  <2>. QED BY <2>1, <2>6
<1>5. CASE Bayatla
  <2>1. /\ hedef.durum = "stopped" /\ \A b \in El : el[b].yer # "sClaim"
        /\ isler' = isler /\ uygulama' = uygulama /\ el' = el
    BY <1>5 DEF Bayatla, DbArasi, disari, ortam
  <2>2. hedef' = [hedef EXCEPT !.silmeOn = Yasla(hedef.silmeOn)]
    BY <1>5 DEF Bayatla, Yasla
  <2>3. /\ hedef'.durum = hedef.durum /\ hedef'.sonIs = hedef.sonIs /\ hedef'.silmeIs = hedef.silmeIs
        /\ hedef'.geriIs = hedef.geriIs /\ hedef'.geriOn = hedef.geriOn
    BY <1>1, <2>2 DEF Satirlar
  <2>4. DurumKurali(isler, hedef', uygulama, el)
    BY <2>1, <2>3, DurumListe
  <2>. QED BY <2>1, <2>4
<1>6. ASSUME NEW j \in IsNo, Uzlastir(j) PROVE FALSE
  BY <1>1, <1>6 DEF Uzlastir
<1>. QED BY <1>3, <1>4, <1>5, <1>6

\* A real job that ends while no statement is under way is the row's.
LEMMA AwxBagli ==
    ASSUME DurumKurali(isler, hedef, uygulama, el), \A a \in El : el[a].yer \notin DbArasi, Zam \in El,
           NEW j \in Calisan(isler)
    PROVE  /\ isler[j].tur = "stop" => hedef.durum = "stopping" /\ hedef.sonIs = j
           /\ isler[j].tur = "sil" => hedef.durum = "deleting" /\ hedef.silmeIs = j
           /\ isler[j].tur = "geri" => hedef.durum = "rolling_back" /\ hedef.geriIs = j
<1>1. Bagli(isler, hedef, el, j)
  BY DEF DurumKurali, Calisan
<1>2. \A a \in El : el[a].yer \notin {"oYaz", "dYaz", "gYaz", "sYaz"}
  BY DEF DbArasi
<1>. QED BY <1>1, <1>2 DEF Bagli

LEMMA DurumAwx ==
    ASSUME TipInv, DurumKurali(isler, hedef, uygulama, el), NEW j \in IsNo, AwxBiter(j)
    PROVE  DurumKurali(isler', hedef', uygulama', el')
<1>1. isler \in Seq(Isler) /\ j \in 1 .. Len(isler) /\ SatirTipi(isler, hedef) /\ Zam \in El
  BY SekmeZam DEF TipInv, IsNo
<1>2. PICK d \in {"ok", "hata"} :
           /\ isler' = Bitmis(isler, j, d)
           /\ d = "ok" /\ ~isler[j].plan => uygulama' = Etkisi(isler[j].tur)
           /\ uygulama' = uygulama \/ ~isler[j].plan
  BY AwxSonucu
<1>3. ~Bitti(isler, j) /\ (\A a \in El : el[a].yer \notin DbArasi) /\ hedef' = hedef /\ el' = el
  BY AwxSonucu
<1>. DEFINE M == Bitmis(isler, j, d)
<1>4. /\ Uzar(isler, M) /\ Len(M) = Len(isler)
      /\ \A i \in 1 .. Len(isler) :
           /\ M[i].tur = isler[i].tur /\ M[i].plan = isler[i].plan /\ M[i].liste = isler[i].liste
           /\ M[i].durum = IF i = j THEN d ELSE isler[i].durum
  BY <1>1, <1>3, BiterUzar
<1>. HIDE DEF M
<1>5. \A a \in El : /\ el[a].yer \notin Yazan \cup {"sClaim"}
                    /\ el[a].yer \notin Planda \/ hedef.durum # "deleting"
  BY <1>3 DEF DbArasi, Yazan, DurumKurali, ElKurali
<1>6. /\ SatirKurali(isler, hedef, uygulama) /\ \A a \in El : ElKurali(isler, hedef, uygulama, el[a])
      /\ \A a \in El : \A b \in El \ {a} : Bir(el[a], el[b])
  BY DEF DurumKurali
<1>7. \A i \in 1 .. Len(isler) : ~isler[i].plan /\ ~Bitti(isler, i) =>
           /\ isler[i].tur = "stop" => hedef.durum = "stopping" /\ hedef.sonIs = i
           /\ isler[i].tur = "sil" => hedef.durum = "deleting" /\ hedef.silmeIs = i
           /\ isler[i].tur = "geri" => hedef.durum = "rolling_back" /\ hedef.geriIs = i
  BY <1>1, <1>3, AwxBagli DEF Calisan
<1>8. \A i \in 1 .. Len(M) : ~M[i].plan /\ ~Bitti(M, i) => Bagli(M, hedef, el, i)
  BY <1>2, <1>4, <1>7 DEF Bagli, Bitti
<1>9. ~isler[j].plan => /\ isler[j].tur = "stop" => hedef.durum = "stopping" /\ hedef.sonIs = j
                        /\ isler[j].tur = "sil" => hedef.durum = "deleting" /\ hedef.silmeIs = j
                        /\ isler[j].tur = "geri" => hedef.durum = "rolling_back" /\ hedef.geriIs = j
                        /\ isler[j].tur \in {"stop", "sil", "geri"}
  BY <1>1, <1>3, <1>7, Turler
<1>10. /\ hedef.sonIs # Yok => hedef.sonIs \in 1 .. Len(isler) /\ isler[hedef.sonIs].tur = "stop"
       /\ hedef.silmeIs # Yok => hedef.silmeIs \in 1 .. Len(isler) /\ ~isler[hedef.silmeIs].plan
       /\ hedef.geriIs # Yok => /\ hedef.geriIs \in 1 .. Len(isler) /\ ~isler[hedef.geriIs].plan
                                /\ isler[hedef.geriIs].tur = "geri"
  BY <1>1 DEF SatirTipi, StopMi, Is, IsMi
<1>11. j # Yok
  BY <1>1, SekmeZam
<1>12. SatirKurali(M, hedef, uygulama')
  <2>1. hedef.durum \in {"planning", "planned", "stop_scheduled"} => hedef.sonIs # Yok /\ M[hedef.sonIs].plan
    BY <1>4, <1>6, <1>10 DEF SatirKurali
  <2>2. ASSUME hedef.durum = "stopping"
        PROVE  hedef.sonIs # Yok /\ (~M[hedef.sonIs].plan /\ M[hedef.sonIs].durum = "ok" => uygulama' = "durdu")
    <3>1. hedef.sonIs # Yok /\ (~isler[hedef.sonIs].plan /\ isler[hedef.sonIs].durum = "ok" => uygulama = "durdu")
      BY <1>6, <2>2 DEF SatirKurali
    <3>2. CASE isler[j].plan
      BY <1>2, <1>4, <1>10, <3>1, <3>2
    <3>3. CASE ~isler[j].plan
      BY <1>2, <1>4, <1>9, <1>10, <2>2, <3>1, <3>3 DEF Etkisi
    <3>. QED BY <3>2, <3>3
  <2>3. ASSUME hedef.durum = "rolling_back"
        PROVE  /\ hedef.geriOn = Yok \/ hedef.geriOn.kul
               /\ hedef.geriIs # Yok /\ M[hedef.geriIs].durum = "ok" => uygulama' = "calisir"
    <3>1. /\ hedef.geriOn = Yok \/ hedef.geriOn.kul
          /\ hedef.geriIs # Yok /\ isler[hedef.geriIs].durum = "ok" => uygulama = "calisir"
      BY <1>6, <2>3 DEF SatirKurali
    <3>2. CASE isler[j].plan
      BY <1>2, <1>4, <1>10, <3>1, <3>2
    <3>3. CASE ~isler[j].plan
      BY <1>2, <1>4, <1>9, <1>10, <2>3, <3>1, <3>3 DEF Etkisi
    <3>. QED BY <3>1, <3>2, <3>3
  <2>4. /\ hedef.durum = "stopped" => uygulama' = "durdu"
        /\ hedef.durum = "active" => uygulama' = "calisir"
    BY <1>2, <1>6, <1>9 DEF SatirKurali
  <2>5. hedef.durum = "deleting" => /\ hedef.silmeOn # Yok
                                    /\ hedef.silmeOn.kul => hedef.silmeIs # Yok /\ hedef.silmeOn.is = M[hedef.silmeIs].liste
    BY <1>4, <1>6, <1>10 DEF SatirKurali
  <2>. QED BY <2>1, <2>2, <2>3, <2>4, <2>5 DEF SatirKurali
<1>13. ASSUME NEW a \in El PROVE ElKurali(M, hedef, uygulama', el[a])
  <2>1. ElKurali(isler, hedef, uygulama, el[a])
    BY <1>6
  <2>2. CASE el[a].yer \in Silmede
    <3>1. hedef.durum = "deleting" /\ (hedef.silmeIs # Yok => Bitti(isler, hedef.silmeIs))
      BY <2>1, <2>2 DEF ElKurali
    <3>2. isler[j].plan
      BY <1>3, <1>9, <1>11, <3>1
    <3>3. hedef.silmeIs # Yok => Bitti(M, hedef.silmeIs)
      BY <1>2, <1>4, <1>10, <3>1 DEF Bitti
    <3>. QED BY <1>2, <2>1, <2>2, <3>1, <3>2, <3>3 DEF ElKurali, Silmede, Stopta, Planda, Geride
  <2>3. CASE el[a].yer \in Geride
    <3>1. hedef.durum = "rolling_back" /\ hedef.geriIs = Yok
      BY <2>1, <2>3 DEF ElKurali
    <3>2. isler[j].plan
      BY <1>9, <1>11, <3>1
    <3>. QED BY <1>2, <2>1, <2>3, <3>1, <3>2 DEF ElKurali, Silmede, Stopta, Planda, Geride
  <2>4. CASE el[a].yer \notin Silmede \cup Geride
    <3>1. el[a].yer \in Stopta => hedef.durum = "stopping" /\ hedef.sonIs # Yok /\ M[hedef.sonIs].plan
      BY <1>4, <1>10, <2>1 DEF ElKurali
    <3>. QED BY <2>1, <2>4, <3>1 DEF ElKurali
  <2>. QED BY <2>2, <2>3, <2>4
<1>14. DurumKurali(M, hedef, uygulama', el)
  BY <1>6, <1>8, <1>12, <1>13 DEF DurumKurali
<1>. QED BY <1>2, <1>3, <1>14 DEF M

\* A handler ends by a fault, and no number is lost.
LEMMA DurumArizalar ==
    ASSUME TipInv, DurumKurali(isler, hedef, uygulama, el), kayip' = {}, Cokme \/ \E a \in El : DbHata(a)
    PROVE  DurumKurali(isler', hedef', uygulama', el')
<1>1. CASE Cokme
  <2>1. /\ el' = [a \in El |-> Bosta] /\ kayip' = kayip \cup Yazilmamis(El) /\ hedef' = hedef
        /\ isler' = isler /\ uygulama' = uygulama
    BY <1>1 DEF Cokme, disari, ortam
  <2>2. \A a \in El : el[a].yer \notin {"oYaz", "dYaz", "gYaz", "sYaz"}
    BY <2>1 DEF Yazilmamis
  <2>3. \A a \in El : el'[a] = Bosta
    BY <2>1
  <2>4. \A j \in Calisan(isler) : Bagli(isler, hedef, el', j)
    BY <2>2, SekmeZam DEF Bagli, DurumKurali, Calisan
  <2>5. \A J, h, u, g : ElKurali(J, h, u, Bosta) /\ Bir(Bosta, g)
    BY BosKurali
  <2>. HIDE DEF Bosta
  <2>6. DurumKurali(isler, hedef, uygulama, el')
    BY <2>3, <2>4, <2>5 DEF DurumKurali, Calisan
  <2>. QED BY <2>1, <2>6
<1>2. ASSUME NEW a \in El, DbHata(a) PROVE DurumKurali(isler', hedef', uygulama', el')
  <2>1. /\ Bitir(a) /\ kayip' = kayip \cup Yazilmamis({a}) /\ hedef' = hedef
        /\ isler' = isler /\ uygulama' = uygulama
    BY <1>2 DEF DbHata, disari, ortam
  <2>2. el[a].yer \notin {"oYaz", "dYaz", "gYaz", "sYaz"}
    BY <2>1 DEF Yazilmamis
  <2>3. DurumKurali(isler, hedef, uygulama, el')
    BY <2>1, <2>2, ListeSonBitir
  <2>. QED BY <2>1, <2>3
<1>. QED BY <1>1, <1>2

-----------------------------------------------------------------------------
(***************************************************************************)
(* The status: every step                                                  *)
(***************************************************************************)

\* What the history shows stays shown.
Acikca == (~ezilen' => ~ezilen) /\ (~eskiHukum' => ~eskiHukum)

LEMMA SekmeKalir ==
    ASSUME NEW s \in Sekme,
           \/ OnKontrolYaz(s) \/ Zamanla(s) \/ OnayYaz(s) \/ GeriOnYaz(s) \/ GeriClaim(s) \/ GeriGeri(s)
           \/ GeriYaz(s) \/ SilmeOnYaz(s) \/ IsDurumuYaz(s) \/ OnDurumuYaz(s) \/ TazeleYaz(s)
    PROVE  isler' = isler /\ uygulama' = uygulama /\ kayip' = kayip /\ Acikca
<1>1. CASE UNCHANGED satirDisi
  BY <1>1, Zenon DEF satirDisi, disari, ortam, gecmis, Acikca
<1>2. CASE OnKontrolYaz(s)
  BY <1>2, Zenon DEF OnKontrolYaz, Ezer, disari, ortam, Acikca
<1>3. CASE Zamanla(s)
  BY <1>3, Zenon DEF Zamanla, Ezer, disari, ortam, Acikca
<1>4. CASE OnayYaz(s)
  BY <1>4, Zenon DEF OnayYaz, Ezer, disari, ortam, Acikca
<1>5. CASE IsDurumuYaz(s)
  BY <1>5, Zenon DEF IsDurumuYaz, Ezer, Hukum, disari, ortam, Acikca
<1>6. CASE TazeleYaz(s)
  BY <1>6, Zenon DEF TazeleYaz, Hukum, disari, ortam, Acikca
<1>7. CASE GeriOnYaz(s) \/ GeriClaim(s) \/ GeriGeri(s) \/ GeriYaz(s) \/ SilmeOnYaz(s) \/ OnDurumuYaz(s)
  <2>1. UNCHANGED satirDisi
    BY <1>7, Zenon DEF GeriOnYaz, GeriClaim, GeriGeri, GeriYaz, SilmeOnYaz, OnDurumuYaz, OnSonuc
  <2>. QED BY <1>1, <2>1
<1>. QED BY <1>2, <1>3, <1>4, <1>5, <1>6, <1>7

LEMMA ZamKalir ==
    ASSUME \/ StopDus \/ StopClaim \/ StopGeri \/ StopYaz \/ PlanClaim \/ PlanGeri \/ PlanYaz
           \/ SilmeClaim \/ SilmeGeri \/ SilmeYaz \/ OnKontrolTickYaz \/ FinalizeYaz \/ FinalizeKayit
    PROVE  isler' = isler /\ uygulama' = uygulama /\ kayip' = kayip /\ Acikca
<1>1. CASE UNCHANGED satirDisi
  BY <1>1, Zenon DEF satirDisi, disari, ortam, gecmis, Acikca
<1>2. CASE FinalizeYaz
  BY <1>2, Zenon DEF FinalizeYaz, Hukum, disari, ortam, Acikca
<1>3. CASE FinalizeKayit
  BY <1>3, Zenon DEF FinalizeKayit, disari, ortam, gecmis, Acikca
<1>4. CASE StopDus \/ StopClaim \/ StopGeri \/ StopYaz
  BY <1>1, <1>4, Zenon DEF StopDus, StopClaim, StopGeri, StopYaz
<1>5. CASE PlanClaim \/ PlanGeri \/ PlanYaz
  BY <1>1, <1>5, Zenon DEF PlanClaim, PlanGeri, PlanYaz
<1>6. CASE SilmeClaim \/ SilmeGeri \/ SilmeYaz \/ OnKontrolTickYaz
  BY <1>1, <1>6, Zenon DEF SilmeClaim, SilmeGeri, SilmeYaz, OnKontrolTickYaz, OnSonuc
<1>. QED BY <1>2, <1>3, <1>4, <1>5, <1>6

LEMMA DisariKalir ==
    ASSUME Iptal \/ Cikar \/ PencereIlerler \/ SilmeGunu \/ Bayatla \/ \E j \in IsNo : Uzlastir(j)
    PROVE  isler' = isler /\ kayip' = kayip /\ Acikca
<1>1. CASE UNCHANGED <<isler, gecmis>>
  BY <1>1, Zenon DEF gecmis, Acikca
<1>. QED BY <1>1, Zenon DEF Iptal, Cikar, PencereIlerler, SilmeGunu, Bayatla, Uzlastir

LEMMA BaslatirKalir ==
    ASSUME TipInv, NEW a \in El, NEW tur, NEW plan, NEW liste, NEW yaz, NEW red,
           Baslatir(a, tur, plan, liste, yaz, red)
    PROVE  /\ kayip \subseteq kayip' /\ Acikca
           /\ isler' = isler \/ isler' = Append(isler, YeniIs(tur, plan, liste))
<1>1. tur \in {"stop", "sil", "geri"} /\ plan \in BOOLEAN
  BY DEF Baslatir, YerTuru
<1>2. Baslat(a, tur, plan, liste, yaz, red) /\ (liste = Yok \/ IsMi(isler, liste))
  BY DEF Baslatir
<1>3. /\ ezilen' = ezilen /\ eskiHukum' = eskiHukum
      /\ \/ kayip' = kayip
         \/ kayip' = kayip \cup {Len(isler) + 1}
      /\ isler' = isler \/ isler' = Append(isler, YeniIs(tur, plan, liste))
  BY <1>1, <1>2, BaslatSonucu
<1>. QED BY <1>3 DEF Acikca

LEMMA ArizaKalir ==
    ASSUME Cokme \/ \E a \in El : DbHata(a)
    PROVE  isler' = isler /\ kayip \subseteq kayip' /\ Acikca
<1>1. ASSUME NEW a \in El, DbHata(a) PROVE isler' = isler /\ kayip \subseteq kayip' /\ Acikca
  BY <1>1 DEF DbHata, Acikca
<1>2. CASE Cokme
  <2>1. isler' = isler /\ kayip' = kayip \cup Yazilmamis(El) /\ ezilen' = ezilen /\ eskiHukum' = eskiHukum
    BY <1>2 DEF Cokme
  <2>. QED BY <2>1 DEF Acikca
<1>. QED BY <1>1, <1>2

LEMMA SorarKalir ==
    ASSUME TipInv, Sorar
    PROVE  hedef' = hedef /\ isler' = isler /\ uygulama' = uygulama /\ kayip' = kayip /\ Acikca
<1>1. UNCHANGED <<hedef, satirDisi>>
  BY SorarSonucu
<1>. QED BY <1>1, Zenon DEF satirDisi, disari, ortam, gecmis, Acikca

LEMMA DurumBaslangic == Init => DurumInv
<1>. SUFFICES ASSUME Init PROVE DurumKurali(isler, hedef, uygulama, el)
  BY DEF DurumInv
<1>1. Len(isler) = 0 /\ hedef.durum = "pending"
  BY DEF Init, IlkHedef
<1>2. \A a \in El : el[a] = Bosta
  BY DEF Init
<1>3. SatirKurali(isler, hedef, uygulama)
  BY <1>1 DEF SatirKurali
<1>. HIDE DEF Bosta
<1>. QED BY <1>1, <1>2, <1>3, BosKurali DEF DurumKurali

LEMMA DurumKorunur == TipInv /\ ListeInv /\ DurumInv /\ [Next]_vars => DurumInv'
<1>. SUFFICES ASSUME TipInv, ListeInv, DurumInv, [Next]_vars, Duzgun'
              PROVE  DurumKurali(isler', hedef', uygulama', el')
  BY DEF DurumInv
<1>1. kayip' = {} /\ ~ezilen' /\ ~eskiHukum'
  BY DEF Duzgun
<1>2. ASSUME kayip \subseteq kayip', Acikca PROVE kayip = {} /\ DurumKurali(isler, hedef, uygulama, el)
  BY <1>1, <1>2 DEF DurumInv, Duzgun, Acikca
<1>3. CASE UNCHANGED vars
  BY <1>3, <1>2 DEF vars, satirDisi, disari, ortam, gecmis, Acikca
<1>4. ASSUME NEW a \in El, Baslar(a), UNCHANGED <<hedef, isler, kayip, uygulama, ezilen, eskiHukum>>
      PROVE  DurumKurali(isler', hedef', uygulama', el')
  <2>1. DurumKurali(isler, hedef, uygulama, el)
    BY <1>2, <1>4 DEF Acikca
  <2>2. DurumKurali(isler, hedef, uygulama, el')
    BY <1>4, <2>1, DurumBaslar
  <2>. QED BY <1>4, <2>2
<1>5. ASSUME NEW a \in El, NEW tur, NEW plan, NEW liste, NEW yaz, NEW red, Baslatir(a, tur, plan, liste, yaz, red)
      PROVE  DurumKurali(isler', hedef', uygulama', el')
  <2>1. DurumKurali(isler, hedef, uygulama, el)
    BY <1>2, <1>5, BaslatirKalir
  <2>. QED BY <1>1, <1>5, <2>1, DurumBaslatir
<1>13. CASE Sorar
  BY <1>2, <1>13, SorarKalir, DurumSorar
<1>6. ASSUME NEW s \in Sekme, SekmeAdimi(s) PROVE DurumKurali(isler', hedef', uygulama', el')
  <2>1. CASE OnKontrolBaslat(s) \/ OnayBaslat(s) \/ GeriOnBaslat(s) \/ GeriBaslat(s) \/ SilmeOnBaslat(s)
    <3>1. PICK tur, plan, liste, yaz, red : Baslatir(s, tur, plan, liste, yaz, red)
      BY <2>1, SekmeBaslatir
    <3>. QED BY <1>5, <3>1, SekmeZam
  <2>2. CASE \/ OnKontrolYaz(s) \/ Zamanla(s) \/ OnayYaz(s) \/ GeriOnYaz(s) \/ GeriClaim(s) \/ GeriGeri(s)
             \/ GeriYaz(s) \/ SilmeOnYaz(s) \/ IsDurumuYaz(s) \/ OnDurumuYaz(s) \/ TazeleYaz(s)
    <3>1. isler' = isler /\ uygulama' = uygulama /\ kayip' = kayip /\ Acikca
      BY <2>2, SekmeKalir
    <3>2. kayip = {} /\ DurumKurali(isler, hedef, uygulama, el)
      BY <1>2, <3>1
    <3>3. DurumKurali(isler, hedef', uygulama, el')
      BY <1>1, <2>2, <3>2, DurumSekmeYazar, DurumGeriClaim, DurumGeriYazar, DurumSekmeHukum
    <3>. QED BY <3>1, <3>3
  <2>. QED BY <1>6, <1>13, <2>1, <2>2 DEF SekmeAdimi, Sorar
<1>7. CASE ZamAdimi
  <2>1. CASE StopBaslat \/ PlanBaslat \/ SilmeBaslat
    <3>1. PICK tur, plan, liste, yaz, red : Baslatir(Zam, tur, plan, liste, yaz, red)
      BY <2>1, ZamBaslatir
    <3>. QED BY <1>5, <3>1, SekmeZam
  <2>2. CASE \/ StopDus \/ StopClaim \/ StopGeri \/ StopYaz \/ PlanClaim \/ PlanGeri \/ PlanYaz
             \/ SilmeClaim \/ SilmeGeri \/ SilmeYaz \/ OnKontrolTickYaz \/ FinalizeYaz \/ FinalizeKayit
    <3>1. isler' = isler /\ uygulama' = uygulama /\ kayip' = kayip /\ Acikca
      BY <2>2, ZamKalir
    <3>2. kayip = {} /\ DurumKurali(isler, hedef, uygulama, el)
      BY <1>2, <3>1
    <3>3. DurumKurali(isler, hedef', uygulama, el')
      BY <1>1, <2>2, <3>2, DurumStop, DurumPlan, DurumSil, DurumZamHukum
    <3>. QED BY <3>1, <3>3
  <2>. QED BY <1>7, <1>13, <2>1, <2>2 DEF ZamAdimi, Sorar
<1>8. CASE Iptal \/ Cikar \/ PencereIlerler \/ SilmeGunu \/ Bayatla \/ \E j \in IsNo : Uzlastir(j)
  <2>1. kayip = {} /\ DurumKurali(isler, hedef, uygulama, el)
    BY <1>2, <1>8, DisariKalir
  <2>. QED BY <1>8, <2>1, DurumDisari
<1>9. CASE Cokme \/ \E a \in El : DbHata(a)
  <2>1. DurumKurali(isler, hedef, uygulama, el)
    BY <1>2, <1>9, ArizaKalir
  <2>. QED BY <1>1, <1>9, <2>1, DurumArizalar
<1>10. ASSUME NEW j \in IsNo, AwxBiter(j) PROVE DurumKurali(isler', hedef', uygulama', el')
  <2>1. kayip' = kayip /\ ezilen' = ezilen /\ eskiHukum' = eskiHukum
    BY <1>10, AwxSonucu
  <2>2. DurumKurali(isler, hedef, uygulama, el)
    BY <1>2, <2>1 DEF Acikca
  <2>. QED BY <1>10, <2>2, DurumAwx
<1>11. ASSUME NEW s \in Sekme, Istek(s) PROVE DurumKurali(isler', hedef', uygulama', el')
  BY <1>4, <1>11, IstekSonucu, SekmeZam
<1>12. CASE ZamBasla
  BY <1>4, <1>12, ZamBaslaSonucu, SekmeZam
<1>. QED BY <1>3, <1>6, <1>7, <1>8, <1>9, <1>10, <1>11, <1>12 DEF Next

\* The invariant: types, lists, and, unless the history shows one of its three flaws, the status.
THEOREM IInvDogru == Spec => []IInv
<1>1. Init => IInv
  BY TipBaslangic, ListeBaslangic, DurumBaslangic DEF IInv
<1>2. IInv /\ [Next]_vars => IInv'
  BY TipKorunur, ListeKorunur, DurumKorunur DEF IInv
<1>. QED BY <1>1, <1>2, PTL DEF Spec

\* A deletion and a way back never work on the application together, for any number of tabs, jobs,
\* faults and restarts: each is bound to its own status of the row.
THEOREM TekYonDogru == Spec => []TekYon
<1>1. IInv => TekYon
  <2>. SUFFICES ASSUME IInv, Duzgun, NEW i \in Canli("sil"), NEW j \in Canli("geri") PROVE FALSE
    BY DEF TekYon
  <2>1. /\ i \in 1 .. Len(isler) /\ ~isler[i].plan /\ ~Bitti(isler, i) /\ isler[i].tur = "sil"
        /\ j \in 1 .. Len(isler) /\ ~isler[j].plan /\ ~Bitti(isler, j) /\ isler[j].tur = "geri"
    BY DEF Canli, IsNo, Gercek, Biter, Bitti
  <2>2. Bagli(isler, hedef, el, i) /\ Bagli(isler, hedef, el, j)
    BY <2>1 DEF IInv, DurumInv, DurumKurali
  <2>. QED BY <2>1, <2>2 DEF Bagli
<1>. QED BY <1>1, IInvDogru, PTL

\* While no job is under way the status tells what the application is: stopped, deleted or back.
THEOREM DurumGercekDogru == Spec => []DurumGercek
<1>1. IInv => DurumGercek
  <2>. SUFFICES ASSUME IInv, Duzgun
                PROVE  /\ hedef.durum = "stopped" => uygulama = "durdu"
                       /\ hedef.durum = "deleted" => uygulama = "silindi"
                       /\ hedef.durum = "active" => uygulama = "calisir"
    BY DEF DurumGercek
  <2>1. SatirKurali(isler, hedef, uygulama)
    BY DEF IInv, DurumInv, DurumKurali
  <2>2. hedef.durum = "deleted" => uygulama = "silindi"
    BY DEF IInv, TipInv, SatirTipi, IsNo
  <2>. QED BY <2>1, <2>2 DEF SatirKurali
<1>. QED BY <1>1, IInvDogru, PTL

\* One action only starts a deletion.
LEMMA SilBaslar ==
    ASSUME TipInv, [Next]_vars, NEW j \in 1 .. Len(isler'), j > Len(isler),
           isler'[j].tur = "sil", ~isler'[j].plan
    PROVE  SilmeBaslat
<1>1. isler \in Seq(Isler) /\ isler' # isler
  BY DEF TipInv
<1>2. ASSUME NEW a \in El, NEW tur, NEW plan, NEW liste, NEW yaz, NEW red, Baslatir(a, tur, plan, liste, yaz, red)
      PROVE  a = Zam /\ el[Zam].yer = "sBaslat"
  <2>. DEFINE x == YeniIs(tur, plan, liste)
  <2>1. isler' = Append(isler, x)
    BY <1>1, <1>2, BaslatirKalir
  <2>2. x.tur = tur /\ x.plan = plan
    BY DEF YeniIs
  <2>. HIDE DEF x
  <2>3. isler'[j] = x
    BY <1>1, <2>1
  <2>4. yaz = "sYaz"
    <3>1. tur = YerTuru(yaz) /\ plan = (yaz \in PlanYazan) /\ IsleGecis(el[a].yer, yaz)
      BY <1>2 DEF Baslatir
    <3>2. tur = "sil" /\ ~plan
      BY <2>2, <2>3
    <3>3. yaz \notin PlanYazan
      BY <3>1, <3>2, Zenon
    <3>. QED BY <3>1, <3>2, <3>3 DEF YerTuru, PlanYazan, IsleGecis
  <2>5. el[a].yer = "sBaslat"
    BY <1>2, <2>4 DEF Baslatir, IsleGecis
  <2>. QED BY <2>5, ZamTek DEF Silmede
<1>9. ASSUME Sorar PROVE FALSE
  BY <1>1, <1>9, SorarKalir
<1>3. ASSUME NEW s \in Sekme, SekmeAdimi(s) PROVE FALSE
  <2>1. CASE OnKontrolBaslat(s) \/ OnayBaslat(s) \/ GeriOnBaslat(s) \/ GeriBaslat(s) \/ SilmeOnBaslat(s)
    <3>1. PICK tur, plan, liste, yaz, red : Baslatir(s, tur, plan, liste, yaz, red)
      BY <2>1, SekmeBaslatir
    <3>. QED BY <1>2, <3>1, SekmeZam
  <2>2. CASE TazeleNo(s) \/ TazeleSor(s)
    BY <1>9, <2>2 DEF Sorar
  <2>. QED BY <1>1, <1>3, <2>1, <2>2, SekmeKalir DEF SekmeAdimi
<1>4. CASE ZamAdimi
  <2>1. CASE StopBaslat \/ PlanBaslat
    <3>1. PICK tur, plan, liste, yaz, red : Baslatir(Zam, tur, plan, liste, yaz, red)
      BY <2>1, ZamBaslatir
    <3>2. el[Zam].yer = "sBaslat"
      BY <1>2, <3>1, SekmeZam
    <3>. QED BY <2>1, <3>2 DEF StopBaslat, PlanBaslat, Yerinde
  <2>2. CASE FinalizeSor
    BY <1>9, <2>2 DEF Sorar
  <2>. QED BY <1>1, <1>4, <2>1, <2>2, ZamKalir DEF ZamAdimi
<1>5. ASSUME NEW i \in IsNo, AwxBiter(i) PROVE FALSE
  <2>1. PICK d : isler' = Bitmis(isler, i, d)
    BY <1>5, AwxSonucu
  <2>2. Len(isler') = Len(isler)
    BY <1>1, <2>1 DEF Bitmis
  <2>. QED BY <1>1, <2>2
<1>6. CASE UNCHANGED vars
  BY <1>1, <1>6 DEF vars, satirDisi
<1>7. ASSUME NEW s \in Sekme, Istek(s) PROVE FALSE
  BY <1>1, <1>7, IstekSonucu
<1>8. CASE ZamBasla
  BY <1>1, <1>8, ZamBaslaSonucu
<1>. QED BY <1>1, <1>3, <1>4, <1>5, <1>6, <1>7, <1>8, DisariKalir, ArizaKalir DEF Next

\* A deletion starts only on an application that is down, with no way back under way: the round
\* holds the row as deleting, and only from stopped does it come there.
THEOREM SilmeDurmustanDogru == Spec => SilmeDurmustan
<1>. DEFINE Adim == \A j \in 1..Len(isler') : j > Len(isler) /\ isler'[j].tur = "sil" /\ ~isler'[j].plan /\ Duzgun
                      => uygulama = "durdu" /\ Canli("geri") = {}
<1>1. IInv /\ [Next]_vars => Adim
  <2>. SUFFICES ASSUME IInv, [Next]_vars, NEW j \in 1 .. Len(isler'), j > Len(isler),
                       isler'[j].tur = "sil", ~isler'[j].plan, Duzgun
                PROVE  uygulama = "durdu" /\ Canli("geri") = {}
    OBVIOUS
  <2>1. el[Zam].yer = "sBaslat"
    BY SilBaslar DEF IInv, SilmeBaslat, Yerinde
  <2>2. DurumKurali(isler, hedef, uygulama, el)
    BY DEF IInv, DurumInv
  <2>3. hedef.durum = "deleting" /\ uygulama = "durdu"
    BY <2>1, <2>2, SekmeZam DEF DurumKurali, ElKurali, Silmede
  <2>4. ASSUME NEW i \in Canli("geri") PROVE FALSE
    <3>1. i \in 1 .. Len(isler) /\ ~isler[i].plan /\ ~Bitti(isler, i) /\ isler[i].tur = "geri"
      BY DEF Canli, IsNo, Gercek, Biter, Bitti
    <3>. QED BY <2>2, <2>3, <3>1 DEF DurumKurali, Bagli
  <2>. QED BY <2>3, <2>4
<1>. QED BY <1>1, IInvDogru, PTL DEF Spec, SilmeDurmustan
=============================================================================
