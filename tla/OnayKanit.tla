----------------------------- MODULE OnayKanit -----------------------------
(***************************************************************************)
(* Proofs about Onay, for every set of processes, records and requests and *)
(* any number of faults and cancellations.                                 *)
(***************************************************************************)
EXTENDS Onay, FiniteSetTheorems, TLAPS

-----------------------------------------------------------------------------
(***************************************************************************)
(* The inductive invariant                                                 *)
(***************************************************************************)

\* The steps of a round at which it works on one ticket, or on one record.
BiletAdimlari == {"son", "sor", "karar", "kur", "kayda", "baslat", "bitir", "hata", "esitle"}
KayitAdimlari == {"baslat", "bilet", "yaz", "hata"}

\* A round at such a step knows what it works on; what it is about to write is a status
\* of the row; a ticket it found has been opened.
IsleyenTipi ==
    /\ \A p \in SmartSurec :
        /\ smart[p].adim \in BiletAdimlari => smart[p].b \in Bilet
        /\ smart[p].adim = "bitir" => smart[p].sonuc \in {"SCHEDULED", "LAUNCHED"}
        /\ smart[p].adim = "esitle" =>
              smart[p].sonuc \in {"FAILED", "CANCELLED", "LAUNCHED"} /\ smart[p].b[1] \in Kayit
        /\ smart[p].adim = "kayda" => smart[p].sonuc = "SCHEDULED"
    /\ \A p \in OcoSurec :
        /\ oco[p].adim \in KayitAdimlari => oco[p].k \in Kayit
        /\ \A k \in Kayit : oco[p].bagli[k].b # Yok =>
              oco[p].bagli[k].b \in BiletleriOf(k) /\ oco[p].bagli[k].durum # "yok"
    /\ yon.adim # "bos" => yon.k \in Kayit

TipInv == TypeOK /\ IsleyenTipi

\* The steps of a SMART round that has claimed its ticket; at the first three it has not
\* called AWX yet.
SahipliAdimlar == {"karar", "kur", "kayda", "baslat", "bitir", "hata"}
EtkiAdimlari == {"karar", "kur", "baslat"}

\* AWX did nothing for x.
Etkisiz(x) == is[x] = 0 /\ zaman[x] = "yok"

\* A claimed ticket is LAUNCHING and has one round; before the call of AWX, and before
\* the claim, nothing was done for it; and one thing at most ever is.
SahiplikInv ==
    /\ \A p \in SmartSurec :
        /\ smart[p].adim \in SahipliAdimlar => bilet[smart[p].b] = "LAUNCHING"
        /\ smart[p].adim \in EtkiAdimlari => Etkisiz(smart[p].b)
        /\ \A q \in SmartSurec \ {p} :
              smart[p].adim \in SahipliAdimlar /\ smart[q].adim \in SahipliAdimlar
              => smart[p].b # smart[q].b
    /\ \A b \in Bilet :
        /\ bilet[b] \in {"yok", "PENDING"} => Etkisiz(b)
        /\ is[b] = 0 \/ (is[b] = 1 /\ zaman[b] = "yok")

\* A record without a ticket.
Biletsiz(k) == bilet[<<k, 1>>] = "yok" /\ bilet[<<k, 2>>] = "yok"

\* The request of a record is past the statement that opens its ticket.
BiletiGecti(k) == istek[k] \in {"bilet", "bitti"}

\* Of a record.  Before its request there is nothing; a scheduled one has no job yet; what
\* needs approval has its job through a ticket only, and only that has a ticket.  The second
\* ticket is opened after the request, unless the window opened during the request.
KayitKurali(k) ==
    /\ istek[k] \in {"yok", "kuruldu"} => kayit[k].durum = "yok" /\ is[k] = 0 /\ Biletsiz(k)
    /\ istek[k] = "yok" => zaman[k] = "yok"
    /\ kayit[k].durum = "SCHEDULED" => Etkisiz(k) /\ bilet[<<k, 2>>] = "yok"
    /\ kayit[k].durum = "PENDING_APPROVAL" \/ istek[k] = "bilet" => ~Biletsiz(k)
    /\ ~Onayli(k) => istek[k] \notin {"kayit", "bilet"} /\ Biletsiz(k)
    /\ Onayli(k) => Etkisiz(k)
    /\ is[k] = 0 \/ (is[k] = 1 /\ zaman[k] = "yok")
    /\ k \notin gec =>
          /\ istek[k] = "kayit" => saat = "once"
          /\ bilet[<<k, 2>>] # "yok" => BiletiGecti(k) /\ bilet[<<k, 1>>] = "yok"
    /\ geriCekilen[k] = "biletsiz" =>
          kayit[k].durum = "CANCELLED" /\ istek[k] = "bitti" /\ Biletsiz(k) /\ Etkisiz(k)

\* Of a round of the OCO poller.  It claims what is due by its own clock, alone; it starts
\* only what has neither a job nor a ticket, for what it found when it looked still holds.
TurKurali(p) ==
    /\ oco[p].simdi # "once" => saat # "once"
    /\ oco[p].adim \in KayitAdimlari =>
          /\ oco[p].simdi # "once"
          /\ kayit[oco[p].k].durum # "SCHEDULED" /\ istek[oco[p].k] \notin {"yok", "kuruldu"}
          /\ \A q \in OcoSurec \ {p} : oco[q].adim \in KayitAdimlari => oco[q].k # oco[p].k
    /\ oco[p].adim = "baslat" =>
          /\ Etkisiz(oco[p].k) /\ bilet[<<oco[p].k, 2>>] = "yok"
          /\ oco[p].k \notin gec => BiletiGecti(oco[p].k) /\ bilet[<<oco[p].k, 1>>] = "yok"
          /\ geriCekilen[oco[p].k] # "biletsiz"
    /\ oco[p].adim = "bilet" => bilet[<<oco[p].k, 2>>] # "yok"
    /\ \A k \in oco[p].liste : oco[p].simdi # "once" /\ k \notin gec =>
          /\ BiletiGecti(k)
          /\ oco[p].adim # "bak" /\ oco[p].bagli[k].b = Yok => bilet[<<k, 1>>] = "yok"
    /\ \A k \in Kayit : oco[p].bagli[k].b # Yok => bilet[oco[p].bagli[k].b] # "yok"

KayitInv == (\A k \in Kayit : KayitKurali(k)) /\ (\A p \in OcoSurec : TurKurali(p))

\* Nothing of a window was started, and no round is about to, before it.
SaatInv ==
    /\ ErkenBaslamaz
    /\ \A p \in SmartSurec :
          smart[p].adim = "baslat" /\ Turu(smart[p].b) # "serbest" => saat # "once"

\* Who writes that a job or a schedule is there has got it from AWX, or read it in a row:
\* of a ticket, of a round of either poller, and of a record.
BiletSonucu(b) ==
    /\ bilet[b] = "LAUNCHED" => is[b] > 0
    /\ bilet[b] = "SCHEDULED" => zaman[b] # "yok"

SmartSonucu(p) ==
    /\ smart[p].adim \in {"bitir", "esitle"} /\ smart[p].sonuc = "LAUNCHED" => is[smart[p].b] > 0
    /\ smart[p].adim \in {"kayda", "bitir"} /\ smart[p].sonuc = "SCHEDULED"
       => zaman[smart[p].b] # "yok"

OcoBulgusu(p) ==
    /\ oco[p].adim = "yaz" => is[oco[p].k] > 0
    /\ \A k \in Kayit : oco[p].bagli[k].b # Yok =>
          /\ oco[p].bagli[k].durum = "LAUNCHED" => is[oco[p].bagli[k].b] > 0
          /\ oco[p].bagli[k].durum = "SCHEDULED" => zaman[oco[p].bagli[k].b] # "yok"

KayitSonucu(k) ==
    /\ istek[k] = "kuruldu" => zaman[k] # "yok"
    /\ kayit[k].durum = "LAUNCHED" => kayit[k].no \in Kaynaklar(k) /\ is[kayit[k].no] > 0
    /\ kayit[k].durum = "AWX_SCHEDULED" => \E x \in Kaynaklar(k) : zaman[x] # "yok"

SonucInv ==
    /\ \A b \in Bilet : BiletSonucu(b)
    /\ \A p \in SmartSurec : SmartSonucu(p)
    /\ \A p \in OcoSurec : OcoBulgusu(p)
    /\ \A k \in Kayit : KayitSonucu(k)

IInv == TipInv /\ SahiplikInv /\ KayitInv /\ SaatInv /\ SonucInv

-----------------------------------------------------------------------------
(***************************************************************************)
(* Operators                                                               *)
(***************************************************************************)

\* The tickets of a record are tickets; the record of a ticket is the one that has it.
LEMMA BiletKimligi ==
    /\ \A k \in Kayit : /\ <<k, 1>> \in Bilet /\ <<k, 2>> \in Bilet
                        /\ BiletleriOf(k) = {<<k, 1>>, <<k, 2>>} /\ k \notin Bilet
                        /\ Kaynaklar(k) = {k, <<k, 1>>, <<k, 2>>}
    /\ \A k \in Kayit : \A b \in BiletleriOf(k) : b \in Bilet /\ b[1] = k /\ KayitNo(b) = k
    /\ \A b \in Bilet : /\ b[1] \in Kayit => b \in BiletleriOf(b[1]) /\ KayitNo(b) = b[1]
                        /\ b[1] \notin Kayit => KayitNo(b) = Yok
    /\ Yok \notin Kayit /\ Yok \notin Bilet
<1>1. Kayit \cap Dogrudan = {} /\ Kayit \cap Bilet = {} /\ Yok \notin Kaynak
  BY OnayVarsayimi
<1>2. \A k \in Kayit : /\ <<k, 1>> \in Bilet /\ <<k, 2>> \in Bilet
                       /\ BiletleriOf(k) = {<<k, 1>>, <<k, 2>>} /\ k \notin Bilet
  BY <1>1 DEF Bilet, BiletleriOf
<1>3. \A k \in Kayit : Kaynaklar(k) = {k, <<k, 1>>, <<k, 2>>}
  BY <1>2 DEF Kaynaklar
<1>4. \A k \in Kayit : \A b \in BiletleriOf(k) : b \in Bilet /\ b[1] = k /\ KayitNo(b) = k
  <2>. SUFFICES ASSUME NEW k \in Kayit, NEW b \in BiletleriOf(k)
                PROVE  b \in Bilet /\ b[1] = k /\ KayitNo(b) = k
    OBVIOUS
  <2>1. CASE b = <<k, 1>>
    BY <1>2, <2>1 DEF KayitNo
  <2>2. CASE b = <<k, 2>>
    BY <1>2, <2>2 DEF KayitNo
  <2>. QED BY <1>2, <2>1, <2>2
<1>5. ASSUME NEW b \in Bilet
      PROVE  /\ b[1] \in Kayit => b \in BiletleriOf(b[1]) /\ KayitNo(b) = b[1]
             /\ b[1] \notin Kayit => KayitNo(b) = Yok
  BY <1>1 DEF Bilet, BiletleriOf, KayitNo
<1>. QED BY <1>1, <1>2, <1>3, <1>4, <1>5 DEF Kaynak

\* A step of a SMART round changes the step it is at, and nothing of the other rounds.
LEMMA SmartAdimdaKalir ==
    ASSUME NEW S, smart \in [S -> SmartTuru], NEW p \in S,
           NEW adim \in {"bos", "sira"} \cup BiletAdimlari, SmartGit(p, adim)
    PROVE  /\ smart' \in [S -> SmartTuru]
           /\ smart'[p].adim = adim /\ smart'[p].b = smart[p].b
           /\ smart'[p].sonuc = smart[p].sonuc
           /\ \A q \in S \ {p} : smart'[q] = smart[q]
  BY DEF SmartGit, SmartTuru, BiletAdimlari

\* The same for a step that notes its outcome.
LEMMA SmartSonucYazilir ==
    ASSUME NEW S, smart \in [S -> SmartTuru], NEW p \in S,
           NEW adim \in {"bos", "sira"} \cup BiletAdimlari,
           NEW sonuc \in {"yok", "FAILED", "CANCELLED", "SCHEDULED", "LAUNCHED"},
           SmartSonuc(p, adim, sonuc)
    PROVE  /\ smart' \in [S -> SmartTuru]
           /\ smart'[p].adim = adim /\ smart'[p].b = smart[p].b
           /\ smart'[p].sonuc = sonuc
           /\ \A q \in S \ {p} : smart'[q] = smart[q]
  BY DEF SmartSonuc, SmartTuru, BiletAdimlari

\* After a ticket the round has none at hand.
LEMMA SmartIlerler ==
    ASSUME NEW S, smart \in [S -> SmartTuru], NEW p \in S, SmartDevam(p)
    PROVE  /\ smart' \in [S -> SmartTuru]
           /\ smart'[p].adim \in {"bos", "sira"}
           /\ \A q \in S \ {p} : smart'[q] = smart[q]
<1>. DEFINE d == IF smart[p].liste = {} THEN "bos" ELSE "sira"
            l == smart[p].liste
            r == [SmartBos EXCEPT !.adim = d, !.liste = l]
<1>1. l \in SUBSET Bilet /\ d \in {"bos", "sira"} /\ smart' = [smart EXCEPT ![p] = r]
  BY DEF SmartTuru, SmartDevam
<1>. HIDE DEF d, l
<1>2. SmartBos \in SmartTuru
  BY DEF SmartBos, SmartTuru
<1>. HIDE DEF SmartBos
<1>3. r \in SmartTuru /\ r.adim = d
  BY <1>1, <1>2 DEF SmartTuru
<1>. QED BY <1>1, <1>3

\* Only a ticket of a record has its record told.
LEMMA SmartEsitler ==
    ASSUME NEW S, smart \in [S -> SmartTuru], NEW p \in S, smart[p].b \in Bilet,
           NEW sonuc \in {"FAILED", "CANCELLED", "LAUNCHED"}, Esitle(p, sonuc)
    PROVE  /\ smart' \in [S -> SmartTuru]
           /\ \/ smart'[p].adim \in {"bos", "sira"}
              \/ /\ smart'[p].adim = "esitle" /\ smart'[p].b = smart[p].b
                 /\ smart'[p].sonuc = sonuc /\ smart[p].b[1] \in Kayit
           /\ \A q \in S \ {p} : smart'[q] = smart[q]
<1>1. CASE KayitNo(smart[p].b) = Yok
  BY <1>1, SmartIlerler DEF Esitle
<1>2. CASE KayitNo(smart[p].b) # Yok
  <2>1. smart[p].b[1] \in Kayit
    BY <1>2, BiletKimligi
  <2>2. SmartSonuc(p, "esitle", sonuc)
    BY <1>2 DEF Esitle
  <2>. QED BY <2>1, <2>2, SmartSonucYazilir DEF BiletAdimlari
<1>. QED BY <1>1, <1>2

\* A step of an OCO round.
LEMMA OcoAdimdaKalir ==
    ASSUME NEW S, oco \in [S -> OcoTuru], NEW p \in S, NEW adim \in KayitAdimlari, OcoGit(p, adim)
    PROVE  /\ oco' \in [S -> OcoTuru]
           /\ oco'[p].adim = adim /\ oco'[p].k = oco[p].k /\ oco'[p].liste = oco[p].liste
           /\ oco'[p].bagli = oco[p].bagli /\ oco'[p].simdi = oco[p].simdi
           /\ \A q \in S \ {p} : oco'[q] = oco[q]
  BY DEF OcoGit, OcoTuru, KayitAdimlari

\* An idle OCO round.
LEMMA OcoBosTipi ==
    /\ OcoBos \in OcoTuru /\ OcoBos.adim = "bos" /\ OcoBos.liste = {} /\ OcoBos.simdi = "once"
    /\ \A k \in Kayit : OcoBos.bagli[k].b = Yok
<1>1. [k \in Kayit |-> BagliYok] \in [Kayit -> BagliTuru] /\ BagliYok.b = Yok
  BY DEF BagliYok, BagliTuru, BILET_DURUMLARI
<1>. QED BY <1>1 DEF OcoBos, OcoTuru, SAATLER

\* After a record the round keeps the rest of its list, what it found and its clock.
LEMMA OcoIlerler ==
    ASSUME NEW S, oco \in [S -> OcoTuru], NEW p \in S, NEW l \in SUBSET Kayit, OcoDevam(p, l)
    PROVE  /\ oco' \in [S -> OcoTuru]
           /\ oco'[p].adim \in {"bos", "sira"} /\ oco'[p].liste = l
           /\ \/ oco'[p] = OcoBos
              \/ oco'[p].bagli = oco[p].bagli /\ oco'[p].simdi = oco[p].simdi
           /\ \A q \in S \ {p} : oco'[q] = oco[q]
<1>. DEFINE r == [oco[p] EXCEPT !.adim = "sira", !.liste = l, !.k = Yok]
<1>1. /\ r \in OcoTuru /\ r.adim = "sira" /\ r.liste = l
      /\ r.bagli = oco[p].bagli /\ r.simdi = oco[p].simdi
  BY DEF OcoTuru
<1>2. oco' = [oco EXCEPT ![p] = IF l = {} THEN OcoBos ELSE r]
  BY DEF OcoDevam
<1>. QED BY <1>1, <1>2, OcoBosTipi

\* The round notes the tickets it found.
LEMMA OcoBakar ==
    ASSUME NEW S, oco \in [S -> OcoTuru], NEW p \in S, NEW e \in [Kayit -> BagliTuru],
           oco' = [oco EXCEPT ![p].adim = "sira", ![p].bagli = e]
    PROVE  /\ oco' \in [S -> OcoTuru]
           /\ oco'[p].adim = "sira" /\ oco'[p].bagli = e
           /\ oco'[p].liste = oco[p].liste /\ oco'[p].simdi = oco[p].simdi
           /\ \A q \in S \ {p} : oco'[q] = oco[q]
<1>. DEFINE r == [oco[p] EXCEPT !.adim = "sira", !.bagli = e]
<1>1. /\ r \in OcoTuru /\ r.adim = "sira" /\ r.bagli = e
      /\ r.liste = oco[p].liste /\ r.simdi = oco[p].simdi
  BY DEF OcoTuru
<1>2. oco' = [oco EXCEPT ![p] = r]
  OBVIOUS
<1>. HIDE DEF r
<1>. QED BY <1>1, <1>2

\* The round claims a record.
LEMMA OcoSahiplenir ==
    ASSUME NEW S, oco \in [S -> OcoTuru], NEW p \in S, NEW k \in Kayit,
           oco' = [oco EXCEPT ![p].adim = "baslat", ![p].k = k, ![p].liste = @ \ {k}]
    PROVE  /\ oco' \in [S -> OcoTuru]
           /\ oco'[p].adim = "baslat" /\ oco'[p].k = k /\ oco'[p].liste = oco[p].liste \ {k}
           /\ oco'[p].bagli = oco[p].bagli /\ oco'[p].simdi = oco[p].simdi
           /\ \A q \in S \ {p} : oco'[q] = oco[q]
<1>. DEFINE l == oco[p].liste \ {k}
            r == [oco[p] EXCEPT !.adim = "baslat", !.k = k, !.liste = l]
<1>1. l \in SUBSET Kayit
  BY DEF OcoTuru
<1>2. oco' = [oco EXCEPT ![p] = r]
  OBVIOUS
<1>. HIDE DEF l
<1>3. /\ r \in OcoTuru /\ r.adim = "baslat" /\ r.k = k /\ r.liste = l
      /\ r.bagli = oco[p].bagli /\ r.simdi = oco[p].simdi
  BY <1>1 DEF OcoTuru
<1>. HIDE DEF r
<1>4. /\ oco' \in [S -> OcoTuru] /\ oco'[p] = r
      /\ \A q \in S \ {p} : oco'[q] = oco[q]
  BY <1>2, <1>3
<1>. QED BY <1>3, <1>4 DEF l

\* A conditional UPDATE changes at most the row it names, to what it says.
LEMMA BiletYazar ==
    ASSUME NEW B, bilet \in [B -> BILET_DURUMLARI], NEW b, NEW S, NEW d \in BILET_DURUMLARI,
           BiletYaz(b, S, d)
    PROVE  /\ bilet' \in [B -> BILET_DURUMLARI]
           /\ \A c \in B : \/ bilet'[c] = bilet[c]
                           \/ c = b /\ bilet[b] \in S /\ bilet'[b] = d
  BY DEF BiletYaz

\* The same for an UPDATE that may fail, on a ticket.
LEMMA BiletDener ==
    ASSUME NEW B, bilet \in [B -> BILET_DURUMLARI], ariza \in Nat,
           NEW b, NEW S, NEW d \in BILET_DURUMLARI, BiletDene(b, S, d)
    PROVE  /\ bilet' \in [B -> BILET_DURUMLARI] /\ ariza' \in Nat
           /\ \A c \in B : \/ bilet'[c] = bilet[c]
                           \/ c = b /\ bilet[b] \in S /\ bilet'[b] = d
<1>1. CASE BiletYaz(b, S, d) /\ UNCHANGED ariza
  BY <1>1, BiletYazar
<1>2. CASE UNCHANGED bilet /\ Ariza
  BY <1>2 DEF Ariza
<1>. QED BY <1>1, <1>2 DEF BiletDene

\* The rows of the records.
KayitSatiri == [durum : KAYIT_DURUMLARI, no : Kaynak \cup {Yok}]

\* A conditional UPDATE of a record changes at most that row, to what it says.
LEMMA KayitYazar ==
    ASSUME kayit \in [Kayit -> KayitSatiri], NEW k \in Kayit, NEW S, NEW s \in KayitSatiri,
           KayitYaz(k, S, s)
    PROVE  /\ kayit' \in [Kayit -> KayitSatiri]
           /\ \A j \in Kayit : \/ kayit'[j] = kayit[j]
                               \/ j = k /\ kayit[k].durum \in S /\ kayit'[k] = s
  BY DEF KayitYaz

\* The same for an UPDATE that may fail, on a record.
LEMMA KayitDener ==
    ASSUME kayit \in [Kayit -> KayitSatiri], ariza \in Nat, NEW k \in Kayit, NEW S,
           NEW s \in KayitSatiri, KayitDene(k, S, s)
    PROVE  /\ kayit' \in [Kayit -> KayitSatiri] /\ ariza' \in Nat
           /\ \A j \in Kayit : \/ kayit'[j] = kayit[j]
                               \/ j = k /\ kayit[k].durum \in S /\ kayit'[k] = s
<1>1. CASE KayitYaz(k, S, s) /\ UNCHANGED ariza
  BY <1>1, KayitYazar
<1>2. CASE UNCHANGED kayit /\ Ariza
  BY <1>2 DEF Ariza
<1>. QED BY <1>1, <1>2 DEF KayitDene

\* A row with another status is a row; its number stays.
LEMMA DurumluTipi ==
    ASSUME kayit \in [Kayit -> KayitSatiri], NEW k \in Kayit, NEW d \in KAYIT_DURUMLARI
    PROVE  Durumlu(k, d) \in KayitSatiri /\ Durumlu(k, d).durum = d
           /\ Durumlu(k, d).no = kayit[k].no
  BY DEF Durumlu, KayitSatiri

\* What an OCO round finds: the newest ticket of the record, if there is one.
LEMMA EnYeniTipi ==
    ASSUME bilet \in [Bilet -> BILET_DURUMLARI], NEW k \in Kayit
    PROVE  /\ EnYeniBilet(k) \in BagliTuru
           /\ EnYeniBilet(k).b = Yok => BiletiYok(k)
           /\ EnYeniBilet(k).b # Yok =>
                /\ EnYeniBilet(k).b \in BiletleriOf(k)
                /\ EnYeniBilet(k).durum = bilet[EnYeniBilet(k).b]
                /\ EnYeniBilet(k).durum # "yok"
<1>. DEFINE acilan == {b \in BiletleriOf(k) : bilet[b] # "yok"}
            b == CHOOSE x \in acilan : \A y \in acilan : y[2] <= x[2]
<1>1. CASE acilan = {}
  <2>1. EnYeniBilet(k) = BagliYok
    BY <1>1 DEF EnYeniBilet
  <2>2. BagliYok \in BagliTuru /\ BagliYok.b = Yok
    BY DEF BagliYok, BagliTuru, BILET_DURUMLARI
  <2>. QED BY <1>1, <2>1, <2>2 DEF BiletiYok
<1>2. CASE acilan # {}
  <2>1. acilan \subseteq {<<k, 1>>, <<k, 2>>}
    BY BiletKimligi
  <2>2. \E x \in acilan : \A y \in acilan : y[2] <= x[2]
    <3>1. CASE <<k, 2>> \in acilan
      <4>. HIDE DEF acilan
      <4>1. \A y \in acilan : y[2] <= <<k, 2>>[2]
        BY <2>1
      <4>. QED BY <3>1, <4>1
    <3>2. CASE <<k, 2>> \notin acilan
      <4>. HIDE DEF acilan
      <4>1. acilan = {<<k, 1>>}
        BY <1>2, <2>1, <3>2
      <4>. QED BY <4>1
    <3>. QED BY <3>1, <3>2
  <2>3. b \in acilan
    BY <2>2
  <2>4. EnYeniBilet(k) = [b |-> b, durum |-> bilet[b]]
    BY <1>2 DEF EnYeniBilet
  <2>. HIDE DEF b
  <2>5. b \in BiletleriOf(k) /\ b \in Bilet /\ b # Yok /\ bilet[b] # "yok"
    BY <2>3, BiletKimligi
  <2>6. bilet[b] \in BILET_DURUMLARI
    BY <2>5
  <2>. QED BY <2>4, <2>5, <2>6 DEF BagliTuru
<1>. QED BY <1>1, <1>2

-----------------------------------------------------------------------------
(***************************************************************************)
(* Types                                                                   *)
(***************************************************************************)

\* The first state is well typed.
LEMMA TipBaslangic == Init => TipInv
<1>. SUFFICES ASSUME Init PROVE TypeOK /\ IsleyenTipi
  BY DEF TipInv
<1>1. SmartBos \in SmartTuru /\ SmartBos.adim = "bos"
  BY DEF SmartBos, SmartTuru
<1>2. smart \in [SmartSurec -> SmartTuru] /\ oco \in [OcoSurec -> OcoTuru]
  BY <1>1, OcoBosTipi DEF Init
<1>3. TypeOK
  BY <1>2 DEF Init, TypeOK, Turler, SAATLER, KAYIT_DURUMLARI, BILET_DURUMLARI, YonBos
<1>4. IsleyenTipi
  BY <1>1, OcoBosTipi DEF Init, IsleyenTipi, BiletAdimlari, KayitAdimlari, YonBos
<1>. QED BY <1>3, <1>4

\* A ticket that is opened.
LEMMA BiletAcilir ==
    ASSUME NEW B, bilet \in [B -> BILET_DURUMLARI], NEW b, BiletAc(b)
    PROVE  /\ bilet' \in [B -> BILET_DURUMLARI]
           /\ \A c \in B : \/ bilet'[c] = bilet[c]
                           \/ c = b /\ bilet[b] = "yok" /\ bilet'[b] = "PENDING"
  BY DEF BiletAc, BILET_DURUMLARI

\* Every step of a SMART round keeps the types.
LEMMA TipSmart ==
    ASSUME TypeOK, IsleyenTipi, NEW p \in SmartSurec, SmartAdimi(p)
    PROVE  TypeOK' /\ IsleyenTipi'
<1>t. /\ smart \in [SmartSurec -> SmartTuru] /\ bilet \in [Bilet -> BILET_DURUMLARI]
      /\ kayit \in [Kayit -> KayitSatiri] /\ ariza \in Nat
      /\ is \in [Kaynak -> Nat]
      /\ zaman \in [Kaynak -> {"yok", "kurulu", "gecmis", "atesledi", "silindi"}]
      /\ saat \in SAATLER
  BY DEF TypeOK, KayitSatiri
<1>b. /\ smart[p].adim \in BiletAdimlari => smart[p].b \in Bilet
      /\ smart[p].adim = "bitir" => smart[p].sonuc \in {"SCHEDULED", "LAUNCHED"}
      /\ smart[p].adim = "kayda" => smart[p].sonuc = "SCHEDULED"
      /\ smart[p].adim = "esitle" =>
            smart[p].sonuc \in {"FAILED", "CANCELLED", "LAUNCHED"} /\ smart[p].b[1] \in Kayit
  BY DEF IsleyenTipi
\* The handler only moves its own round.
<1>. DEFINE Ilerledi(yeni) ==
              /\ smart' \in [SmartSurec -> SmartTuru]
              /\ \A q \in SmartSurec \ {p} : smart'[q] = smart[q]
              /\ \/ smart'[p].adim \in {"bos", "sira"}
                 \/ smart'[p].adim \in yeni /\ smart'[p].b \in Bilet
                 \/ /\ smart'[p].adim = "esitle" /\ smart'[p].b \in Bilet
                    /\ smart'[p].b[1] \in Kayit
                    /\ smart'[p].sonuc \in {"FAILED", "CANCELLED", "LAUNCHED"}
                 \/ /\ smart'[p].adim = "bitir" /\ smart'[p].b \in Bilet
                    /\ smart'[p].sonuc \in {"SCHEDULED", "LAUNCHED"}
                 \/ /\ smart'[p].adim = "kayda" /\ smart'[p].b \in Bilet
                    /\ smart'[p].sonuc = "SCHEDULED"
            Basit == {"son", "sor", "karar", "kur", "baslat", "hata"}
<1>i. ASSUME Ilerledi(Basit), UNCHANGED <<oco, yon>> PROVE IsleyenTipi'
  BY <1>i DEF IsleyenTipi, BiletAdimlari
<1>1. ASSUME SmartOku(p) PROVE TypeOK' /\ IsleyenTipi'
  <2>1. Ilerledi(Basit)
    BY <1>1, <1>t DEF SmartOku, Bekleyenler, SmartTuru
  <2>2. ariza' \in Nat
    BY <1>1, <1>t DEF SmartOku, Arizasiz, Ariza
  <2>. QED BY <1>1, <1>i, <2>1, <2>2 DEF SmartOku, TypeOK, satirlar, awx, tarih
<1>2. ASSUME NEW b \in Bilet, SmartSira(p, b) PROVE TypeOK' /\ IsleyenTipi'
  <2>1. Ilerledi(Basit)
    BY <1>2, <1>t DEF SmartSira, SmartTuru
  <2>. QED BY <1>2, <1>i, <2>1 DEF SmartSira, TypeOK, satirlar, awx, tarih
<1>3. ASSUME SmartSon(p) \/ SmartRet(p) \/ SmartHata(p) PROVE TypeOK' /\ IsleyenTipi'
  <2>1. smart[p].b \in Bilet
    BY <1>3, <1>b DEF SmartSon, SmartRet, SmartHata, BiletAdimlari
  <2>2. \E sonuc \in {"FAILED", "CANCELLED", "LAUNCHED"} : Esitle(p, sonuc)
    BY <1>3 DEF SmartSon, SmartRet, SmartHata
  <2>3. Ilerledi(Basit)
    BY <1>t, <2>1, <2>2, SmartEsitler
  <2>4. \/ BiletDene(smart[p].b, {"PENDING"}, "TIMEOUT")
        \/ BiletDene(smart[p].b, {"PENDING"}, "REJECTED")
        \/ BiletDene(smart[p].b, {"LAUNCHING"}, "ERROR")
    BY <1>3 DEF SmartSon, SmartRet, SmartHata
  <2>5. bilet' \in [Bilet -> BILET_DURUMLARI] /\ ariza' \in Nat
    BY <1>t, <2>4, BiletDener DEF BILET_DURUMLARI
  <2>. QED BY <1>3, <1>i, <2>3, <2>5 DEF SmartSon, SmartRet, SmartHata, TypeOK, awx, tarih
<1>4. ASSUME SmartBekler(p) PROVE TypeOK' /\ IsleyenTipi'
  <2>1. Ilerledi(Basit)
    BY <1>4, <1>t, SmartIlerler DEF SmartBekler
  <2>. QED BY <1>4, <1>i, <2>1 DEF SmartBekler, TypeOK, satirlar, awx, tarih
<1>5. ASSUME SmartSahiplen(p) PROVE TypeOK' /\ IsleyenTipi'
  <2>1. smart[p].b \in Bilet
    BY <1>5, <1>b DEF SmartSahiplen, BiletAdimlari
  <2>2. SmartGit(p, "karar") \/ Esitle(p, "CANCELLED")
    BY <1>5 DEF SmartSahiplen
  <2>3. Ilerledi(Basit)
    BY <1>t, <2>1, <2>2, SmartEsitler, SmartAdimdaKalir DEF BiletAdimlari
  <2>4. bilet' \in [Bilet -> BILET_DURUMLARI] /\ ariza' \in Nat
    BY <1>5, <1>t, <2>1 DEF SmartSahiplen, Arizasiz, Ariza, BILET_DURUMLARI
  <2>. QED BY <1>5, <1>i, <2>3, <2>4 DEF SmartSahiplen, TypeOK, awx, tarih
<1>6. ASSUME SmartKarar(p) PROVE TypeOK' /\ IsleyenTipi'
  <2>1. smart[p].b \in Bilet
    BY <1>6, <1>b DEF SmartKarar, BiletAdimlari
  <2>2. OnaySonrasi(smart[p].b) \in {"kur", "baslat", "hata"}
    BY <1>t DEF OnaySonrasi, SAATLER
  <2>3. Ilerledi(Basit)
    BY <1>6, <1>t, <2>1, <2>2, SmartAdimdaKalir DEF SmartKarar, BiletAdimlari
  <2>. QED BY <1>6, <1>i, <2>3 DEF SmartKarar, TypeOK, satirlar, awx, tarih
<1>7. ASSUME SmartKur(p) PROVE TypeOK' /\ IsleyenTipi'
  <2>1. smart[p].b \in Bilet
    BY <1>7, <1>b DEF SmartKur, BiletAdimlari
  <2>2. SmartSonuc(p, "kayda", "SCHEDULED") \/ SmartGit(p, "hata")
    BY <1>7 DEF SmartKur
  <2>3. Ilerledi(Basit)
    BY <1>t, <2>1, <2>2, SmartSonucYazilir, SmartAdimdaKalir DEF BiletAdimlari
  <2>4. /\ zaman' \in [Kaynak -> {"yok", "kurulu", "gecmis", "atesledi", "silindi"}]
        /\ ariza' \in Nat
    BY <1>7, <1>t DEF SmartKur, Zamanla, Ariza
  <2>. QED BY <1>7, <1>i, <2>3, <2>4 DEF SmartKur, TypeOK, satirlar, tarih
<1>8. ASSUME SmartKayda(p) PROVE TypeOK' /\ IsleyenTipi'
  <2>1. smart[p].b \in Bilet /\ smart[p].sonuc = "SCHEDULED"
    BY <1>8, <1>b DEF SmartKayda, BiletAdimlari
  <2>3. Ilerledi(Basit)
    BY <1>8, <1>t, <2>1, SmartAdimdaKalir DEF SmartKayda, BiletAdimlari
  <2>4. [durum |-> "AWX_SCHEDULED", no |-> smart[p].b] \in KayitSatiri
    BY <2>1 DEF KayitSatiri, KAYIT_DURUMLARI, Kaynak
  <2>5. kayit' \in [Kayit -> KayitSatiri] /\ ariza' \in Nat
    BY <1>8, <1>t, <2>4 DEF SmartKayda, KayitDene, KayitYaz, Ariza
  <2>. QED BY <1>8, <1>i, <2>3, <2>5 DEF SmartKayda, TypeOK, KayitSatiri, awx, tarih
<1>9. ASSUME SmartBaslat(p) PROVE TypeOK' /\ IsleyenTipi'
  <2>1. smart[p].b \in Bilet
    BY <1>9, <1>b DEF SmartBaslat, BiletAdimlari
  <2>2. SmartSonuc(p, "bitir", "LAUNCHED") \/ SmartGit(p, "hata")
    BY <1>9 DEF SmartBaslat
  <2>3. Ilerledi(Basit)
    BY <1>t, <2>1, <2>2, SmartSonucYazilir, SmartAdimdaKalir DEF BiletAdimlari
  <2>4. is' \in [Kaynak -> Nat] /\ ariza' \in Nat
    BY <1>9, <1>t DEF SmartBaslat, Baslat, Ariza
  <2>. QED BY <1>9, <1>i, <2>3, <2>4 DEF SmartBaslat, TypeOK, satirlar, tarih
<1>10. ASSUME SmartBitir(p) PROVE TypeOK' /\ IsleyenTipi'
  <2>1. smart[p].b \in Bilet /\ smart[p].sonuc \in {"SCHEDULED", "LAUNCHED"}
    BY <1>10, <1>b DEF SmartBitir, BiletAdimlari
  <2>2. SmartDevam(p) \/ Esitle(p, "LAUNCHED") \/ SmartGit(p, "hata")
    BY <1>10 DEF SmartBitir
  <2>3. Ilerledi(Basit)
    BY <1>t, <2>1, <2>2, SmartIlerler, SmartEsitler, SmartAdimdaKalir DEF BiletAdimlari
  <2>4. bilet' \in [Bilet -> BILET_DURUMLARI] /\ ariza' \in Nat
    <3>1. smart[p].sonuc \in BILET_DURUMLARI
      BY <2>1 DEF BILET_DURUMLARI
    <3>2. \/ BiletYaz(smart[p].b, {"LAUNCHING"}, smart[p].sonuc) /\ UNCHANGED ariza
          \/ UNCHANGED bilet /\ Ariza
      BY <1>10 DEF SmartBitir
    <3>. QED BY <1>t, <3>1, <3>2, BiletYazar DEF Ariza
  <2>. QED BY <1>10, <1>i, <2>3, <2>4 DEF SmartBitir, TypeOK, awx, tarih
<1>11. ASSUME SmartEsitle(p) PROVE TypeOK' /\ IsleyenTipi'
  <2>. DEFINE b == smart[p].b
              s == [durum |-> smart[p].sonuc,
                    no |-> IF smart[p].sonuc = "LAUNCHED" THEN b ELSE kayit[KayitNo(b)].no]
  <2>1. /\ b \in Bilet /\ KayitNo(b) \in Kayit
        /\ smart[p].sonuc \in {"FAILED", "CANCELLED", "LAUNCHED"}
    BY <1>11, <1>b, BiletKimligi DEF SmartEsitle, BiletAdimlari
  <2>2. s \in KayitSatiri
    BY <1>t, <2>1 DEF KayitSatiri, KAYIT_DURUMLARI, Kaynak
  <2>3. KayitDene(KayitNo(b), {"PENDING_APPROVAL"}, s)
    BY <1>11 DEF SmartEsitle
  <2>. HIDE DEF s
  <2>4. kayit' \in [Kayit -> KayitSatiri] /\ ariza' \in Nat
    BY <1>t, <2>1, <2>2, <2>3, KayitDener
  <2>5. Ilerledi(Basit)
    BY <1>11, <1>t, SmartIlerler DEF SmartEsitle
  <2>. QED BY <1>11, <1>i, <2>4, <2>5 DEF SmartEsitle, TypeOK, KayitSatiri, awx, tarih
<1>. QED BY <1>1, <1>2, <1>3, <1>4, <1>5, <1>6, <1>7, <1>8, <1>9, <1>10, <1>11 DEF SmartAdimi

\* Every step of an OCO round keeps the types.
LEMMA TipOco ==
    ASSUME TypeOK, IsleyenTipi, NEW p \in OcoSurec, OcoAdimi(p)
    PROVE  TypeOK' /\ IsleyenTipi'
<1>t. /\ oco \in [OcoSurec -> OcoTuru] /\ bilet \in [Bilet -> BILET_DURUMLARI]
      /\ kayit \in [Kayit -> KayitSatiri] /\ ariza \in Nat
      /\ is \in [Kaynak -> Nat] /\ saat \in SAATLER
      /\ oco[p].liste \in SUBSET Kayit
  BY DEF TypeOK, KayitSatiri, OcoTuru
<1>b. /\ oco[p].adim \in KayitAdimlari => oco[p].k \in Kayit
      /\ \A k \in Kayit : oco[p].bagli[k].b # Yok =>
            oco[p].bagli[k].b \in BiletleriOf(k) /\ oco[p].bagli[k].durum # "yok"
  BY DEF IsleyenTipi
<1>. DEFINE Ilerledi ==
              /\ oco' \in [OcoSurec -> OcoTuru]
              /\ \A q \in OcoSurec \ {p} : oco'[q] = oco[q]
              /\ oco'[p].adim \in KayitAdimlari => oco'[p].k \in Kayit
              /\ \A k \in Kayit : oco'[p].bagli[k].b # Yok =>
                    oco'[p].bagli[k].b \in BiletleriOf(k) /\ oco'[p].bagli[k].durum # "yok"
<1>i. ASSUME Ilerledi, UNCHANGED <<smart, yon>> PROVE IsleyenTipi'
  BY <1>i DEF IsleyenTipi
<1>d. ASSUME NEW l \in SUBSET Kayit, OcoDevam(p, l) PROVE Ilerledi
  BY <1>t, <1>b, <1>d, OcoIlerler, OcoBosTipi DEF KayitAdimlari
<1>g. ASSUME NEW adim \in KayitAdimlari, oco[p].adim \in KayitAdimlari, OcoGit(p, adim)
      PROVE  Ilerledi
  BY <1>t, <1>b, <1>g, OcoAdimdaKalir
<1>1. ASSUME OcoOku(p) PROVE TypeOK' /\ IsleyenTipi'
  <2>. DEFINE z == Zamanlanmislar
              r == [OcoBos EXCEPT !.adim = "bak", !.liste = z, !.simdi = saat]
  <2>1. z \in SUBSET Kayit /\ oco' = [oco EXCEPT ![p] = r]
    BY <1>1 DEF OcoOku, Zamanlanmislar
  <2>. HIDE DEF z
  <2>2. r \in OcoTuru /\ r.adim = "bak" /\ r.bagli = OcoBos.bagli
    BY <1>t, <2>1, OcoBosTipi DEF OcoTuru
  <2>. HIDE DEF r
  <2>3. Ilerledi
    BY <1>t, <2>1, <2>2, OcoBosTipi DEF KayitAdimlari
  <2>. QED BY <1>1, <1>i, <2>3 DEF OcoOku, TypeOK, satirlar, awx, tarih
<1>2. ASSUME OcoBak(p) PROVE TypeOK' /\ IsleyenTipi'
  <2>. DEFINE e == [k \in Kayit |-> IF k \in oco[p].liste THEN EnYeniBilet(k) ELSE BagliYok]
  <2>1. BagliYok \in BagliTuru /\ BagliYok.b = Yok
    BY DEF BagliYok, BagliTuru, BILET_DURUMLARI
  <2>2. /\ e \in [Kayit -> BagliTuru]
        /\ \A k \in Kayit : e[k].b # Yok => e[k].b \in BiletleriOf(k) /\ e[k].durum # "yok"
    BY <1>t, <2>1, EnYeniTipi
  <2>3. oco' = [oco EXCEPT ![p].adim = "sira", ![p].bagli = e]
    BY <1>2 DEF OcoBak
  <2>. HIDE DEF e
  <2>4. oco' \in [OcoSurec -> OcoTuru] /\ oco'[p].adim = "sira" /\ oco'[p].bagli = e
        /\ \A q \in OcoSurec \ {p} : oco'[q] = oco[q]
    BY <1>t, <2>2, <2>3, OcoBakar
  <2>5. Ilerledi
    BY <2>2, <2>4 DEF KayitAdimlari
  <2>. QED BY <1>2, <1>i, <2>5 DEF OcoBak, TypeOK, satirlar, awx, tarih
<1>3. ASSUME OcoBakHata(p) PROVE TypeOK' /\ IsleyenTipi'
  <2>1. Ilerledi
    BY <1>3, <1>t, OcoBosTipi DEF OcoBakHata, KayitAdimlari
  <2>. QED BY <1>3, <1>i, <2>1 DEF OcoBakHata, Ariza, TypeOK, satirlar, awx, tarih
<1>4. ASSUME NEW k \in Kayit, AdoptTicket(p, k) PROVE TypeOK' /\ IsleyenTipi'
  <2>. DEFINE t == oco[p].bagli[k]
  <2>1. t \in BagliTuru /\ t.b # Yok /\ t.b \in BiletleriOf(k) /\ t.durum # "yok"
    BY <1>4, <1>t, <1>b DEF AdoptTicket, Benimsenecek, OcoTuru
  <2>2. t.durum \in BILET_DURUMLARI \ {"yok"} /\ t.b \in Bilet
    BY <2>1, BiletKimligi DEF BagliTuru
  <2>. HIDE DEF t
  <2>3. BiletKayit(t.durum) \in KAYIT_DURUMLARI
    BY <2>2 DEF BiletKayit, BILET_DURUMLARI, KAYIT_DURUMLARI
  <2>4. Benimsenmis(t) \in KayitSatiri
    BY <2>2, <2>3 DEF Benimsenmis, KayitSatiri, Kaynak
  <2>5. KayitDene(k, {"SCHEDULED"}, Benimsenmis(t))
    BY <1>4 DEF AdoptTicket, t
  <2>6. kayit' \in [Kayit -> KayitSatiri] /\ ariza' \in Nat
    BY <1>t, <2>4, <2>5, KayitDener
  <2>7. Ilerledi
    BY <1>4, <1>t, <1>d DEF AdoptTicket
  <2>. QED BY <1>4, <1>i, <2>6, <2>7 DEF AdoptTicket, TypeOK, KayitSatiri, awx, tarih
<1>5. ASSUME NEW k \in Kayit, OcoExpired(p, k) PROVE TypeOK' /\ IsleyenTipi'
  <2>1. kayit' \in [Kayit -> KayitSatiri] /\ ariza' \in Nat
    <3>1. Durumlu(k, "EXPIRED") \in KayitSatiri
      BY <1>t, DurumluTipi DEF KAYIT_DURUMLARI
    <3>. QED BY <1>5, <1>t, <3>1, KayitDener DEF OcoExpired
  <2>2. Ilerledi
    BY <1>5, <1>t, <1>d DEF OcoExpired
  <2>. QED BY <1>5, <1>i, <2>1, <2>2 DEF OcoExpired, TypeOK, KayitSatiri, awx, tarih
<1>6. ASSUME NEW k \in Kayit, OcoAtla(p, k) PROVE TypeOK' /\ IsleyenTipi'
  <2>1. Ilerledi
    BY <1>6, <1>t, <1>d DEF OcoAtla
  <2>. QED BY <1>6, <1>i, <2>1 DEF OcoAtla, TypeOK, satirlar, awx, tarih
<1>7. ASSUME NEW k \in Kayit, OcoSahiplen(p, k) PROVE TypeOK' /\ IsleyenTipi'
  <2>1. CASE OcoSahiplenilir(k) /\ kayit' = [kayit EXCEPT ![k].durum = "LAUNCHING"]
             /\ oco' = [oco EXCEPT ![p].adim = "baslat", ![p].k = k, ![p].liste = @ \ {k}]
             /\ UNCHANGED ariza
    <3>0. /\ oco' \in [OcoSurec -> OcoTuru]
          /\ oco'[p].k = k /\ oco'[p].bagli = oco[p].bagli
          /\ \A q \in OcoSurec \ {p} : oco'[q] = oco[q]
      BY <1>t, <2>1, OcoSahiplenir
    <3>1. Ilerledi
      BY <1>b, <3>0
    <3>2. kayit' \in [Kayit -> KayitSatiri]
      BY <1>t, <2>1 DEF KayitSatiri, KAYIT_DURUMLARI
    <3>. QED BY <1>7, <1>i, <2>1, <3>1, <3>2 DEF OcoSahiplen, TypeOK, KayitSatiri, awx, tarih
  <2>2. CASE Arizasiz(~OcoSahiplenilir(k)) /\ UNCHANGED kayit /\ OcoDevam(p, oco[p].liste \ {k})
    <3>1. Ilerledi
      BY <1>t, <1>d, <2>2
    <3>. QED BY <1>7, <1>i, <2>2, <3>1 DEF OcoSahiplen, Arizasiz, Ariza, TypeOK, awx, tarih
  <2>. QED BY <1>7, <2>1, <2>2 DEF OcoSahiplen
<1>8. ASSUME OcoBilet(p) PROVE TypeOK' /\ IsleyenTipi'
  <2>1. OcoGit(p, "bilet") \/ OcoGit(p, "hata")
    BY <1>8 DEF OcoBilet
  <2>2. Ilerledi
    BY <1>8, <1>g, <2>1 DEF OcoBilet, KayitAdimlari
  <2>3. bilet' \in [Bilet -> BILET_DURUMLARI] /\ ariza' \in Nat
    BY <1>8, <1>t, BiletAcilir DEF OcoBilet, Ariza
  <2>. QED BY <1>8, <1>i, <2>2, <2>3 DEF OcoBilet, TypeOK, awx, tarih
<1>9. ASSUME OcoBaslat(p) PROVE TypeOK' /\ IsleyenTipi'
  <2>1. OcoGit(p, "yaz") \/ OcoGit(p, "hata")
    BY <1>9 DEF OcoBaslat
  <2>2. Ilerledi
    BY <1>9, <1>g, <2>1 DEF OcoBaslat, KayitAdimlari
  <2>3. is' \in [Kaynak -> Nat] /\ ariza' \in Nat
    BY <1>9, <1>t DEF OcoBaslat, Baslat, Ariza
  <2>. QED BY <1>9, <1>i, <2>2, <2>3 DEF OcoBaslat, TypeOK, satirlar, tarih
<1>10. ASSUME OcoYaz(p) PROVE TypeOK' /\ IsleyenTipi'
  <2>1. oco[p].k \in Kayit /\ oco[p].adim \in KayitAdimlari
    BY <1>10, <1>b DEF OcoYaz, KayitAdimlari
  <2>2. OcoDevam(p, oco[p].liste) \/ OcoGit(p, "hata")
    BY <1>10 DEF OcoYaz
  <2>3. Ilerledi
    BY <1>t, <1>d, <1>g, <2>1, <2>2 DEF KayitAdimlari
  <2>4. OcoSonucu(p) \in KayitSatiri
    BY <1>t, <2>1, DurumluTipi DEF OcoSonucu, KayitSatiri, KAYIT_DURUMLARI, Kaynak
  <2>5. \/ KayitYaz(oco[p].k, {"LAUNCHING"}, OcoSonucu(p)) /\ UNCHANGED ariza
        \/ UNCHANGED kayit /\ Ariza
    BY <1>10 DEF OcoYaz
  <2>6. kayit' \in [Kayit -> KayitSatiri] /\ ariza' \in Nat
    BY <1>t, <2>1, <2>4, <2>5, KayitYazar DEF Ariza
  <2>. QED BY <1>10, <1>i, <2>3, <2>6 DEF OcoYaz, TypeOK, KayitSatiri, awx, tarih
<1>11. ASSUME OcoHata(p) PROVE TypeOK' /\ IsleyenTipi'
  <2>1. oco[p].k \in Kayit
    BY <1>11, <1>b DEF OcoHata, KayitAdimlari
  <2>2. Ilerledi
    BY <1>11, <1>t, <1>d DEF OcoHata
  <2>3. Durumlu(oco[p].k, "FAILED") \in KayitSatiri
    BY <1>t, <2>1, DurumluTipi DEF KAYIT_DURUMLARI
  <2>4. kayit' \in [Kayit -> KayitSatiri] /\ ariza' \in Nat
    BY <1>11, <1>t, <2>1, <2>3, KayitDener DEF OcoHata
  <2>. QED BY <1>11, <1>i, <2>2, <2>4 DEF OcoHata, TypeOK, KayitSatiri, awx, tarih
<1>. QED BY <1>1, <1>2, <1>3, <1>4, <1>5, <1>6, <1>7, <1>8, <1>9, <1>10, <1>11 DEF OcoAdimi

\* Every step keeps the types.
LEMMA TipAdim == TipInv /\ [Next]_vars => TipInv'
<1>. SUFFICES ASSUME TypeOK, IsleyenTipi, [Next]_vars PROVE TypeOK' /\ IsleyenTipi'
  BY DEF TipInv
<1>t. /\ bilet \in [Bilet -> BILET_DURUMLARI] /\ kayit \in [Kayit -> KayitSatiri]
      /\ ariza \in Nat /\ basma \in Nat /\ saat \in SAATLER
      /\ zaman \in [Kaynak -> {"yok", "kurulu", "gecmis", "atesledi", "silindi"}]
      /\ istek \in [Kayit -> {"yok", "kuruldu", "kayit", "bilet", "bitti"}]
  BY DEF TypeOK, KayitSatiri
<1>y. ASSUME UNCHANGED <<smart, oco, yon>> PROVE IsleyenTipi'
  BY <1>y DEF IsleyenTipi
<1>1. ASSUME NEW k \in Kayit, TalepAwx(k) PROVE TypeOK' /\ IsleyenTipi'
  BY <1>1, <1>t, <1>y DEF TalepAwx, Zamanla, TypeOK, satirlar, tarih
<1>2. ASSUME NEW k \in Kayit, CreateAwxScheduled(k) PROVE TypeOK' /\ IsleyenTipi'
  <2>1. kayit' \in [Kayit -> KayitSatiri]
    BY <1>2, <1>t DEF CreateAwxScheduled, KayitSatiri, KAYIT_DURUMLARI, Kaynak
  <2>. QED BY <1>2, <1>t, <1>y, <2>1 DEF CreateAwxScheduled, TypeOK, KayitSatiri, awx, tarih
<1>3. ASSUME NEW k \in Kayit, TalepPortal(k) PROVE TypeOK' /\ IsleyenTipi'
  <2>1. kayit' \in [Kayit -> KayitSatiri]
    BY <1>3, <1>t DEF TalepPortal, KayitSatiri, KAYIT_DURUMLARI
  <2>. QED BY <1>3, <1>t, <1>y, <2>1 DEF TalepPortal, TypeOK, KayitSatiri, awx, tarih
<1>4. ASSUME NEW k \in Kayit, TalepBilet(k) PROVE TypeOK' /\ IsleyenTipi'
  <2>1. bilet' \in [Bilet -> BILET_DURUMLARI] /\ ariza' \in Nat
    BY <1>4, <1>t, BiletAcilir DEF TalepBilet, Ariza
  <2>. QED BY <1>4, <1>t, <1>y, <2>1 DEF TalepBilet, TypeOK, awx, tarih
<1>5. ASSUME NEW k \in Kayit, MarkPendingApprovalAtRequest(k) PROVE TypeOK' /\ IsleyenTipi'
  <2>1. Durumlu(k, "PENDING_APPROVAL") \in KayitSatiri
    BY <1>t, DurumluTipi DEF KAYIT_DURUMLARI
  <2>2. kayit' \in [Kayit -> KayitSatiri] /\ ariza' \in Nat
    BY <1>5, <1>t, <2>1, KayitDener DEF MarkPendingApprovalAtRequest
  <2>. QED BY <1>5, <1>t, <1>y, <2>2
       DEF MarkPendingApprovalAtRequest, TypeOK, KayitSatiri, awx, tarih
<1>6. ASSUME NEW y \in Dogrudan, TalepDogrudan(y) PROVE TypeOK' /\ IsleyenTipi'
  <2>1. bilet' \in [Bilet -> BILET_DURUMLARI]
    BY <1>6, <1>t, BiletAcilir DEF TalepDogrudan
  <2>. QED BY <1>6, <1>y, <2>1 DEF TalepDogrudan, TypeOK, awx, tarih
<1>7. ASSUME NEW p \in SmartSurec, SmartAdimi(p) PROVE TypeOK' /\ IsleyenTipi'
  BY <1>7, TipSmart
<1>8. ASSUME NEW p \in OcoSurec, OcoAdimi(p) PROVE TypeOK' /\ IsleyenTipi'
  BY <1>8, TipOco
<1>9. ASSUME NEW b \in Bilet, CancelTicket(b) PROVE TypeOK' /\ IsleyenTipi'
  <2>1. bilet' \in [Bilet -> BILET_DURUMLARI]
    BY <1>9, <1>t DEF CancelTicket, BILET_DURUMLARI
  <2>. QED BY <1>9, <1>t, <1>y, <2>1 DEF CancelTicket, Basma, TypeOK, awx, tarih
<1>10. ASSUME NEW k \in Kayit, Cancel(k) PROVE TypeOK' /\ IsleyenTipi'
  <2>1. kayit' \in [Kayit -> KayitSatiri]
    BY <1>10, <1>t DEF Cancel, KayitSatiri, KAYIT_DURUMLARI
  <2>2. geriCekilen' \in [Kayit -> {"-", "biletsiz", "biletli"}]
    BY <1>10 DEF Cancel, TypeOK
  <2>. QED BY <1>10, <1>t, <1>y, <2>1, <2>2 DEF Cancel, Basma, TypeOK, KayitSatiri, awx
<1>11. ASSUME NEW k \in Kayit, AdminOku(k) PROVE TypeOK' /\ IsleyenTipi'
  <2>1. yon' \in [adim : {"bos", "sil", "yaz"}, k : Kayit \cup {Yok}] /\ yon'.k = k
    BY <1>11 DEF AdminOku
  <2>2. IsleyenTipi'
    BY <1>11, <2>1 DEF AdminOku, IsleyenTipi
  <2>. QED BY <1>11, <1>t, <2>1, <2>2 DEF AdminOku, Basma, TypeOK, satirlar, awx, tarih
<1>12. ASSUME AdminSil PROVE TypeOK' /\ IsleyenTipi'
  <2>1. /\ yon' \in [adim : {"bos", "sil", "yaz"}, k : Kayit \cup {Yok}]
        /\ yon'.k = yon.k /\ yon.adim # "bos"
    BY <1>12 DEF AdminSil, TypeOK
  <2>2. IsleyenTipi'
    BY <1>12, <2>1 DEF AdminSil, IsleyenTipi
  <2>3. zaman' \in [Kaynak -> {"yok", "kurulu", "gecmis", "atesledi", "silindi"}]
    BY <1>12, <1>t DEF AdminSil
  <2>. QED BY <1>12, <2>1, <2>2, <2>3 DEF AdminSil, TypeOK, satirlar, tarih
<1>13. ASSUME AdminCancel PROVE TypeOK' /\ IsleyenTipi'
  <2>1. yon.k \in Kayit
    BY <1>13 DEF AdminCancel, IsleyenTipi
  <2>2. Durumlu(yon.k, "CANCELLED") \in KayitSatiri
    BY <1>t, <2>1, DurumluTipi DEF KAYIT_DURUMLARI
  <2>3. kayit' \in [Kayit -> KayitSatiri]
    BY <1>13, <1>t, <2>1, <2>2, KayitYazar DEF AdminCancel
  <2>4. YonBos \in [adim : {"bos", "sil", "yaz"}, k : Kayit \cup {Yok}] /\ YonBos.adim = "bos"
    BY DEF YonBos
  <2>5. IsleyenTipi'
    BY <1>13, <2>4 DEF AdminCancel, IsleyenTipi
  <2>. QED BY <1>13, <2>3, <2>4, <2>5 DEF AdminCancel, TypeOK, KayitSatiri, awx, tarih
<1>14. ASSUME AdminKesilir PROVE TypeOK' /\ IsleyenTipi'
  <2>1. YonBos \in [adim : {"bos", "sil", "yaz"}, k : Kayit \cup {Yok}] /\ YonBos.adim = "bos"
    BY DEF YonBos
  <2>2. IsleyenTipi'
    BY <1>14, <2>1 DEF AdminKesilir, IsleyenTipi
  <2>. QED BY <1>14, <2>1, <2>2 DEF AdminKesilir, TypeOK, satirlar, awx, tarih
<1>15. ASSUME NEW b \in Bilet, NEW k \in {"onay", "ret"}, SmartKarari(b, k)
       PROVE  TypeOK' /\ IsleyenTipi'
  BY <1>15, <1>y DEF SmartKarari, TypeOK, satirlar, awx, tarih
<1>16. ASSUME SaatIlerler PROVE TypeOK' /\ IsleyenTipi'
  <2>1. saat' \in SAATLER /\ gec' \subseteq Kayit /\ ariza' \in Nat
    BY <1>16, <1>t DEF SaatIlerler, Arizasiz, Ariza, SAATLER, TypeOK
  <2>. QED BY <1>16, <1>y, <2>1 DEF SaatIlerler, TypeOK, satirlar, awx
<1>17. ASSUME NEW x \in Kaynak, ZamanAtesler(x) PROVE TypeOK' /\ IsleyenTipi'
  BY <1>17, <1>t, <1>y DEF ZamanAtesler, TypeOK, satirlar, tarih
<1>18. ASSUME NEW p \in SmartSurec \cup OcoSurec, Cokme(p) PROVE TypeOK' /\ IsleyenTipi'
  <2>1. SmartBos \in SmartTuru /\ SmartBos.adim = "bos"
    BY DEF SmartBos, SmartTuru
  <2>2. smart' \in [SmartSurec -> SmartTuru] /\ oco' \in [OcoSurec -> OcoTuru]
    BY <1>18, <2>1, OcoBosTipi DEF Cokme, TypeOK
  <2>3. IsleyenTipi'
    BY <1>18, <2>1, OcoBosTipi DEF Cokme, IsleyenTipi, BiletAdimlari, KayitAdimlari
  <2>. QED BY <1>18, <2>2, <2>3 DEF Cokme, Ariza, TypeOK, satirlar, awx, tarih
<1>19. ASSUME NEW k \in Kayit, IstekKesilir(k) PROVE TypeOK' /\ IsleyenTipi'
  BY <1>19, <1>t, <1>y DEF IstekKesilir, Ariza, TypeOK, satirlar, awx, tarih
<1>20. ASSUME UNCHANGED vars PROVE TypeOK' /\ IsleyenTipi'
  BY <1>20, <1>y DEF vars, TypeOK
<1>. QED BY <1>1, <1>2, <1>3, <1>4, <1>5, <1>6, <1>7, <1>8, <1>9, <1>10, <1>11, <1>12, <1>13,
            <1>14, <1>15, <1>16, <1>17, <1>18, <1>19, <1>20 DEF Next, IstekAdimi

-----------------------------------------------------------------------------
(***************************************************************************)
(* Tickets: ownership, and the refinement of TekKarar                      *)
(***************************************************************************)

\* Nothing new is done for a ticket; no round claims one.
EtkiKalir ==
    \A b \in Bilet : /\ is'[b] = is[b]
                     /\ zaman'[b] = zaman[b] \/ (zaman[b] # "yok" /\ zaman'[b] # "yok")
EllerKalir ==
    \A p \in SmartSurec : smart'[p].adim \in SahipliAdimlar =>
        /\ smart[p].adim \in SahipliAdimlar /\ smart'[p].b = smart[p].b
        /\ smart'[p].adim \in EtkiAdimlari => smart[p].adim \in EtkiAdimlari
DurumKalir(B) == \A b \in B : bilet'[b] = bilet[b]

KararAdimi == [Karar!Next]_<<BiletHali, BiletEtkisi>>

\* The abstract effects change with those of AWX only, the abstract status of one ticket
\* with its row.
LEMMA EtkiDegismez ==
    ASSUME TypeOK, EtkiKalir
    PROVE  UNCHANGED BiletEtkisi
<1>1. \A b \in Bilet : Etki(b)' = Etki(b)
  BY DEF EtkiKalir, Etki
<1>. QED BY <1>1 DEF BiletEtkisi

\* The abstract status changes with the row of a ticket, of that ticket only.
LEMMA HalGecer ==
    ASSUME TypeOK, NEW b \in Bilet, DurumKalir(Bilet \ {b})
    PROVE  BiletHali' = [BiletHali EXCEPT ![b] = Hal(bilet'[b])]
<1>1. \A c \in Bilet : BiletHali'[c] = Hal(bilet'[c]) /\ BiletHali[c] = Hal(bilet[c])
  BY DEF BiletHali
<1>2. \A c \in Bilet \ {b} : BiletHali'[c] = BiletHali[c]
  BY <1>1 DEF DurumKalir
<1>. QED BY <1>1, <1>2 DEF BiletHali

\* A step that leaves the tickets alone.
LEMMA SakinAdim ==
    ASSUME TypeOK, IsleyenTipi, SahiplikInv, EtkiKalir, EllerKalir, DurumKalir(Bilet)
    PROVE  SahiplikInv' /\ KararAdimi
<1>1. \A p \in SmartSurec : smart[p].adim \in SahipliAdimlar => smart[p].b \in Bilet
  BY DEF IsleyenTipi, SahipliAdimlar, BiletAdimlari
<1>2. SahiplikInv'
  BY <1>1 DEF SahiplikInv, EtkiKalir, EllerKalir, DurumKalir, Etkisiz, SahipliAdimlar, EtkiAdimlari
<1>3. UNCHANGED BiletHali
  BY DEF BiletHali, DurumKalir
<1>. QED BY <1>2, <1>3, EtkiDegismez DEF KararAdimi

\* A ticket is opened, or closed by somebody who had not claimed it.
LEMMA SahipsizAdim ==
    ASSUME TypeOK, IsleyenTipi, SahiplikInv, EtkiKalir, EllerKalir,
           NEW b \in Bilet, DurumKalir(Bilet \ {b}),
           \/ bilet[b] = "yok" /\ bilet'[b] = "PENDING"
           \/ bilet[b] = "PENDING" /\ bilet'[b] \notin {"yok", "PENDING", "LAUNCHING"}
    PROVE  SahiplikInv' /\ KararAdimi
<1>1. \A p \in SmartSurec : smart[p].adim \in SahipliAdimlar => smart[p].b \in Bilet
  BY DEF IsleyenTipi, SahipliAdimlar, BiletAdimlari
<1>2. SahiplikInv'
  BY <1>1 DEF SahiplikInv, EtkiKalir, EllerKalir, DurumKalir, Etkisiz, SahipliAdimlar, EtkiAdimlari
<1>3. BiletHali' = [BiletHali EXCEPT ![b] = Hal(bilet'[b])] /\ UNCHANGED BiletEtkisi
  BY HalGecer, EtkiDegismez
<1>4. CASE bilet[b] = "yok" /\ bilet'[b] = "PENDING"
  <2>1. BiletHali[b] = "yok" /\ Hal(bilet'[b]) = "acik"
    BY <1>4 DEF BiletHali, Hal
  <2>. QED BY <1>2, <1>3, <2>1 DEF KararAdimi, Karar!Next, Karar!Ac, Karar!Gecer
<1>5. CASE bilet[b] = "PENDING" /\ bilet'[b] \notin {"yok", "PENDING", "LAUNCHING"}
  <2>1. BiletHali[b] = "acik" /\ Hal(bilet'[b]) = "kapandi"
    BY <1>5 DEF BiletHali, Hal
  <2>. QED BY <1>2, <1>3, <2>1 DEF KararAdimi, Karar!Next, Karar!Vazgec, Karar!Gecer
<1>. QED BY <1>4, <1>5

\* A ticket is closed by the round that had claimed it.
LEMMA SahibiKapatir ==
    ASSUME TypeOK, IsleyenTipi, SahiplikInv, EtkiKalir, EllerKalir, NEW p \in SmartSurec,
           smart[p].adim \in SahipliAdimlar, smart'[p].adim \notin SahipliAdimlar,
           DurumKalir(Bilet \ {smart[p].b}),
           bilet'[smart[p].b] \notin {"yok", "PENDING", "LAUNCHING"}
    PROVE  SahiplikInv' /\ KararAdimi
<1>. DEFINE b == smart[p].b
<1>1. \A q \in SmartSurec : smart[q].adim \in SahipliAdimlar => smart[q].b \in Bilet
  BY DEF IsleyenTipi, SahipliAdimlar, BiletAdimlari
<1>2. SahiplikInv'
  <2>1. ASSUME NEW q \in SmartSurec, smart'[q].adim \in SahipliAdimlar
        PROVE  /\ smart'[q].b = smart[q].b /\ smart[q].adim \in SahipliAdimlar
               /\ smart[q].b \in Bilet \ {b}
    BY <1>1, <2>1 DEF EllerKalir, SahiplikInv
  <2>2. \A c \in Bilet : bilet'[c] = bilet[c] \/ bilet'[c] \notin {"yok", "PENDING"}
    BY DEF DurumKalir
  <2>. QED BY <1>1, <2>1, <2>2
       DEF SahiplikInv, EtkiKalir, EllerKalir, DurumKalir, Etkisiz, SahipliAdimlar, EtkiAdimlari
<1>3. b \in Bilet /\ BiletHali' = [BiletHali EXCEPT ![b] = Hal(bilet'[b])] /\ UNCHANGED BiletEtkisi
  BY <1>1, HalGecer, EtkiDegismez
<1>4. BiletHali[b] = "sahipli" /\ Hal(bilet'[b]) = "kapandi"
  BY <1>3 DEF BiletHali, Hal, SahiplikInv
<1>. QED BY <1>2, <1>3, <1>4 DEF KararAdimi, Karar!Next, Karar!Sonuclan, Karar!Gecer

\* The call of AWX for a claimed ticket.
LEMMA SahibiYapar ==
    ASSUME TypeOK, IsleyenTipi, SahiplikInv, NEW p \in SmartSurec,
           smart[p].adim \in EtkiAdimlari, DurumKalir(Bilet),
           smart'[p].adim \in SahipliAdimlar \ EtkiAdimlari, smart'[p].b = smart[p].b,
           \A q \in SmartSurec \ {p} : smart'[q] = smart[q],
           \A c \in Bilet \ {smart[p].b} : is'[c] = is[c] /\ zaman'[c] = zaman[c],
           \/ is'[smart[p].b] = 1 /\ zaman'[smart[p].b] = "yok"
           \/ is'[smart[p].b] = 0 /\ zaman'[smart[p].b] # "yok"
    PROVE  SahiplikInv' /\ KararAdimi
<1>. DEFINE b == smart[p].b
<1>1. \A q \in SmartSurec : smart[q].adim \in SahipliAdimlar => smart[q].b \in Bilet
  BY DEF IsleyenTipi, SahipliAdimlar, BiletAdimlari
<1>2. EtkiAdimlari \subseteq SahipliAdimlar
  BY DEF EtkiAdimlari, SahipliAdimlar
<1>3. b \in Bilet /\ bilet[b] = "LAUNCHING" /\ Etkisiz(b)
  BY <1>1, <1>2 DEF SahiplikInv
<1>4. SahiplikInv'
  <2>1. \A q \in SmartSurec \ {p} : smart[q].adim \in SahipliAdimlar => smart[q].b \in Bilet \ {b}
    BY <1>1, <1>2 DEF SahiplikInv
  <2>2. ASSUME NEW q \in SmartSurec
        PROVE  /\ (smart[q].adim \in SahipliAdimlar => bilet[smart[q].b] = "LAUNCHING")'
               /\ (smart[q].adim \in EtkiAdimlari => Etkisiz(smart[q].b))'
    BY <1>1, <1>2, <1>3, <2>1 DEF SahiplikInv, DurumKalir, Etkisiz
  <2>3. ASSUME NEW q \in SmartSurec, NEW r \in SmartSurec \ {q}
        PROVE  (smart[q].adim \in SahipliAdimlar /\ smart[r].adim \in SahipliAdimlar
                => smart[q].b # smart[r].b)'
    BY <1>2 DEF SahiplikInv
  <2>4. ASSUME NEW c \in Bilet
        PROVE  /\ (bilet[c] \in {"yok", "PENDING"} => Etkisiz(c))'
               /\ (is[c] = 0 \/ (is[c] = 1 /\ zaman[c] = "yok"))'
    BY <1>3 DEF SahiplikInv, DurumKalir, Etkisiz
  <2>. QED BY <2>2, <2>3, <2>4 DEF SahiplikInv
<1>5. UNCHANGED BiletHali /\ BiletHali[b] = "sahipli"
  BY <1>3 DEF BiletHali, DurumKalir, Hal
<1>6. BiletEtkisi[b] = 0 /\ BiletEtkisi' = [BiletEtkisi EXCEPT ![b] = 1]
  <2>1. \A c \in Bilet : /\ BiletEtkisi[c] = is[c] + IF zaman[c] = "yok" THEN 0 ELSE 1
                         /\ BiletEtkisi'[c] = is'[c] + IF zaman'[c] = "yok" THEN 0 ELSE 1
    BY DEF BiletEtkisi, Etki
  <2>2. BiletEtkisi[b] = 0 /\ BiletEtkisi'[b] = 1
    BY <1>3, <2>1 DEF Etkisiz
  <2>3. \A c \in Bilet \ {b} : BiletEtkisi'[c] = BiletEtkisi[c]
    BY <2>1
  <2>4. /\ BiletEtkisi = [c \in Bilet |-> BiletEtkisi[c]]
        /\ BiletEtkisi' = [c \in Bilet |-> BiletEtkisi'[c]]
    BY DEF BiletEtkisi
  <2>. HIDE DEF b
  <2>. QED BY <1>3, <2>2, <2>3, <2>4
<1>. QED BY <1>3, <1>4, <1>5, <1>6 DEF KararAdimi, Karar!Next, Karar!EtkiYap

\* A round that moves to a step at which it owns no ticket, or stays at one.
LEMMA EllerBirakir ==
    ASSUME NEW p \in SmartSurec, \A q \in SmartSurec \ {p} : smart'[q] = smart[q],
           smart'[p].adim \in SahipliAdimlar =>
              /\ smart[p].adim \in SahipliAdimlar /\ smart'[p].b = smart[p].b
              /\ smart'[p].adim \notin EtkiAdimlari
    PROVE  EllerKalir
  BY DEF EllerKalir

\* Every step of a SMART round: who claims a ticket acts on it at most once, and closes it.
LEMMA SahiplikSmart ==
    ASSUME TypeOK, IsleyenTipi, SahiplikInv, NEW p \in SmartSurec, SmartAdimi(p)
    PROVE  SahiplikInv' /\ KararAdimi
<1>t. /\ smart \in [SmartSurec -> SmartTuru] /\ bilet \in [Bilet -> BILET_DURUMLARI]
      /\ is \in [Kaynak -> Nat] /\ ariza \in Nat /\ saat \in SAATLER
      /\ zaman \in [Kaynak -> {"yok", "kurulu", "gecmis", "atesledi", "silindi"}]
  BY DEF TypeOK
<1>b. smart[p].adim \in BiletAdimlari => smart[p].b \in Bilet
  BY DEF IsleyenTipi
<1>e. UNCHANGED awx => EtkiKalir
  BY DEF awx, EtkiKalir
<1>d. UNCHANGED bilet => \A B : DurumKalir(B)
  BY DEF DurumKalir
<1>s. BiletAdimlari \cap {"bos", "sira"} = {} /\ SahipliAdimlar \subseteq BiletAdimlari
      /\ SahipliAdimlar \cap {"bos", "sira", "son", "sor", "esitle"} = {}
  BY DEF BiletAdimlari, SahipliAdimlar
<1>1. ASSUME SmartOku(p) \/ (\E b \in Bilet : SmartSira(p, b)) PROVE SahiplikInv' /\ KararAdimi
  <2>1. /\ smart'[p].adim \in {"sira", "son", "sor"}
        /\ \A q \in SmartSurec \ {p} : smart'[q] = smart[q]
    <3>1. CASE SmartOku(p)
      BY <1>t, <3>1 DEF SmartOku, SmartTuru
    <3>2. ASSUME NEW b \in Bilet, SmartSira(p, b)
          PROVE  /\ smart'[p].adim \in {"son", "sor"}
                 /\ \A q \in SmartSurec \ {p} : smart'[q] = smart[q]
      BY <1>t, <3>2 DEF SmartSira, SmartTuru
    <3>. QED BY <1>1, <3>1, <3>2
  <2>2. UNCHANGED <<bilet, awx>>
    BY <1>1 DEF SmartOku, SmartSira, satirlar
  <2>. QED BY <1>d, <1>e, <1>s, <2>1, <2>2, EllerBirakir, SakinAdim
<1>2. ASSUME SmartSon(p) \/ SmartRet(p) PROVE SahiplikInv' /\ KararAdimi
  <2>. DEFINE b == smart[p].b
  <2>1. b \in Bilet /\ UNCHANGED awx
    BY <1>2, <1>b DEF SmartSon, SmartRet, BiletAdimlari
  <2>2. Esitle(p, "FAILED")
    BY <1>2 DEF SmartSon, SmartRet
  <2>3. EllerKalir
    BY <1>t, <1>s, <2>1, <2>2, SmartEsitler, EllerBirakir
  <2>4. BiletDene(b, {"PENDING"}, "TIMEOUT") \/ BiletDene(b, {"PENDING"}, "REJECTED")
    BY <1>2 DEF SmartSon, SmartRet
  <2>5. \/ DurumKalir(Bilet)
        \/ /\ DurumKalir(Bilet \ {b}) /\ bilet[b] = "PENDING"
           /\ bilet'[b] \in {"TIMEOUT", "REJECTED"}
    BY <1>t, <2>4, BiletDener DEF DurumKalir, BILET_DURUMLARI
  <2>. HIDE DEF b
  <2>. QED BY <1>e, <2>1, <2>3, <2>5, SakinAdim, SahipsizAdim
<1>3. ASSUME SmartBekler(p) PROVE SahiplikInv' /\ KararAdimi
  <2>1. EllerKalir
    BY <1>3, <1>t, <1>s, SmartIlerler, EllerBirakir DEF SmartBekler
  <2>2. UNCHANGED <<bilet, awx>>
    BY <1>3 DEF SmartBekler, satirlar
  <2>. QED BY <1>d, <1>e, <2>1, <2>2, SakinAdim
<1>4. ASSUME SmartSahiplen(p) PROVE SahiplikInv' /\ KararAdimi
  <2>. DEFINE b == smart[p].b
  <2>1. b \in Bilet /\ smart[p].adim = "sor" /\ UNCHANGED awx
    BY <1>4, <1>b DEF SmartSahiplen, BiletAdimlari
  <2>2. CASE /\ Sahiplenilir(b) /\ bilet' = [bilet EXCEPT ![b] = "LAUNCHING"]
             /\ SmartGit(p, "karar")
    <3>1. /\ smart'[p].adim = "karar" /\ smart'[p].b = b
          /\ \A q \in SmartSurec \ {p} : smart'[q] = smart[q]
      BY <1>t, <2>2, SmartAdimdaKalir DEF BiletAdimlari
    <3>2. bilet[b] = "PENDING" /\ bilet'[b] = "LAUNCHING" /\ DurumKalir(Bilet \ {b})
      BY <1>t, <2>1, <2>2 DEF Sahiplenilir, DurumKalir
    <3>3. \A q \in SmartSurec : smart[q].adim \in SahipliAdimlar => smart[q].b \in Bilet \ {b}
      BY <3>2, <1>s DEF IsleyenTipi, SahiplikInv
    <3>4. Etkisiz(b) /\ is'[b] = 0 /\ zaman'[b] = "yok"
      BY <2>1, <3>2 DEF SahiplikInv, Etkisiz, awx
    <3>. HIDE DEF b
    <3>5. SahiplikInv'
      <4>1. ASSUME NEW q \in SmartSurec
            PROVE  /\ (smart[q].adim \in SahipliAdimlar => bilet[smart[q].b] = "LAUNCHING")'
                   /\ (smart[q].adim \in EtkiAdimlari => Etkisiz(smart[q].b))'
        <5>1. CASE q = p
          BY <3>1, <3>2, <3>4, <5>1 DEF Etkisiz
        <5>2. CASE q # p
          <6>1. smart'[q] = smart[q] /\ UNCHANGED <<is, zaman>>
            BY <2>1, <3>1, <5>2 DEF awx
          <6>. QED BY <3>2, <3>3, <6>1 DEF SahiplikInv, Etkisiz, DurumKalir
        <5>. QED BY <5>1, <5>2
      <4>2. ASSUME NEW q \in SmartSurec, NEW r \in SmartSurec \ {q}
            PROVE  (smart[q].adim \in SahipliAdimlar /\ smart[r].adim \in SahipliAdimlar
                    => smart[q].b # smart[r].b)'
        BY <3>1, <3>3 DEF SahiplikInv
      <4>3. ASSUME NEW c \in Bilet
            PROVE  /\ (bilet[c] \in {"yok", "PENDING"} => Etkisiz(c))'
                   /\ (is[c] = 0 \/ (is[c] = 1 /\ zaman[c] = "yok"))'
        BY <2>1, <3>2 DEF SahiplikInv, Etkisiz, DurumKalir, awx
      <4>. QED BY <4>1, <4>2, <4>3 DEF SahiplikInv
    <3>6. BiletHali[b] = "acik" /\ Hal(bilet'[b]) = "sahipli"
      BY <2>1, <3>2 DEF BiletHali, Hal
    <3>7. BiletHali' = [BiletHali EXCEPT ![b] = Hal(bilet'[b])] /\ UNCHANGED BiletEtkisi
      BY <1>e, <2>1, <3>2, HalGecer, EtkiDegismez
    <3>. QED BY <2>1, <3>5, <3>6, <3>7 DEF KararAdimi, Karar!Next, Karar!Sahiplen, Karar!Gecer
  <2>3. CASE UNCHANGED bilet /\ Esitle(p, "CANCELLED")
    <3>1. EllerKalir
      BY <1>t, <1>s, <2>1, <2>3, SmartEsitler, EllerBirakir
    <3>. QED BY <1>d, <1>e, <2>1, <2>3, <3>1, SakinAdim
  <2>. QED BY <1>4, <2>2, <2>3 DEF SmartSahiplen
<1>5. ASSUME SmartKarar(p) PROVE SahiplikInv' /\ KararAdimi
  <2>1. OnaySonrasi(smart[p].b) \in {"kur", "baslat", "hata"}
    BY <1>t DEF OnaySonrasi, SAATLER
  <2>2. /\ smart'[p].adim \in {"kur", "baslat", "hata"} /\ smart'[p].b = smart[p].b
        /\ smart[p].adim = "karar"
        /\ \A q \in SmartSurec \ {p} : smart'[q] = smart[q]
    BY <1>5, <1>t, <2>1, SmartAdimdaKalir DEF SmartKarar, BiletAdimlari
  <2>3. EllerKalir
    BY <2>2 DEF EllerKalir, SahipliAdimlar, EtkiAdimlari
  <2>4. UNCHANGED <<bilet, awx>>
    BY <1>5 DEF SmartKarar, satirlar
  <2>. QED BY <1>d, <1>e, <2>3, <2>4, SakinAdim
<1>6. ASSUME SmartKur(p) \/ SmartBaslat(p) PROVE SahiplikInv' /\ KararAdimi
  <2>. DEFINE b == smart[p].b
  <2>1. /\ smart[p].adim \in {"kur", "baslat"} /\ b \in Bilet /\ UNCHANGED bilet
        /\ smart[p].adim \in EtkiAdimlari /\ smart[p].adim \in SahipliAdimlar
    BY <1>6, <1>b DEF SmartKur, SmartBaslat, BiletAdimlari, EtkiAdimlari, SahipliAdimlar, satirlar
  <2>2. \/ SmartSonuc(p, "kayda", "SCHEDULED") \/ SmartSonuc(p, "bitir", "LAUNCHED")
        \/ SmartGit(p, "hata")
    BY <1>6 DEF SmartKur, SmartBaslat
  <2>3. /\ smart'[p].adim \in {"kayda", "bitir", "hata"} /\ smart'[p].b = b
        /\ \A q \in SmartSurec \ {p} : smart'[q] = smart[q]
    BY <1>t, <2>2, SmartSonucYazilir, SmartAdimdaKalir DEF BiletAdimlari
  <2>4. Etkisiz(b)
    BY <2>1 DEF SahiplikInv
  <2>5. \/ UNCHANGED awx
        \/ Zamanla(b) /\ UNCHANGED is
        \/ Baslat(b) /\ UNCHANGED zaman
    BY <1>6 DEF SmartKur, SmartBaslat, awx
  <2>6. smart'[p].adim \in SahipliAdimlar \ EtkiAdimlari
    BY <2>3 DEF SahipliAdimlar, EtkiAdimlari
  <2>7. CASE UNCHANGED awx
    BY <1>d, <1>e, <2>1, <2>3, <2>6, <2>7, EllerBirakir, SakinAdim
  <2>8. CASE Zamanla(b) /\ UNCHANGED is
    <3>1. /\ zaman'[b] # "yok" /\ is'[b] = 0
          /\ \A c \in Bilet \ {b} : is'[c] = is[c] /\ zaman'[c] = zaman[c]
      BY <1>t, <2>1, <2>4, <2>8 DEF Zamanla, Etkisiz, Kaynak
    <3>. QED BY <1>d, <2>1, <2>3, <2>6, <3>1, SahibiYapar
  <2>9. CASE Baslat(b) /\ UNCHANGED zaman
    <3>1. /\ zaman'[b] = "yok" /\ is'[b] = 1
          /\ \A c \in Bilet \ {b} : is'[c] = is[c] /\ zaman'[c] = zaman[c]
      BY <1>t, <2>1, <2>4, <2>9 DEF Baslat, Etkisiz, Kaynak
    <3>. QED BY <1>d, <2>1, <2>3, <2>6, <3>1, SahibiYapar
  <2>. QED BY <2>5, <2>7, <2>8, <2>9
<1>7. ASSUME SmartKayda(p) PROVE SahiplikInv' /\ KararAdimi
  <2>1. /\ smart'[p].adim = "bitir" /\ smart'[p].b = smart[p].b /\ smart[p].adim = "kayda"
        /\ \A q \in SmartSurec \ {p} : smart'[q] = smart[q]
    BY <1>7, <1>t, SmartAdimdaKalir DEF SmartKayda, BiletAdimlari
  <2>2. EllerKalir
    BY <2>1 DEF EllerKalir, SahipliAdimlar, EtkiAdimlari
  <2>3. UNCHANGED <<bilet, awx>>
    BY <1>7 DEF SmartKayda
  <2>. QED BY <1>d, <1>e, <2>2, <2>3, SakinAdim
<1>8. ASSUME SmartBitir(p) \/ SmartHata(p) PROVE SahiplikInv' /\ KararAdimi
  <2>. DEFINE b == smart[p].b
  <2>1. /\ smart[p].adim \in {"bitir", "hata"} /\ b \in Bilet /\ UNCHANGED awx
        /\ smart[p].adim \in SahipliAdimlar /\ bilet[b] = "LAUNCHING"
        /\ smart[p].adim = "bitir" => smart[p].sonuc \in {"SCHEDULED", "LAUNCHED"}
    BY <1>8, <1>b DEF SmartBitir, SmartHata, BiletAdimlari, SahipliAdimlar, SahiplikInv, IsleyenTipi
  <2>2. \/ SmartDevam(p) \/ Esitle(p, "LAUNCHED") \/ Esitle(p, "FAILED")
        \/ SmartGit(p, "hata") /\ UNCHANGED bilet
    BY <1>8 DEF SmartBitir, SmartHata
  <2>3. /\ \A q \in SmartSurec \ {p} : smart'[q] = smart[q]
        /\ \/ smart'[p].adim \notin SahipliAdimlar
           \/ smart'[p].adim = "hata" /\ smart'[p].b = b /\ UNCHANGED bilet
    BY <1>t, <1>s, <2>1, <2>2, SmartIlerler, SmartEsitler, SmartAdimdaKalir DEF BiletAdimlari
  <2>4. EllerKalir
    BY <2>1, <2>3 DEF EllerKalir, SahipliAdimlar, EtkiAdimlari
  <2>5. \/ UNCHANGED bilet
        \/ /\ DurumKalir(Bilet \ {b}) /\ bilet'[b] \in {"SCHEDULED", "LAUNCHED", "ERROR"}
    <3>1. \/ UNCHANGED bilet
          \/ smart[p].adim = "bitir" /\ BiletYaz(b, {"LAUNCHING"}, smart[p].sonuc)
          \/ BiletYaz(b, {"LAUNCHING"}, "ERROR")
      BY <1>8 DEF SmartBitir, SmartHata, BiletDene
    <3>. QED BY <1>t, <2>1, <3>1 DEF BiletYaz, DurumKalir
  <2>6. CASE UNCHANGED bilet
    BY <1>d, <1>e, <2>1, <2>4, <2>6, SakinAdim
  <2>7. CASE bilet' # bilet
    BY <1>e, <2>1, <2>3, <2>4, <2>5, <2>7, SahibiKapatir
  <2>. QED BY <2>6, <2>7
<1>9. ASSUME SmartEsitle(p) PROVE SahiplikInv' /\ KararAdimi
  <2>1. EllerKalir
    BY <1>9, <1>t, <1>s, SmartIlerler, EllerBirakir DEF SmartEsitle
  <2>2. UNCHANGED <<bilet, awx>>
    BY <1>9 DEF SmartEsitle
  <2>. QED BY <1>d, <1>e, <2>1, <2>2, SakinAdim
<1>. QED BY <1>1, <1>2, <1>3, <1>4, <1>5, <1>6, <1>7, <1>8, <1>9 DEF SmartAdimi

\* A ticket is opened once: its name says by whom.
LEMMA AcilanAdim ==
    ASSUME TypeOK, IsleyenTipi, SahiplikInv, EtkiKalir, EllerKalir, NEW b, BiletAc(b)
    PROVE  SahiplikInv' /\ KararAdimi
<1>1. bilet \in [Bilet -> BILET_DURUMLARI]
  BY DEF TypeOK
<1>2. CASE b \in Bilet
  <2>1. bilet[b] = "yok" /\ bilet'[b] = "PENDING" /\ DurumKalir(Bilet \ {b})
    BY <1>1, <1>2 DEF BiletAc, DurumKalir
  <2>. QED BY <1>2, <2>1, SahipsizAdim
<1>3. CASE b \notin Bilet
  <2>1. DurumKalir(Bilet)
    BY <1>1, <1>3 DEF BiletAc, DurumKalir
  <2>. QED BY <2>1, SakinAdim
<1>. QED BY <1>2, <1>3

\* Every step keeps the ownership of the tickets, and is one of TekKarar or a stutter.
LEMMA SahiplikAdim ==
    ASSUME TypeOK, IsleyenTipi, SahiplikInv, [Next]_vars
    PROVE  SahiplikInv' /\ KararAdimi
<1>t. /\ bilet \in [Bilet -> BILET_DURUMLARI] /\ is \in [Kaynak -> Nat]
      /\ zaman \in [Kaynak -> {"yok", "kurulu", "gecmis", "atesledi", "silindi"}]
  BY DEF TypeOK
<1>e. UNCHANGED awx => EtkiKalir
  BY DEF awx, EtkiKalir
<1>l. UNCHANGED smart => EllerKalir
  BY DEF EllerKalir
<1>d. UNCHANGED bilet => DurumKalir(Bilet)
  BY DEF DurumKalir
<1>k. \A k \in Kayit : k \notin Bilet /\ Yok \notin Bilet
  BY BiletKimligi
\* Steps on the records, the clock, the lists and the cancellations.
<1>1. ASSUME \/ \E k \in Kayit : \/ CreateAwxScheduled(k) \/ TalepPortal(k) \/ Cancel(k)
                                 \/ MarkPendingApprovalAtRequest(k) \/ AdminOku(k)
                                 \/ IstekKesilir(k)
             \/ \E b \in Bilet, k \in {"onay", "ret"} : SmartKarari(b, k)
             \/ AdminCancel \/ AdminKesilir \/ SaatIlerler
      PROVE  SahiplikInv' /\ KararAdimi
  <2>1. UNCHANGED <<smart, bilet, awx>>
    BY <1>1 DEF CreateAwxScheduled, TalepPortal, Cancel, MarkPendingApprovalAtRequest, AdminOku,
                IstekKesilir, SmartKarari, AdminCancel, AdminKesilir, SaatIlerler, satirlar
  <2>. QED BY <1>e, <1>l, <1>d, <2>1, SakinAdim
<1>2. ASSUME NEW p \in OcoSurec,
             \/ OcoOku(p) \/ OcoBak(p) \/ OcoBakHata(p) \/ OcoYaz(p) \/ OcoHata(p)
             \/ \E k \in Kayit : \/ AdoptTicket(p, k) \/ OcoExpired(p, k) \/ OcoAtla(p, k)
                                 \/ OcoSahiplen(p, k)
      PROVE  SahiplikInv' /\ KararAdimi
  <2>1. UNCHANGED <<smart, bilet, awx>>
    BY <1>2 DEF OcoOku, OcoBak, OcoBakHata, AdoptTicket, OcoExpired, OcoAtla, OcoSahiplen, OcoYaz,
                OcoHata, satirlar
  <2>. QED BY <1>e, <1>l, <1>d, <2>1, SakinAdim
\* Calls of AWX for a record, and what AWX and the administrator do with schedules.
<1>3. ASSUME \/ \E k \in Kayit : TalepAwx(k)
             \/ \E p \in OcoSurec : OcoBaslat(p)
             \/ AdminSil
             \/ \E x \in Kaynak : ZamanAtesler(x)
      PROVE  SahiplikInv' /\ KararAdimi
  <2>1. UNCHANGED <<smart, bilet>>
    BY <1>3 DEF TalepAwx, OcoBaslat, AdminSil, ZamanAtesler, satirlar
  <2>2. EtkiKalir
    <3>1. ASSUME NEW k \in Kayit, TalepAwx(k) PROVE EtkiKalir
      BY <3>1, <1>t, <1>k DEF TalepAwx, Zamanla, EtkiKalir, Kaynak
    <3>2. ASSUME NEW p \in OcoSurec, OcoBaslat(p) PROVE EtkiKalir
      <4>1. oco[p].k \notin Bilet
        BY <3>2, <1>k DEF OcoBaslat, IsleyenTipi, KayitAdimlari
      <4>. QED BY <3>2, <1>t, <4>1 DEF OcoBaslat, Baslat, EtkiKalir, Kaynak
    <3>3. ASSUME AdminSil PROVE EtkiKalir
      BY <3>3, <1>t DEF AdminSil, EtkiKalir, Kaynak
    <3>4. ASSUME NEW x \in Kaynak, ZamanAtesler(x) PROVE EtkiKalir
      BY <3>4, <1>t DEF ZamanAtesler, EtkiKalir, Kaynak
    <3>. QED BY <1>3, <3>1, <3>2, <3>3, <3>4
  <2>. QED BY <1>l, <1>d, <2>1, <2>2, SakinAdim
<1>4. ASSUME NEW k \in Kayit, TalepBilet(k) PROVE SahiplikInv' /\ KararAdimi
  <2>1. UNCHANGED <<smart, awx>> /\ (BiletAc(<<k, 1>>) \/ UNCHANGED bilet)
    BY <1>4 DEF TalepBilet
  <2>. QED BY <1>e, <1>l, <1>d, <2>1, SakinAdim, AcilanAdim
<1>5. ASSUME NEW y \in Dogrudan, TalepDogrudan(y) PROVE SahiplikInv' /\ KararAdimi
  <2>1. UNCHANGED <<smart, awx>> /\ BiletAc(<<y, 1>>)
    BY <1>5 DEF TalepDogrudan
  <2>. QED BY <1>e, <1>l, <2>1, AcilanAdim
<1>6. ASSUME NEW p \in OcoSurec, OcoBilet(p) PROVE SahiplikInv' /\ KararAdimi
  <2>1. UNCHANGED <<smart, awx>> /\ (BiletAc(<<oco[p].k, 2>>) \/ UNCHANGED bilet)
    BY <1>6 DEF OcoBilet
  <2>. QED BY <1>e, <1>l, <1>d, <2>1, SakinAdim, AcilanAdim
<1>7. ASSUME NEW b \in Bilet, CancelTicket(b) PROVE SahiplikInv' /\ KararAdimi
  <2>1. /\ UNCHANGED <<smart, awx>> /\ bilet[b] = "PENDING" /\ bilet'[b] = "CANCELLED"
        /\ DurumKalir(Bilet \ {b})
    BY <1>7, <1>t DEF CancelTicket, DurumKalir
  <2>. QED BY <1>e, <1>l, <2>1, SahipsizAdim
\* The ticket of a round that is lost stays LAUNCHING: nobody claims it again.
<1>8. ASSUME NEW p \in SmartSurec \cup OcoSurec, Cokme(p) PROVE SahiplikInv' /\ KararAdimi
  <2>1. SmartBos.adim \notin SahipliAdimlar
    BY DEF SmartBos, SahipliAdimlar
  <2>2. EllerKalir /\ UNCHANGED <<bilet, awx>>
    BY <1>8, <2>1 DEF Cokme, EllerKalir, satirlar
  <2>. QED BY <1>e, <1>d, <2>2, SakinAdim
<1>9. ASSUME UNCHANGED vars PROVE SahiplikInv' /\ KararAdimi
  <2>1. UNCHANGED <<smart, bilet, awx>>
    BY <1>9 DEF vars, awx
  <2>. QED BY <1>e, <1>l, <1>d, <2>1, SakinAdim
<1>. QED BY <1>1, <1>2, <1>3, <1>4, <1>5, <1>6, <1>7, <1>8, <1>9, SahiplikSmart
     DEF Next, IstekAdimi, OcoAdimi

-----------------------------------------------------------------------------
(***************************************************************************)
(* Records                                                                 *)
(***************************************************************************)

\* What most steps leave of record k as far as KayitKurali can tell.
KayitSakin(k) ==
    /\ kayit'[k].durum = "SCHEDULED" => kayit[k].durum = "SCHEDULED"
    /\ kayit'[k].durum = "PENDING_APPROVAL" => kayit[k].durum = "PENDING_APPROVAL" \/ ~Biletsiz(k)
    /\ kayit[k].durum = "yok" => kayit'[k].durum = "yok" \/ istek'[k] = "bitti"
    /\ kayit[k].durum = "CANCELLED" /\ istek[k] # "kuruldu" => kayit'[k].durum = "CANCELLED"
    /\ istek'[k] = istek[k] \/ (istek[k] # "yok" /\ istek'[k] = "bitti")
    /\ \A i \in {1, 2} : bilet'[<<k, i>>] = "yok" <=> bilet[<<k, i>>] = "yok"
    /\ is'[k] = is[k]
    /\ zaman'[k] = zaman[k] \/ (zaman[k] # "yok" /\ zaman'[k] # "yok")

\* What the other rounds need: a record that is requested keeps what a round has seen.
KayitDurur(k) ==
    /\ istek[k] \notin {"yok", "kuruldu"} =>
          /\ istek'[k] \notin {"yok", "kuruldu"}
          /\ kayit'[k].durum = "SCHEDULED" => kayit[k].durum = "SCHEDULED"
          /\ BiletiGecti(k) =>
                istek'[k] \in {"bilet", "bitti"}
                /\ (bilet[<<k, 1>>] = "yok" => bilet'[<<k, 1>>] = "yok")
    /\ \A i \in {1, 2} : bilet[<<k, i>>] # "yok" => bilet'[<<k, i>>] # "yok"

\* What a round that is about to start record k needs besides.
KayitBekler(k) ==
    /\ istek[k] \notin {"yok", "kuruldu"} =>
          /\ is'[k] = is[k] /\ (zaman[k] = "yok" => zaman'[k] = "yok")
          /\ bilet[<<k, 2>>] = "yok" => bilet'[<<k, 2>>] = "yok"
    /\ geriCekilen'[k] = "biletsiz" => geriCekilen[k] = "biletsiz"

\* A round that goes on, or ends, without claiming or looking.
TurSakin(p) ==
    /\ oco'[p].adim \in KayitAdimlari =>
          oco[p].adim \in KayitAdimlari /\ oco'[p].k = oco[p].k /\ oco'[p].simdi = oco[p].simdi
    /\ oco'[p].adim = "baslat" => oco[p].adim = "baslat"
    /\ oco'[p].adim = "bilet" => oco[p].adim = "bilet" \/ bilet'[<<oco[p].k, 2>>] # "yok"
    /\ oco'[p].simdi # "once" => oco'[p].simdi = oco[p].simdi
    /\ \A k \in oco'[p].liste :
          /\ k \in oco[p].liste /\ oco'[p].bagli = oco[p].bagli
          /\ oco[p].adim = "bak" => oco'[p].adim = "bak"
    /\ \A k \in Kayit : oco'[p].bagli[k].b # Yok => oco'[p].bagli = oco[p].bagli

\* No other round works on the record of round p.
TekSahip(p) ==
    oco'[p].adim \in KayitAdimlari =>
        \A q \in OcoSurec \ {p} : oco'[q].adim \in KayitAdimlari => oco'[q].k # oco[p].k

\* A step that leaves record k as KayitSakin says keeps its rule.
LEMMA KayitKuraliKalir ==
    ASSUME TypeOK, NEW k \in Kayit, KayitKurali(k), KayitSakin(k),
           UNCHANGED <<tur, saat, gec>>, geriCekilen'[k] = geriCekilen[k]
    PROVE  KayitKurali(k)'
<1>1. UNCHANGED Onayli(k)
  BY DEF Onayli
<1>2. Biletsiz(k)' <=> Biletsiz(k)
  BY DEF Biletsiz, KayitSakin
<1>3. Etkisiz(k)' <=> Etkisiz(k)
  BY DEF Etkisiz, KayitSakin
<1>. QED BY <1>1, <1>2, <1>3 DEF KayitKurali, KayitSakin, BiletiGecti

\* A round that goes on keeps its rule, when the records keep what it has seen.
LEMMA TurKuraliKalir ==
    ASSUME TypeOK, IsleyenTipi, TypeOK', NEW p \in OcoSurec, TurKurali(p),
           TurSakin(p), TekSahip(p), \A k \in Kayit : KayitDurur(k),
           oco'[p].adim = "baslat" => KayitBekler(oco[p].k),
           gec \subseteq gec', saat' = saat \/ saat' # "once"
    PROVE  TurKurali(p)'
<1>t. /\ oco[p] \in OcoTuru /\ oco'[p] \in OcoTuru
      /\ oco[p].liste \subseteq Kayit /\ oco'[p].liste \subseteq Kayit
      /\ oco[p].adim \in KayitAdimlari => oco[p].k \in Kayit
  BY DEF TypeOK, OcoTuru, IsleyenTipi
<1>1. (oco[p].simdi # "once" => saat # "once")'
  BY DEF TurKurali, TurSakin
<1>2. (oco[p].adim \in KayitAdimlari =>
          /\ oco[p].simdi # "once"
          /\ kayit[oco[p].k].durum # "SCHEDULED" /\ istek[oco[p].k] \notin {"yok", "kuruldu"}
          /\ \A q \in OcoSurec \ {p} : oco[q].adim \in KayitAdimlari => oco[q].k # oco[p].k)'
  <2>. SUFFICES ASSUME oco'[p].adim \in KayitAdimlari
                PROVE  /\ oco'[p].simdi # "once" /\ kayit'[oco'[p].k].durum # "SCHEDULED"
                       /\ istek'[oco'[p].k] \notin {"yok", "kuruldu"}
                       /\ \A q \in OcoSurec \ {p} :
                            oco'[q].adim \in KayitAdimlari => oco'[q].k # oco'[p].k
    OBVIOUS
  <2>1. /\ oco[p].adim \in KayitAdimlari /\ oco'[p].k = oco[p].k /\ oco[p].k \in Kayit
        /\ oco'[p].simdi = oco[p].simdi
    BY <1>t DEF TurSakin
  <2>2. KayitDurur(oco[p].k)
    BY <2>1
  <2>3. \A q \in OcoSurec \ {p} : oco'[q].adim \in KayitAdimlari => oco'[q].k # oco'[p].k
    BY <2>1 DEF TekSahip
  <2>. QED BY <2>1, <2>2, <2>3 DEF TurKurali, KayitDurur
<1>3. (oco[p].adim = "baslat" =>
          /\ Etkisiz(oco[p].k) /\ bilet[<<oco[p].k, 2>>] = "yok"
          /\ oco[p].k \notin gec => BiletiGecti(oco[p].k) /\ bilet[<<oco[p].k, 1>>] = "yok"
          /\ geriCekilen[oco[p].k] # "biletsiz")'
  <2>. SUFFICES ASSUME oco'[p].adim = "baslat"
                PROVE  (/\ Etkisiz(oco[p].k) /\ bilet[<<oco[p].k, 2>>] = "yok"
                        /\ oco[p].k \notin gec =>
                             BiletiGecti(oco[p].k) /\ bilet[<<oco[p].k, 1>>] = "yok"
                        /\ geriCekilen[oco[p].k] # "biletsiz")'
    OBVIOUS
  <2>1. oco[p].adim = "baslat" /\ oco'[p].k = oco[p].k /\ oco[p].k \in Kayit
    BY <1>t DEF TurSakin, KayitAdimlari
  <2>2. KayitDurur(oco[p].k) /\ KayitBekler(oco[p].k)
    BY <2>1
  <2>3. istek[oco[p].k] \notin {"yok", "kuruldu"}
    BY <2>1 DEF TurKurali, KayitAdimlari
  <2>. QED BY <2>1, <2>2, <2>3 DEF TurKurali, KayitDurur, KayitBekler, Etkisiz, BiletiGecti
<1>4. (oco[p].adim = "bilet" => bilet[<<oco[p].k, 2>>] # "yok")'
  <2>. SUFFICES ASSUME oco'[p].adim = "bilet" PROVE bilet'[<<oco'[p].k, 2>>] # "yok"
    OBVIOUS
  <2>1. /\ oco'[p].k = oco[p].k /\ oco[p].k \in Kayit
        /\ oco[p].adim = "bilet" \/ bilet'[<<oco[p].k, 2>>] # "yok"
    BY <1>t DEF TurSakin, KayitAdimlari
  <2>. QED BY <2>1 DEF TurKurali, KayitDurur
<1>5. (\A k \in oco[p].liste : oco[p].simdi # "once" /\ k \notin gec =>
          /\ BiletiGecti(k)
          /\ oco[p].adim # "bak" /\ oco[p].bagli[k].b = Yok => bilet[<<k, 1>>] = "yok")'
  <2>. SUFFICES ASSUME NEW k \in oco'[p].liste, oco'[p].simdi # "once", k \notin gec'
                PROVE  (/\ BiletiGecti(k)
                        /\ oco[p].adim # "bak" /\ oco[p].bagli[k].b = Yok => bilet[<<k, 1>>] = "yok")'
    OBVIOUS
  <2>1. /\ k \in oco[p].liste /\ k \in Kayit /\ oco'[p].bagli = oco[p].bagli
        /\ oco[p].adim = "bak" => oco'[p].adim = "bak"
        /\ oco[p].simdi # "once" /\ k \notin gec
    BY <1>t DEF TurSakin
  <2>2. /\ BiletiGecti(k) /\ istek[k] \notin {"yok", "kuruldu"}
        /\ oco'[p].adim # "bak" /\ oco[p].bagli[k].b = Yok => bilet[<<k, 1>>] = "yok"
    BY <2>1 DEF TurKurali, BiletiGecti
  <2>. QED BY <2>1, <2>2 DEF KayitDurur, BiletiGecti
<1>6. (\A k \in Kayit : oco[p].bagli[k].b # Yok => bilet[oco[p].bagli[k].b] # "yok")'
  <2>. SUFFICES ASSUME NEW k \in Kayit, oco'[p].bagli[k].b # Yok
                PROVE  bilet'[oco'[p].bagli[k].b] # "yok"
    OBVIOUS
  <2>1. oco'[p].bagli = oco[p].bagli
    BY DEF TurSakin
  <2>. DEFINE b == oco[p].bagli[k].b
  <2>2. b # Yok
    BY <2>1
  <2>3. b \in BiletleriOf(k) /\ BiletleriOf(k) = {<<k, 1>>, <<k, 2>>}
    BY <2>2, BiletKimligi DEF IsleyenTipi
  <2>4. bilet[b] # "yok"
    BY <2>2 DEF TurKurali
  <2>5. bilet'[b] # "yok"
    BY <2>3, <2>4 DEF KayitDurur
  <2>. QED BY <2>1, <2>5
<1>. QED BY <1>1, <1>2, <1>3, <1>4, <1>5, <1>6 DEF TurKurali

\* A step that leaves the records alone leaves the rounds alone.
LEMMA SakinDurur ==
    ASSUME NEW k \in Kayit, KayitSakin(k)
    PROVE  KayitDurur(k) /\ (geriCekilen'[k] = geriCekilen[k] => KayitBekler(k))
<1>1. istek[k] \notin {"yok", "kuruldu"} => istek'[k] \notin {"yok", "kuruldu"}
  BY DEF KayitSakin
<1>. QED BY <1>1 DEF KayitSakin, KayitDurur, KayitBekler, BiletiGecti

\* A round that is not touched.
LEMMA AyniTur ==
    ASSUME NEW p, oco'[p] = oco[p]
    PROVE  TurSakin(p)
  BY DEF TurSakin

\* A round that passes to the next record of its list.
LEMMA IlerleyenTur ==
    ASSUME oco \in [OcoSurec -> OcoTuru], NEW p \in OcoSurec, NEW l \in SUBSET Kayit,
           l \subseteq oco[p].liste, oco[p].adim # "bak", OcoDevam(p, l)
    PROVE  \A q \in OcoSurec : TurSakin(q)
<1>1. /\ oco'[p].adim \in {"bos", "sira"} /\ oco'[p].liste = l
      /\ \/ oco'[p] = OcoBos
         \/ oco'[p].bagli = oco[p].bagli /\ oco'[p].simdi = oco[p].simdi
      /\ \A q \in OcoSurec \ {p} : oco'[q] = oco[q]
  BY OcoIlerler
<1>2. TurSakin(p)
  <2>1. CASE oco'[p] = OcoBos
    BY <2>1, OcoBosTipi DEF TurSakin, KayitAdimlari
  <2>2. CASE oco'[p].bagli = oco[p].bagli /\ oco'[p].simdi = oco[p].simdi
    BY <1>1, <2>2 DEF TurSakin, KayitAdimlari
  <2>. QED BY <1>1, <2>1, <2>2
<1>. QED BY <1>1, <1>2, AyniTur

\* Rounds that only go on do not come to share a record.
LEMMA TekSahipKalir ==
    ASSUME NEW p \in OcoSurec, TurKurali(p), \A q \in OcoSurec : TurSakin(q)
    PROVE  TekSahip(p)
<1>. SUFFICES ASSUME oco'[p].adim \in KayitAdimlari,
                     NEW q \in OcoSurec \ {p}, oco'[q].adim \in KayitAdimlari
              PROVE  oco'[q].k # oco[p].k
  BY DEF TekSahip
<1>1. oco[p].adim \in KayitAdimlari
  BY DEF TurSakin
<1>2. oco[q].adim \in KayitAdimlari /\ oco'[q].k = oco[q].k
  BY DEF TurSakin
<1>. QED BY <1>1, <1>2 DEF TurKurali

\* A step that is none of the special ones below.
LEMMA SakinKayitAdimi ==
    ASSUME TypeOK, IsleyenTipi, TypeOK', KayitInv, \A k \in Kayit : KayitSakin(k),
           \A p \in OcoSurec : TurSakin(p), UNCHANGED <<tur, saat, gec, geriCekilen>>
    PROVE  KayitInv'
<1>1. \A k \in Kayit : KayitKurali(k)'
  BY KayitKuraliKalir DEF KayitInv
<1>2. ASSUME NEW p \in OcoSurec PROVE TurKurali(p)'
  <2>1. \A k \in Kayit : KayitDurur(k) /\ KayitBekler(k)
    BY SakinDurur
  <2>2. oco'[p].adim = "baslat" => oco[p].k \in Kayit
    BY DEF TurSakin, IsleyenTipi, KayitAdimlari
  <2>. QED BY <2>1, <2>2, TekSahipKalir, TurKuraliKalir DEF KayitInv
<1>. QED BY <1>1, <1>2 DEF KayitInv

\* A SMART round opens no ticket, starts nothing for a record itself and writes only the
\* row of a record that waits for approval.
LEMMA SmartKayitlari ==
    ASSUME TypeOK, IsleyenTipi, NEW p \in SmartSurec, SmartAdimi(p)
    PROVE  /\ UNCHANGED <<tur, saat, istek, oco, gec, geriCekilen>>
           /\ \A b \in Bilet : bilet'[b] = "yok" <=> bilet[b] = "yok"
           /\ \A k \in Kayit : is'[k] = is[k] /\ zaman'[k] = zaman[k]
           /\ \A k \in Kayit : \/ kayit'[k] = kayit[k]
                               \/ /\ kayit[k].durum = "PENDING_APPROVAL"
                                  /\ kayit'[k].durum \in {"AWX_SCHEDULED", "FAILED", "CANCELLED", "LAUNCHED"}
<1>t. /\ bilet \in [Bilet -> BILET_DURUMLARI] /\ kayit \in [Kayit -> KayitSatiri]
      /\ is \in [Kaynak -> Nat] /\ ariza \in Nat /\ smart \in [SmartSurec -> SmartTuru]
      /\ zaman \in [Kaynak -> {"yok", "kurulu", "gecmis", "atesledi", "silindi"}]
  BY DEF TypeOK, KayitSatiri
<1>b. /\ smart[p].adim \in BiletAdimlari => smart[p].b \in Bilet
      /\ smart[p].adim = "bitir" => smart[p].sonuc \in {"SCHEDULED", "LAUNCHED"}
      /\ smart[p].adim = "esitle" => smart[p].sonuc \in {"FAILED", "CANCELLED", "LAUNCHED"}
  BY DEF IsleyenTipi
<1>1. UNCHANGED <<tur, saat, istek, oco, gec, geriCekilen>>
  BY DEF SmartAdimi, SmartOku, SmartSira, SmartSon, SmartBekler, SmartRet, SmartSahiplen, SmartKarar,
         SmartKur, SmartKayda, SmartBaslat, SmartBitir, SmartHata, SmartEsitle, tarih
<1>2. \A b \in Bilet : bilet'[b] = "yok" <=> bilet[b] = "yok"
  <2>1. \/ UNCHANGED bilet
        \/ \E d \in BILET_DURUMLARI \ {"yok"} :
              \/ BiletYaz(smart[p].b, {"PENDING"}, d) \/ BiletYaz(smart[p].b, {"LAUNCHING"}, d)
        \/ Sahiplenilir(smart[p].b) /\ bilet' = [bilet EXCEPT ![smart[p].b] = "LAUNCHING"]
    <3>1. CASE \/ SmartOku(p) \/ (\E b \in Bilet : SmartSira(p, b)) \/ SmartBekler(p) \/ SmartKarar(p)
               \/ SmartKur(p) \/ SmartKayda(p) \/ SmartBaslat(p) \/ SmartEsitle(p)
      BY <3>1 DEF SmartOku, SmartSira, SmartBekler, SmartKarar, SmartKur, SmartKayda, SmartBaslat,
                  SmartEsitle, satirlar
    <3>2. CASE SmartSon(p)
      BY <3>2 DEF SmartSon, BiletDene, BILET_DURUMLARI
    <3>3. CASE SmartRet(p)
      BY <3>3 DEF SmartRet, BiletDene, BILET_DURUMLARI
    <3>4. CASE SmartHata(p)
      BY <3>4 DEF SmartHata, BiletDene, BILET_DURUMLARI
    <3>5. CASE SmartBitir(p)
      <4>1. smart[p].sonuc \in BILET_DURUMLARI \ {"yok"}
        BY <1>b, <3>5 DEF SmartBitir, BILET_DURUMLARI
      <4>. QED BY <3>5, <4>1 DEF SmartBitir
    <3>6. CASE SmartSahiplen(p)
      BY <3>6 DEF SmartSahiplen
    <3>. QED BY <3>1, <3>2, <3>3, <3>4, <3>5, <3>6 DEF SmartAdimi
  <2>2. CASE \E d \in BILET_DURUMLARI \ {"yok"} :
              \/ BiletYaz(smart[p].b, {"PENDING"}, d) \/ BiletYaz(smart[p].b, {"LAUNCHING"}, d)
    BY <1>t, <2>2 DEF BiletYaz
  <2>3. CASE Sahiplenilir(smart[p].b) /\ bilet' = [bilet EXCEPT ![smart[p].b] = "LAUNCHING"]
    BY <1>t, <2>3 DEF Sahiplenilir
  <2>. QED BY <2>1, <2>2, <2>3
<1>3. \A k \in Kayit : is'[k] = is[k] /\ zaman'[k] = zaman[k]
  <2>1. CASE SmartKur(p) \/ SmartBaslat(p)
    <3>1. smart[p].b \in Bilet
      BY <1>b, <2>1 DEF SmartKur, SmartBaslat, BiletAdimlari
    <3>2. \A k \in Kayit : k # smart[p].b
      BY <3>1, BiletKimligi
    <3>. QED BY <1>t, <2>1, <3>2 DEF SmartKur, SmartBaslat, Zamanla, Baslat, Kaynak
  <2>2. CASE ~SmartKur(p) /\ ~SmartBaslat(p)
    BY <2>2 DEF SmartAdimi, SmartOku, SmartSira, SmartSon, SmartBekler, SmartRet, SmartSahiplen,
                SmartKarar, SmartKayda, SmartBitir, SmartHata, SmartEsitle, awx
  <2>. QED BY <2>1, <2>2
<1>4. \A k \in Kayit : \/ kayit'[k] = kayit[k]
                       \/ /\ kayit[k].durum = "PENDING_APPROVAL"
                          /\ kayit'[k].durum \in {"AWX_SCHEDULED", "FAILED", "CANCELLED", "LAUNCHED"}
  <2>1. CASE SmartKayda(p)
    BY <1>t, <2>1 DEF SmartKayda, KayitDene, KayitYaz
  <2>2. CASE SmartEsitle(p)
    <3>. DEFINE n == IF smart[p].sonuc = "LAUNCHED" THEN smart[p].b
                     ELSE kayit[KayitNo(smart[p].b)].no
    <3>1. /\ smart[p].sonuc \in {"FAILED", "CANCELLED", "LAUNCHED"}
          /\ KayitDene(KayitNo(smart[p].b), {"PENDING_APPROVAL"}, [durum |-> smart[p].sonuc, no |-> n])
      BY <1>b, <2>2 DEF SmartEsitle
    <3>. HIDE DEF n
    <3>. QED BY <1>t, <3>1 DEF KayitDene, KayitYaz
  <2>3. CASE ~SmartKayda(p) /\ ~SmartEsitle(p)
    BY <2>3 DEF SmartAdimi, SmartOku, SmartSira, SmartSon, SmartBekler, SmartRet, SmartSahiplen,
                SmartKarar, SmartKur, SmartBaslat, SmartBitir, SmartHata, satirlar
  <2>. QED BY <2>1, <2>2, <2>3
<1>. QED BY <1>1, <1>2, <1>3, <1>4

\* What a conditional UPDATE of a record to a status that ends the wait leaves.
LEMMA YazilanSakin ==
    ASSUME TypeOK, NEW k \in Kayit,
           UNCHANGED <<bilet, awx, istek>>,
           \/ kayit'[k] = kayit[k]
           \/ /\ kayit[k].durum \notin {"yok", "CANCELLED"}
              /\ kayit'[k].durum \notin {"SCHEDULED", "PENDING_APPROVAL"}
           \/ kayit[k].durum \notin {"yok", "CANCELLED"} /\ kayit'[k].durum = "PENDING_APPROVAL" /\ ~Biletsiz(k)
           \/ kayit'[k].durum = "CANCELLED" /\ kayit[k].durum # "yok"
    PROVE  KayitSakin(k)
  BY DEF KayitSakin, awx

\* The steps of the SMART poller.
LEMMA KayitSmart ==
    ASSUME TypeOK, IsleyenTipi, TypeOK', KayitInv, NEW p \in SmartSurec, SmartAdimi(p)
    PROVE  KayitInv'
<1>1. /\ UNCHANGED <<tur, saat, istek, oco, gec, geriCekilen>>
      /\ \A b \in Bilet : bilet'[b] = "yok" <=> bilet[b] = "yok"
      /\ \A k \in Kayit : is'[k] = is[k] /\ zaman'[k] = zaman[k]
      /\ \A k \in Kayit : \/ kayit'[k] = kayit[k]
                          \/ /\ kayit[k].durum = "PENDING_APPROVAL"
                             /\ kayit'[k].durum \in {"AWX_SCHEDULED", "FAILED", "CANCELLED", "LAUNCHED"}
  BY SmartKayitlari
<1>2. ASSUME NEW k \in Kayit PROVE KayitSakin(k)
  <2>1. <<k, 1>> \in Bilet /\ <<k, 2>> \in Bilet
    BY BiletKimligi
  <2>. QED BY <1>1, <2>1 DEF KayitSakin
<1>3. \A q \in OcoSurec : TurSakin(q)
  BY <1>1, AyniTur
<1>. QED BY <1>1, <1>2, <1>3, SakinKayitAdimi

\* The steps of the OCO poller.
LEMMA KayitOco ==
    ASSUME TypeOK, IsleyenTipi, TypeOK', KayitInv, NEW p \in OcoSurec, OcoAdimi(p)
    PROVE  KayitInv'
<1>t. /\ oco \in [OcoSurec -> OcoTuru] /\ bilet \in [Bilet -> BILET_DURUMLARI]
      /\ kayit \in [Kayit -> KayitSatiri] /\ is \in [Kaynak -> Nat]
      /\ zaman \in [Kaynak -> {"yok", "kurulu", "gecmis", "atesledi", "silindi"}]
      /\ oco[p].liste \in SUBSET Kayit /\ ariza \in Nat /\ saat \in SAATLER
  BY DEF TypeOK, KayitSatiri, OcoTuru
<1>b. /\ oco[p].adim \in KayitAdimlari => oco[p].k \in Kayit
      /\ \A k \in Kayit : oco[p].bagli[k].b # Yok =>
            oco[p].bagli[k].b \in BiletleriOf(k) /\ oco[p].bagli[k].durum # "yok"
  BY DEF IsleyenTipi
<1>k. (\A k \in Kayit : KayitKurali(k)) /\ (\A q \in OcoSurec : TurKurali(q))
  BY DEF KayitInv
<1>s. ASSUME UNCHANGED <<tur, saat, bilet, awx, istek, gec, geriCekilen>>,
             \A k \in Kayit : KayitSakin(k), \A q \in OcoSurec : TurSakin(q)
      PROVE  KayitInv'
  BY <1>s, SakinKayitAdimi
<1>a. ASSUME UNCHANGED <<bilet, awx, istek, kayit>>, NEW k \in Kayit PROVE KayitSakin(k)
  BY <1>a, YazilanSakin
\* A conditional UPDATE of record k.
<1>y. ASSUME UNCHANGED <<bilet, awx, istek>>, NEW k \in Kayit, NEW s \in KayitSatiri,
             NEW S \in SUBSET {"SCHEDULED", "LAUNCHING", "PENDING_APPROVAL"}, KayitDene(k, S, s),
             \/ s.durum \notin {"SCHEDULED", "PENDING_APPROVAL"}
             \/ s.durum = "PENDING_APPROVAL" /\ ~Biletsiz(k),
             NEW j \in Kayit
      PROVE  KayitSakin(j)
  <2>1. \/ kayit'[j] = kayit[j]
        \/ j = k /\ kayit[j].durum \in S /\ kayit'[j] = s
    BY <1>t, <1>y, KayitDener
  <2>. QED BY <1>y, <2>1, YazilanSakin
<1>d. ASSUME NEW l \in SUBSET oco[p].liste, oco[p].adim # "bak", OcoDevam(p, l)
      PROVE  \A q \in OcoSurec : TurSakin(q)
  BY <1>t, <1>d, IlerleyenTur
<1>1. ASSUME OcoOku(p) PROVE KayitInv'
  <2>. DEFINE z == Zamanlanmislar
              r == [OcoBos EXCEPT !.adim = "bak", !.liste = z, !.simdi = saat]
  <2>1. /\ UNCHANGED <<tur, saat, bilet, awx, istek, kayit, gec, geriCekilen>>
        /\ z \in SUBSET Kayit /\ oco' = [oco EXCEPT ![p] = r]
    BY <1>1 DEF OcoOku, Zamanlanmislar, satirlar, tarih
  <2>2. \A k \in z : kayit[k].durum = "SCHEDULED"
    BY DEF Zamanlanmislar
  <2>. HIDE DEF z
  <2>3. r.adim = "bak" /\ r.liste = z /\ r.simdi = saat /\ r.bagli = OcoBos.bagli
    BY <1>t, <2>1, OcoBosTipi DEF OcoTuru
  <2>. HIDE DEF r
  <2>4. oco'[p] = r /\ \A q \in OcoSurec \ {p} : oco'[q] = oco[q]
    BY <1>t, <2>1
  <2>5. \A k \in Kayit : KayitSakin(k)
    BY <1>a, <2>1
  <2>6. \A k \in Kayit : KayitKurali(k)'
    BY <1>k, <2>1, <2>5, KayitKuraliKalir
  <2>7. ASSUME NEW q \in OcoSurec \ {p} PROVE TurKurali(q)'
    <3>1. TurSakin(q) /\ TekSahip(q)
      <4>1. TurSakin(q)
        BY <2>4, AyniTur
      <4>2. oco'[p].adim \notin KayitAdimlari
        BY <2>3, <2>4 DEF KayitAdimlari
      <4>3. TurKurali(q)
        BY <1>k
      <4>. QED BY <2>4, <4>1, <4>2, <4>3 DEF TekSahip, TurKurali
    <3>2. oco'[q].adim = "baslat" => oco[q].k \in Kayit
      BY <2>4 DEF IsleyenTipi, KayitAdimlari
    <3>. QED BY <1>k, <2>1, <2>5, <3>1, <3>2, SakinDurur, TurKuraliKalir
  <2>8. TurKurali(p)'
    <3>1. ASSUME NEW k \in z, saat # "once", k \notin gec PROVE BiletiGecti(k)
      <4>1. /\ KayitKurali(k) /\ kayit[k].durum = "SCHEDULED"
            /\ istek[k] \in {"yok", "kuruldu", "kayit", "bilet", "bitti"}
        BY <1>k, <2>1, <2>2 DEF TypeOK
      <4>. QED BY <3>1, <4>1 DEF KayitKurali, BiletiGecti
    <3>2. \A k \in Kayit : oco'[p].bagli[k].b = Yok
      BY <2>3, <2>4, OcoBosTipi
    <3>3. oco'[p].adim = "bak" /\ oco'[p].liste = z /\ oco'[p].simdi = saat
      BY <2>3, <2>4
    <3>. QED BY <2>1, <3>1, <3>2, <3>3 DEF TurKurali, KayitAdimlari, BiletiGecti
  <2>. QED BY <2>6, <2>7, <2>8 DEF KayitInv
<1>2. ASSUME OcoBak(p) PROVE KayitInv'
  <2>. DEFINE e == [k \in Kayit |-> IF k \in oco[p].liste THEN EnYeniBilet(k) ELSE BagliYok]
  <2>1. /\ UNCHANGED <<tur, saat, bilet, awx, istek, kayit, gec, geriCekilen>>
        /\ oco' = [oco EXCEPT ![p].adim = "sira", ![p].bagli = e]
    BY <1>2 DEF OcoBak, satirlar, tarih
  <2>2. BagliYok \in BagliTuru /\ BagliYok.b = Yok
    BY DEF BagliYok, BagliTuru, BILET_DURUMLARI
  <2>3. /\ e \in [Kayit -> BagliTuru]
        /\ \A k \in oco[p].liste : e[k].b = Yok => Biletsiz(k)
        /\ \A k \in Kayit : e[k].b # Yok => bilet[e[k].b] # "yok"
    <3>1. ASSUME NEW k \in Kayit PROVE BiletiYok(k) <=> Biletsiz(k)
      <4>1. BiletleriOf(k) = {<<k, 1>>, <<k, 2>>}
        BY BiletKimligi
      <4>. QED BY <4>1 DEF BiletiYok, Biletsiz
    <3>. QED BY <1>t, <2>2, <3>1, EnYeniTipi
  <2>. HIDE DEF e
  <2>4. /\ oco'[p].adim = "sira" /\ oco'[p].bagli = e
        /\ oco'[p].liste = oco[p].liste /\ oco'[p].simdi = oco[p].simdi
        /\ \A q \in OcoSurec \ {p} : oco'[q] = oco[q]
    BY <1>t, <2>1, <2>3, OcoBakar
  <2>5. \A k \in Kayit : KayitSakin(k)
    BY <1>a, <2>1
  <2>6. \A k \in Kayit : KayitKurali(k)'
    BY <1>k, <2>1, <2>5, KayitKuraliKalir
  <2>7. ASSUME NEW q \in OcoSurec \ {p} PROVE TurKurali(q)'
    <3>1. TurSakin(q) /\ TekSahip(q)
      <4>1. TurSakin(q)
        BY <2>4, AyniTur
      <4>2. oco'[p].adim \notin KayitAdimlari
        BY <2>4 DEF KayitAdimlari
      <4>3. TurKurali(q)
        BY <1>k
      <4>. QED BY <2>4, <4>1, <4>2, <4>3 DEF TekSahip, TurKurali
    <3>2. oco'[q].adim = "baslat" => oco[q].k \in Kayit
      BY <2>4 DEF IsleyenTipi, KayitAdimlari
    <3>. QED BY <1>k, <2>1, <2>5, <3>1, <3>2, SakinDurur, TurKuraliKalir
  <2>8. TurKurali(p)'
    <3>1. \A k \in oco[p].liste : oco[p].simdi # "once" /\ k \notin gec => BiletiGecti(k)
      BY <1>k DEF TurKurali
    <3>2. oco[p].simdi # "once" => saat # "once"
      BY <1>k DEF TurKurali
    <3>. QED BY <2>1, <2>3, <2>4, <3>1, <3>2 DEF TurKurali, KayitAdimlari, BiletiGecti, Biletsiz
  <2>. QED BY <2>6, <2>7, <2>8 DEF KayitInv
<1>3. ASSUME OcoBakHata(p) PROVE KayitInv'
  <2>1. UNCHANGED <<tur, saat, bilet, awx, istek, kayit, gec, geriCekilen>>
    BY <1>3 DEF OcoBakHata, satirlar, tarih
  <2>2. oco'[p] = OcoBos /\ \A q \in OcoSurec \ {p} : oco'[q] = oco[q]
    BY <1>3, <1>t DEF OcoBakHata
  <2>3. TurSakin(p)
    BY <2>2, OcoBosTipi DEF TurSakin, KayitAdimlari
  <2>. QED BY <1>s, <1>a, <2>1, <2>2, <2>3, AyniTur
<1>4. ASSUME NEW k \in Kayit, AdoptTicket(p, k) PROVE KayitInv'
  <2>. DEFINE t == oco[p].bagli[k]
  <2>1. t \in BagliTuru /\ t.b # Yok /\ t.b \in BiletleriOf(k) /\ t.durum # "yok"
    BY <1>4, <1>t, <1>b DEF AdoptTicket, Benimsenecek, OcoTuru
  <2>2. ~Biletsiz(k)
    <3>1. bilet[t.b] # "yok"
      BY <1>k, <2>1 DEF TurKurali
    <3>. QED BY <2>1, <3>1, BiletKimligi DEF Biletsiz
  <2>3. t.durum \in BILET_DURUMLARI \ {"yok"} /\ t.b \in Bilet
    BY <2>1, BiletKimligi DEF BagliTuru
  <2>4. KayitDene(k, {"SCHEDULED"}, Benimsenmis(t))
    BY <1>4 DEF AdoptTicket
  <2>. HIDE DEF t
  <2>5. BiletKayit(t.durum) \in KAYIT_DURUMLARI \ {"SCHEDULED"}
    BY <2>3 DEF BiletKayit, BILET_DURUMLARI, KAYIT_DURUMLARI
  <2>6. Benimsenmis(t) \in KayitSatiri /\ Benimsenmis(t).durum # "SCHEDULED"
    BY <2>3, <2>5 DEF Benimsenmis, KayitSatiri, Kaynak
  <2>7. /\ UNCHANGED <<tur, saat, bilet, awx, istek, gec, geriCekilen>>
        /\ oco[p].adim = "sira" /\ OcoDevam(p, oco[p].liste \ {k})
    BY <1>4 DEF AdoptTicket, tarih
  <2>8. \A j \in Kayit : KayitSakin(j)
    BY <1>y, <2>2, <2>4, <2>6, <2>7
  <2>. QED BY <1>s, <1>d, <2>7, <2>8
<1>5. ASSUME NEW k \in Kayit, OcoExpired(p, k) PROVE KayitInv'
  <2>1. /\ UNCHANGED <<tur, saat, bilet, awx, istek, gec, geriCekilen>>
        /\ oco[p].adim = "sira" /\ OcoDevam(p, oco[p].liste \ {k})
        /\ KayitDene(k, {"SCHEDULED"}, Durumlu(k, "EXPIRED"))
    BY <1>5 DEF OcoExpired, tarih
  <2>2. Durumlu(k, "EXPIRED") \in KayitSatiri /\ Durumlu(k, "EXPIRED").durum = "EXPIRED"
    BY <1>t, DurumluTipi DEF KAYIT_DURUMLARI
  <2>3. \A j \in Kayit : KayitSakin(j)
    BY <1>y, <2>1, <2>2
  <2>. QED BY <1>s, <1>d, <2>1, <2>3
<1>6. ASSUME NEW k \in Kayit, OcoAtla(p, k) PROVE KayitInv'
  <2>1. /\ UNCHANGED <<tur, saat, bilet, awx, istek, kayit, gec, geriCekilen>>
        /\ oco[p].adim = "sira" /\ OcoDevam(p, oco[p].liste \ {k})
    BY <1>6 DEF OcoAtla, satirlar, tarih
  <2>. QED BY <1>s, <1>a, <1>d, <2>1
<1>7. ASSUME NEW k \in Kayit, OcoSahiplen(p, k) PROVE KayitInv'
  <2>0. /\ UNCHANGED <<tur, saat, bilet, awx, istek, gec, geriCekilen>>
        /\ oco[p].adim = "sira" /\ Benimsenecek(p) = {} /\ k \in oco[p].liste
        /\ oco[p].simdi # "once"
    BY <1>7 DEF OcoSahiplen, SaatiGeldi, tarih
  <2>1. CASE /\ OcoSahiplenilir(k) /\ kayit' = [kayit EXCEPT ![k].durum = "LAUNCHING"]
             /\ oco' = [oco EXCEPT ![p].adim = "baslat", ![p].k = k, ![p].liste = @ \ {k}]
    <3>1. /\ oco'[p].adim = "baslat" /\ oco'[p].k = k /\ oco'[p].liste = oco[p].liste \ {k}
          /\ oco'[p].bagli = oco[p].bagli /\ oco'[p].simdi = oco[p].simdi
          /\ \A q \in OcoSurec \ {p} : oco'[q] = oco[q]
      BY <1>t, <2>1, OcoSahiplenir
    <3>2. /\ kayit[k].durum = "SCHEDULED" /\ kayit'[k].durum = "LAUNCHING"
          /\ \A j \in Kayit \ {k} : kayit'[j] = kayit[j]
      BY <1>t, <2>1 DEF OcoSahiplenilir, KayitSatiri
    <3>3. \A j \in Kayit : KayitSakin(j)
      BY <2>0, <3>2, YazilanSakin
    <3>4. \A j \in Kayit : KayitKurali(j)'
      BY <1>k, <2>0, <3>3, KayitKuraliKalir
    <3>5. ASSUME NEW q \in OcoSurec \ {p} PROVE TurKurali(q)' /\ (oco[q].adim \in KayitAdimlari => oco[q].k # k)
      <4>1. TurKurali(q) /\ TurSakin(q) /\ oco'[q] = oco[q]
        BY <1>k, <3>1, AyniTur
      <4>2. oco[q].adim \in KayitAdimlari => oco[q].k # k /\ oco[q].k \in Kayit
        BY <3>2, <4>1 DEF TurKurali, IsleyenTipi
      <4>3. TekSahip(q)
        BY <3>1, <4>1, <4>2 DEF TekSahip, TurKurali
      <4>4. oco'[q].adim = "baslat" => KayitBekler(oco[q].k)
        BY <2>0, <3>3, <4>1, <4>2, SakinDurur DEF KayitAdimlari
      <4>. QED BY <2>0, <3>3, <4>1, <4>2, <4>3, <4>4, SakinDurur, TurKuraliKalir
    <3>6. TurKurali(p)'
      <4>1. oco[p].bagli[k].b = Yok
        BY <2>0 DEF Benimsenecek
      <4>2. TurKurali(p) /\ KayitKurali(k)
        BY <1>k
      <4>3. Etkisiz(k) /\ bilet[<<k, 2>>] = "yok" /\ istek[k] \notin {"yok", "kuruldu"}
        BY <3>2, <4>2 DEF KayitKurali
      <4>4. k \notin gec => BiletiGecti(k) /\ bilet[<<k, 1>>] = "yok"
        BY <2>0, <4>1, <4>2 DEF TurKurali
      <4>5. geriCekilen[k] # "biletsiz"
        BY <3>2, <4>2 DEF KayitKurali
      <4>6. \A q \in OcoSurec \ {p} : oco'[q].adim \in KayitAdimlari => oco'[q].k # k
        BY <3>1, <3>5
      <4>7. \A j \in oco'[p].liste : oco'[p].simdi # "once" /\ j \notin gec' =>
               /\ BiletiGecti(j)'
               /\ oco'[p].adim # "bak" /\ oco'[p].bagli[j].b = Yok => bilet'[<<j, 1>>] = "yok"
        BY <2>0, <3>1, <4>2 DEF TurKurali, BiletiGecti
      <4>8. \A j \in Kayit : oco'[p].bagli[j].b # Yok => bilet'[oco'[p].bagli[j].b] # "yok"
        BY <2>0, <3>1, <4>2 DEF TurKurali
      <4>9. oco'[p].simdi # "once" /\ saat' # "once"
        BY <2>0, <3>1, <4>2 DEF TurKurali
      <4>. QED BY <2>0, <3>1, <3>2, <4>3, <4>4, <4>5, <4>6, <4>7, <4>8, <4>9
           DEF TurKurali, Etkisiz, BiletiGecti, awx
    <3>. QED BY <3>4, <3>5, <3>6 DEF KayitInv
  <2>2. CASE UNCHANGED kayit /\ OcoDevam(p, oco[p].liste \ {k})
    BY <1>s, <1>a, <1>d, <2>0, <2>2
  <2>. QED BY <1>7, <2>1, <2>2 DEF OcoSahiplen
<1>8. ASSUME OcoBilet(p) PROVE KayitInv'
  <2>. PICK k \in Kayit : k = oco[p].k
    BY <1>8, <1>b DEF OcoBilet, KayitAdimlari
  <2>0. /\ UNCHANGED <<tur, saat, kayit, awx, istek, gec, geriCekilen>>
        /\ oco[p].adim = "baslat" /\ k \in Kayit /\ Onayli(k)
        /\ oco[p].adim \in KayitAdimlari
    BY <1>8, <1>b DEF OcoBilet, KayitAdimlari, tarih
  <2>1. CASE BiletAc(<<k, 2>>) /\ (OcoGit(p, "bilet") \/ OcoGit(p, "hata"))
    <3>1. /\ bilet[<<k, 2>>] = "yok" /\ bilet'[<<k, 2>>] # "yok"
          /\ \A b \in Bilet \ {<<k, 2>>} : bilet'[b] = bilet[b]
      <4>1. <<k, 2>> \in Bilet
        BY <2>0, BiletKimligi
      <4>. QED BY <1>t, <2>1, <4>1 DEF BiletAc
    <3>2. /\ oco'[p].adim \in {"bilet", "hata"} /\ oco'[p].k = k /\ oco'[p].liste = oco[p].liste
          /\ oco'[p].bagli = oco[p].bagli /\ oco'[p].simdi = oco[p].simdi
          /\ \A q \in OcoSurec \ {p} : oco'[q] = oco[q]
      BY <1>t, <2>1, OcoAdimdaKalir DEF KayitAdimlari
    <3>3. ASSUME NEW j \in Kayit \ {k} PROVE KayitSakin(j)
      <4>1. <<j, 1>> \in Bilet \ {<<k, 2>>} /\ <<j, 2>> \in Bilet \ {<<k, 2>>}
        BY BiletKimligi
      <4>. QED BY <2>0, <3>1, <4>1 DEF KayitSakin, awx
    <3>4. TurKurali(p) /\ KayitKurali(k)
      BY <1>k, <2>0
    <3>5. <<k, 1>> \in Bilet \ {<<k, 2>>} /\ bilet'[<<k, 1>>] = bilet[<<k, 1>>]
      BY <2>0, <3>1, BiletKimligi
    <3>6. KayitKurali(k)'
      <4>1. /\ istek[k] \notin {"yok", "kuruldu"} /\ kayit[k].durum # "SCHEDULED"
            /\ k \notin gec => BiletiGecti(k) /\ bilet[<<k, 1>>] = "yok"
            /\ geriCekilen[k] # "biletsiz" /\ Etkisiz(k)
        BY <2>0, <3>4 DEF TurKurali
      <4>2. ~Biletsiz(k)'
        BY <2>0, <3>1, <3>2 DEF Biletsiz
      <4>3. Onayli(k)' /\ Etkisiz(k)'
        BY <2>0, <4>1 DEF Onayli, Etkisiz, awx
      <4>. QED BY <2>0, <3>4, <3>5, <4>1, <4>2, <4>3 DEF KayitKurali, Etkisiz, BiletiGecti, awx
    <3>7. \A j \in Kayit : KayitKurali(j)'
      BY <1>k, <2>0, <3>3, <3>6, KayitKuraliKalir
    <3>8. \A j \in Kayit : KayitDurur(j)
      <4>1. KayitDurur(k)
        BY <2>0, <3>1, <3>5 DEF KayitDurur, BiletiGecti
      <4>. QED BY <3>3, <4>1, SakinDurur
    <3>9. ASSUME NEW q \in OcoSurec PROVE TurKurali(q)'
      <4>1. TurSakin(p)
        BY <2>0, <3>1, <3>2 DEF TurSakin
      <4>2. \A r \in OcoSurec : TurSakin(r)
        BY <3>2, <4>1, AyniTur
      <4>3. TekSahip(q)
        BY <1>k, <4>2, TekSahipKalir
      <4>4. oco'[q].adim = "baslat" => KayitBekler(oco[q].k)
        <5>1. CASE q = p
          BY <3>2, <5>1
        <5>2. CASE q # p /\ oco'[q].adim = "baslat"
          <6>1. oco[q].adim \in KayitAdimlari /\ oco[q].k \in Kayit
            BY <3>2, <5>2 DEF KayitAdimlari, IsleyenTipi
          <6>2. oco[q].k # k
            BY <2>0, <3>4, <5>2, <6>1 DEF TurKurali
          <6>. QED BY <2>0, <3>3, <6>1, <6>2, SakinDurur
        <5>. QED BY <5>1, <5>2
      <4>. QED BY <1>k, <2>0, <3>8, <4>2, <4>3, <4>4, TurKuraliKalir
    <3>. QED BY <3>7, <3>9 DEF KayitInv
  <2>2. CASE UNCHANGED bilet /\ OcoGit(p, "hata")
    <3>1. /\ oco'[p].adim = "hata" /\ oco'[p].k = k /\ oco'[p].liste = oco[p].liste
          /\ oco'[p].bagli = oco[p].bagli /\ oco'[p].simdi = oco[p].simdi
          /\ \A q \in OcoSurec \ {p} : oco'[q] = oco[q]
      BY <1>t, <2>2, OcoAdimdaKalir DEF KayitAdimlari
    <3>2. TurSakin(p)
      BY <2>0, <3>1 DEF TurSakin
    <3>. QED BY <1>s, <1>a, <2>0, <2>2, <3>1, <3>2, AyniTur
  <2>. QED BY <1>8, <2>1, <2>2 DEF OcoBilet
<1>9. ASSUME OcoBaslat(p) PROVE KayitInv'
  <2>. PICK k \in Kayit : k = oco[p].k
    BY <1>9, <1>b DEF OcoBaslat, KayitAdimlari
  <2>0. /\ UNCHANGED <<tur, saat, kayit, bilet, zaman, istek, gec, geriCekilen>>
        /\ oco[p].adim = "baslat" /\ k \in Kayit /\ ~Onayli(k)
        /\ oco[p].adim \in KayitAdimlari
    BY <1>9, <1>b DEF OcoBaslat, KayitAdimlari, satirlar, tarih
  <2>1. OcoGit(p, "yaz") \/ OcoGit(p, "hata")
    BY <1>9 DEF OcoBaslat
  <2>2. /\ oco'[p].adim \in {"yaz", "hata"} /\ oco'[p].k = k /\ oco'[p].liste = oco[p].liste
        /\ oco'[p].bagli = oco[p].bagli /\ oco'[p].simdi = oco[p].simdi
        /\ \A q \in OcoSurec \ {p} : oco'[q] = oco[q]
    BY <1>t, <2>1, OcoAdimdaKalir DEF KayitAdimlari
  <2>3. \A r \in OcoSurec : TurSakin(r)
    <3>1. TurSakin(p)
      BY <2>0, <2>2 DEF TurSakin
    <3>. QED BY <2>2, <3>1, AyniTur
  <2>4. CASE Baslat(k)
    <3>1. /\ is'[k] = is[k] + 1 /\ \A j \in Kayit \ {k} : is'[j] = is[j]
      <4>. QED BY <1>t, <2>0, <2>4 DEF Baslat, Kaynak
    <3>2. \A j \in Kayit \ {k} : KayitSakin(j)
      BY <2>0, <3>1 DEF KayitSakin
    <3>3. TurKurali(p) /\ KayitKurali(k)
      BY <1>k, <2>0
    <3>4. KayitKurali(k)'
      <4>1. /\ istek[k] \notin {"yok", "kuruldu"} /\ kayit[k].durum # "SCHEDULED"
            /\ geriCekilen[k] # "biletsiz" /\ Etkisiz(k)
        BY <2>0, <3>3 DEF TurKurali
      <4>2. is'[k] = 1 /\ zaman'[k] = "yok"
        BY <2>0, <3>1, <4>1 DEF Etkisiz
      <4>3. UNCHANGED <<Biletsiz(k), Onayli(k), BiletiGecti(k)>>
        BY <2>0, <2>2 DEF Biletsiz, Onayli, BiletiGecti
      <4>. QED BY <2>0, <3>3, <4>1, <4>2, <4>3 DEF KayitKurali
    <3>5. \A j \in Kayit : KayitKurali(j)'
      BY <1>k, <2>0, <3>2, <3>4, KayitKuraliKalir
    <3>6. \A j \in Kayit : KayitDurur(j)
      BY <2>0 DEF KayitDurur, BiletiGecti
    <3>7. ASSUME NEW q \in OcoSurec PROVE TurKurali(q)'
      <4>1. TekSahip(q)
        BY <1>k, <2>3, TekSahipKalir
      <4>2. oco'[q].adim = "baslat" => KayitBekler(oco[q].k)
        <5>1. CASE q = p
          BY <2>2, <5>1
        <5>2. CASE q # p /\ oco'[q].adim = "baslat"
          <6>1. oco[q].adim \in KayitAdimlari /\ oco[q].k \in Kayit
            BY <2>2, <5>2 DEF KayitAdimlari, IsleyenTipi
          <6>2. oco[q].k # k
            BY <2>0, <3>3, <5>2, <6>1 DEF TurKurali
          <6>. QED BY <2>0, <3>2, <6>1, <6>2, SakinDurur
        <5>. QED BY <5>1, <5>2
      <4>. QED BY <1>k, <2>0, <2>3, <3>6, <4>1, <4>2, TurKuraliKalir
    <3>. QED BY <3>5, <3>7 DEF KayitInv
  <2>5. CASE UNCHANGED is
    BY <1>s, <1>a, <2>0, <2>3, <2>5 DEF awx
  <2>. QED BY <1>9, <2>4, <2>5 DEF OcoBaslat
<1>10. ASSUME OcoYaz(p) PROVE KayitInv'
  <2>1. /\ UNCHANGED <<tur, saat, bilet, awx, istek, gec, geriCekilen>>
        /\ oco[p].adim \in {"bilet", "yaz"} /\ oco[p].k \in Kayit
    BY <1>10, <1>b DEF OcoYaz, KayitAdimlari, tarih
  <2>2. CASE KayitYaz(oco[p].k, {"LAUNCHING"}, OcoSonucu(p)) /\ UNCHANGED ariza /\ OcoDevam(p, oco[p].liste)
    <3>1. OcoSonucu(p) \in KayitSatiri
      BY <1>t, <2>1, DurumluTipi DEF OcoSonucu, KayitSatiri, KAYIT_DURUMLARI, Kaynak
    <3>2. \/ OcoSonucu(p).durum = "LAUNCHED"
          \/ OcoSonucu(p).durum = "PENDING_APPROVAL" /\ ~Biletsiz(oco[p].k)
      <4>1. CASE oco[p].adim = "bilet"
        <5>1. OcoSonucu(p).durum = "PENDING_APPROVAL"
          BY <1>t, <2>1, <4>1, DurumluTipi DEF OcoSonucu, KAYIT_DURUMLARI
        <5>2. bilet[<<oco[p].k, 2>>] # "yok"
          BY <1>k, <4>1 DEF TurKurali
        <5>. QED BY <5>1, <5>2 DEF Biletsiz
      <4>2. CASE oco[p].adim = "yaz"
        BY <4>2 DEF OcoSonucu
      <4>. QED BY <2>1, <4>1, <4>2
    <3>3. KayitDene(oco[p].k, {"LAUNCHING"}, OcoSonucu(p))
      BY <2>2 DEF KayitDene
    <3>4. \A j \in Kayit : KayitSakin(j)
      BY <1>y, <2>1, <3>1, <3>2, <3>3
    <3>. QED BY <1>s, <1>d, <2>1, <2>2, <3>4
  <2>3. CASE UNCHANGED kayit /\ OcoGit(p, "hata")
    <3>1. /\ oco'[p].adim = "hata" /\ oco'[p].k = oco[p].k /\ oco'[p].liste = oco[p].liste
          /\ oco'[p].bagli = oco[p].bagli /\ oco'[p].simdi = oco[p].simdi
          /\ \A q \in OcoSurec \ {p} : oco'[q] = oco[q]
      BY <1>t, <2>3, OcoAdimdaKalir DEF KayitAdimlari
    <3>2. TurSakin(p)
      BY <2>1, <3>1 DEF TurSakin, KayitAdimlari
    <3>. QED BY <1>s, <1>a, <2>1, <2>3, <3>1, <3>2, AyniTur
  <2>. QED BY <1>10, <2>2, <2>3 DEF OcoYaz
<1>11. ASSUME OcoHata(p) PROVE KayitInv'
  <2>1. /\ UNCHANGED <<tur, saat, bilet, awx, istek, gec, geriCekilen>>
        /\ oco[p].adim = "hata" /\ oco[p].k \in Kayit /\ OcoDevam(p, oco[p].liste)
        /\ KayitDene(oco[p].k, {"SCHEDULED", "LAUNCHING", "PENDING_APPROVAL"}, Durumlu(oco[p].k, "FAILED"))
    BY <1>11, <1>b DEF OcoHata, KayitAdimlari, tarih
  <2>2. Durumlu(oco[p].k, "FAILED") \in KayitSatiri /\ Durumlu(oco[p].k, "FAILED").durum = "FAILED"
    BY <1>t, <2>1, DurumluTipi DEF KAYIT_DURUMLARI
  <2>3. \A j \in Kayit : KayitSakin(j)
    BY <1>y, <2>1, <2>2
  <2>. QED BY <1>s, <1>d, <2>1, <2>3
<1>. QED BY <1>1, <1>2, <1>3, <1>4, <1>5, <1>6, <1>7, <1>8, <1>9, <1>10, <1>11 DEF OcoAdimi

\* A step of one request, or on one record, while no round goes on.
LEMMA TekKayitAdimi ==
    ASSUME TypeOK, IsleyenTipi, TypeOK', KayitInv, NEW k \in Kayit, KayitKurali(k)',
           UNCHANGED <<tur, saat, gec, oco>>, KayitDurur(k),
           \A q \in OcoSurec : oco[q].adim = "baslat" /\ oco[q].k = k => KayitBekler(k),
           \A j \in Kayit \ {k} : KayitSakin(j) /\ geriCekilen'[j] = geriCekilen[j]
    PROVE  KayitInv'
<1>1. \A j \in Kayit : KayitKurali(j)'
  BY KayitKuraliKalir DEF KayitInv
<1>2. ASSUME NEW p \in OcoSurec PROVE TurKurali(p)'
  <2>1. \A j \in Kayit : KayitDurur(j)
    BY SakinDurur
  <2>2. \A q \in OcoSurec : TurSakin(q)
    BY AyniTur
  <2>3. oco'[p].adim = "baslat" => KayitBekler(oco[p].k)
    <3>1. oco[p].adim = "baslat" => oco[p].k \in Kayit
      BY DEF IsleyenTipi, KayitAdimlari
    <3>. QED BY <3>1, SakinDurur
  <2>. QED BY <2>1, <2>2, <2>3, TekSahipKalir, TurKuraliKalir DEF KayitInv
<1>. QED BY <1>1, <1>2 DEF KayitInv

\* Every step keeps what holds of the records and of the rounds.
LEMMA KayitAdim == TipInv /\ TipInv' /\ KayitInv /\ [Next]_vars => KayitInv'
<1>. SUFFICES ASSUME TypeOK, IsleyenTipi, TypeOK', KayitInv, [Next]_vars PROVE KayitInv'
  BY DEF TipInv
<1>t. /\ bilet \in [Bilet -> BILET_DURUMLARI] /\ kayit \in [Kayit -> KayitSatiri]
      /\ is \in [Kaynak -> Nat] /\ ariza \in Nat
      /\ zaman \in [Kaynak -> {"yok", "kurulu", "gecmis", "atesledi", "silindi"}]
      /\ istek \in [Kayit -> {"yok", "kuruldu", "kayit", "bilet", "bitti"}]
      /\ geriCekilen \in [Kayit -> {"-", "biletsiz", "biletli"}]
  BY DEF TypeOK, KayitSatiri
<1>k. (\A k \in Kayit : KayitKurali(k)) /\ (\A q \in OcoSurec : TurKurali(q))
  BY DEF KayitInv
<1>n. \A k \in Kayit : /\ <<k, 1>> \in Bilet /\ <<k, 2>> \in Bilet /\ k \in Kaynak
                       /\ BiletleriOf(k) = {<<k, 1>>, <<k, 2>>}
  BY BiletKimligi DEF Kaynak
<1>o. UNCHANGED oco => \A q \in OcoSurec : TurSakin(q)
  BY AyniTur
<1>s. ASSUME UNCHANGED <<tur, saat, oco, gec, geriCekilen>>, \A k \in Kayit : KayitSakin(k)
      PROVE  KayitInv'
  BY <1>s, <1>o, SakinKayitAdimi
<1>a. ASSUME UNCHANGED <<tur, saat, bilet, awx, istek, kayit, oco, gec, geriCekilen>> PROVE KayitInv'
  BY <1>s, <1>a, YazilanSakin
<1>1. ASSUME NEW k \in Kayit, TalepAwx(k) PROVE KayitInv'
  <2>1. /\ UNCHANGED <<tur, saat, kayit, bilet, is, oco, gec, geriCekilen>>
        /\ istek[k] = "yok" /\ istek'[k] = "kuruldu" /\ ~Onayli(k)
        /\ \A j \in Kayit \ {k} : istek'[j] = istek[j] /\ zaman'[j] = zaman[j]
    BY <1>1, <1>t, <1>n DEF TalepAwx, Zamanla, Onayli, satirlar, tarih
  <2>2. \A j \in Kayit \ {k} : KayitSakin(j)
    BY <2>1 DEF KayitSakin
  <2>3. KayitKurali(k)'
    BY <1>k, <2>1 DEF KayitKurali, Biletsiz, Etkisiz, BiletiGecti, Onayli
  <2>4. KayitDurur(k) /\ KayitBekler(k)
    BY <2>1 DEF KayitDurur, KayitBekler
  <2>. QED BY <2>1, <2>2, <2>3, <2>4, TekKayitAdimi
<1>2. ASSUME NEW k \in Kayit, CreateAwxScheduled(k) PROVE KayitInv'
  <2>1. /\ UNCHANGED <<tur, saat, bilet, awx, oco, gec, geriCekilen>>
        /\ istek[k] = "kuruldu" /\ istek'[k] = "bitti" /\ kayit'[k].durum = "AWX_SCHEDULED"
        /\ \A j \in Kayit \ {k} : istek'[j] = istek[j] /\ kayit'[j] = kayit[j]
    BY <1>2, <1>t DEF CreateAwxScheduled, tarih
  <2>2. ASSUME NEW j \in Kayit PROVE KayitSakin(j)
    BY <2>1 DEF KayitSakin, awx
  <2>. QED BY <1>s, <2>1, <2>2
<1>3. ASSUME NEW k \in Kayit, TalepPortal(k) PROVE KayitInv'
  <2>1. /\ UNCHANGED <<tur, saat, bilet, is, zaman, oco, gec, geriCekilen>>
        /\ istek[k] = "yok" /\ istek'[k] = IF Onayli(k) THEN "kayit" ELSE "bitti"
        /\ kayit'[k].durum = "SCHEDULED" /\ saat = "once"
        /\ \A j \in Kayit \ {k} : istek'[j] = istek[j] /\ kayit'[j] = kayit[j]
    BY <1>3, <1>t DEF TalepPortal, KayitSatiri, awx, tarih
  <2>2. \A j \in Kayit \ {k} : KayitSakin(j)
    BY <2>1 DEF KayitSakin
  <2>3. KayitKurali(k)'
    BY <1>k, <2>1 DEF KayitKurali, Biletsiz, Etkisiz, BiletiGecti, Onayli
  <2>4. KayitDurur(k) /\ KayitBekler(k)
    BY <2>1 DEF KayitDurur, KayitBekler
  <2>. QED BY <2>1, <2>2, <2>3, <2>4, TekKayitAdimi
<1>4. ASSUME NEW k \in Kayit, TalepBilet(k) PROVE KayitInv'
  <2>1. /\ UNCHANGED <<tur, saat, kayit, is, zaman, oco, gec, geriCekilen>>
        /\ istek[k] = "kayit" /\ istek'[k] \in {"bilet", "bitti"}
        /\ \A j \in Kayit \ {k} : istek'[j] = istek[j]
    BY <1>4, <1>t DEF TalepBilet, awx, tarih
  <2>2. CASE BiletAc(<<k, 1>>)
    <3>1. /\ bilet[<<k, 1>>] = "yok" /\ bilet'[<<k, 1>>] # "yok"
          /\ \A b \in Bilet \ {<<k, 1>>} : bilet'[b] = bilet[b]
      BY <1>t, <1>n, <2>2 DEF BiletAc
    <3>2. ASSUME NEW j \in Kayit \ {k} PROVE KayitSakin(j)
      <4>1. <<j, 1>> \in Bilet \ {<<k, 1>>} /\ <<j, 2>> \in Bilet \ {<<k, 1>>}
        BY <1>n
      <4>. QED BY <2>1, <3>1, <4>1 DEF KayitSakin
    <3>3. bilet'[<<k, 2>>] = bilet[<<k, 2>>]
      BY <1>n, <3>1
    <3>4. KayitKurali(k)'
      <4>1. KayitKurali(k) /\ ~Biletsiz(k)'
        BY <1>k, <3>1 DEF Biletsiz
      <4>2. k \notin gec => bilet[<<k, 2>>] = "yok"
        BY <2>1, <4>1 DEF KayitKurali, BiletiGecti
      <4>3. geriCekilen[k] # "biletsiz" /\ Onayli(k)
        BY <2>1, <4>1 DEF KayitKurali
      <4>4. Onayli(k)' /\ (Etkisiz(k) <=> Etkisiz(k)')
        BY <2>1, <4>3 DEF Onayli, Etkisiz
      <4>. QED BY <2>1, <3>1, <3>3, <4>1, <4>2, <4>3, <4>4 DEF KayitKurali, BiletiGecti, Etkisiz
    <3>5. KayitDurur(k) /\ KayitBekler(k)
      BY <2>1, <3>1, <3>3 DEF KayitDurur, KayitBekler, BiletiGecti
    <3>. QED BY <2>1, <3>2, <3>4, <3>5, TekKayitAdimi
  <2>3. CASE UNCHANGED bilet /\ istek'[k] = "bitti"
    <3>1. \A j \in Kayit : KayitSakin(j)
      BY <2>1, <2>3 DEF KayitSakin
    <3>. QED BY <1>s, <2>1, <3>1
  <2>. QED BY <1>4, <1>t, <2>2, <2>3 DEF TalepBilet
<1>5. ASSUME NEW k \in Kayit, MarkPendingApprovalAtRequest(k) PROVE KayitInv'
  <2>1. /\ UNCHANGED <<tur, saat, bilet, is, zaman, oco, gec, geriCekilen>>
        /\ istek[k] = "bilet" /\ istek'[k] = "bitti"
        /\ \A j \in Kayit \ {k} : istek'[j] = istek[j]
        /\ KayitDene(k, {"SCHEDULED"}, Durumlu(k, "PENDING_APPROVAL"))
    BY <1>5, <1>t DEF MarkPendingApprovalAtRequest, awx, tarih
  <2>2. /\ Durumlu(k, "PENDING_APPROVAL") \in KayitSatiri
        /\ Durumlu(k, "PENDING_APPROVAL").durum = "PENDING_APPROVAL"
    BY <1>t, DurumluTipi DEF KAYIT_DURUMLARI
  <2>3. \A j \in Kayit : \/ kayit'[j] = kayit[j]
                         \/ /\ j = k /\ kayit[k].durum = "SCHEDULED"
                            /\ kayit'[k].durum = "PENDING_APPROVAL"
    BY <1>t, <2>1, <2>2, KayitDener
  <2>4. ~Biletsiz(k)
    BY <1>k, <2>1 DEF KayitKurali
  <2>5. \A j \in Kayit : KayitSakin(j)
    BY <2>1, <2>3, <2>4 DEF KayitSakin
  <2>. QED BY <1>s, <2>1, <2>5
<1>6. ASSUME NEW y \in Dogrudan, TalepDogrudan(y) PROVE KayitInv'
  <2>1. /\ UNCHANGED <<tur, saat, kayit, is, zaman, istek, oco, gec, geriCekilen>>
        /\ BiletAc(<<y, 1>>)
    BY <1>6 DEF TalepDogrudan, awx, tarih
  <2>2. ASSUME NEW k \in Kayit PROVE KayitSakin(k)
    <3>1. k # y
      BY OnayVarsayimi
    <3>2. bilet'[<<k, 1>>] = bilet[<<k, 1>>] /\ bilet'[<<k, 2>>] = bilet[<<k, 2>>]
      BY <1>t, <1>n, <2>1, <3>1 DEF BiletAc
    <3>. QED BY <2>1, <3>2 DEF KayitSakin
  <2>. QED BY <1>s, <2>1, <2>2
<1>7. ASSUME NEW b \in Bilet, CancelTicket(b) PROVE KayitInv'
  <2>1. /\ UNCHANGED <<tur, saat, kayit, is, zaman, istek, oco, gec, geriCekilen>>
        /\ \A c \in Bilet : bilet'[c] = "yok" <=> bilet[c] = "yok"
    BY <1>7, <1>t DEF CancelTicket, awx, tarih
  <2>2. \A k \in Kayit : KayitSakin(k)
    BY <1>n, <2>1 DEF KayitSakin
  <2>. QED BY <1>s, <2>1, <2>2
<1>8. ASSUME NEW k \in Kayit, Cancel(k) PROVE KayitInv'
  <2>1. /\ UNCHANGED <<tur, saat, bilet, is, zaman, istek, oco, gec>>
        /\ kayit[k].durum \in {"SCHEDULED", "PENDING_APPROVAL"} /\ kayit'[k].durum = "CANCELLED"
        /\ geriCekilen'[k] = "biletsiz" => BiletiYok(k) /\ istek[k] = "bitti"
        /\ \A j \in Kayit \ {k} : kayit'[j] = kayit[j] /\ geriCekilen'[j] = geriCekilen[j]
    BY <1>8, <1>t DEF Cancel, KayitSatiri, awx
  <2>2. \A j \in Kayit : KayitSakin(j)
    BY <2>1 DEF KayitSakin
  <2>3. KayitKurali(k)'
    <3>1. BiletiYok(k) => Biletsiz(k)
      BY <1>n DEF BiletiYok, Biletsiz
    <3>2. UNCHANGED <<Biletsiz(k), Etkisiz(k), Onayli(k), BiletiGecti(k)>>
      BY <2>1 DEF Biletsiz, Etkisiz, Onayli, BiletiGecti
    <3>. QED BY <1>k, <2>1, <3>1, <3>2 DEF KayitKurali
  <2>4. ASSUME NEW q \in OcoSurec, oco[q].adim = "baslat", oco[q].k = k PROVE KayitBekler(k)
    <3>1. TurKurali(q) /\ KayitKurali(k) /\ (BiletiYok(k) => Biletsiz(k))
      BY <1>k, <1>n DEF BiletiYok, Biletsiz
    <3>2. kayit[k].durum # "SCHEDULED"
      BY <2>4, <3>1 DEF TurKurali, KayitAdimlari
    <3>3. geriCekilen'[k] # "biletsiz"
      BY <2>1, <3>1, <3>2 DEF KayitKurali
    <3>. QED BY <2>1, <3>3 DEF KayitBekler
  <2>. QED BY <2>1, <2>2, <2>3, <2>4, SakinDurur, TekKayitAdimi
<1>9. ASSUME \/ \E k \in Kayit : AdminOku(k)
             \/ \E b \in Bilet, k \in {"onay", "ret"} : SmartKarari(b, k)
             \/ AdminKesilir \/ UNCHANGED vars
      PROVE  KayitInv'
  <2>1. UNCHANGED <<tur, saat, bilet, awx, istek, kayit, oco, gec, geriCekilen>>
    BY <1>9 DEF AdminOku, SmartKarari, AdminKesilir, vars, satirlar, awx, tarih
  <2>. QED BY <1>a, <2>1
<1>10. ASSUME AdminSil \/ \E x \in Kaynak : ZamanAtesler(x) PROVE KayitInv'
  <2>1. /\ UNCHANGED <<tur, saat, kayit, bilet, is, istek, oco, gec, geriCekilen>>
        /\ \A k \in Kayit : zaman'[k] = zaman[k] \/ (zaman[k] # "yok" /\ zaman'[k] # "yok")
    BY <1>10, <1>t, <1>n DEF AdminSil, ZamanAtesler, satirlar, tarih
  <2>2. \A k \in Kayit : KayitSakin(k)
    BY <2>1 DEF KayitSakin
  <2>. QED BY <1>s, <2>1, <2>2
<1>11. ASSUME AdminCancel PROVE KayitInv'
  <2>1. /\ UNCHANGED <<tur, saat, bilet, awx, istek, oco, gec, geriCekilen>>
        /\ KayitYaz(yon.k, {"SCHEDULED", "AWX_SCHEDULED", "LAUNCHING", "PENDING_APPROVAL", "LAUNCHED"},
                    Durumlu(yon.k, "CANCELLED"))
        /\ yon.k \in Kayit
    BY <1>11 DEF AdminCancel, IsleyenTipi, tarih
  <2>2. /\ Durumlu(yon.k, "CANCELLED") \in KayitSatiri
        /\ Durumlu(yon.k, "CANCELLED").durum = "CANCELLED"
    BY <1>t, <2>1, DurumluTipi DEF KAYIT_DURUMLARI
  <2>3. \A j \in Kayit : \/ kayit'[j] = kayit[j]
                         \/ kayit[j].durum \notin {"yok", "CANCELLED"} /\ kayit'[j].durum = "CANCELLED"
    BY <1>t, <2>1, <2>2, KayitYazar
  <2>4. \A j \in Kayit : KayitSakin(j)
    BY <2>1, <2>3, YazilanSakin
  <2>. QED BY <1>s, <2>1, <2>4
<1>12. ASSUME SaatIlerler PROVE KayitInv'
  <2>1. /\ UNCHANGED <<tur, kayit, bilet, is, zaman, istek, oco, geriCekilen>>
        /\ saat' # "once" /\ gec' = gec \cup {k \in Kayit : istek[k] = "kayit"}
    BY <1>12 DEF SaatIlerler, satirlar, awx, TypeOK, SAATLER
  <2>2. ASSUME NEW k \in Kayit PROVE KayitKurali(k)'
    <3>1. UNCHANGED <<Biletsiz(k), Etkisiz(k), Onayli(k), BiletiGecti(k)>>
      BY <2>1 DEF Biletsiz, Etkisiz, Onayli, BiletiGecti
    <3>. QED BY <1>k, <2>1, <3>1 DEF KayitKurali
  <2>3. ASSUME NEW p \in OcoSurec PROVE TurKurali(p)'
    <3>1. \A k \in Kayit : KayitDurur(k) /\ KayitBekler(k)
      BY <2>1 DEF KayitDurur, KayitBekler, BiletiGecti
    <3>2. oco'[p].adim = "baslat" => oco[p].k \in Kayit
      BY <2>1 DEF IsleyenTipi, KayitAdimlari
    <3>. QED BY <1>k, <1>o, <2>1, <3>1, <3>2, TekSahipKalir, TurKuraliKalir
  <2>. QED BY <2>2, <2>3 DEF KayitInv
<1>13. ASSUME NEW p \in SmartSurec \cup OcoSurec, Cokme(p) PROVE KayitInv'
  <2>1. /\ UNCHANGED <<tur, saat, kayit, bilet, awx, istek, gec, geriCekilen>>
        /\ \A q \in OcoSurec : oco'[q] = oco[q] \/ oco'[q] = OcoBos
    BY <1>13 DEF Cokme, satirlar, tarih
  <2>2. \A q \in OcoSurec : TurSakin(q)
    <3>1. \A q \in OcoSurec : oco'[q] = OcoBos => TurSakin(q)
      BY OcoBosTipi DEF TurSakin, KayitAdimlari
    <3>. QED BY <2>1, <3>1, AyniTur
  <2>3. \A k \in Kayit : KayitSakin(k)
    BY <2>1, YazilanSakin
  <2>. QED BY <2>1, <2>2, <2>3, SakinKayitAdimi
<1>14. ASSUME NEW k \in Kayit, IstekKesilir(k) PROVE KayitInv'
  <2>1. /\ UNCHANGED <<tur, saat, kayit, bilet, is, zaman, oco, gec, geriCekilen>>
        /\ istek[k] # "yok" /\ istek'[k] = "bitti" /\ \A j \in Kayit \ {k} : istek'[j] = istek[j]
    BY <1>14, <1>t DEF IstekKesilir, satirlar, awx, tarih
  <2>2. \A j \in Kayit : KayitSakin(j)
    BY <2>1 DEF KayitSakin
  <2>. QED BY <1>s, <2>1, <2>2
<1>. QED BY <1>1, <1>2, <1>3, <1>4, <1>5, <1>6, <1>7, <1>8, <1>9, <1>10, <1>11, <1>12, <1>13, <1>14,
            KayitSmart, KayitOco DEF Next, IstekAdimi

-----------------------------------------------------------------------------
(***************************************************************************)
(* The clock                                                               *)
(***************************************************************************)

\* What a step does to the jobs and the schedules of AWX: a job is added for the ticket,
\* or for the record, whose round calls AWX; a schedule is never forgotten, and fires in
\* its window only.
LEMMA AwxAdimi ==
    ASSUME TypeOK, IsleyenTipi, [Next]_vars, NEW x \in Kaynak
    PROVE  /\ \/ is'[x] = is[x]
              \/ /\ is'[x] = is[x] + 1
                 /\ \/ \E p \in SmartSurec : smart[p].adim = "baslat" /\ smart[p].b = x
                    \/ \E p \in OcoSurec : oco[p].adim = "baslat" /\ oco[p].k = x
           /\ zaman[x] # "yok" => zaman'[x] # "yok"
           /\ zaman'[x] = "atesledi" => zaman[x] = "atesledi" \/ saat # "once"
<1>t. /\ is \in [Kaynak -> Nat]
      /\ zaman \in [Kaynak -> {"yok", "kurulu", "gecmis", "atesledi", "silindi"}]
  BY DEF TypeOK
<1>1. ASSUME NEW k \in Kayit, TalepAwx(k)
      PROVE  UNCHANGED is /\ (zaman'[x] = zaman[x] \/ zaman'[x] \in {"kurulu", "gecmis"})
  BY <1>1, <1>t DEF TalepAwx, Zamanla
<1>2. ASSUME NEW p \in SmartSurec, SmartKur(p)
      PROVE  UNCHANGED is /\ (zaman'[x] = zaman[x] \/ zaman'[x] \in {"kurulu", "gecmis"})
  BY <1>2, <1>t DEF SmartKur, Zamanla
<1>3. ASSUME NEW p \in SmartSurec, SmartBaslat(p)
      PROVE  /\ UNCHANGED zaman
             /\ is'[x] = is[x] \/ (is'[x] = is[x] + 1 /\ smart[p].adim = "baslat" /\ smart[p].b = x)
  BY <1>3, <1>t DEF SmartBaslat, Baslat
<1>4. ASSUME NEW p \in OcoSurec, OcoBaslat(p)
      PROVE  /\ UNCHANGED zaman
             /\ is'[x] = is[x] \/ (is'[x] = is[x] + 1 /\ oco[p].adim = "baslat" /\ oco[p].k = x)
  BY <1>4, <1>t DEF OcoBaslat, Baslat
<1>5. ASSUME AdminSil
      PROVE  /\ UNCHANGED is
             /\ zaman'[x] = zaman[x] \/ (zaman[x] = "kurulu" /\ zaman'[x] = "silindi")
  BY <1>5, <1>t DEF AdminSil
<1>6. ASSUME NEW y \in Kaynak, ZamanAtesler(y)
      PROVE  /\ UNCHANGED is /\ saat # "once"
             /\ zaman'[x] = zaman[x] \/ zaman'[x] = "atesledi"
  BY <1>6, <1>t DEF ZamanAtesler
<1>7. ASSUME \/ \E k \in Kayit : \/ CreateAwxScheduled(k) \/ TalepPortal(k) \/ Cancel(k)
                                 \/ MarkPendingApprovalAtRequest(k) \/ TalepBilet(k)
                                 \/ AdminOku(k) \/ IstekKesilir(k)
             \/ \E y \in Dogrudan : TalepDogrudan(y)
             \/ \E b \in Bilet : CancelTicket(b) \/ \E k \in {"onay", "ret"} : SmartKarari(b, k)
             \/ AdminCancel \/ AdminKesilir \/ SaatIlerler \/ UNCHANGED vars
             \/ \E p \in SmartSurec \cup OcoSurec : Cokme(p)
             \/ \E p \in SmartSurec : ~SmartKur(p) /\ ~SmartBaslat(p) /\ SmartAdimi(p)
             \/ \E p \in OcoSurec : ~OcoBaslat(p) /\ OcoAdimi(p)
      PROVE  UNCHANGED <<is, zaman>>
  <2>1. ASSUME NEW p \in SmartSurec, ~SmartKur(p), ~SmartBaslat(p), SmartAdimi(p)
        PROVE  UNCHANGED <<is, zaman>>
    BY <2>1 DEF SmartAdimi, SmartOku, SmartSira, SmartSon, SmartBekler, SmartRet, SmartSahiplen,
                SmartKarar, SmartKayda, SmartBitir, SmartHata, SmartEsitle, awx
  <2>2. ASSUME NEW p \in OcoSurec, ~OcoBaslat(p), OcoAdimi(p)
        PROVE  UNCHANGED <<is, zaman>>
    BY <2>2 DEF OcoAdimi, OcoOku, OcoBak, OcoBakHata, AdoptTicket, OcoExpired, OcoAtla, OcoSahiplen,
                OcoBilet, OcoYaz, OcoHata, awx
  <2>3. ASSUME \/ \E k \in Kayit : \/ CreateAwxScheduled(k) \/ TalepPortal(k) \/ Cancel(k)
                                   \/ MarkPendingApprovalAtRequest(k) \/ TalepBilet(k)
                                   \/ AdminOku(k) \/ IstekKesilir(k)
               \/ \E y \in Dogrudan : TalepDogrudan(y)
               \/ \E b \in Bilet : CancelTicket(b) \/ \E k \in {"onay", "ret"} : SmartKarari(b, k)
               \/ AdminCancel \/ AdminKesilir \/ SaatIlerler \/ UNCHANGED vars
               \/ \E p \in SmartSurec \cup OcoSurec : Cokme(p)
        PROVE  UNCHANGED <<is, zaman>>
    BY <2>3 DEF CreateAwxScheduled, TalepPortal, Cancel, MarkPendingApprovalAtRequest, TalepBilet,
                AdminOku, IstekKesilir, TalepDogrudan, CancelTicket, SmartKarari, AdminCancel,
                AdminKesilir, SaatIlerler, vars, Cokme, awx
  <2>. QED BY <1>7, <2>1, <2>2, <2>3
<1>8. CASE UNCHANGED <<is, zaman>>
  BY <1>8
<1>9. CASE ~UNCHANGED <<is, zaman>>
  <2>1. \/ \E k \in Kayit : TalepAwx(k)
        \/ \E p \in SmartSurec : SmartKur(p) \/ SmartBaslat(p)
        \/ \E p \in OcoSurec : OcoBaslat(p)
        \/ AdminSil \/ \E y \in Kaynak : ZamanAtesler(y)
    BY <1>7, <1>9 DEF Next, IstekAdimi
  <2>. QED BY <1>t, <2>1, <1>1, <1>2, <1>3, <1>4, <1>5, <1>6
<1>. QED BY <1>8, <1>9

\* Time does not go back, and the kind of a request stays.
LEMMA SaatAdimi ==
    ASSUME TypeOK, [Next]_vars
    PROVE  UNCHANGED tur /\ (saat' = saat \/ saat' # "once")
<1>1. CASE SaatIlerler
  BY <1>1 DEF SaatIlerler, TypeOK, SAATLER
<1>2. ASSUME NEW p \in SmartSurec, SmartAdimi(p) PROVE UNCHANGED <<tur, saat>>
  BY <1>2 DEF SmartAdimi, SmartOku, SmartSira, SmartSon, SmartBekler, SmartRet, SmartSahiplen,
              SmartKarar, SmartKur, SmartBaslat, SmartKayda, SmartBitir, SmartHata, SmartEsitle
<1>3. ASSUME NEW p \in OcoSurec, OcoAdimi(p) PROVE UNCHANGED <<tur, saat>>
  BY <1>3 DEF OcoAdimi, OcoOku, OcoBak, OcoBakHata, AdoptTicket, OcoExpired, OcoAtla, OcoSahiplen,
              OcoBilet, OcoBaslat, OcoYaz, OcoHata
<1>4. ASSUME \/ \E k \in Kayit : \/ TalepAwx(k) \/ CreateAwxScheduled(k) \/ TalepPortal(k) \/ Cancel(k)
                                 \/ MarkPendingApprovalAtRequest(k) \/ TalepBilet(k)
                                 \/ AdminOku(k) \/ IstekKesilir(k)
             \/ \E y \in Dogrudan : TalepDogrudan(y)
             \/ \E b \in Bilet : CancelTicket(b) \/ \E k \in {"onay", "ret"} : SmartKarari(b, k)
             \/ AdminSil \/ AdminCancel \/ AdminKesilir \/ UNCHANGED vars
             \/ \E p \in SmartSurec \cup OcoSurec : Cokme(p)
             \/ \E x \in Kaynak : ZamanAtesler(x)
      PROVE  UNCHANGED <<tur, saat>>
  BY <1>4 DEF TalepAwx, CreateAwxScheduled, TalepPortal, Cancel, MarkPendingApprovalAtRequest,
              TalepBilet, AdminOku, IstekKesilir, TalepDogrudan, CancelTicket, SmartKarari, AdminSil,
              AdminCancel, AdminKesilir, vars, Cokme, ZamanAtesler
<1>. QED BY <1>1, <1>2, <1>3, <1>4 DEF Next, IstekAdimi

\* A SMART round comes to the launch of a job from its decision only.
LEMMA BaslatanKarar ==
    ASSUME TypeOK, IsleyenTipi, NEW p \in SmartSurec, SmartAdimi(p), smart'[p].adim = "baslat"
    PROVE  OnaySonrasi(smart[p].b) = "baslat" /\ smart'[p].b = smart[p].b
<1>t. smart \in [SmartSurec -> SmartTuru]
  BY DEF TypeOK
<1>b. smart[p].adim \in BiletAdimlari => smart[p].b \in Bilet
  BY DEF IsleyenTipi
<1>1. CASE SmartKarar(p)
  <2>1. OnaySonrasi(smart[p].b) \in {"kur", "baslat", "hata"}
    BY DEF OnaySonrasi, TypeOK, SAATLER
  <2>. QED BY <1>1, <1>t, <2>1, SmartAdimdaKalir DEF SmartKarar, BiletAdimlari
<1>2. CASE SmartOku(p)
  BY <1>2, <1>t DEF SmartOku, SmartTuru
<1>3. CASE \E b \in Bilet : SmartSira(p, b)
  BY <1>3, <1>t DEF SmartSira, SmartTuru
<1>4. CASE SmartBekler(p)
  BY <1>4, <1>t, SmartIlerler DEF SmartBekler
<1>5. CASE SmartEsitle(p)
  BY <1>5, <1>t, SmartIlerler DEF SmartEsitle
<1>6. CASE SmartSon(p) \/ SmartRet(p) \/ SmartHata(p)
  BY <1>6, <1>t, <1>b, SmartEsitler DEF SmartSon, SmartRet, SmartHata, BiletAdimlari
<1>7. CASE SmartSahiplen(p)
  BY <1>7, <1>t, <1>b, SmartEsitler, SmartAdimdaKalir DEF SmartSahiplen, BiletAdimlari
<1>8. CASE SmartBitir(p)
  BY <1>8, <1>t, <1>b, SmartIlerler, SmartEsitler, SmartAdimdaKalir DEF SmartBitir, BiletAdimlari
<1>9. CASE SmartKayda(p)
  BY <1>9, <1>t, SmartAdimdaKalir DEF SmartKayda, BiletAdimlari
<1>10. CASE SmartKur(p) \/ SmartBaslat(p)
  BY <1>10, <1>t, SmartSonucYazilir, SmartAdimdaKalir DEF SmartKur, SmartBaslat, BiletAdimlari
<1>. QED BY <1>1, <1>2, <1>3, <1>4, <1>5, <1>6, <1>7, <1>8, <1>9, <1>10 DEF SmartAdimi

\* The other rounds of the poller are not touched, and only a restart ends one.
LEMMA DigerTurlar ==
    ASSUME TypeOK, IsleyenTipi, [Next]_vars, NEW p \in SmartSurec
    PROVE  smart'[p] = smart[p] \/ smart'[p] = SmartBos \/ SmartAdimi(p)
<1>t. smart \in [SmartSurec -> SmartTuru]
  BY DEF TypeOK
<1>b. \A q \in SmartSurec : smart[q].adim \in BiletAdimlari => smart[q].b \in Bilet
  BY DEF IsleyenTipi
<1>1. ASSUME NEW q \in SmartSurec, SmartAdimi(q), q # p PROVE smart'[p] = smart[p]
  BY <1>1, <1>t DEF SmartAdimi, SmartOku, SmartSira, SmartSon, SmartBekler, SmartRet, SmartSahiplen,
              SmartKarar, SmartKur, SmartBaslat, SmartKayda, SmartBitir, SmartHata, SmartEsitle,
              SmartGit, SmartSonuc, SmartDevam, Esitle
<1>2. ASSUME NEW q \in SmartSurec \cup OcoSurec, Cokme(q)
      PROVE  smart'[p] = smart[p] \/ smart'[p] = SmartBos
  BY <1>2 DEF Cokme
<1>3. ASSUME NEW q \in OcoSurec, OcoAdimi(q) PROVE UNCHANGED smart
  BY <1>3 DEF OcoAdimi, OcoOku, OcoBak, OcoBakHata, AdoptTicket, OcoExpired, OcoAtla, OcoSahiplen,
              OcoBilet, OcoBaslat, OcoYaz, OcoHata
<1>4. ASSUME \/ \E k \in Kayit : \/ TalepAwx(k) \/ CreateAwxScheduled(k) \/ TalepPortal(k) \/ Cancel(k)
                                 \/ MarkPendingApprovalAtRequest(k) \/ TalepBilet(k)
                                 \/ AdminOku(k) \/ IstekKesilir(k)
             \/ \E y \in Dogrudan : TalepDogrudan(y)
             \/ \E b \in Bilet : CancelTicket(b) \/ \E k \in {"onay", "ret"} : SmartKarari(b, k)
             \/ AdminSil \/ AdminCancel \/ AdminKesilir \/ SaatIlerler \/ UNCHANGED vars
             \/ \E x \in Kaynak : ZamanAtesler(x)
      PROVE  UNCHANGED smart
  BY <1>4 DEF TalepAwx, CreateAwxScheduled, TalepPortal, Cancel, MarkPendingApprovalAtRequest,
              TalepBilet, AdminOku, IstekKesilir, TalepDogrudan, CancelTicket, SmartKarari, AdminSil,
              AdminCancel, AdminKesilir, SaatIlerler, vars, ZamanAtesler
<1>. QED BY <1>1, <1>2, <1>3, <1>4 DEF Next, IstekAdimi

\* Nothing of a window starts before it: the rounds start jobs by their own clock, AWX by
\* its schedules.
LEMMA SaatAdim == TipInv /\ TipInv' /\ KayitInv /\ SaatInv /\ [Next]_vars => SaatInv'
<1>. SUFFICES ASSUME TypeOK, IsleyenTipi, TypeOK', KayitInv, SaatInv, [Next]_vars PROVE SaatInv'
  BY DEF TipInv
<1>1. UNCHANGED tur /\ (saat' = saat \/ saat' # "once")
  BY SaatAdimi
<1>2. ErkenBaslamaz'
  <2>. SUFFICES ASSUME saat' = "once", NEW x \in Kaynak, x \in Bilet => Turu(x) # "serbest"
                PROVE  ~Tetiklendi(x)'
    BY <1>1 DEF ErkenBaslamaz, Turu
  <2>1. saat = "once" /\ is[x] = 0 /\ zaman[x] # "atesledi"
    BY <1>1 DEF SaatInv, ErkenBaslamaz, Tetiklendi, TypeOK
  <2>2. ASSUME NEW p \in SmartSurec, smart[p].adim = "baslat", smart[p].b = x PROVE FALSE
    <3>1. x \in Bilet
      BY <2>2 DEF IsleyenTipi, BiletAdimlari
    <3>. QED BY <2>1, <2>2, <3>1 DEF SaatInv
  <2>3. ASSUME NEW p \in OcoSurec, oco[p].adim = "baslat" PROVE FALSE
    BY <2>1, <2>3 DEF KayitInv, TurKurali, KayitAdimlari
  <2>. QED BY <2>1, <2>2, <2>3, AwxAdimi DEF Tetiklendi
<1>3. ASSUME NEW p \in SmartSurec, smart'[p].adim = "baslat", (Turu(smart[p].b) # "serbest")'
      PROVE  saat' # "once"
  <2>1. SmartBos.adim = "bos"
    BY DEF SmartBos
  <2>2. CASE smart'[p] = smart[p]
    BY <1>1, <1>3, <2>2 DEF SaatInv, Turu
  <2>3. CASE SmartAdimi(p)
    <3>1. OnaySonrasi(smart[p].b) = "baslat" /\ Turu(smart[p].b) # "serbest"
      BY <1>1, <1>3, <2>3, BaslatanKarar DEF Turu
    <3>2. saat # "once"
      BY <3>1 DEF OnaySonrasi
    <3>. QED BY <1>1, <3>2
  <2>. QED BY <1>3, <2>1, <2>2, <2>3, DigerTurlar
<1>. QED BY <1>2, <1>3 DEF SaatInv

-----------------------------------------------------------------------------
(***************************************************************************)
(* What the rows say was started                                           *)
(***************************************************************************)

\* No job and no schedule is lost.
AwxArtar ==
    \A x \in Kaynak : (is[x] > 0 => is'[x] > 0) /\ (zaman[x] # "yok" => zaman'[x] # "yok")

\* The steps of the SMART poller: an outcome is noted after AWX gave it.
LEMMA SonucSmart ==
    ASSUME TypeOK, IsleyenTipi, SonucInv, AwxArtar, NEW p \in SmartSurec, SmartAdimi(p)
    PROVE  SonucInv'
<1>t. /\ smart \in [SmartSurec -> SmartTuru] /\ bilet \in [Bilet -> BILET_DURUMLARI]
      /\ kayit \in [Kayit -> KayitSatiri] /\ ariza \in Nat /\ is \in [Kaynak -> Nat]
      /\ zaman \in [Kaynak -> {"yok", "kurulu", "gecmis", "atesledi", "silindi"}]
      /\ saat \in SAATLER
  BY DEF TypeOK, KayitSatiri
<1>b. /\ \A q \in SmartSurec : smart[q].adim \in BiletAdimlari => smart[q].b \in Bilet
      /\ smart[p].adim = "bitir" => smart[p].sonuc \in {"SCHEDULED", "LAUNCHED"}
      /\ smart[p].adim = "esitle" =>
            smart[p].sonuc \in {"FAILED", "CANCELLED", "LAUNCHED"} /\ smart[p].b[1] \in Kayit
      /\ smart[p].adim = "kayda" => smart[p].sonuc = "SCHEDULED"
  BY DEF IsleyenTipi
<1>a. \A b \in Bilet : b \in Kaynak
  BY DEF Kaynak
<1>k. ASSUME NEW k \in Kayit PROVE Kaynaklar(k) \subseteq Kaynak
  <2>1. Kaynaklar(k) = {k, <<k, 1>>, <<k, 2>>} /\ <<k, 1>> \in Bilet /\ <<k, 2>> \in Bilet
    BY BiletKimligi
  <2>. QED BY <2>1 DEF Kaynak
<1>o. UNCHANGED <<istek, oco>>
  BY SmartKayitlari
<1>1. ASSUME NEW q \in SmartSurec PROVE SmartSonucu(q)'
  <2>1. CASE q # p
    <3>1. smart'[q] = smart[q]
      BY <1>t, <2>1 DEF SmartAdimi, SmartOku, SmartSira, SmartSon, SmartBekler, SmartRet,
            SmartSahiplen, SmartKarar, SmartKur, SmartBaslat, SmartKayda, SmartBitir, SmartHata,
            SmartEsitle, SmartGit, SmartSonuc, SmartDevam, Esitle
    <3>2. SmartSonucu(q)
      BY DEF SonucInv
    <3>. QED BY <1>a, <1>b, <3>1, <3>2 DEF SmartSonucu, AwxArtar, BiletAdimlari
  <2>2. CASE q = p
    <3>0. SmartSonucu(p)
      BY DEF SonucInv
    <3>1. CASE SmartOku(p)
      BY <1>t, <2>2, <3>1 DEF SmartOku, SmartTuru, SmartSonucu
    <3>2. CASE \E b \in Bilet : SmartSira(p, b)
      BY <1>t, <2>2, <3>2 DEF SmartSira, SmartTuru, SmartSonucu
    <3>3. CASE SmartBekler(p) \/ SmartEsitle(p)
      BY <1>t, <2>2, <3>3, SmartIlerler DEF SmartBekler, SmartEsitle, SmartSonucu
    <3>4. CASE SmartSon(p) \/ SmartRet(p) \/ SmartHata(p)
      <4>1. smart[p].b \in Bilet /\ Esitle(p, "FAILED")
        BY <1>b, <3>4 DEF SmartSon, SmartRet, SmartHata, BiletAdimlari
      <4>. QED BY <1>t, <2>2, <4>1, SmartEsitler DEF SmartSonucu
    <3>5. CASE SmartSahiplen(p)
      <4>1. smart[p].b \in Bilet /\ (SmartGit(p, "karar") \/ Esitle(p, "CANCELLED"))
        BY <1>b, <3>5 DEF SmartSahiplen, BiletAdimlari
      <4>. QED BY <1>t, <2>2, <4>1, SmartEsitler, SmartAdimdaKalir DEF SmartSonucu, BiletAdimlari
    <3>6. CASE SmartKarar(p)
      <4>1. OnaySonrasi(smart[p].b) \in {"kur", "baslat", "hata"}
        BY <1>t DEF OnaySonrasi, SAATLER
      <4>2. smart'[p].adim \in {"kur", "baslat", "hata"}
        BY <1>t, <3>6, <4>1, SmartAdimdaKalir DEF SmartKarar, BiletAdimlari
      <4>. QED BY <2>2, <4>2 DEF SmartSonucu
    <3>7. CASE SmartKur(p)
      <4>1. smart[p].b \in Bilet
        BY <1>b, <3>7 DEF SmartKur, BiletAdimlari
      <4>2. CASE SmartGit(p, "hata")
        BY <1>t, <2>2, <4>2, SmartAdimdaKalir DEF SmartSonucu, BiletAdimlari
      <4>3. CASE Zamanla(smart[p].b) /\ SmartSonuc(p, "kayda", "SCHEDULED")
        <5>1. zaman'[smart[p].b] # "yok"
          BY <1>t, <1>a, <4>1, <4>3 DEF Zamanla
        <5>2. smart'[p].adim = "kayda" /\ smart'[p].b = smart[p].b
          BY <1>t, <4>3, SmartSonucYazilir DEF BiletAdimlari
        <5>. QED BY <2>2, <5>1, <5>2 DEF SmartSonucu
      <4>. QED BY <3>7, <4>2, <4>3 DEF SmartKur
    <3>8. CASE SmartBaslat(p)
      <4>1. smart[p].b \in Bilet
        BY <1>b, <3>8 DEF SmartBaslat, BiletAdimlari
      <4>2. CASE SmartGit(p, "hata")
        BY <1>t, <2>2, <4>2, SmartAdimdaKalir DEF SmartSonucu, BiletAdimlari
      <4>3. CASE Baslat(smart[p].b) /\ SmartSonuc(p, "bitir", "LAUNCHED")
        <5>1. is'[smart[p].b] > 0
          BY <1>t, <1>a, <4>1, <4>3 DEF Baslat
        <5>2. smart'[p].adim = "bitir" /\ smart'[p].b = smart[p].b /\ smart'[p].sonuc = "LAUNCHED"
          BY <1>t, <4>3, SmartSonucYazilir DEF BiletAdimlari
        <5>. QED BY <2>2, <5>1, <5>2 DEF SmartSonucu
      <4>. QED BY <3>8, <4>2, <4>3 DEF SmartBaslat
    <3>9. CASE SmartKayda(p)
      <4>1. /\ smart[p].adim = "kayda" /\ smart'[p].adim = "bitir" /\ smart'[p].b = smart[p].b
            /\ smart'[p].sonuc = smart[p].sonuc /\ smart[p].b \in Bilet
        BY <1>t, <1>b, <3>9, SmartAdimdaKalir DEF SmartKayda, BiletAdimlari
      <4>. QED BY <1>a, <1>b, <2>2, <3>0, <4>1 DEF SmartSonucu, AwxArtar
    <3>10. CASE SmartBitir(p)
      <4>1. /\ smart[p].adim = "bitir" /\ smart[p].b \in Bilet
            /\ smart[p].sonuc \in {"SCHEDULED", "LAUNCHED"}
        BY <1>b, <3>10 DEF SmartBitir, BiletAdimlari
      <4>2. CASE SmartGit(p, "hata")
        BY <1>t, <2>2, <4>2, SmartAdimdaKalir DEF SmartSonucu, BiletAdimlari
      <4>3. CASE SmartDevam(p)
        BY <1>t, <2>2, <4>3, SmartIlerler DEF SmartSonucu
      <4>4. CASE smart[p].sonuc = "LAUNCHED" /\ Esitle(p, "LAUNCHED")
        <5>1. is'[smart[p].b] > 0
          BY <1>a, <3>0, <4>1, <4>4 DEF SmartSonucu, AwxArtar
        <5>. QED BY <1>t, <2>2, <4>1, <4>4, <5>1, SmartEsitler DEF SmartSonucu
      <4>. QED BY <3>10, <4>1, <4>2, <4>3, <4>4 DEF SmartBitir
    <3>. QED BY <3>1, <3>2, <3>3, <3>4, <3>5, <3>6, <3>7, <3>8, <3>9, <3>10 DEF SmartAdimi
  <2>. QED BY <2>1, <2>2
\* Only the end of a round writes an outcome to its ticket.
<1>2. ASSUME NEW b \in Bilet PROVE BiletSonucu(b)'
  <2>0. BiletSonucu(b)
    BY DEF SonucInv
  <2>1. \/ bilet'[b] = bilet[b]
        \/ bilet'[b] \notin {"LAUNCHED", "SCHEDULED"}
        \/ smart[p].adim = "bitir" /\ smart[p].b = b /\ bilet'[b] = smart[p].sonuc
    <3>1. CASE \/ SmartOku(p) \/ (\E c \in Bilet : SmartSira(p, c)) \/ SmartBekler(p) \/ SmartKarar(p)
               \/ SmartKur(p) \/ SmartKayda(p) \/ SmartBaslat(p) \/ SmartEsitle(p)
      <4>1. UNCHANGED bilet
        BY <3>1 DEF SmartOku, SmartSira, SmartBekler, SmartKarar, SmartKur, SmartKayda, SmartBaslat,
                    SmartEsitle, satirlar
      <4>. QED BY <4>1
    <3>2. CASE SmartSon(p)
      BY <1>t, <3>2 DEF SmartSon, BiletDene, BiletYaz
    <3>3. CASE SmartRet(p)
      BY <1>t, <3>3 DEF SmartRet, BiletDene, BiletYaz
    <3>4. CASE SmartHata(p)
      BY <1>t, <3>4 DEF SmartHata, BiletDene, BiletYaz
    <3>5. CASE SmartBitir(p)
      BY <1>t, <3>5 DEF SmartBitir, BiletYaz
    <3>6. CASE SmartSahiplen(p)
      BY <1>t, <3>6 DEF SmartSahiplen
    <3>. QED BY <3>1, <3>2, <3>3, <3>4, <3>5, <3>6 DEF SmartAdimi
  <2>2. CASE bilet'[b] = bilet[b] \/ bilet'[b] \notin {"LAUNCHED", "SCHEDULED"}
    BY <1>a, <2>0, <2>2 DEF BiletSonucu, AwxArtar
  <2>3. CASE smart[p].adim = "bitir" /\ smart[p].b = b /\ bilet'[b] = smart[p].sonuc
    <3>1. SmartSonucu(p)
      BY DEF SonucInv
    <3>. QED BY <1>a, <2>3, <3>1 DEF BiletSonucu, SmartSonucu, AwxArtar
  <2>. QED BY <2>1, <2>2, <2>3
<1>3. ASSUME NEW q \in OcoSurec PROVE OcoBulgusu(q)'
  <2>1. OcoBulgusu(q)
    BY DEF SonucInv
  <2>2. \A k \in Kayit : oco[q].bagli[k].b # Yok => oco[q].bagli[k].b \in Kaynak
    BY BiletKimligi DEF IsleyenTipi, Kaynak
  <2>3. oco[q].adim = "yaz" => oco[q].k \in Kaynak
    BY DEF IsleyenTipi, KayitAdimlari, Kaynak
  <2>. QED BY <1>o, <2>1, <2>2, <2>3 DEF OcoBulgusu, AwxArtar
\* The row of a record is told what the round holds.
<1>4. ASSUME NEW k \in Kayit PROVE KayitSonucu(k)'
  <2>. DEFINE b == smart[p].b
  <2>0. KayitSonucu(k) /\ SmartSonucu(p)
    BY DEF SonucInv
  <2>1. CASE kayit'[k] = kayit[k]
    <3>1. k \in Kaynak
      BY DEF Kaynak
    <3>. QED BY <1>k, <1>o, <2>0, <2>1, <3>1 DEF KayitSonucu, AwxArtar
  <2>2. CASE SmartKayda(p) /\ kayit'[k] # kayit[k]
    <3>1. b \in Bilet /\ smart[p].adim = "kayda" /\ smart[p].sonuc = "SCHEDULED"
      BY <1>b, <2>2 DEF SmartKayda, BiletAdimlari
    <3>2. KayitNo(b) = k /\ kayit'[k] = [durum |-> "AWX_SCHEDULED", no |-> b]
      BY <1>t, <2>2 DEF SmartKayda, KayitDene, KayitYaz
    <3>3. b \in Kaynaklar(k) /\ k \in Kaynak
      BY <3>1, <3>2, BiletKimligi DEF Kaynaklar, Kaynak
    <3>4. zaman'[b] # "yok"
      BY <1>a, <2>0, <3>1 DEF SmartSonucu, AwxArtar
    <3>. QED BY <1>o, <2>0, <3>2, <3>3, <3>4 DEF KayitSonucu, AwxArtar
  <2>3. CASE SmartEsitle(p) /\ kayit'[k] # kayit[k]
    <3>1. b \in Bilet /\ smart[p].adim = "esitle" /\ smart[p].sonuc \in {"FAILED", "CANCELLED", "LAUNCHED"}
      BY <1>b, <2>3 DEF SmartEsitle, BiletAdimlari
    <3>. DEFINE n == IF smart[p].sonuc = "LAUNCHED" THEN b ELSE kayit[KayitNo(b)].no
    <3>a. n = b \/ smart[p].sonuc # "LAUNCHED"
      OBVIOUS
    <3>c. KayitDene(KayitNo(b), {"PENDING_APPROVAL"}, [durum |-> smart[p].sonuc, no |-> n])
      BY <2>3 DEF SmartEsitle
    <3>. HIDE DEF n
    <3>2. KayitNo(b) = k /\ kayit'[k] = [durum |-> smart[p].sonuc, no |-> n]
      BY <1>t, <2>3, <3>c DEF KayitDene, KayitYaz
    <3>3. b \in Kaynaklar(k) /\ k \in Kaynak
      BY <3>1, <3>2, BiletKimligi DEF Kaynaklar, Kaynak
    <3>4. smart[p].sonuc = "LAUNCHED" => is'[b] > 0
      BY <1>a, <2>0, <3>1 DEF SmartSonucu, AwxArtar
    <3>5. /\ kayit'[k].durum = smart[p].sonuc
          /\ smart[p].sonuc = "LAUNCHED" => kayit'[k].no = b
      BY <3>a, <3>2
    <3>6. istek'[k] = "kuruldu" => zaman'[k] # "yok"
      BY <1>o, <2>0, <3>3 DEF KayitSonucu, AwxArtar
    <3>. QED BY <3>1, <3>3, <3>4, <3>5, <3>6 DEF KayitSonucu
  <2>4. CASE ~SmartKayda(p) /\ ~SmartEsitle(p)
    <3>1. UNCHANGED kayit
      BY <2>4 DEF SmartAdimi, SmartOku, SmartSira, SmartSon, SmartBekler, SmartRet, SmartSahiplen,
                  SmartKarar, SmartKur, SmartBaslat, SmartBitir, SmartHata, satirlar
    <3>. QED BY <2>1, <3>1
  <2>. QED BY <2>1, <2>2, <2>3, <2>4
<1>. QED BY <1>1, <1>2, <1>3, <1>4 DEF SonucInv

\* The steps of the OCO poller: it writes a launch after the call, or what its ticket said.
LEMMA SonucOco ==
    ASSUME TypeOK, IsleyenTipi, SonucInv, AwxArtar, NEW p \in OcoSurec, OcoAdimi(p)
    PROVE  SonucInv'
<1>t. /\ oco \in [OcoSurec -> OcoTuru] /\ bilet \in [Bilet -> BILET_DURUMLARI]
      /\ kayit \in [Kayit -> KayitSatiri] /\ ariza \in Nat /\ is \in [Kaynak -> Nat]
      /\ zaman \in [Kaynak -> {"yok", "kurulu", "gecmis", "atesledi", "silindi"}]
      /\ oco[p].liste \in SUBSET Kayit /\ saat \in SAATLER
  BY DEF TypeOK, KayitSatiri, OcoTuru
<1>b. /\ \A q \in OcoSurec : oco[q].adim \in KayitAdimlari => oco[q].k \in Kayit
      /\ \A q \in OcoSurec, k \in Kayit : oco[q].bagli[k].b # Yok =>
            oco[q].bagli[k].b \in BiletleriOf(k) /\ oco[q].bagli[k].durum # "yok"
  BY DEF IsleyenTipi
<1>a. (\A b \in Bilet : b \in Kaynak) /\ (\A k \in Kayit : k \in Kaynak)
  BY DEF Kaynak
<1>k. ASSUME NEW k \in Kayit
      PROVE  /\ Kaynaklar(k) \subseteq Kaynak /\ k \in Kaynaklar(k)
             /\ BiletleriOf(k) \subseteq Kaynaklar(k)
  <2>1. /\ Kaynaklar(k) = {k, <<k, 1>>, <<k, 2>>} /\ <<k, 1>> \in Bilet /\ <<k, 2>> \in Bilet
        /\ BiletleriOf(k) = {<<k, 1>>, <<k, 2>>}
    BY BiletKimligi
  <2>. QED BY <2>1 DEF Kaynak
<1>s. /\ UNCHANGED <<istek, smart>>
      /\ \A b \in Bilet : bilet'[b] = bilet[b] \/ bilet'[b] = "PENDING"
  <2>1. CASE OcoBilet(p)
    BY <1>t, <2>1 DEF OcoBilet, BiletAc
  <2>2. CASE ~OcoBilet(p)
    BY <2>2 DEF OcoAdimi, OcoOku, OcoBak, OcoBakHata, AdoptTicket, OcoExpired, OcoAtla, OcoSahiplen,
                OcoBaslat, OcoYaz, OcoHata, satirlar
  <2>. QED BY <2>1, <2>2
<1>1. ASSUME NEW b \in Bilet PROVE BiletSonucu(b)'
  BY <1>a, <1>s DEF SonucInv, BiletSonucu, AwxArtar
<1>2. ASSUME NEW q \in SmartSurec PROVE SmartSonucu(q)'
  <2>1. smart[q].adim \in {"kayda", "bitir", "esitle"} => smart[q].b \in Kaynak
    BY <1>a DEF IsleyenTipi, BiletAdimlari
  <2>. QED BY <1>s, <2>1 DEF SonucInv, SmartSonucu, AwxArtar
<1>3. ASSUME NEW q \in OcoSurec PROVE OcoBulgusu(q)'
  <2>0. OcoBulgusu(q)
    BY DEF SonucInv
  <2>1. /\ oco[q].adim = "yaz" => oco[q].k \in Kaynak
        /\ \A k \in Kayit : oco[q].bagli[k].b # Yok => oco[q].bagli[k].b \in Kaynak
    BY <1>a, <1>b, <1>k DEF KayitAdimlari
  <2>2. ASSUME oco'[q].bagli = oco[q].bagli,
               oco'[q].adim = "yaz" => oco[q].adim = "yaz" /\ oco'[q].k = oco[q].k
        PROVE  OcoBulgusu(q)'
    BY <2>0, <2>1, <2>2 DEF OcoBulgusu, AwxArtar
  <2>3. CASE oco'[q] = oco[q]
    BY <2>2, <2>3
  <2>4. CASE oco'[q] = OcoBos
    BY <2>4, OcoBosTipi DEF OcoBulgusu
  <2>5. ASSUME q = p, NEW l \in SUBSET Kayit, OcoDevam(p, l) PROVE OcoBulgusu(q)'
    <3>1. /\ oco'[p].adim # "yaz"
          /\ oco'[p] = OcoBos \/ oco'[p].bagli = oco[p].bagli
      BY <1>t, <2>5, OcoIlerler
    <3>. QED BY <2>2, <2>4, <2>5, <3>1
  <2>6. ASSUME q = p, NEW adim \in KayitAdimlari, adim # "yaz", OcoGit(p, adim) PROVE OcoBulgusu(q)'
    <3>1. oco'[p].adim = adim /\ oco'[p].bagli = oco[p].bagli
      BY <1>t, <2>6, OcoAdimdaKalir
    <3>. QED BY <2>2, <2>6, <3>1
  <2>7. CASE q # p
    <3>1. oco'[q] = oco[q]
      BY <1>t, <2>7 DEF OcoAdimi, OcoOku, OcoBak, OcoBakHata, AdoptTicket, OcoExpired, OcoAtla,
            OcoSahiplen, OcoBilet, OcoBaslat, OcoYaz, OcoHata, OcoGit, OcoDevam
    <3>. QED BY <2>3, <3>1
  <2>8. CASE q = p
    <3>1. CASE OcoOku(p)
      <4>. DEFINE z == Zamanlanmislar
                  r == [OcoBos EXCEPT !.adim = "bak", !.liste = z, !.simdi = saat]
      <4>1. z \in SUBSET Kayit /\ oco' = [oco EXCEPT ![p] = r]
        BY <3>1 DEF OcoOku, Zamanlanmislar
      <4>. HIDE DEF z
      <4>2. r.adim = "bak" /\ r.bagli = OcoBos.bagli
        BY <1>t, <4>1, OcoBosTipi DEF OcoTuru
      <4>. HIDE DEF r
      <4>. QED BY <1>t, <2>8, <4>1, <4>2, OcoBosTipi DEF OcoBulgusu
    <3>2. CASE OcoBak(p)
      <4>. DEFINE e == [k \in Kayit |-> IF k \in oco[p].liste THEN EnYeniBilet(k) ELSE BagliYok]
      <4>1. BagliYok \in BagliTuru /\ BagliYok.b = Yok
        BY DEF BagliYok, BagliTuru, BILET_DURUMLARI
      <4>2. /\ e \in [Kayit -> BagliTuru]
            /\ \A k \in Kayit : e[k].b # Yok =>
                  e[k].b \in BiletleriOf(k) /\ e[k].durum = bilet[e[k].b]
        BY <1>t, <4>1, EnYeniTipi
      <4>3. oco' = [oco EXCEPT ![p].adim = "sira", ![p].bagli = e]
        BY <3>2 DEF OcoBak
      <4>. HIDE DEF e
      <4>4. oco'[p].adim = "sira" /\ oco'[p].bagli = e
        BY <1>t, <4>2, <4>3, OcoBakar
      <4>5. UNCHANGED <<is, zaman>>
        BY <3>2 DEF OcoBak, awx
      <4>6. ASSUME NEW k \in Kayit, e[k].b # Yok
            PROVE  /\ e[k].durum = "LAUNCHED" => is[e[k].b] > 0
                   /\ e[k].durum = "SCHEDULED" => zaman[e[k].b] # "yok"
        <5>1. e[k].b \in Bilet /\ e[k].durum = bilet[e[k].b]
          BY <4>2, <4>6, BiletKimligi
        <5>2. BiletSonucu(e[k].b)
          BY <5>1 DEF SonucInv
        <5>. QED BY <5>1, <5>2 DEF BiletSonucu
      <4>. QED BY <2>8, <4>4, <4>5, <4>6 DEF OcoBulgusu
    <3>3. CASE OcoBakHata(p)
      BY <1>t, <2>4, <2>8, <3>3 DEF OcoBakHata
    <3>4. ASSUME NEW k \in Kayit, AdoptTicket(p, k) \/ OcoExpired(p, k) \/ OcoAtla(p, k)
          PROVE  OcoBulgusu(q)'
      <4>1. OcoDevam(p, oco[p].liste \ {k}) /\ oco[p].liste \ {k} \in SUBSET Kayit
        BY <1>t, <3>4 DEF AdoptTicket, OcoExpired, OcoAtla
      <4>. QED BY <2>5, <2>8, <4>1
    <3>5. ASSUME NEW k \in Kayit, OcoSahiplen(p, k) PROVE OcoBulgusu(q)'
      <4>1. CASE OcoDevam(p, oco[p].liste \ {k})
        <5>1. oco[p].liste \ {k} \in SUBSET Kayit
          BY <1>t
        <5>. QED BY <2>5, <2>8, <4>1, <5>1
      <4>2. CASE oco' = [oco EXCEPT ![p].adim = "baslat", ![p].k = k, ![p].liste = @ \ {k}]
        <5>1. oco'[p].adim = "baslat" /\ oco'[p].bagli = oco[p].bagli
          BY <1>t, <4>2, OcoSahiplenir
        <5>. QED BY <2>2, <2>8, <5>1
      <4>. QED BY <3>5, <4>1, <4>2 DEF OcoSahiplen
    <3>6. CASE OcoBilet(p)
      <4>1. OcoGit(p, "bilet") \/ OcoGit(p, "hata")
        BY <3>6 DEF OcoBilet
      <4>. QED BY <2>6, <2>8, <4>1 DEF KayitAdimlari
    <3>7. CASE OcoBaslat(p)
      <4>1. CASE OcoGit(p, "hata")
        BY <2>6, <2>8, <4>1 DEF KayitAdimlari
      <4>2. CASE Baslat(oco[p].k) /\ OcoGit(p, "yaz")
        <5>1. oco[p].k \in Kaynak
          BY <1>a, <1>b, <3>7 DEF OcoBaslat, KayitAdimlari
        <5>2. is'[oco[p].k] > 0
          BY <1>t, <4>2, <5>1 DEF Baslat
        <5>3. oco'[p].adim = "yaz" /\ oco'[p].k = oco[p].k /\ oco'[p].bagli = oco[p].bagli
          BY <1>t, <4>2, OcoAdimdaKalir DEF KayitAdimlari
        <5>. QED BY <2>0, <2>1, <2>8, <5>2, <5>3 DEF OcoBulgusu, AwxArtar
      <4>. QED BY <3>7, <4>1, <4>2 DEF OcoBaslat
    <3>8. CASE OcoYaz(p)
      <4>1. OcoGit(p, "hata") \/ OcoDevam(p, oco[p].liste)
        BY <3>8 DEF OcoYaz
      <4>. QED BY <1>t, <2>5, <2>6, <2>8, <4>1 DEF KayitAdimlari
    <3>9. CASE OcoHata(p)
      BY <1>t, <2>5, <2>8, <3>9 DEF OcoHata
    <3>. QED BY <3>1, <3>2, <3>3, <3>4, <3>5, <3>6, <3>7, <3>8, <3>9 DEF OcoAdimi
  <2>. QED BY <2>7, <2>8
<1>4. ASSUME NEW k \in Kayit PROVE KayitSonucu(k)'
  <2>0. KayitSonucu(k) /\ OcoBulgusu(p)
    BY DEF SonucInv
  <2>1. istek'[k] = "kuruldu" => zaman'[k] # "yok"
    BY <1>a, <1>s, <2>0 DEF KayitSonucu, AwxArtar
  <2>2. CASE kayit'[k] = kayit[k]
    BY <1>k, <2>0, <2>1, <2>2 DEF KayitSonucu, AwxArtar
  <2>3. CASE kayit'[k].durum \notin {"LAUNCHED", "AWX_SCHEDULED"}
    BY <2>1, <2>3 DEF KayitSonucu
  <2>4. CASE AdoptTicket(p, k) /\ kayit'[k] # kayit[k]
    <3>. DEFINE t == oco[p].bagli[k]
    <3>1. t \in BagliTuru /\ t.b # Yok /\ t.b \in BiletleriOf(k) /\ t.durum # "yok"
      BY <1>t, <1>b, <2>4 DEF AdoptTicket, Benimsenecek, OcoTuru
    <3>2. t.durum \in BILET_DURUMLARI \ {"yok"} /\ t.b \in Kaynaklar(k) /\ t.b \in Kaynak
      BY <1>k, <3>1 DEF BagliTuru
    <3>3. /\ t.durum = "LAUNCHED" => is'[t.b] > 0
          /\ t.durum = "SCHEDULED" => zaman'[t.b] # "yok"
      BY <2>0, <3>1, <3>2 DEF OcoBulgusu, AwxArtar
    <3>4. KayitDene(k, {"SCHEDULED"}, Benimsenmis(t))
      BY <2>4 DEF AdoptTicket
    <3>. HIDE DEF t
    <3>5. kayit'[k] = Benimsenmis(t)
      BY <1>t, <2>4, <3>4 DEF KayitDene, KayitYaz
    <3>6. /\ BiletKayit(t.durum) = "LAUNCHED" => t.durum = "LAUNCHED"
          /\ BiletKayit(t.durum) = "AWX_SCHEDULED" => t.durum = "SCHEDULED"
      BY <3>2 DEF BiletKayit, BILET_DURUMLARI
    <3>7. /\ kayit'[k].durum = BiletKayit(t.durum)
          /\ t.durum = "LAUNCHED" => kayit'[k].no = t.b
      BY <3>5 DEF Benimsenmis
    <3>. QED BY <2>1, <3>2, <3>3, <3>6, <3>7 DEF KayitSonucu
  <2>5. CASE OcoYaz(p) /\ kayit'[k] # kayit[k] /\ kayit'[k].durum \in {"LAUNCHED", "AWX_SCHEDULED"}
    <3>1. oco[p].k = k /\ kayit'[k] = OcoSonucu(p)
      BY <1>t, <2>5 DEF OcoYaz, KayitYaz
    <3>2. oco[p].adim = "yaz" /\ kayit'[k] = [durum |-> "LAUNCHED", no |-> k]
      <4>1. CASE oco[p].adim = "bilet"
        BY <1>t, <2>5, <3>1, <4>1, DurumluTipi DEF OcoSonucu, KAYIT_DURUMLARI
      <4>. QED BY <2>5, <3>1, <4>1 DEF OcoYaz, OcoSonucu
    <3>3. is'[k] > 0
      BY <1>a, <2>0, <3>1, <3>2 DEF OcoBulgusu, AwxArtar
    <3>. QED BY <1>k, <2>1, <3>2, <3>3 DEF KayitSonucu
  <2>6. CASE ~AdoptTicket(p, k) /\ ~OcoYaz(p)
    <3>1. CASE OcoHata(p)
      BY <1>t, <2>2, <2>3, <3>1 DEF OcoHata, KayitDene, KayitYaz, Durumlu, KayitSatiri
    <3>2. ASSUME NEW j \in Kayit, OcoExpired(p, j) PROVE KayitSonucu(k)'
      BY <1>t, <2>2, <2>3, <3>2 DEF OcoExpired, KayitDene, KayitYaz, Durumlu, KayitSatiri
    <3>3. ASSUME NEW j \in Kayit, OcoSahiplen(p, j) PROVE KayitSonucu(k)'
      BY <1>t, <2>2, <2>3, <3>3 DEF OcoSahiplen, KayitSatiri
    <3>4. ASSUME NEW j \in Kayit, AdoptTicket(p, j), j # k PROVE KayitSonucu(k)'
      BY <1>t, <2>2, <3>4 DEF AdoptTicket, KayitDene, KayitYaz
    <3>5. CASE \/ OcoOku(p) \/ OcoBak(p) \/ OcoBakHata(p) \/ (\E j \in Kayit : OcoAtla(p, j))
               \/ OcoBilet(p) \/ OcoBaslat(p)
      <4>1. UNCHANGED kayit
        BY <3>5 DEF OcoOku, OcoBak, OcoBakHata, OcoAtla, OcoBilet, OcoBaslat, satirlar
      <4>. QED BY <2>2, <4>1
    <3>. QED BY <2>6, <3>1, <3>2, <3>3, <3>4, <3>5 DEF OcoAdimi
  <2>. QED BY <2>2, <2>3, <2>4, <2>5, <2>6
<1>. QED BY <1>1, <1>2, <1>3, <1>4 DEF SonucInv

\* Every step keeps what the rows say true.
LEMMA SonucAdim == TipInv /\ SonucInv /\ [Next]_vars => SonucInv'
<1>. SUFFICES ASSUME TypeOK, IsleyenTipi, SonucInv, [Next]_vars PROVE SonucInv'
  BY DEF TipInv
<1>t. /\ bilet \in [Bilet -> BILET_DURUMLARI] /\ kayit \in [Kayit -> KayitSatiri]
      /\ ariza \in Nat /\ is \in [Kaynak -> Nat]
      /\ zaman \in [Kaynak -> {"yok", "kurulu", "gecmis", "atesledi", "silindi"}]
      /\ istek \in [Kayit -> {"yok", "kuruldu", "kayit", "bilet", "bitti"}]
  BY DEF TypeOK, KayitSatiri
<1>a. (\A b \in Bilet : b \in Kaynak) /\ (\A k \in Kayit : k \in Kaynak)
  BY DEF Kaynak
<1>k. ASSUME NEW k \in Kayit
      PROVE  /\ Kaynaklar(k) \subseteq Kaynak /\ k \in Kaynaklar(k)
             /\ BiletleriOf(k) \subseteq Bilet
  <2>1. /\ Kaynaklar(k) = {k, <<k, 1>>, <<k, 2>>} /\ <<k, 1>> \in Bilet /\ <<k, 2>> \in Bilet
        /\ BiletleriOf(k) = {<<k, 1>>, <<k, 2>>}
    BY BiletKimligi
  <2>. QED BY <2>1 DEF Kaynak
<1>x. AwxArtar
  BY <1>t, AwxAdimi DEF AwxArtar
\* Steps of the others: no outcome is written.
<1>g. ASSUME \A b \in Bilet : bilet'[b] = bilet[b] \/ bilet'[b] \in {"PENDING", "CANCELLED"},
             \A p \in SmartSurec : smart'[p] = smart[p] \/ smart'[p] = SmartBos,
             \A p \in OcoSurec : oco'[p] = oco[p] \/ oco'[p] = OcoBos,
             \A k \in Kayit : istek'[k] = "kuruldu" => istek[k] = "kuruldu" \/ zaman'[k] # "yok",
             \A k \in Kayit : \/ kayit'[k] = kayit[k]
                              \/ kayit'[k].durum \notin {"LAUNCHED", "AWX_SCHEDULED"}
                              \/ kayit'[k].durum = "AWX_SCHEDULED" /\ zaman'[k] # "yok"
      PROVE  SonucInv'
  <2>1. ASSUME NEW b \in Bilet PROVE BiletSonucu(b)'
    BY <1>a, <1>g, <1>x DEF SonucInv, BiletSonucu, AwxArtar
  <2>2. ASSUME NEW p \in SmartSurec PROVE SmartSonucu(p)'
    <3>1. smart[p].adim \in {"kayda", "bitir", "esitle"} => smart[p].b \in Kaynak
      BY <1>a DEF IsleyenTipi, BiletAdimlari
    <3>2. SmartBos.adim = "bos"
      BY DEF SmartBos
    <3>. QED BY <1>g, <1>x, <3>1, <3>2 DEF SonucInv, SmartSonucu, AwxArtar
  <2>3. ASSUME NEW p \in OcoSurec PROVE OcoBulgusu(p)'
    <3>1. /\ oco[p].adim = "yaz" => oco[p].k \in Kaynak
          /\ \A k \in Kayit : oco[p].bagli[k].b # Yok => oco[p].bagli[k].b \in Kaynak
      BY <1>a, <1>k DEF IsleyenTipi, KayitAdimlari
    <3>2. CASE oco'[p] = oco[p]
      BY <1>x, <3>1, <3>2 DEF SonucInv, OcoBulgusu, AwxArtar
    <3>3. CASE oco'[p] = OcoBos
      BY <3>3, OcoBosTipi DEF OcoBulgusu
    <3>. QED BY <1>g, <3>2, <3>3
  <2>4. ASSUME NEW k \in Kayit PROVE KayitSonucu(k)'
    <3>0. KayitSonucu(k)
      BY DEF SonucInv
    <3>1. istek'[k] = "kuruldu" => zaman'[k] # "yok"
      BY <1>a, <1>g, <1>x, <3>0 DEF KayitSonucu, AwxArtar
    <3>2. CASE kayit'[k] = kayit[k]
      BY <1>k, <1>x, <3>0, <3>1, <3>2 DEF KayitSonucu, AwxArtar
    <3>3. CASE kayit'[k].durum \notin {"LAUNCHED", "AWX_SCHEDULED"}
      BY <3>1, <3>3 DEF KayitSonucu
    <3>4. CASE kayit'[k].durum = "AWX_SCHEDULED" /\ zaman'[k] # "yok"
      BY <1>k, <3>1, <3>4 DEF KayitSonucu
    <3>. QED BY <1>g, <3>2, <3>3, <3>4
  <2>. QED BY <2>1, <2>2, <2>3, <2>4 DEF SonucInv
<1>1. ASSUME NEW k \in Kayit, TalepAwx(k) PROVE SonucInv'
  <2>1. UNCHANGED <<bilet, smart, oco, kayit>>
    BY <1>1 DEF TalepAwx, satirlar
  <2>2. \A j \in Kayit : istek'[j] = "kuruldu" => istek[j] = "kuruldu" \/ zaman'[j] # "yok"
    BY <1>1, <1>t, <1>a DEF TalepAwx, Zamanla
  <2>. QED BY <1>g, <2>1, <2>2
<1>2. ASSUME NEW k \in Kayit, CreateAwxScheduled(k) PROVE SonucInv'
  <2>1. zaman'[k] # "yok"
    BY <1>2 DEF CreateAwxScheduled, SonucInv, KayitSonucu, awx
  <2>2. /\ UNCHANGED <<bilet, smart, oco>> /\ \A j \in Kayit \ {k} : kayit'[j] = kayit[j]
        /\ kayit'[k].durum = "AWX_SCHEDULED" /\ \A j \in Kayit : istek'[j] \in {istek[j], "bitti"}
    BY <1>2, <1>t DEF CreateAwxScheduled
  <2>. QED BY <1>g, <2>1, <2>2
<1>3. ASSUME NEW k \in Kayit, TalepPortal(k) PROVE SonucInv'
  <2>1. /\ UNCHANGED <<bilet, smart, oco>>
        /\ \A j \in Kayit : kayit'[j] = kayit[j] \/ kayit'[j].durum = "SCHEDULED"
        /\ \A j \in Kayit : istek'[j] \in {istek[j], "bitti", "kayit"}
    BY <1>3, <1>t DEF TalepPortal, KayitSatiri
  <2>. QED BY <1>g, <2>1
<1>4. ASSUME NEW k \in Kayit, TalepBilet(k) PROVE SonucInv'
  <2>1. /\ UNCHANGED <<kayit, smart, oco>>
        /\ \A b \in Bilet : bilet'[b] \in {bilet[b], "PENDING"}
        /\ \A j \in Kayit : istek'[j] \in {istek[j], "bitti", "bilet"}
    BY <1>4, <1>t DEF TalepBilet, BiletAc
  <2>. QED BY <1>g, <2>1
<1>5. ASSUME NEW k \in Kayit, MarkPendingApprovalAtRequest(k) PROVE SonucInv'
  <2>1. /\ UNCHANGED <<bilet, smart, oco>>
        /\ \A j \in Kayit : kayit'[j] = kayit[j] \/ kayit'[j].durum = "PENDING_APPROVAL"
        /\ \A j \in Kayit : istek'[j] \in {istek[j], "bitti"}
    BY <1>5, <1>t DEF MarkPendingApprovalAtRequest, KayitDene, KayitYaz, Durumlu, KayitSatiri
  <2>. QED BY <1>g, <2>1
<1>6. ASSUME NEW y \in Dogrudan, TalepDogrudan(y) PROVE SonucInv'
  <2>1. /\ UNCHANGED <<kayit, smart, oco, istek>>
        /\ \A b \in Bilet : bilet'[b] \in {bilet[b], "PENDING"}
    BY <1>6, <1>t DEF TalepDogrudan, BiletAc
  <2>. QED BY <1>g, <2>1
<1>7. ASSUME NEW b \in Bilet, CancelTicket(b) PROVE SonucInv'
  <2>1. /\ UNCHANGED <<kayit, smart, oco, istek>>
        /\ \A c \in Bilet : bilet'[c] \in {bilet[c], "CANCELLED"}
    BY <1>7, <1>t DEF CancelTicket
  <2>. QED BY <1>g, <2>1
<1>8. ASSUME NEW k \in Kayit, Cancel(k) PROVE SonucInv'
  <2>1. /\ UNCHANGED <<bilet, smart, oco, istek>>
        /\ \A j \in Kayit : kayit'[j] = kayit[j] \/ kayit'[j].durum = "CANCELLED"
    BY <1>8, <1>t DEF Cancel, KayitSatiri
  <2>. QED BY <1>g, <2>1
<1>9. ASSUME AdminCancel PROVE SonucInv'
  <2>1. /\ UNCHANGED <<bilet, smart, oco, istek>>
        /\ \A j \in Kayit : kayit'[j] = kayit[j] \/ kayit'[j].durum = "CANCELLED"
    BY <1>9, <1>t DEF AdminCancel, KayitYaz, Durumlu, KayitSatiri
  <2>. QED BY <1>g, <2>1
<1>10. ASSUME NEW p \in SmartSurec \cup OcoSurec, Cokme(p) PROVE SonucInv'
  <2>1. /\ UNCHANGED <<bilet, kayit, istek>>
        /\ \A q \in SmartSurec : smart'[q] = smart[q] \/ smart'[q] = SmartBos
        /\ \A q \in OcoSurec : oco'[q] = oco[q] \/ oco'[q] = OcoBos
    BY <1>10 DEF Cokme, satirlar
  <2>. QED BY <1>g, <2>1
<1>11. ASSUME NEW k \in Kayit, IstekKesilir(k) PROVE SonucInv'
  <2>1. /\ UNCHANGED <<bilet, kayit, smart, oco>>
        /\ \A j \in Kayit : istek'[j] \in {istek[j], "bitti"}
    BY <1>11, <1>t DEF IstekKesilir, satirlar
  <2>. QED BY <1>g, <2>1
<1>12. ASSUME \/ \E k \in Kayit : AdminOku(k)
              \/ \E b \in Bilet, k \in {"onay", "ret"} : SmartKarari(b, k)
              \/ AdminSil \/ AdminKesilir \/ SaatIlerler \/ UNCHANGED vars
              \/ \E x \in Kaynak : ZamanAtesler(x)
       PROVE  SonucInv'
  <2>1. UNCHANGED <<bilet, kayit, smart, oco, istek>>
    BY <1>12 DEF AdminOku, SmartKarari, AdminSil, AdminKesilir, SaatIlerler, vars, ZamanAtesler,
                 satirlar
  <2>. QED BY <1>g, <2>1
<1>. QED BY <1>x, <1>1, <1>2, <1>3, <1>4, <1>5, <1>6, <1>7, <1>8, <1>9, <1>10, <1>11, <1>12,
            SonucSmart, SonucOco DEF Next, IstekAdimi

-----------------------------------------------------------------------------
(***************************************************************************)
(* The invariant                                                           *)
(***************************************************************************)

\* At the start nothing is requested.
LEMMA Baslangic == Init => IInv
<1>. SUFFICES ASSUME Init PROVE IInv
  OBVIOUS
<1>1. TipInv
  BY TipBaslangic
<1>2. /\ \A b \in Bilet : bilet[b] = "yok" /\ is[b] = 0 /\ zaman[b] = "yok"
      /\ \A k \in Kayit : /\ is[k] = 0 /\ zaman[k] = "yok" /\ istek[k] = "yok"
                          /\ kayit[k].durum = "yok" /\ geriCekilen[k] = "-"
      /\ \A p \in SmartSurec : smart[p] = SmartBos
      /\ \A p \in OcoSurec : oco[p] = OcoBos
      /\ saat = "once"
  BY DEF Init, Kaynak
<1>3. SmartBos.adim = "bos"
  BY DEF SmartBos
<1>4. SahiplikInv
  BY <1>2, <1>3 DEF SahiplikInv, Etkisiz, SahipliAdimlar, EtkiAdimlari
<1>5. KayitInv
  <2>1. ASSUME NEW k \in Kayit PROVE KayitKurali(k)
    <3>1. <<k, 1>> \in Bilet /\ <<k, 2>> \in Bilet
      BY BiletKimligi
    <3>. QED BY <1>2, <3>1 DEF KayitKurali, Biletsiz, Etkisiz, BiletiGecti
  <2>2. ASSUME NEW p \in OcoSurec PROVE TurKurali(p)
    BY <1>2, OcoBosTipi DEF TurKurali, KayitAdimlari
  <2>. QED BY <2>1, <2>2 DEF KayitInv
<1>6. SaatInv
  BY <1>2, <1>3 DEF SaatInv, ErkenBaslamaz, Tetiklendi, Kaynak
<1>7. SonucInv
  BY <1>2, <1>3, OcoBosTipi DEF SonucInv, BiletSonucu, SmartSonucu, OcoBulgusu, KayitSonucu
<1>. QED BY <1>1, <1>4, <1>5, <1>6, <1>7 DEF IInv

\* Every step keeps the invariant.
LEMMA IInvAdim == IInv /\ [Next]_vars => IInv' /\ KararAdimi
BY TipAdim, SahiplikAdim, KayitAdim, SaatAdim, SonucAdim DEF IInv, TipInv

\* The inductive invariant holds of every reachable state.
THEOREM IInvDogru == Spec => []IInv
BY Baslangic, IInvAdim, PTL DEF Spec

\* The variables hold what the columns and the handlers can hold.
THEOREM TipDogru == Spec => []TypeOK
<1>1. IInv => TypeOK
  BY DEF IInv, TipInv
<1>. QED BY <1>1, IInvDogru, PTL

\* The pollers, the cancellations and the late decisions together implement TekKarar: a
\* ticket leads to one call of AWX at most, made by the process that claimed it.
THEOREM TekKararDogru == Spec => TekKarar
<1>1. Init => Karar!Init
  <2>1. ASSUME Init, NEW b \in Bilet PROVE Hal(bilet[b]) = "yok" /\ Etki(b) = 0
    BY <2>1 DEF Init, Hal, Etki, Kaynak
  <2>. QED BY <2>1 DEF Karar!Init, BiletHali, BiletEtkisi
<1>. QED BY <1>1, IInvDogru, IInvAdim, PTL DEF TekKarar, Karar!Spec, Spec, KararAdimi

\* Nothing that belongs to a window starts before it.
THEOREM ErkenBaslamazDogru == Spec => []ErkenBaslamaz
<1>1. IInv => ErkenBaslamaz
  BY DEF IInv, SaatInv
<1>. QED BY <1>1, IInvDogru, PTL

\* A record that says LAUNCHED, or AWX_SCHEDULED, has its job or its schedule at AWX.
THEOREM TetiklendiDogruDogru == Spec => []TetiklendiDogru
<1>1. IInv => TetiklendiDogru
  <2>. SUFFICES ASSUME IInv, NEW k \in Kayit
                PROVE  /\ kayit[k].durum = "LAUNCHED" =>
                             \E x \in Kaynaklar(k) : x = kayit[k].no /\ is[x] > 0
                       /\ kayit[k].durum = "AWX_SCHEDULED" => \E x \in Kaynaklar(k) : zaman[x] # "yok"
    BY DEF TetiklendiDogru
  <2>. QED BY DEF IInv, SonucInv, KayitSonucu
<1>. QED BY <1>1, IInvDogru, PTL

\* The jobs of a record: the ones of the record itself and of its two tickets.
LEMMA IsSayilir ==
    ASSUME TypeOK, NEW k \in Kayit, NEW x \in Kaynaklar(k),
           is[x] = 0 \/ (is[x] = 1 /\ zaman[x] = "yok"),
           \A y \in Kaynaklar(k) \ {x} : Etkisiz(y)
    PROVE  IsSayisi(k) <= 1 /\ (Etkisiz(x) => IsSayisi(k) = 0)
<1>. DEFINE A == {y \in Kaynaklar(k) : zaman[y] = "atesledi"}
<1>1. /\ Kaynaklar(k) = {k, <<k, 1>>, <<k, 2>>}
      /\ k # <<k, 1>> /\ k # <<k, 2>> /\ <<k, 1>> # <<k, 2>>
      /\ Kaynaklar(k) \subseteq Kaynak
  <2>1. /\ Kaynaklar(k) = {k, <<k, 1>>, <<k, 2>>} /\ k \notin Bilet
        /\ <<k, 1>> \in Bilet /\ <<k, 2>> \in Bilet
    BY BiletKimligi
  <2>2. <<k, 1>> # <<k, 2>>
    OBVIOUS
  <2>. QED BY <2>1, <2>2 DEF Kaynak
<1>2. CASE zaman[x] = "atesledi"
  <2>1. is[x] = 0 /\ ~Etkisiz(x)
    BY <1>2 DEF Etkisiz
  <2>2. A = {x}
    BY <1>2 DEF Etkisiz
  <2>3. Cardinality(A) = 1
    BY <2>2, FS_Singleton
  <2>4. is[k] = 0 /\ is[<<k, 1>>] = 0 /\ is[<<k, 2>>] = 0
    BY <1>1, <2>1 DEF Etkisiz
  <2>. HIDE DEF A
  <2>5. IsSayisi(k) = 1
    BY <2>3, <2>4 DEF IsSayisi, A
  <2>. QED BY <2>1, <2>5
<1>3. CASE zaman[x] # "atesledi"
  <2>1. A = {}
    BY <1>3 DEF Etkisiz
  <2>2. Cardinality(A) = 0
    BY <2>1, FS_EmptySet
  <2>3. /\ is[k] \in Nat /\ is[<<k, 1>>] \in Nat /\ is[<<k, 2>>] \in Nat
        /\ is[k] + is[<<k, 1>>] + is[<<k, 2>>] <= 1
        /\ Etkisiz(x) => is[k] + is[<<k, 1>>] + is[<<k, 2>>] = 0
    BY <1>1 DEF Etkisiz, TypeOK
  <2>. HIDE DEF A
  <2>4. IsSayisi(k) = 0 + is[k] + is[<<k, 1>>] + is[<<k, 2>>]
    BY <2>2 DEF IsSayisi, A
  <2>. QED BY <2>3, <2>4
<1>. QED BY <1>2, <1>3

\* A record has one ticket at most, unless its window opened during its request.
THEOREM TekBiletDogru == Spec => []TekBilet
<1>1. IInv => TekBilet
  <2>. SUFFICES ASSUME IInv, NEW k \in Kayit \ gec
                PROVE  Cardinality({b \in BiletleriOf(k) : bilet[b] # "yok"}) <= 1
    BY DEF TekBilet
  <2>. DEFINE B == {b \in BiletleriOf(k) : bilet[b] # "yok"}
  <2>1. BiletleriOf(k) = {<<k, 1>>, <<k, 2>>}
    BY BiletKimligi
  <2>2. bilet[<<k, 2>>] = "yok" \/ bilet[<<k, 1>>] = "yok"
    BY DEF IInv, KayitInv, KayitKurali
  <2>3. B = {} \/ \E b \in B : B = {b}
    BY <2>1, <2>2
  <2>4. Cardinality({}) = 0
    BY FS_EmptySet
  <2>5. \A b \in B : Cardinality({b}) = 1
    BY FS_Singleton
  <2>. QED BY <2>3, <2>4, <2>5
<1>. QED BY <1>1, IInvDogru, PTL

\* A record gets one job at most, with the same exception.
THEOREM TekIsDogru == Spec => []TekIs
<1>1. IInv => TekIs
  <2>. SUFFICES ASSUME IInv, NEW k \in Kayit \ gec PROVE IsSayisi(k) <= 1
    BY DEF TekIs
  <2>1. /\ Kaynaklar(k) = {k, <<k, 1>>, <<k, 2>>} /\ <<k, 1>> \in Bilet /\ <<k, 2>> \in Bilet
    BY BiletKimligi
  <2>2. KayitKurali(k) /\ TypeOK
    BY DEF IInv, KayitInv, TipInv
  <2>3. \A b \in Bilet : /\ bilet[b] = "yok" => Etkisiz(b)
                         /\ is[b] = 0 \/ (is[b] = 1 /\ zaman[b] = "yok")
    BY DEF IInv, SahiplikInv
  <2>4. CASE Biletsiz(k)
    <3>1. \A y \in Kaynaklar(k) \ {k} : Etkisiz(y)
      BY <2>1, <2>3, <2>4 DEF Biletsiz
    <3>2. k \in Kaynaklar(k) /\ (is[k] = 0 \/ (is[k] = 1 /\ zaman[k] = "yok"))
      BY <2>1, <2>2 DEF KayitKurali
    <3>. QED BY <2>2, <3>1, <3>2, IsSayilir
  <2>5. ASSUME NEW b \in {<<k, 1>>, <<k, 2>>}, bilet[b] # "yok" PROVE IsSayisi(k) <= 1
    <3>1. Etkisiz(k)
      BY <2>2, <2>5 DEF KayitKurali, Biletsiz
    <3>2. \A c \in {<<k, 1>>, <<k, 2>>} \ {b} : Etkisiz(c)
      <4>1. bilet[<<k, 2>>] = "yok" \/ bilet[<<k, 1>>] = "yok"
        BY <2>2 DEF KayitKurali
      <4>. QED BY <2>1, <2>3, <2>5, <4>1
    <3>3. /\ b \in Kaynaklar(k) /\ (\A y \in Kaynaklar(k) \ {b} : Etkisiz(y))
          /\ is[b] = 0 \/ (is[b] = 1 /\ zaman[b] = "yok")
      BY <2>1, <2>3, <3>1, <3>2
    <3>. QED BY <2>2, <3>3, IsSayilir
  <2>. QED BY <2>4, <2>5 DEF Biletsiz
<1>. QED BY <1>1, IInvDogru, PTL

\* What its owner withdrew before a ticket was opened stays without a ticket and a job.
THEOREM SahipIptaliDogru == Spec => []SahipIptaliKesin
<1>1. IInv => SahipIptaliKesin
  <2>. SUFFICES ASSUME IInv, NEW k \in Kayit, geriCekilen[k] = "biletsiz"
                PROVE  BiletiYok(k) /\ IsSayisi(k) = 0
    BY DEF SahipIptaliKesin
  <2>1. /\ Kaynaklar(k) = {k, <<k, 1>>, <<k, 2>>} /\ BiletleriOf(k) = {<<k, 1>>, <<k, 2>>}
        /\ <<k, 1>> \in Bilet /\ <<k, 2>> \in Bilet
    BY BiletKimligi
  <2>2. Biletsiz(k) /\ Etkisiz(k) /\ TypeOK
    BY DEF IInv, KayitInv, KayitKurali, TipInv
  <2>3. \A y \in Kaynaklar(k) \ {k} : Etkisiz(y)
    BY <2>1, <2>2 DEF IInv, SahiplikInv, Biletsiz
  <2>4. IsSayisi(k) = 0
    <3>1. k \in Kaynaklar(k) /\ (is[k] = 0 \/ (is[k] = 1 /\ zaman[k] = "yok"))
      BY <2>1, <2>2 DEF Etkisiz
    <3>. QED BY <2>2, <2>3, <3>1, IsSayilir
  <2>. QED BY <2>1, <2>2, <2>4 DEF BiletiYok, Biletsiz
<1>. QED BY <1>1, IInvDogru, PTL
=============================================================================
