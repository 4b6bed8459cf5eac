---------------------------- MODULE KuyrukKanit ----------------------------
(***************************************************************************)
(* Proofs about YukKuyruk, for every set of processes and items, every     *)
(* number of runs, and any number of faults and requests of the owner.     *)
(***************************************************************************)
EXTENDS YukKuyruk, FiniteSetTheorems, TLAPS

-----------------------------------------------------------------------------
(***************************************************************************)
(* The inductive invariant                                                 *)
(***************************************************************************)

\* The steps of a turn at which it works on an item; those at which it has a run number,
\* of them those before AWX's answer; and those at which it has neither, or no number yet.
OgeliAdimlar == {"kapi", "al", "kanca", "baslat", "geriAl", "ertele", "kapatGecici", "kapatAtla",
                 "kapatHatali", "ilerlet", "sirala"}
Baslatma == {"kanca", "baslat"}
NumaraliAdimlar == Baslatma \cup {"kapatHatali", "dinlen"}
Sakin == Adimlar \ (OgeliAdimlar \cup {"dinlen"})
NumarasizAdimlar == Sakin \cup {"kapi", "al", "ilerlet"}

\* A turn at such a step knows its item and its run.
TurTipi(t) ==
    /\ t.adim \in OgeliAdimlar => t.o \in Oge
    /\ t.adim \in NumaraliAdimlar => t.r \in Kosu
    /\ t.adim \in NumarasizAdimlar => t.r = Yok
    /\ t.adim \in {"al"} \cup Baslatma => t.goz.asama \in {"on_kontrol", "kosu"}
    /\ t.adim = "sirala" => t.goz.kosu \in Kosu

\* With it, the counters of the rows are within those of the environment.
TipInv ==
    /\ TypeOK
    /\ kuyruk.hata <= ariza
    /\ \A o \in Oge : oge[o].govde <= basma
    /\ \A p \in Surec : TurTipi(surec[p])

\* A row that its owner's stop closed.
DurdurulmusKapali(x) == x.durum \notin AKTIF_KOSU /\ KosuDurduruldu(x)

\* Of the row x of a run: it belongs to an item; a run that is under way has its lock, and
\* once it is RUNNING its job; one that is done has no job left, and a job that runs has the
\* lock, unless it was stopped.
KosuKurali(x) ==
    /\ x.durum # "yok" => x.oge \in Oge
    /\ x.durum = "yok" => x.awx = "yok"
    /\ x.durum \in AKTIF_KOSU => x.kilit
    /\ x.durum = "RUNNING" => x.awx = "calisiyor"
    /\ x.durum = "DONE" => x.awx = "bitti"
    /\ x.awx = "calisiyor" => x.kilit \/ DurdurulmusKapali(x)

\* The row x is that of a run of the item o, for the step islem, with this body, and is there.
Onun(x, o, islem, govde) ==
    /\ x.durum \notin {"yok", "silindi"}
    /\ x.oge = o /\ x.islem = islem /\ x.govde = govde

\* Of an item: waiting, it has no numbers; running, its numbers are of runs of its own, and
\* the load comes after a check that is done.
OgeKurali(o) ==
    LET x == oge[o] IN
    /\ x.durum = "BEKLIYOR" => x.ok = Yok /\ x.kosu = Yok
    /\ x.durum = "CALISIYOR" =>
        /\ x.asama \in {"on_kontrol", "kosu"}
        /\ x.ok # Yok => Onun(kosu[x.ok], o, "on_kontrol", x.govde)
        /\ x.kosu # Yok => x.asama = "kosu" /\ Onun(kosu[x.kosu], o, "kosu", x.govde)
        /\ x.asama = "kosu" => x.ok # Yok /\ kosu[x.ok].awx = "bitti"

\* Of a turn.  The numbers it read are of runs there have been.  The number it allocated is
\* its own, locked and without a job until AWX has answered, and a claimed item has the body
\* that the turn read.  What it takes back after a failure never went to AWX.  A load that
\* is to be run again was stopped.
SurecKurali(p) ==
    LET s == surec[p] IN
    /\ s.adim = "ilerlet" /\ s.goz.ok # Yok =>
          kosu[s.goz.ok].durum # "yok" /\ kosu[s.goz.ok].govde = s.goz.govde
    /\ s.adim \in {"ilerlet", "sirala"} /\ s.goz.kosu # Yok => kosu[s.goz.kosu].durum # "yok"
    /\ s.adim \in {"al", "kanca"} /\ oge[s.o].durum = "CALISIYOR" /\ oge[s.o].token = p
          => oge[s.o].govde = s.goz.govde
    /\ s.adim \in Baslatma =>
          /\ kosu[s.r].durum \in {"QUEUED", "FAILED"} /\ kosu[s.r].awx = "yok"
          /\ kosu[s.r].kilit /\ ~kosu[s.r].iptal
          /\ kosu[s.r].oge = s.o /\ kosu[s.r].islem = s.goz.asama /\ kosu[s.r].govde = s.goz.govde
    /\ s.adim = "baslat" /\ oge[s.o].durum = "CALISIYOR" =>
          oge[s.o].token = p /\ oge[s.o].asama = s.goz.asama
    /\ s.adim = "geriAl" /\ s.r # Yok =>
          /\ kosu[s.r].durum # "yok" /\ kosu[s.r].awx = "yok"
          /\ \A q \in Surec : surec[q].adim \in Baslatma => surec[q].r # s.r
    /\ s.adim \in {"kapatHatali", "dinlen"} => kosu[s.r].durum # "yok"
    /\ s.adim = "sirala" => DurdurulmusKapali(kosu[s.goz.kosu])

\* Two turns never start the same run.
AyriKosu ==
    \A p, q \in Surec :
        p # q /\ surec[p].adim \in Baslatma /\ surec[q].adim \in Baslatma => surec[p].r # surec[q].r

\* The run r is being given to AWX; its job runs, or may start; it is a load that AWX was
\* given, or is being given.
Verilir(r) == \E p \in Surec : surec[p].adim = "baslat" /\ surec[p].r = r
Canli(r) == ~DurdurulmusKapali(kosu[r]) /\ (kosu[r].awx = "calisiyor" \/ Verilir(r))
Yuk(r) == kosu[r].islem = "kosu" /\ ~DurdurulmusKapali(kosu[r]) /\ (kosu[r].awx # "yok" \/ Verilir(r))

\* The item o follows the run r, or is closed.
Izler(o, r) ==
    \/ oge[o].durum \in KapaliOge
    \/ /\ oge[o].durum = "CALISIYOR"
       /\ r = IF kosu[r].islem = "kosu" THEN oge[o].kosu ELSE oge[o].ok

\* A job that runs, and a load that was started, is what its item follows; and an item has
\* one load at most.
TakipInv ==
    /\ \A r \in Kosu : Canli(r) \/ Yuk(r) => Izler(kosu[r].oge, r)
    /\ \A r, q \in Kosu : Yuk(r) /\ Yuk(q) /\ kosu[r].oge = kosu[q].oge => r = q

\* The queue rests for a run there has been, and counts the pause with its locks free.
DinlenmeInv ==
    /\ kuyruk.dinlenKosu # Yok => kosu[kuyruk.dinlenKosu].durum # "yok"
    /\ DinlenmeKilitsiz

IInv ==
    /\ TipInv
    /\ \A r \in Kosu : KosuKurali(kosu[r])
    /\ \A o \in Oge : OgeKurali(o)
    /\ \A p \in Surec : SurecKurali(p)
    /\ AyriKosu /\ TakipInv /\ DinlenmeInv

-----------------------------------------------------------------------------
(***************************************************************************)
(* Operators                                                               *)
(***************************************************************************)

KuyrukSatirlari == [durum : KUYRUK_DURUMLARI, duraklat : BOOLEAN,
                    dinlenKosu : Kosu \cup {Yok}, bitis : Bitisler,
                    kira : Surec \cup {Yok}, gecerli : BOOLEAN, hata : 0 .. EnCokAriza]

Turlar == [adim : Adimlar, o : Oge \cup {Yok}, goz : OgeSatirlari, r : Kosu \cup {Yok},
           sayilir : BOOLEAN, tur : 0 .. ADIM_SINIRI - 1, k : KuyrukGozu]

LEMMA AdimAdlari ==
    /\ OgeliAdimlar \subseteq Adimlar /\ "dinlen" \in Adimlar /\ Sakin \subseteq Adimlar
    /\ {"bos", "son", "oku", "oldu", "oge", "siradaki", "dinlenme", "hataliOgeler"} \subseteq Sakin
    /\ \A a \in Sakin : /\ a \notin OgeliAdimlar /\ a # "dinlen" /\ a \in NumarasizAdimlar
                        /\ a \notin Baslatma /\ a \notin NumaraliAdimlar /\ a \notin {"al"} \cup Baslatma
                        /\ a \notin {"al", "kanca"} /\ a \notin {"kapatHatali", "dinlen"}
                        /\ a # "ilerlet" /\ a # "baslat" /\ a # "geriAl" /\ a # "sirala"
  BY DEF Adimlar, Sakin, OgeliAdimlar, Baslatma, NumaraliAdimlar, NumarasizAdimlar

LEMMA YeniOgeTipi == YeniOge \in OgeSatirlari
  BY KuyrukSinirlari DEF YeniOge, OgeSatirlari, OGE_DURUMLARI, KapaliOge

LEMMA BosTur == SurecBos \in Turlar /\ SurecBos.adim = "bos" /\ SurecBos.r = Yok
<1>1. [durum |-> "BEKLIYOR", duraklat |-> FALSE, dinlenKosu |-> Yok, bitis |-> "yok"] \in KuyrukGozu
  BY DEF KuyrukGozu, KUYRUK_DURUMLARI, AKTIF_KUYRUK, Bitisler
<1>2. 0 \in 0 .. ADIM_SINIRI - 1 /\ "bos" \in Adimlar
  BY KuyrukSinirlari DEF Adimlar
<1>. QED BY <1>1, <1>2, YeniOgeTipi DEF SurecBos, Turlar

\* An idle turn put at a step.
LEMMA BosTurAdimi ==
    ASSUME NEW adim \in Adimlar
    PROVE  /\ [SurecBos EXCEPT !.adim = adim] \in Turlar
           /\ [SurecBos EXCEPT !.adim = adim].adim = adim
           /\ [SurecBos EXCEPT !.adim = adim].r = Yok
<1>. DEFINE b == SurecBos
<1>1. b \in Turlar /\ b.r = Yok
  BY BosTur
<1>. HIDE DEF b
<1>2. /\ [b EXCEPT !.adim = adim] \in Turlar /\ [b EXCEPT !.adim = adim].adim = adim
      /\ [b EXCEPT !.adim = adim].r = Yok
  BY <1>1 DEF Turlar
<1>. QED BY <1>2 DEF b

\* A step that only changes the place of the turn.
LEMMA GitTuru ==
    ASSUME NEW S, surec \in [S -> Turlar], NEW p \in S, NEW adim \in Adimlar, Git(p, adim)
    PROVE  /\ surec' \in [S -> Turlar] /\ \A q \in S \ {p} : surec'[q] = surec[q]
           /\ surec'[p].adim = adim /\ surec'[p].o = surec[p].o /\ surec'[p].r = surec[p].r
           /\ surec'[p].goz = surec[p].goz /\ surec'[p].k = surec[p].k
           /\ surec'[p].sayilir = surec[p].sayilir
<1>. DEFINE t == [surec[p] EXCEPT !.adim = adim]
<1>1. /\ t \in Turlar /\ t.adim = adim /\ t.o = surec[p].o /\ t.r = surec[p].r
      /\ t.goz = surec[p].goz /\ t.k = surec[p].k /\ t.sayilir = surec[p].sayilir
  BY DEF Turlar
<1>2. surec' = [surec EXCEPT ![p] = t]
  BY DEF Git
<1>. HIDE DEF t
<1>. QED BY <1>1, <1>2

\* A turn that ends, or goes on with the next round, holds nothing.
LEMMA TurBirakir ==
    ASSUME NEW S, surec \in [S -> Turlar], NEW p \in S, NEW adim \in Sakin,
           surec' = [surec EXCEPT ![p] = [SurecBos EXCEPT !.adim = adim]]
    PROVE  /\ surec' \in [S -> Turlar] /\ \A q \in S \ {p} : surec'[q] = surec[q]
           /\ surec'[p].adim \in Sakin /\ surec'[p].r = Yok
<1>. DEFINE t == [SurecBos EXCEPT !.adim = adim]
<1>1. t \in Turlar /\ t.adim = adim /\ t.r = Yok
  BY BosTurAdimi, AdimAdlari
<1>. HIDE DEF t
<1>. QED BY <1>1 DEF t

LEMMA DurTuru ==
    ASSUME NEW S, surec \in [S -> Turlar], NEW p \in S, Dur(p)
    PROVE  /\ surec' \in [S -> Turlar] /\ \A q \in S \ {p} : surec'[q] = surec[q]
           /\ surec'[p].adim \in Sakin /\ surec'[p].r = Yok
<1>. DEFINE adim == IF kuyruk.hata = 0 THEN "bos" ELSE "son"
<1>1. adim \in Sakin
  BY AdimAdlari
<1>2. surec' = [surec EXCEPT ![p] = [SurecBos EXCEPT !.adim = adim]]
  BY DEF Dur
<1>. HIDE DEF adim
<1>. QED BY <1>1, <1>2, TurBirakir

LEMMA DevamTuru ==
    ASSUME NEW S, surec \in [S -> Turlar], NEW p \in S, Devam(p)
    PROVE  /\ surec' \in [S -> Turlar] /\ \A q \in S \ {p} : surec'[q] = surec[q]
           /\ surec'[p].adim \in Sakin /\ surec'[p].r = Yok
<1>1. CASE surec[p].tur + 1 = ADIM_SINIRI
  BY <1>1, DurTuru DEF Devam
<1>2. CASE surec[p].tur + 1 # ADIM_SINIRI
  <2>. DEFINE tur == surec[p].tur + 1
              b == SurecBos
              t == [b EXCEPT !.adim = "oku", !.tur = tur]
  <2>1. surec' = [surec EXCEPT ![p] = t]
    BY <1>2 DEF Devam
  <2>2. surec[p].tur \in 0 .. ADIM_SINIRI - 1
    BY DEF Turlar
  <2>3. tur \in 0 .. ADIM_SINIRI - 1
    BY <1>2, <2>2, KuyrukSinirlari
  <2>4. b \in Turlar /\ b.r = Yok /\ "oku" \in Sakin /\ "oku" \in Adimlar
    BY BosTur, AdimAdlari
  <2>. HIDE DEF tur, b
  <2>5. t \in Turlar /\ t.adim = "oku" /\ t.r = Yok
    BY <2>3, <2>4 DEF Turlar
  <2>. HIDE DEF t
  <2>. QED BY <2>1, <2>4, <2>5
<1>. QED BY <1>1, <1>2

\* After the note of a transient failure: put off, or closed at the limit.
LEMMA GeciciTuru ==
    ASSUME NEW S, surec \in [S -> Turlar], NEW p \in S, NEW d \in OGE_DURUMLARI, GeciciSonu(p, d)
    PROVE  /\ surec' \in [S -> Turlar] /\ \A q \in S \ {p} : surec'[q] = surec[q]
           /\ surec'[p].adim \in {"kapatGecici", "ertele"} /\ surec'[p].o = surec[p].o
           /\ surec'[p].r = surec[p].r /\ surec'[p].k = surec[p].k
<1>. DEFINE adim == IF surec[p].goz.deneme + 1 >= GECICI_DENEME_SINIRI THEN "kapatGecici" ELSE "ertele"
            t == [surec[p] EXCEPT !.goz.durum = d, !.adim = adim]
<1>1. adim \in {"kapatGecici", "ertele"}
  OBVIOUS
<1>2. surec' = [surec EXCEPT ![p] = t]
  BY DEF GeciciSonu
<1>. HIDE DEF adim
<1>3. adim \in Adimlar
  BY <1>1 DEF Adimlar
<1>4. [surec[p].goz EXCEPT !.durum = d] \in OgeSatirlari
  BY DEF Turlar, OgeSatirlari
<1>5. t \in Turlar /\ t.adim = adim /\ t.o = surec[p].o /\ t.r = surec[p].r /\ t.k = surec[p].k
  BY <1>3, <1>4 DEF Turlar
<1>. HIDE DEF t
<1>. QED BY <1>1, <1>2, <1>5

-----------------------------------------------------------------------------
(***************************************************************************)
(* What a step may make of the row of a run                                *)
(***************************************************************************)

\* The row x becomes y.  A row there is stays, with its item, step and body; what is closed
\* stays closed, stopped if it was, and takes no lock again; a job that ended has ended.
Ileri(x, y) ==
    x.durum # "yok" =>
        /\ y.durum # "yok" /\ y.oge = x.oge /\ y.islem = x.islem /\ y.govde = x.govde
        /\ x.durum \notin AKTIF_KOSU => y.durum \notin AKTIF_KOSU /\ (y.kilit => x.kilit)
        /\ DurdurulmusKapali(x) => DurdurulmusKapali(y)
        /\ x.awx = "bitti" => y.awx = "bitti"

KosuIlerler == \A r \in Kosu : Ileri(kosu[r], kosu[r]')

LEMMA AyniKosu ==
    ASSUME kosu' = kosu PROVE KosuIlerler
  BY DEF KosuIlerler, Ileri

\* A write of one row.
LEMMA KosuYazar ==
    ASSUME kosu \in [Kosu -> KosuSatirlari], \A q \in Kosu : KosuKurali(kosu[q]),
           NEW r \in Kosu, NEW y \in KosuSatirlari, kosu' = [kosu EXCEPT ![r] = y],
           KosuKurali(y), Ileri(kosu[r], y)
    PROVE  /\ kosu' \in [Kosu -> KosuSatirlari] /\ \A q \in Kosu : KosuKurali(kosu[q])'
           /\ kosu'[r] = y /\ \A q \in Kosu \ {r} : kosu'[q] = kosu[q]
           /\ KosuIlerler
<1>1. /\ kosu' \in [Kosu -> KosuSatirlari] /\ kosu'[r] = y
      /\ \A q \in Kosu \ {r} : kosu'[q] = kosu[q]
  OBVIOUS
<1>2. \A q \in Kosu : KosuKurali(kosu[q])'
  BY <1>1 DEF KosuKurali, DurdurulmusKapali, KosuDurduruldu
<1>3. \A q \in Kosu : Ileri(kosu[q], kosu'[q])
  <2>. SUFFICES ASSUME NEW q \in Kosu PROVE Ileri(kosu[q], kosu'[q])
    OBVIOUS
  <2>1. CASE q = r
    BY <1>1, <2>1
  <2>2. CASE q # r
    BY <1>1, <2>2 DEF Ileri
  <2>. QED BY <2>1, <2>2
<1>. QED BY <1>1, <1>2, <1>3 DEF KosuIlerler

\* A row under its launch: the launch did not happen, did, or nobody knows.
LEMMA BasarisizSatir ==
    ASSUME NEW x \in KosuSatirlari, KosuKurali(x), x.durum \in {"QUEUED", "FAILED"},
           x.awx = "yok", x.kilit, ~x.iptal,
           NEW y, y \in {Basarisiz(x), [Basarisiz(x) EXCEPT !.kilit = FALSE]}
    PROVE  /\ y \in KosuSatirlari /\ KosuKurali(y) /\ Ileri(x, y)
           /\ y.durum = "FAILED" /\ y.awx = "yok" /\ ~y.iptal /\ y.oge = x.oge
           /\ y.islem = x.islem /\ y.govde = x.govde
  BY DEF KosuSatirlari, Basarisiz, KosuKurali, DurdurulmusKapali, KosuDurduruldu, AKTIF_KOSU, Ileri

LEMMA BaslayanSatir ==
    ASSUME NEW x \in KosuSatirlari, KosuKurali(x), x.durum \in {"QUEUED", "FAILED"},
           x.awx = "yok", x.kilit, ~x.iptal,
           NEW y, \/ y = [x EXCEPT !.awx = "calisiyor"]
                  \/ y = [Basarisiz(x) EXCEPT !.awx = "calisiyor"]
                  \/ y = [x EXCEPT !.awx = "calisiyor", !.durum = IF @ = "QUEUED" THEN "RUNNING" ELSE @]
    PROVE  /\ y \in KosuSatirlari /\ KosuKurali(y) /\ Ileri(x, y) /\ ~DurdurulmusKapali(y)
           /\ y.durum \notin {"yok", "silindi"} /\ y.awx = "calisiyor" /\ y.oge = x.oge
           /\ y.islem = x.islem /\ y.govde = x.govde
  BY DEF KosuSatirlari, Basarisiz, KosuKurali, DurdurulmusKapali, KosuDurduruldu, AKTIF_KOSU, Ileri

\* What AWX, time and the owner make of a row.  No job starts.
SatirIlerler(x, y) ==
    \/ x.durum = "RUNNING" /\ y = [x EXCEPT !.iptal = TRUE]
    \/ x.durum = "QUEUED" /\ y = [x EXCEPT !.iptal = TRUE, !.durum = "CANCELED"]
    \/ x.durum \in {"DONE", "FAILED", "CANCELED"} /\ ~x.kilit /\ y = Silinmis(x)
    \/ /\ x.durum = "RUNNING"
       /\ \E d \in {"DONE", "FAILED", "CANCELED"}, tut \in BOOLEAN :
            y = [x EXCEPT !.durum = d, !.awx = "bitti", !.kilit = tut]
    \/ x.awx = "calisiyor" /\ x.durum # "RUNNING" /\ y = [x EXCEPT !.awx = "bitti"]
    \/ x.durum = "QUEUED" /\ y = [x EXCEPT !.durum = "FAILED"]
    \/ /\ x.durum \notin AKTIF_KOSU /\ x.kilit /\ (x.awx # "calisiyor" \/ x.iptal)
       /\ y = [x EXCEPT !.kilit = FALSE]

LEMMA CevreSatiri ==
    ASSUME NEW x \in KosuSatirlari, KosuKurali(x), NEW y, SatirIlerler(x, y)
    PROVE  /\ y \in KosuSatirlari /\ KosuKurali(y) /\ Ileri(x, y)
           /\ y.awx = x.awx \/ x.awx = "calisiyor"
<1>. USE DEF KosuSatirlari, KosuKurali, DurdurulmusKapali, KosuDurduruldu, AKTIF_KOSU, Ileri
<1>1. CASE \/ x.durum = "RUNNING" /\ y = [x EXCEPT !.iptal = TRUE]
           \/ x.durum = "QUEUED" /\ y = [x EXCEPT !.iptal = TRUE, !.durum = "CANCELED"]
  BY <1>1
<1>2. CASE x.durum \in {"DONE", "FAILED", "CANCELED"} /\ ~x.kilit /\ y = Silinmis(x)
  BY <1>2 DEF Silinmis
<1>3. ASSUME x.durum = "RUNNING", NEW d \in {"DONE", "FAILED", "CANCELED"}, NEW tut \in BOOLEAN,
             y = [x EXCEPT !.durum = d, !.awx = "bitti", !.kilit = tut]
      PROVE  /\ y \in KosuSatirlari /\ KosuKurali(y) /\ Ileri(x, y)
             /\ x.awx = "calisiyor" /\ y.awx = "bitti"
  BY <1>3
<1>4. CASE x.awx = "calisiyor" /\ x.durum # "RUNNING" /\ y = [x EXCEPT !.awx = "bitti"]
  BY <1>4
<1>5. CASE x.durum = "QUEUED" /\ y = [x EXCEPT !.durum = "FAILED"]
  BY <1>5
<1>6. CASE /\ x.durum \notin AKTIF_KOSU /\ x.kilit /\ (x.awx # "calisiyor" \/ x.iptal)
           /\ y = [x EXCEPT !.kilit = FALSE]
  BY <1>6
<1>. QED BY <1>1, <1>2, <1>3, <1>4, <1>5, <1>6 DEF SatirIlerler

-----------------------------------------------------------------------------
(***************************************************************************)
(* The effect of a step: what a turn p, or anything else (Yok), may do to  *)
(* each variable.  Every action has such an effect, and every such effect  *)
(* keeps the invariant.                                                    *)
(***************************************************************************)

\* Nothing that the run r stands for is going on.
Serbest(r) == r # Yok => ~Canli(r) /\ ~Yuk(r)

\* The row of an item: it is closed, or keeps what matters, or is changed while it waits, is
\* claimed for its check, for its load, gets a number, or gives back its load or both.
OgeGecis(p, o, y) ==
    LET x == oge[o] IN
    \/ y.durum \in KapaliOge
    \/ /\ y.durum = x.durum /\ y.asama = x.asama /\ y.token = x.token
       /\ y.ok = x.ok /\ y.kosu = x.kosu /\ y.govde = x.govde
    \/ x.durum = "BEKLIYOR" /\ y.durum = "BEKLIYOR" /\ y.ok = x.ok /\ y.kosu = x.kosu
    \/ /\ x.durum = "BEKLIYOR" /\ y.durum = "CALISIYOR" /\ y.asama = "on_kontrol" /\ y.token = p
       /\ y.ok = Yok /\ y.kosu = Yok
    \/ /\ x.durum = "CALISIYOR" /\ x.asama = "on_kontrol" /\ x.kosu = Yok
       /\ x.ok # Yok /\ kosu[x.ok].durum = "DONE"
       /\ y.durum = "CALISIYOR" /\ y.asama = "kosu" /\ y.token = p
       /\ y.ok = x.ok /\ y.kosu = Yok /\ y.govde = x.govde
    \/ /\ p \in Surec /\ surec[p].adim = "kanca" /\ surec[p].o = o /\ NumaraYazilir(p)
       /\ y = Numarali(x, surec[p].r)
    \/ /\ x.durum = "CALISIYOR" /\ x.asama = "kosu" /\ Serbest(x.kosu)
       /\ y.durum = "CALISIYOR" /\ y.asama = "on_kontrol" /\ y.token = Yok
       /\ y.ok = x.ok /\ y.kosu = Yok /\ y.govde = x.govde
    \/ /\ x.durum = "CALISIYOR" /\ Serbest(x.ok) /\ Serbest(x.kosu)
       /\ y.durum = "BEKLIYOR" /\ y.ok = Yok /\ y.kosu = Yok

OgeEtki(p) ==
    /\ oge' \in [Oge -> OgeSatirlari]
    /\ \A o \in Oge : oge'[o].govde <= basma' /\ OgeGecis(p, o, oge'[o])

\* The row of a run: only the turn that launches it gives it a job, what other turns launch
\* is left alone, and what a running item follows is not deleted.
KosuGecis(p, r) ==
    LET x == kosu[r]   y == kosu'[r] IN
    /\ \/ y.awx = x.awx
       \/ x.awx = "calisiyor"
       \/ p \in Surec /\ surec[p].adim = "baslat" /\ surec[p].r = r
    /\ y.durum = "silindi" =>
        \/ x.durum = "silindi"
        \/ \A o \in Oge : oge'[o].durum = "CALISIYOR" => r # oge'[o].ok /\ r # oge'[o].kosu
    /\ (\E q \in Surec \ {p} : surec[q].adim \in Baslatma /\ surec[q].r = r) =>
        y.durum \in {"QUEUED", "FAILED"} /\ y.awx = "yok" /\ y.kilit /\ ~y.iptal

KosuEtki(p) ==
    /\ kosu' \in [Kosu -> KosuSatirlari]
    /\ \A r \in Kosu : KosuKurali(kosu[r])'
    /\ KosuIlerler
    /\ \A r \in Kosu : KosuGecis(p, r)

\* The turn itself: it begins a launch with a run nobody has, and asks AWX once the item has
\* the number.
TurGecis(p) ==
    surec'[p].adim \in Baslatma =>
        \/ surec'[p].adim = "kanca" /\ kosu[surec'[p].r].durum = "yok"
        \/ /\ surec'[p].adim = "baslat" /\ surec[p].adim = "kanca" /\ surec'[p].r = surec[p].r
           /\ NumaraYazilir(p) /\ oge'[surec[p].o] = Numarali(oge[surec[p].o], surec[p].r)

SurecEtki(p) ==
    /\ surec' \in [Surec -> Turlar]
    /\ \A q \in Surec \ {p} : surec'[q] = surec[q]
    /\ p \in Surec => TurTipi(surec'[p]) /\ SurecKurali(p)' /\ TurGecis(p)

\* The queue: it keeps the run it rests for while it counts the pause, or rests for another
\* run, or begins to count.
KuyrukEtki ==
    /\ kuyruk' \in KuyrukSatirlari
    /\ kuyruk'.hata <= ariza'
    /\ bayat => bayat'
    /\ \/ /\ kuyruk'.dinlenKosu = kuyruk.dinlenKosu
          /\ kuyruk'.bitis # "yok" => kuyruk.bitis # "yok" \/ bayat' \/ ~KosuKilitliMi(kuyruk.dinlenKosu)
       \/ /\ kuyruk'.bitis = "yok"
          /\ kuyruk'.dinlenKosu # Yok => kosu[kuyruk'.dinlenKosu].durum # "yok"

SayacEtki ==
    /\ istek' \in {"yok", "iptal", "devam"}
    /\ yorgun' \in BOOLEAN /\ bayat' \in BOOLEAN /\ yarim' \in BOOLEAN
    /\ ariza' \in 0 .. EnCokAriza /\ basma' \in 0 .. EnCokBasma

Etki(p) == OgeEtki(p) /\ KosuEtki(p) /\ SurecEtki(p) /\ KuyrukEtki /\ SayacEtki

-----------------------------------------------------------------------------
(***************************************************************************)
(* Every such effect keeps the invariant                                   *)
(***************************************************************************)

LEMMA EtkiTip ==
    ASSUME TipInv, NEW p \in Surec \cup {Yok}, Etki(p)
    PROVE  TipInv'
<1>1. TypeOK'
  BY DEF Etki, OgeEtki, KosuEtki, SurecEtki, KuyrukEtki, SayacEtki, TypeOK, KuyrukSatirlari, Turlar
<1>2. kuyruk'.hata <= ariza' /\ \A o \in Oge : oge'[o].govde <= basma'
  BY DEF Etki, OgeEtki, KuyrukEtki
<1>3. \A q \in Surec : TurTipi(surec'[q])
  <2>. TAKE q \in Surec
  <2>1. CASE q = p
    BY <2>1 DEF Etki, SurecEtki
  <2>2. CASE q # p
    <3>1. surec'[q] = surec[q] /\ TurTipi(surec[q])
      BY <2>2 DEF Etki, SurecEtki, TipInv
    <3>. QED BY <3>1
  <2>. QED BY <2>1, <2>2
<1>. QED BY <1>1, <1>2, <1>3 DEF TipInv, TurTipi

\* What a turn of another process launches is followed by its item, before and after.
LEMMA VerilenKalir ==
    ASSUME IInv, NEW p \in Surec \cup {Yok}, NEW q \in Surec \ {p}, surec[q].adim = "baslat",
           NEW y, OgeGecis(p, surec[q].o, y), y.durum = "CALISIYOR"
    PROVE  y.token = q /\ y.asama = surec[q].goz.asama
<1>. DEFINE s == surec[q]
            x == oge[s.o]
            r == s.r
<1>1. r \in Kosu /\ s.o \in Oge /\ s.goz.asama \in {"on_kontrol", "kosu"}
  BY DEF IInv, TipInv, TurTipi, OgeliAdimlar, NumaraliAdimlar, Baslatma
<1>2. /\ kosu[r].durum \in {"QUEUED", "FAILED"} /\ kosu[r].awx = "yok" /\ ~kosu[r].iptal
      /\ kosu[r].oge = s.o /\ kosu[r].islem = s.goz.asama
      /\ x.durum = "CALISIYOR" => x.token = q /\ x.asama = s.goz.asama
  BY DEF IInv, SurecKurali, Baslatma
<1>3. Canli(r)
  BY <1>2 DEF Canli, Verilir, DurdurulmusKapali, KosuDurduruldu
<1>4. Izler(s.o, r)
  BY <1>1, <1>2, <1>3 DEF IInv, TakipInv
<1>5. q # Yok /\ r # Yok
  BY <1>1, YokAyri
<1>6. KapaliOge = {"BITTI", "ATLANDI", "HATALI", "IPTAL"}
  BY DEF KapaliOge
<1>. HIDE DEF s, x, r
<1>7. x.durum \in KapaliOge \/ x.durum = "CALISIYOR"
  BY <1>4 DEF Izler, x
<1>8. x.durum = "CALISIYOR" => r = IF kosu[r].islem = "kosu" THEN x.kosu ELSE x.ok
  BY <1>4, <1>6 DEF Izler, x
<1>9. NumaraYazilir(p) /\ surec[p].o = s.o => x.token = p
  BY DEF NumaraYazilir, x
<1>10. p # q /\ OgeGecis(p, s.o, y) /\ x = oge[s.o]
  BY DEF s, x
<1>11. y.token = q /\ y.asama = s.goz.asama
  <2>1. CASE y.durum = x.durum /\ y.asama = x.asama /\ y.token = x.token
    BY <1>2, <2>1
  <2>2. CASE x.durum = "BEKLIYOR"
    BY <1>6, <1>7, <2>2
  <2>3. CASE x.durum = "CALISIYOR" /\ x.asama = "on_kontrol" /\ kosu[x.ok].durum = "DONE"
    BY <1>2, <1>8, <2>3
  <2>4. CASE x.durum = "CALISIYOR" /\ x.asama = "kosu" /\ Serbest(x.kosu)
    BY <1>2, <1>3, <1>5, <1>8, <2>4 DEF Serbest
  <2>5. CASE x.durum = "CALISIYOR" /\ Serbest(x.ok) /\ Serbest(x.kosu)
    BY <1>3, <1>5, <1>8, <2>5 DEF Serbest
  <2>6. CASE NumaraYazilir(p) /\ surec[p].o = s.o
    <3>1. x.durum = "CALISIYOR"
      BY <2>6 DEF NumaraYazilir, x
    <3>. QED BY <1>2, <1>9, <1>10, <2>6, <3>1
  <2>. QED BY <1>6, <1>10, <2>1, <2>2, <2>3, <2>4, <2>5, <2>6 DEF OgeGecis
<1>. QED BY <1>11 DEF s

LEMMA EtkiOge ==
    ASSUME IInv, NEW p \in Surec \cup {Yok}, Etki(p), NEW o \in Oge
    PROVE  OgeKurali(o)'
<1>. DEFINE x == oge[o]
            y == oge'[o]
<1>1. OgeGecis(p, o, y) /\ OgeKurali(o)
  BY DEF Etki, OgeEtki, IInv
<1>2. x \in OgeSatirlari /\ y \in OgeSatirlari
  BY DEF Etki, OgeEtki, IInv, TipInv, TypeOK
<1>3. \A r \in Kosu : Ileri(kosu[r], kosu'[r]) /\ KosuGecis(p, r)
  BY DEF Etki, KosuEtki, KosuIlerler
<1>4. ASSUME y.durum = "CALISIYOR", NEW r \in {y.ok, y.kosu}, NEW i, r # Yok,
             Onun(kosu[r], o, i, y.govde)
      PROVE  Onun(kosu'[r], o, i, y.govde)
  <2>1. r \in Kosu
    BY <1>2, <1>4 DEF OgeSatirlari
  <2>2. Ileri(kosu[r], kosu'[r]) /\ kosu'[r].durum # "silindi"
    <3>1. kosu'[r].durum = "silindi" =>
            \/ kosu[r].durum = "silindi"
            \/ \A u \in Oge : oge'[u].durum = "CALISIYOR" => r # oge'[u].ok /\ r # oge'[u].kosu
      BY <1>3, <2>1 DEF KosuGecis
    <3>. QED BY <1>3, <1>4, <2>1, <3>1 DEF Onun
  <2>. QED BY <1>4, <2>1, <2>2 DEF Onun, Ileri
<1>5. y.durum = "BEKLIYOR" => y.ok = Yok /\ y.kosu = Yok
  BY <1>1, <1>2 DEF OgeGecis, OgeKurali, KapaliOge, NumaraYazilir, Numarali, OgeSatirlari
<1>6. ASSUME y.durum = "CALISIYOR"
      PROVE  /\ y.asama \in {"on_kontrol", "kosu"}
             /\ y.ok # Yok => Onun(kosu'[y.ok], o, "on_kontrol", y.govde)
             /\ y.kosu # Yok => y.asama = "kosu" /\ Onun(kosu'[y.kosu], o, "kosu", y.govde)
             /\ y.asama = "kosu" => y.ok # Yok /\ kosu'[y.ok].awx = "bitti"
  <2>. USE <1>6 DEF Onun
  <2>1. ASSUME NEW r \in Kosu PROVE kosu[r].durum # "yok" /\ kosu[r].awx = "bitti" => kosu'[r].awx = "bitti"
    BY <1>3, <2>1 DEF Ileri
  <2>2. CASE /\ x.durum = "CALISIYOR" /\ y.asama = x.asama /\ y.ok = x.ok /\ y.kosu = x.kosu /\ y.govde = x.govde
    BY <1>1, <1>2, <1>4, <2>1, <2>2 DEF OgeKurali, OgeSatirlari
  <2>3. CASE y.asama = "on_kontrol" /\ y.ok = Yok /\ y.kosu = Yok
    BY <2>3
  <2>4. CASE /\ x.durum = "CALISIYOR" /\ x.ok # Yok /\ kosu[x.ok].durum = "DONE"
             /\ y.asama = "kosu" /\ y.ok = x.ok /\ y.kosu = Yok /\ y.govde = x.govde
    <3>1. x.ok \in Kosu /\ Onun(kosu[x.ok], o, "on_kontrol", x.govde)
      BY <1>1, <1>2, <2>4 DEF OgeKurali, OgeSatirlari
    <3>2. kosu[x.ok].awx = "bitti"
      BY <2>4, <3>1 DEF IInv, KosuKurali
    <3>. QED BY <1>4, <2>1, <2>4, <3>1, <3>2
  <2>5. CASE /\ x.durum = "CALISIYOR" /\ y.asama = "on_kontrol"
             /\ y.ok = x.ok /\ y.kosu = Yok /\ y.govde = x.govde
    BY <1>1, <1>4, <2>5 DEF OgeKurali
  <2>6. CASE /\ p \in Surec /\ surec[p].adim = "kanca" /\ surec[p].o = o /\ NumaraYazilir(p)
             /\ y = Numarali(x, surec[p].r)
    <3>. DEFINE r == surec[p].r
    <3>1. /\ r \in Kosu /\ surec[p].goz.asama \in {"on_kontrol", "kosu"}
          /\ kosu[r].durum \in {"QUEUED", "FAILED"} /\ kosu[r].oge = o
          /\ kosu[r].islem = surec[p].goz.asama /\ kosu[r].govde = surec[p].goz.govde
          /\ oge[o].durum = "CALISIYOR" /\ oge[o].token = p => oge[o].govde = surec[p].goz.govde
      BY <2>6 DEF IInv, TipInv, TurTipi, SurecKurali, NumaraliAdimlar, Baslatma
    <3>2. /\ x.token = p /\ x.durum = "CALISIYOR" /\ x.asama = surec[p].goz.asama
          /\ IF x.asama = "kosu" THEN x.kosu = Yok ELSE x.ok = Yok
      BY <2>6 DEF NumaraYazilir
    <3>3. r # Yok
      BY <3>1, YokAyri
    <3>. HIDE DEF r
    <3>4. CASE x.asama = "kosu"
      <4>1. y.kosu = r /\ y.asama = "kosu" /\ y.ok = x.ok /\ y.govde = x.govde
        BY <1>2, <2>6, <3>4 DEF Numarali, OgeSatirlari, r
      <4>2. x.ok # Yok /\ kosu[x.ok].awx = "bitti" /\ Onun(kosu[x.ok], o, "on_kontrol", x.govde)
        BY <1>1, <3>2, <3>4 DEF OgeKurali
      <4>3. Onun(kosu'[y.ok], o, "on_kontrol", y.govde)
        BY <1>4, <4>1, <4>2
      <4>4. Onun(kosu'[y.kosu], o, "kosu", y.govde)
        BY <1>4, <3>1, <3>2, <3>3, <3>4, <4>1
      <4>5. kosu'[y.ok].awx = "bitti"
        BY <1>2, <2>1, <4>1, <4>2 DEF OgeSatirlari
      <4>. QED BY <4>1, <4>2, <4>3, <4>4, <4>5
    <3>5. CASE x.asama # "kosu"
      <4>1. y.ok = r /\ y.asama = "on_kontrol" /\ y.kosu = Yok /\ y.govde = x.govde
        BY <1>1, <1>2, <2>6, <3>1, <3>2, <3>5 DEF Numarali, OgeSatirlari, OgeKurali, r
      <4>2. Onun(kosu'[y.ok], o, "on_kontrol", y.govde)
        BY <1>4, <3>1, <3>2, <3>3, <3>5, <4>1
      <4>. QED BY <4>1, <4>2
    <3>. QED BY <3>4, <3>5
  <2>. QED BY <1>1, <2>2, <2>3, <2>4, <2>5, <2>6 DEF OgeGecis, KapaliOge
<1>. QED BY <1>5, <1>6 DEF OgeKurali

\* Which turns are at a launch after a step, and with which run.
LEMMA BaslatmaKalir ==
    ASSUME IInv, NEW p \in Surec \cup {Yok}, Etki(p), NEW q \in Surec, surec'[q].adim \in Baslatma
    PROVE  /\ surec'[q].r \in Kosu
           /\ \/ surec[q].adim \in Baslatma /\ surec'[q].r = surec[q].r
              \/ q = p /\ kosu[surec'[q].r].durum = "yok"
<1>1. surec'[q].r \in Kosu
  BY EtkiTip DEF IInv, TipInv, TurTipi, NumaraliAdimlar
<1>2. CASE q = p
  BY <1>1, <1>2 DEF Etki, SurecEtki, TurGecis, Baslatma
<1>3. CASE q # p
  BY <1>1, <1>3 DEF Etki, SurecEtki
<1>. QED BY <1>1, <1>2, <1>3

LEMMA EtkiAyri ==
    ASSUME IInv, NEW p \in Surec \cup {Yok}, Etki(p)
    PROVE  AyriKosu'
<1>. SUFFICES ASSUME NEW q \in Surec, NEW t \in Surec, q # t,
                     surec'[q].adim \in Baslatma, surec'[t].adim \in Baslatma
              PROVE  surec'[q].r # surec'[t].r
  BY DEF AyriKosu
<1>1. \A u \in Surec : surec[u].adim \in Baslatma => kosu[surec[u].r].durum # "yok"
  BY DEF IInv, SurecKurali
<1>2. \/ surec[q].adim \in Baslatma /\ surec'[q].r = surec[q].r
      \/ q = p /\ kosu[surec'[q].r].durum = "yok"
  BY BaslatmaKalir
<1>3. \/ surec[t].adim \in Baslatma /\ surec'[t].r = surec[t].r
      \/ t = p /\ kosu[surec'[t].r].durum = "yok"
  BY BaslatmaKalir
<1>. QED BY <1>1, <1>2, <1>3 DEF IInv, AyriKosu

\* A turn that does not take the step.
LEMMA EtkiDigerSurec ==
    ASSUME IInv, NEW p \in Surec \cup {Yok}, Etki(p), NEW q \in Surec \ {p}
    PROVE  SurecKurali(q)'
<1>. DEFINE s == surec[q]
            x == oge[s.o]
            y == oge'[s.o]
<1>1. surec'[q] = s /\ SurecKurali(q) /\ TurTipi(s) /\ s \in Turlar
  BY DEF Etki, SurecEtki, IInv, TipInv, TypeOK, Turlar
<1>2. \A r \in Kosu : Ileri(kosu[r], kosu'[r]) /\ KosuGecis(p, r)
  BY DEF Etki, KosuEtki, KosuIlerler
<1>3. q # Yok /\ q # p
  BY YokAyri
<1>4. /\ s.goz.ok # Yok => s.goz.ok \in Kosu
      /\ s.goz.kosu # Yok => s.goz.kosu \in Kosu
      /\ s.r # Yok => s.r \in Kosu
      /\ s.adim \in {"al", "kanca", "baslat"} => s.o \in Oge
      /\ s.adim \in Baslatma \cup {"kapatHatali", "dinlen"} => s.r \in Kosu /\ s.r # Yok
      /\ s.adim = "sirala" => s.goz.kosu # Yok
  BY <1>1, YokAyri DEF Turlar, OgeSatirlari, TurTipi, OgeliAdimlar, NumaraliAdimlar, Baslatma
<1>5. s.adim = "ilerlet" /\ s.goz.ok # Yok =>
         kosu'[s.goz.ok].durum # "yok" /\ kosu'[s.goz.ok].govde = s.goz.govde
  BY <1>1, <1>2, <1>4 DEF SurecKurali, Ileri
<1>6. s.adim \in {"ilerlet", "sirala"} /\ s.goz.kosu # Yok => kosu'[s.goz.kosu].durum # "yok"
  BY <1>1, <1>2, <1>4 DEF SurecKurali, Ileri
<1>7. s.adim \in {"al", "kanca"} /\ y.durum = "CALISIYOR" /\ y.token = q => y.govde = s.goz.govde
  <2>. HAVE s.adim \in {"al", "kanca"} /\ y.durum = "CALISIYOR" /\ y.token = q
  <2>1. OgeGecis(p, s.o, y) /\ x \in OgeSatirlari
    BY <1>4 DEF Etki, OgeEtki, IInv, TipInv, TypeOK
  <2>2. x.durum = "CALISIYOR" /\ x.token = q /\ y.govde = x.govde
    BY <1>3, <2>1 DEF OgeGecis, KapaliOge, NumaraYazilir, Numarali, OgeSatirlari
  <2>. QED BY <1>1, <2>2 DEF SurecKurali
<1>8. s.adim \in Baslatma =>
        /\ kosu'[s.r].durum \in {"QUEUED", "FAILED"} /\ kosu'[s.r].awx = "yok"
        /\ kosu'[s.r].kilit /\ ~kosu'[s.r].iptal
        /\ kosu'[s.r].oge = s.o /\ kosu'[s.r].islem = s.goz.asama /\ kosu'[s.r].govde = s.goz.govde
  BY <1>1, <1>2, <1>4 DEF SurecKurali, KosuGecis, Ileri
<1>9. s.adim = "baslat" /\ y.durum = "CALISIYOR" => y.token = q /\ y.asama = s.goz.asama
  BY <1>4, VerilenKalir DEF Etki, OgeEtki
<1>10. s.adim = "geriAl" /\ s.r # Yok =>
        /\ kosu'[s.r].durum # "yok" /\ kosu'[s.r].awx = "yok"
        /\ \A t \in Surec : surec'[t].adim \in Baslatma => surec'[t].r # s.r
  <2>. HAVE s.adim = "geriAl" /\ s.r # Yok
  <2>1. /\ kosu[s.r].durum # "yok" /\ kosu[s.r].awx = "yok"
        /\ \A t \in Surec : surec[t].adim \in Baslatma => surec[t].r # s.r
    BY <1>1 DEF SurecKurali
  <2>2. kosu'[s.r].durum # "yok" /\ kosu'[s.r].awx = "yok"
    BY <1>2, <1>4, <2>1 DEF Ileri, KosuGecis, Baslatma
  <2>. QED BY <2>1, <2>2, BaslatmaKalir
<1>11. s.adim \in {"kapatHatali", "dinlen"} => kosu'[s.r].durum # "yok"
  BY <1>1, <1>2, <1>4 DEF SurecKurali, Ileri
<1>12. s.adim = "sirala" => DurdurulmusKapali(kosu'[s.goz.kosu])
  BY <1>1, <1>2, <1>4 DEF SurecKurali, Ileri
<1>. HIDE DEF s
<1>. QED BY <1>1, <1>5, <1>6, <1>7, <1>8, <1>9, <1>10, <1>11, <1>12
         DEF SurecKurali, DurdurulmusKapali, KosuDurduruldu

\* What goes on after a step went on before it, or is the launch that the turn p begins.
LEMMA CanliKalir ==
    ASSUME IInv, NEW p \in Surec \cup {Yok}, Etki(p), NEW r \in Kosu, Canli(r)' \/ Yuk(r)'
    PROVE  /\ kosu'[r].oge = kosu[r].oge /\ kosu'[r].islem = kosu[r].islem
           /\ kosu[r].durum # "yok" /\ ~DurdurulmusKapali(kosu[r])
           /\ \/ (Canli(r)' => Canli(r)) /\ (Yuk(r)' => Yuk(r))
              \/ /\ p \in Surec /\ surec[p].adim = "kanca" /\ surec[p].r = r /\ NumaraYazilir(p)
                 /\ oge'[surec[p].o] = Numarali(oge[surec[p].o], r)
<1>1. Ileri(kosu[r], kosu'[r]) /\ KosuGecis(p, r) /\ KosuKurali(kosu[r])
  BY DEF Etki, KosuEtki, KosuIlerler, IInv
<1>2. \A q \in Surec : surec[q].adim \in Baslatma => kosu[surec[q].r].durum # "yok"
  BY DEF IInv, SurecKurali
<1>3. ASSUME NEW q \in Surec, surec'[q].adim = "baslat", surec'[q].r = r
      PROVE  \/ Verilir(r) \/ /\ q = p /\ surec[p].adim = "kanca" /\ surec[p].r = r /\ NumaraYazilir(p)
                              /\ oge'[surec[p].o] = Numarali(oge[surec[p].o], r)
  BY <1>3 DEF Etki, SurecEtki, TurGecis, Baslatma, Verilir
<1>4. ASSUME NEW q \in Surec, surec'[q].adim = "baslat", surec'[q].r = r
      PROVE  kosu[r].durum # "yok"
  BY <1>2, <1>3, <1>4 DEF Etki, SurecEtki, TurGecis, Baslatma
<1>5. CASE kosu[r].durum = "yok"
  <2>1. kosu[r].awx = "yok" /\ ~Verilir(r)'
    BY <1>1, <1>4, <1>5 DEF KosuKurali, Verilir
  <2>2. kosu'[r].awx = "yok"
    BY <1>1, <1>2, <1>5, <2>1 DEF KosuGecis, Baslatma
  <2>. QED BY <2>1, <2>2 DEF Canli, Yuk
<1>6. CASE kosu[r].durum # "yok"
  <2>1. /\ kosu'[r].oge = kosu[r].oge /\ kosu'[r].islem = kosu[r].islem
        /\ ~DurdurulmusKapali(kosu'[r]) => ~DurdurulmusKapali(kosu[r])
    BY <1>1, <1>6 DEF Ileri
  <2>2. ~DurdurulmusKapali(kosu'[r])
    BY DEF Canli, Yuk, DurdurulmusKapali, KosuDurduruldu
  <2>3. kosu'[r].awx = "calisiyor" => kosu[r].awx = "calisiyor" \/ Verilir(r)
    BY <1>1 DEF KosuGecis, Verilir
  <2>4. kosu'[r].awx # "yok" => kosu[r].awx # "yok" \/ Verilir(r)
    BY <1>1 DEF KosuGecis, Verilir
  <2>5. CASE Verilir(r)' => Verilir(r)
    BY <1>6, <2>1, <2>2, <2>3, <2>4, <2>5 DEF Canli, Yuk
  <2>6. CASE ~(Verilir(r)' => Verilir(r))
    BY <1>3, <1>6, <2>1, <2>2, <2>6 DEF Verilir
  <2>. QED BY <2>5, <2>6
<1>. QED BY <1>5, <1>6

\* What goes on is followed by its item, before and after.
LEMMA IzleyenKalir ==
    ASSUME IInv, NEW p \in Surec \cup {Yok}, Etki(p), NEW r \in Kosu, Canli(r) \/ Yuk(r),
           NEW o \in Oge, o = kosu[r].oge, kosu'[r].islem = kosu[r].islem
    PROVE  Izler(o, r)'
<1>. DEFINE x == oge[o]
            y == oge'[o]
<1>1. Izler(o, r) /\ r # Yok
  BY YokAyri DEF IInv, TakipInv
<1>2. OgeGecis(p, o, y) /\ OgeKurali(o) /\ x \in OgeSatirlari
  BY DEF Etki, OgeEtki, IInv, TipInv, TypeOK
<1>3. \/ x.durum \in KapaliOge
      \/ x.durum = "CALISIYOR" /\ r = IF kosu[r].islem = "kosu" THEN x.kosu ELSE x.ok
  BY <1>1 DEF Izler
<1>4. \/ y.durum \in KapaliOge
      \/ y.durum = "CALISIYOR" /\ r = IF kosu[r].islem = "kosu" THEN y.kosu ELSE y.ok
  <2>1. CASE x.durum \in KapaliOge
    BY <1>2, <2>1 DEF OgeGecis, KapaliOge, NumaraYazilir
  <2>2. CASE x.durum = "CALISIYOR" /\ r = IF kosu[r].islem = "kosu" THEN x.kosu ELSE x.ok
    <3>1. x.kosu = r \/ x.ok = r
      BY <2>2
    <3>2. ~(Serbest(x.ok) /\ Serbest(x.kosu))
      BY <1>1, <3>1 DEF Serbest
    <3>3. kosu[r].islem = "kosu" => ~Serbest(x.kosu)
      BY <1>1, <2>2 DEF Serbest
    <3>4. CASE /\ p \in Surec /\ surec[p].adim = "kanca" /\ surec[p].o = o /\ NumaraYazilir(p)
               /\ y = Numarali(x, surec[p].r)
      <4>1. IF x.asama = "kosu" THEN x.kosu = Yok ELSE x.ok = Yok
        BY <3>4 DEF NumaraYazilir
      <4>2. x.ok # Yok => kosu[x.ok].islem = "on_kontrol"
        BY <1>2, <2>2 DEF OgeKurali, Onun
      <4>3. IF x.asama = "kosu" THEN y.ok = x.ok ELSE y.kosu = x.kosu
        BY <1>2, <3>4 DEF Numarali, OgeSatirlari
      <4>4. y.durum = "CALISIYOR"
        BY <1>2, <2>2, <3>4 DEF Numarali, OgeSatirlari
      <4>. QED BY <1>1, <2>2, <4>1, <4>2, <4>3, <4>4
    <3>5. CASE x.kosu = Yok /\ y.ok = x.ok /\ y.durum = "CALISIYOR"
      BY <1>1, <2>2, <3>5
    <3>6. CASE Serbest(x.kosu) /\ y.ok = x.ok /\ y.durum = "CALISIYOR"
      BY <2>2, <3>3, <3>6
    <3>. QED BY <1>2, <2>2, <3>2, <3>4, <3>5, <3>6 DEF OgeGecis
  <2>. QED BY <1>3, <2>1, <2>2
<1>. QED BY <1>4 DEF Izler

\* The launch that the turn p begins, as the number is written.
LEMMA YeniYuk ==
    ASSUME IInv, NEW p \in Surec, surec[p].adim = "kanca", NumaraYazilir(p),
           oge'[surec[p].o] = Numarali(oge[surec[p].o], surec[p].r),
           NEW r, r = surec[p].r, NEW o, o = surec[p].o
    PROVE  /\ r \in Kosu /\ o \in Oge /\ kosu[r].oge = o
           /\ oge[o].durum = "CALISIYOR" /\ oge'[o].durum = "CALISIYOR"
           /\ kosu[r].islem = "kosu" => oge[o].kosu = Yok
           /\ r = IF kosu[r].islem = "kosu" THEN oge'[o].kosu ELSE oge'[o].ok
<1>1. /\ r \in Kosu /\ o \in Oge /\ kosu[r].oge = o
      /\ kosu[r].islem = surec[p].goz.asama
  BY DEF IInv, TipInv, TurTipi, SurecKurali, OgeliAdimlar, NumaraliAdimlar, Baslatma
<1>2. /\ oge[o].durum = "CALISIYOR" /\ oge[o].asama = surec[p].goz.asama
      /\ oge[o].asama = "kosu" => oge[o].kosu = Yok
  BY DEF NumaraYazilir
<1>3. oge[o] \in OgeSatirlari
  BY <1>1 DEF IInv, TipInv, TypeOK
<1>. QED BY <1>1, <1>2, <1>3 DEF Numarali, OgeSatirlari

LEMMA EtkiTakip ==
    ASSUME IInv, NEW p \in Surec \cup {Yok}, Etki(p)
    PROVE  TakipInv'
<1>1. ASSUME NEW r \in Kosu, Canli(r)' \/ Yuk(r)'
      PROVE  Izler(kosu[r].oge, r)'
  <2>1. kosu'[r].oge = kosu[r].oge /\ kosu'[r].islem = kosu[r].islem /\ kosu[r].durum # "yok"
    BY <1>1, CanliKalir
  <2>2. kosu[r].oge \in Oge
    BY <2>1 DEF IInv, KosuKurali
  <2>. DEFINE o == kosu[r].oge
  <2>3. Izler(o, r)'
    <3>1. CASE (Canli(r)' => Canli(r)) /\ (Yuk(r)' => Yuk(r))
      BY <1>1, <2>1, <2>2, <3>1, IzleyenKalir
    <3>2. CASE /\ p \in Surec /\ surec[p].adim = "kanca" /\ surec[p].r = r /\ NumaraYazilir(p)
               /\ oge'[surec[p].o] = Numarali(oge[surec[p].o], r)
      BY <2>1, <3>2, YeniYuk DEF Izler
    <3>. QED BY <1>1, <3>1, <3>2, CanliKalir
  <2>. QED BY <2>1, <2>3
<1>2. ASSUME NEW r \in Kosu, NEW q \in Kosu, Yuk(r)', Yuk(q)', kosu'[r].oge = kosu'[q].oge,
             ~(Yuk(r)' => Yuk(r))
      PROVE  r = q
  <2>1. /\ p \in Surec /\ surec[p].adim = "kanca" /\ surec[p].r = r /\ NumaraYazilir(p)
        /\ oge'[surec[p].o] = Numarali(oge[surec[p].o], r) /\ kosu'[r].oge = kosu[r].oge
        /\ kosu'[r].islem = kosu[r].islem
    BY <1>2, CanliKalir
  <2>2. /\ oge[kosu[r].oge].durum = "CALISIYOR" /\ oge[kosu[r].oge].kosu = Yok
    BY <1>2, <2>1, YeniYuk DEF Yuk
  <2>3. kosu'[q].oge = kosu[q].oge /\ kosu'[q].islem = kosu[q].islem
    BY <1>2, CanliKalir
  <2>4. CASE Yuk(q)' => Yuk(q)
    <3>1. Izler(kosu[q].oge, q) /\ kosu[q].islem = "kosu"
      BY <1>2, <2>4 DEF IInv, TakipInv, Yuk
    <3>2. q # Yok
      BY YokAyri
    <3>. QED BY <1>2, <2>1, <2>2, <2>3, <3>1, <3>2 DEF Izler, KapaliOge
  <2>5. CASE ~(Yuk(q)' => Yuk(q))
    <3>1. surec[p].r = q
      BY <1>2, <2>5, CanliKalir
    <3>. QED BY <2>1, <3>1
  <2>. QED BY <2>4, <2>5
<1>3. ASSUME NEW r \in Kosu, NEW q \in Kosu, Yuk(r)', Yuk(q)', kosu'[r].oge = kosu'[q].oge
      PROVE  r = q
  <2>1. CASE ~(Yuk(r)' => Yuk(r)) \/ ~(Yuk(q)' => Yuk(q))
    BY <1>2, <1>3, <2>1
  <2>2. CASE Yuk(r) /\ Yuk(q)
    <3>1. kosu'[q].oge = kosu[q].oge /\ kosu'[r].oge = kosu[r].oge
      BY <1>3, CanliKalir
    <3>. QED BY <1>3, <2>2, <3>1 DEF IInv, TakipInv
  <2>. QED BY <1>3, <2>1, <2>2
<1>. QED BY <1>1, <1>3 DEF TakipInv

LEMMA EtkiDinlenme ==
    ASSUME IInv, NEW p \in Surec \cup {Yok}, Etki(p)
    PROVE  DinlenmeInv'
<1>. DEFINE d == kuyruk.dinlenKosu
            e == kuyruk'.dinlenKosu
<1>1. /\ d # Yok => d \in Kosu /\ kosu[d].durum # "yok"
      /\ e # Yok => e \in Kosu
  BY DEF IInv, DinlenmeInv, TipInv, TypeOK, Etki, KuyrukEtki, KuyrukSatirlari
<1>2. e # Yok => kosu[e].durum # "yok"
  BY <1>1 DEF Etki, KuyrukEtki
<1>3. \A r \in Kosu : kosu[r].durum # "yok" =>
        /\ kosu'[r].durum # "yok"
        /\ kosu[r].durum \notin AKTIF_KOSU =>
              kosu'[r].durum \notin AKTIF_KOSU /\ (kosu'[r].kilit => kosu[r].kilit)
  BY DEF Etki, KosuEtki, KosuIlerler, Ileri
<1>4. kuyruk'.bitis # "yok" /\ ~bayat' => e = d /\ ~KosuKilitliMi(d)
  BY DEF Etki, KuyrukEtki, IInv, DinlenmeInv, DinlenmeKilitsiz
<1>5. ASSUME kuyruk'.bitis # "yok", ~bayat', e # Yok
      PROVE  kosu'[e].durum \notin AKTIF_KOSU /\ ~kosu'[e].kilit
  BY <1>1, <1>3, <1>4, <1>5 DEF KosuKilitliMi
<1>. QED BY <1>1, <1>2, <1>3, <1>5 DEF DinlenmeInv, DinlenmeKilitsiz, KosuKilitliMi

LEMMA EtkiKorur ==
    ASSUME IInv, NEW p \in Surec \cup {Yok}, Etki(p)
    PROVE  IInv'
<1>1. TipInv' /\ AyriKosu' /\ TakipInv' /\ DinlenmeInv'
  BY EtkiTip, EtkiAyri, EtkiTakip, EtkiDinlenme DEF IInv
<1>2. \A r \in Kosu : KosuKurali(kosu[r])'
  BY DEF Etki, KosuEtki
<1>3. \A o \in Oge : OgeKurali(o)'
  BY EtkiOge
<1>4. \A q \in Surec : SurecKurali(q)'
  <2>. TAKE q \in Surec
  <2>1. CASE q = p
    BY <2>1 DEF Etki, SurecEtki
  <2>2. CASE q # p
    BY <2>2, EtkiDigerSurec
  <2>. QED BY <2>1, <2>2
<1>. QED BY <1>1, <1>2, <1>3, <1>4 DEF IInv

-----------------------------------------------------------------------------
(***************************************************************************)
(* Effects that many actions share                                         *)
(***************************************************************************)

LEMMA OgeKalir ==
    ASSUME TipInv, NEW p, UNCHANGED oge, basma' \in {basma, basma + 1}
    PROVE  OgeEtki(p)
<1>1. \A o \in Oge : oge[o].govde <= basma /\ oge[o].govde \in Nat /\ basma \in Nat
  BY DEF TipInv, TypeOK, OgeSatirlari
<1>. QED BY <1>1 DEF OgeEtki, OgeGecis, TipInv, TypeOK

\* A write of one item.
LEMMA OgeYazilir ==
    ASSUME TipInv, NEW p, NEW o \in Oge, NEW y \in OgeSatirlari, oge' = [oge EXCEPT ![o] = y],
           basma' \in {basma, basma + 1}, y.govde <= basma', OgeGecis(p, o, y)
    PROVE  OgeEtki(p)
<1>1. \A u \in Oge : oge[u].govde <= basma /\ oge[u].govde \in Nat /\ basma \in Nat
  BY DEF TipInv, TypeOK, OgeSatirlari
<1>2. /\ oge' \in [Oge -> OgeSatirlari] /\ oge'[o] = y
      /\ \A u \in Oge \ {o} : oge'[u] = oge[u]
  BY DEF TipInv, TypeOK
<1>3. ASSUME NEW u \in Oge PROVE oge'[u].govde <= basma' /\ OgeGecis(p, u, oge'[u])
  <2>1. CASE u = o
    BY <1>2, <2>1
  <2>2. CASE u # o
    <3>1. oge'[u] = oge[u]
      BY <1>2, <2>2
    <3>. QED BY <1>1, <3>1 DEF OgeGecis
  <2>. QED BY <2>1, <2>2
<1>. QED BY <1>2, <1>3 DEF OgeEtki

LEMMA KosuKalir ==
    ASSUME IInv, NEW p, UNCHANGED kosu
    PROVE  KosuEtki(p)
<1>1. \A q \in Surec : surec[q].adim \in Baslatma =>
         /\ kosu[surec[q].r].durum \in {"QUEUED", "FAILED"} /\ kosu[surec[q].r].awx = "yok"
         /\ kosu[surec[q].r].kilit /\ ~kosu[surec[q].r].iptal
  BY DEF IInv, SurecKurali
<1>2. \A r \in Kosu : KosuGecis(p, r)
  BY <1>1 DEF KosuGecis
<1>3. kosu' \in [Kosu -> KosuSatirlari] /\ \A r \in Kosu : KosuKurali(kosu[r])'
  BY DEF IInv, TipInv, TypeOK, KosuKurali, DurdurulmusKapali, KosuDurduruldu
<1>. QED BY <1>2, <1>3, AyniKosu DEF KosuEtki

\* A write of one run.
LEMMA KosuYazilir ==
    ASSUME IInv, NEW p, NEW r \in Kosu, NEW y \in KosuSatirlari, kosu' = [kosu EXCEPT ![r] = y],
           KosuKurali(y), Ileri(kosu[r], y), KosuGecis(p, r)
    PROVE  KosuEtki(p)
<1>1. kosu \in [Kosu -> KosuSatirlari] /\ \A q \in Kosu : KosuKurali(kosu[q])
  BY DEF IInv, TipInv, TypeOK
<1>2. /\ kosu' \in [Kosu -> KosuSatirlari] /\ \A q \in Kosu : KosuKurali(kosu[q])'
      /\ kosu'[r] = y /\ \A q \in Kosu \ {r} : kosu'[q] = kosu[q]
      /\ KosuIlerler
  BY <1>1, KosuYazar
<1>3. \A q \in Surec : surec[q].adim \in Baslatma =>
         /\ kosu[surec[q].r].durum \in {"QUEUED", "FAILED"} /\ kosu[surec[q].r].awx = "yok"
         /\ kosu[surec[q].r].kilit /\ ~kosu[surec[q].r].iptal
  BY DEF IInv, SurecKurali
<1>4. ASSUME NEW q \in Kosu, q # r PROVE KosuGecis(p, q)
  <2>1. kosu'[q] = kosu[q]
    BY <1>2, <1>4
  <2>. QED BY <1>3, <2>1 DEF KosuGecis
<1>5. \A q \in Kosu : KosuGecis(p, q)
  BY <1>4
<1>. QED BY <1>2, <1>5 DEF KosuEtki

LEMMA KuyrukKalir ==
    ASSUME TipInv, UNCHANGED kuyruk, bayat' = bayat, ariza' \in {ariza, ariza + 1}
    PROVE  KuyrukEtki
<1>1. kuyruk \in KuyrukSatirlari /\ kuyruk.hata <= ariza /\ ariza \in Nat /\ kuyruk.hata \in Nat
  BY DEF TipInv, TypeOK, KuyrukSatirlari
<1>. QED BY <1>1 DEF KuyrukEtki

\* The history of the pauses stays; that of the attempts may change.
GecmisKalir == yorgun' = yorgun /\ bayat' = bayat /\ yarim' \in BOOLEAN

LEMMA YarimYazilir ==
    ASSUME NEW b, Yarim(b)
    PROVE  GecmisKalir
<1>1. yorgun' = yorgun /\ bayat' = bayat /\ yarim' = (yarim \/ b)
  BY DEF Yarim
<1>2. yarim' \in BOOLEAN
  BY <1>1, Zenon
<1>. QED BY <1>1, <1>2 DEF GecmisKalir

LEMMA SayacKalir ==
    ASSUME TipInv, UNCHANGED <<istek, ariza, basma>>, UNCHANGED gecmis \/ GecmisKalir
    PROVE  SayacEtki /\ bayat' = bayat
<1>1. yarim \in BOOLEAN /\ yorgun \in BOOLEAN /\ bayat \in BOOLEAN
  BY DEF TipInv, TypeOK
<1>2. yorgun' = yorgun /\ bayat' = bayat /\ (yarim' = yarim \/ yarim' \in BOOLEAN)
  BY DEF gecmis, GecmisKalir
<1>3. yorgun' \in BOOLEAN /\ bayat' \in BOOLEAN /\ yarim' \in BOOLEAN
  BY <1>1, <1>2, Zenon
<1>. QED BY <1>2, <1>3 DEF TipInv, TypeOK, SayacEtki

LEMMA SurecKalir ==
    ASSUME TipInv, UNCHANGED surec
    PROVE  SurecEtki(Yok)
  BY YokAyri DEF TipInv, TypeOK, SurecEtki, Turlar

\* A turn that holds nothing any more.
LEMMA SakinEtki ==
    ASSUME NEW p \in Surec, surec' \in [Surec -> Turlar],
           \A q \in Surec \ {p} : surec'[q] = surec[q],
           surec'[p].adim \in Sakin, surec'[p].r = Yok
    PROVE  SurecEtki(p)
<1>. DEFINE t == surec'[p]
<1>1. /\ t.adim \notin OgeliAdimlar /\ t.adim \notin NumaraliAdimlar /\ t.adim \notin {"al"} \cup Baslatma
      /\ t.adim \notin Baslatma /\ t.adim \notin {"al", "kanca"} /\ t.adim \notin {"kapatHatali", "dinlen"}
      /\ t.adim # "sirala" /\ t.adim # "ilerlet" /\ t.adim # "baslat" /\ t.adim # "geriAl"
  BY AdimAdlari
<1>2. TurTipi(t)
  BY <1>1 DEF TurTipi
<1>3. TurGecis(p)
  BY <1>1 DEF TurGecis
<1>4. t.adim \notin {"ilerlet", "sirala"}
  BY <1>1
<1>5. SurecKurali(p)'
  BY <1>1, <1>4 DEF SurecKurali
<1>. QED BY <1>2, <1>3, <1>5 DEF SurecEtki

\* A turn at a step of which nothing is asked but its item.
LEMMA SadeEtki ==
    ASSUME NEW p \in Surec, surec' \in [Surec -> Turlar],
           \A q \in Surec \ {p} : surec'[q] = surec[q],
           surec'[p].adim \in {"kapi", "ertele", "kapatGecici", "kapatAtla"},
           surec'[p].o \in Oge, surec'[p].adim = "kapi" => surec'[p].r = Yok
    PROVE  SurecEtki(p)
<1>. DEFINE t == surec'[p]
<1>1. TurTipi(t)
  BY DEF TurTipi, OgeliAdimlar, NumaraliAdimlar, NumarasizAdimlar, Sakin, Baslatma
<1>2. TurGecis(p)
  BY DEF TurGecis, Baslatma
<1>3. SurecKurali(p)'
  BY DEF SurecKurali, Baslatma
<1>. QED BY <1>1, <1>2, <1>3 DEF SurecEtki

LEMMA DurEtki ==
    ASSUME TipInv, NEW p \in Surec, Dur(p)
    PROVE  SurecEtki(p)
<1>1. surec \in [Surec -> Turlar]
  BY DEF TipInv, TypeOK, Turlar
<1>. QED BY <1>1, DurTuru, SakinEtki

LEMMA DevamEtki ==
    ASSUME TipInv, NEW p \in Surec, Devam(p)
    PROVE  SurecEtki(p)
<1>1. surec \in [Surec -> Turlar]
  BY DEF TipInv, TypeOK, Turlar
<1>. QED BY <1>1, DevamTuru, SakinEtki

LEMMA BosEtki ==
    ASSUME TipInv, NEW p \in Surec, NEW adim \in Sakin,
           \/ surec' = [surec EXCEPT ![p] = [SurecBos EXCEPT !.adim = adim]]
           \/ surec' = [surec EXCEPT ![p] = SurecBos]
    PROVE  SurecEtki(p)
<1>1. surec \in [Surec -> Turlar]
  BY DEF TipInv, TypeOK, Turlar
<1>2. CASE surec' = [surec EXCEPT ![p] = [SurecBos EXCEPT !.adim = adim]]
  BY <1>1, <1>2, TurBirakir, SakinEtki
<1>3. CASE surec' = [surec EXCEPT ![p] = SurecBos]
  <2>. DEFINE b == SurecBos
  <2>1. b \in Turlar /\ b.adim \in Sakin /\ b.r = Yok
    BY BosTur, AdimAdlari
  <2>. HIDE DEF b
  <2>2. surec' = [surec EXCEPT ![p] = b]
    BY <1>3 DEF b
  <2>. QED BY <1>1, <2>1, <2>2, SakinEtki
<1>. QED BY <1>2, <1>3

\* The loop goes on once the item is written, or the turn ends.
LEMMA YazarEtki ==
    ASSUME TipInv, NEW p \in Surec, NEW o \in Oge, NEW y, basma' = basma,
           \/ /\ oge' = [oge EXCEPT ![o] = y] /\ Devam(p)
              /\ y \in OgeSatirlari /\ y.govde <= basma /\ OgeGecis(p, o, y)
           \/ UNCHANGED oge /\ Dur(p)
    PROVE  OgeEtki(p) /\ SurecEtki(p)
<1>1. CASE UNCHANGED oge /\ Dur(p)
  BY <1>1, OgeKalir, DurEtki
<1>2. CASE /\ oge' = [oge EXCEPT ![o] = y] /\ Devam(p)
           /\ y \in OgeSatirlari /\ y.govde <= basma /\ OgeGecis(p, o, y)
  BY <1>2, OgeYazilir, DevamEtki
<1>. QED BY <1>1, <1>2

LEMMA KapanmisSatir ==
    ASSUME TipInv, NEW p, NEW o \in Oge, NEW beklenen, NEW yeni \in KapaliOge,
           NEW y, y = Kapanmis(oge[o], beklenen, yeni)
    PROVE  y \in OgeSatirlari /\ y.govde <= basma /\ OgeGecis(p, o, y)
<1>1. oge[o] \in OgeSatirlari /\ oge[o].govde <= basma
  BY DEF TipInv, TypeOK
<1>2. CASE oge[o].durum = beklenen
  BY <1>1, <1>2 DEF Kapanmis, OgeSatirlari, OGE_DURUMLARI, KapaliOge, OgeGecis
<1>3. CASE oge[o].durum # beklenen
  BY <1>1, <1>3 DEF Kapanmis, OgeGecis
<1>. QED BY <1>2, <1>3

LEMMA KapatVeEtki ==
    ASSUME TipInv, NEW p \in Surec, surec[p].o \in Oge, NEW yeni \in KapaliOge, basma' = basma,
           KapatVe(p, yeni)
    PROVE  OgeEtki(p) /\ SurecEtki(p)
<1>. DEFINE y == Kapanmis(oge[surec[p].o], "CALISIYOR", yeni)
<1>1. y \in OgeSatirlari /\ y.govde <= basma /\ OgeGecis(p, surec[p].o, y)
  BY KapanmisSatir
<1>2. \/ oge' = [oge EXCEPT ![surec[p].o] = y] /\ Devam(p)
      \/ UNCHANGED oge /\ Dur(p)
  BY DEF KapatVe, Yazar
<1>. HIDE DEF y
<1>. QED BY <1>1, <1>2, YazarEtki

\* A turn that writes its item and nothing else.
LEMMA OgeAdimEtkisi ==
    ASSUME IInv, NEW p, UNCHANGED <<kuyruk, kosu, istek, ariza, basma>>,
           UNCHANGED gecmis \/ GecmisKalir, OgeEtki(p) /\ SurecEtki(p)
    PROVE  Etki(p)
<1>1. TipInv
  BY DEF IInv
<1>2. KosuEtki(p) /\ KuyrukEtki /\ SayacEtki
  BY <1>1, KosuKalir, KuyrukKalir, SayacKalir
<1>. QED BY <1>2 DEF Etki

-----------------------------------------------------------------------------
(***************************************************************************)
(* The turn: lease, queue row, running item, next item                     *)
(***************************************************************************)

LEMMA TurTipleri ==
    ASSUME TipInv, NEW p \in Surec
    PROVE  /\ surec \in [Surec -> Turlar] /\ surec[p] \in Turlar /\ TurTipi(surec[p])
           /\ surec[p].goz \in OgeSatirlari /\ surec[p].k \in KuyrukGozu
           /\ kuyruk \in KuyrukSatirlari /\ oge \in [Oge -> OgeSatirlari]
           /\ kosu \in [Kosu -> KosuSatirlari]
  BY DEF TipInv, TypeOK, Turlar, KuyrukSatirlari

\* A step that moves the turn and writes no row.
LEMMA TurAdimEtkisi ==
    ASSUME IInv, NEW p, UNCHANGED <<kuyruk, oge, kosu, istek, gecmis, ariza, basma>>, SurecEtki(p)
    PROVE  Etki(p)
<1>1. TipInv
  BY DEF IInv
<1>2. OgeEtki(p)
  BY <1>1, OgeKalir
<1>. QED BY <1>2, OgeAdimEtkisi

\* A step that writes the queue.
LEMMA KuyrukAdimEtkisi ==
    ASSUME IInv, NEW p, UNCHANGED <<oge, kosu, istek, ariza, basma>>,
           UNCHANGED gecmis \/ GecmisKalir, KuyrukEtki, SurecEtki(p)
    PROVE  Etki(p)
<1>1. TipInv
  BY DEF IInv
<1>2. OgeEtki(p) /\ KosuEtki(p) /\ SayacEtki
  BY <1>1, OgeKalir, KosuKalir, SayacKalir
<1>. QED BY <1>2 DEF Etki

\* A write of the queue that leaves its rest alone.
LEMMA KuyrukYazilir ==
    ASSUME TipInv, kuyruk' \in KuyrukSatirlari, kuyruk'.hata \in {0, kuyruk.hata},
           kuyruk'.dinlenKosu = kuyruk.dinlenKosu, kuyruk'.bitis = kuyruk.bitis,
           bayat' = bayat, ariza' \in {ariza, ariza + 1}
    PROVE  KuyrukEtki
<1>1. kuyruk.hata <= ariza /\ ariza \in Nat /\ kuyruk.hata \in Nat
  BY DEF TipInv, TypeOK
<1>. QED BY <1>1 DEF KuyrukEtki

LEMMA GitEtki ==
    ASSUME TipInv, NEW p \in Surec, surec[p].adim \in Sakin, NEW adim \in Sakin, Git(p, adim)
    PROVE  SurecEtki(p)
<1>1. surec \in [Surec -> Turlar] /\ surec[p].r = Yok /\ adim \in Adimlar
  BY TurTipleri, AdimAdlari DEF TurTipi
<1>. QED BY <1>1, GitTuru, SakinEtki

LEMMA KiraAlEtki == ASSUME IInv, NEW p \in Surec, KiraAl(p) PROVE Etki(p)
<1>1. TipInv
  BY DEF IInv
<1>2. SurecEtki(p)
  BY <1>1, AdimAdlari, GitEtki DEF KiraAl
<1>3. kuyruk \in KuyrukSatirlari /\ kuyruk' = [kuyruk EXCEPT !.kira = p, !.gecerli = TRUE]
  BY <1>1, TurTipleri DEF KiraAl
<1>4. /\ kuyruk' \in KuyrukSatirlari /\ kuyruk'.hata = kuyruk.hata
      /\ kuyruk'.dinlenKosu = kuyruk.dinlenKosu /\ kuyruk'.bitis = kuyruk.bitis
  BY <1>3 DEF KuyrukSatirlari
<1>5. UNCHANGED <<oge, kosu, istek, ariza, basma>> /\ GecmisKalir
  BY YarimYazilir DEF KiraAl
<1>6. KuyrukEtki
  BY <1>1, <1>4, <1>5, KuyrukYazilir DEF GecmisKalir
<1>. QED BY <1>2, <1>5, <1>6, KuyrukAdimEtkisi

LEMMA KuyrukOkuEtki == ASSUME IInv, NEW p \in Surec, KuyrukOku(p) PROVE Etki(p)
<1>1. TipInv
  BY DEF IInv
<1>. DEFINE k == [f \in {"durum", "duraklat", "dinlenKosu", "bitis"} |-> kuyruk[f]]
            t == [surec[p] EXCEPT !.adim = "oge", !.k = k]
<1>2. surec \in [Surec -> Turlar] /\ surec[p].adim = "oku" /\ surec[p].r = Yok /\ surec[p] \in Turlar
  BY <1>1, TurTipleri, AdimAdlari DEF TurTipi, KuyrukOku
<1>3. k \in KuyrukGozu
  BY <1>1, TurTipleri DEF KuyrukSatirlari, KuyrukGozu
<1>4. surec' = [surec EXCEPT ![p] = t]
  BY <1>2 DEF KuyrukOku
<1>. HIDE DEF k
<1>5. t \in Turlar /\ t.adim = "oge" /\ t.r = Yok
  BY <1>2, <1>3 DEF Turlar, Adimlar
<1>. HIDE DEF t
<1>6. SurecEtki(p)
  BY <1>2, <1>4, <1>5, AdimAdlari, SakinEtki
<1>. QED BY <1>6, TurAdimEtkisi DEF KuyrukOku

LEMMA KuyrukBaslaEtki == ASSUME IInv, NEW p \in Surec, KuyrukBasla(p) PROVE Etki(p)
<1>1. TipInv
  BY DEF IInv
<1>2. SurecEtki(p)
  BY <1>1, DurEtki, DevamEtki DEF KuyrukBasla
<1>3. kuyruk \in KuyrukSatirlari /\ (kuyruk' = kuyruk \/ kuyruk' = [kuyruk EXCEPT !.durum = "CALISIYOR"])
  BY <1>1, TurTipleri DEF KuyrukBasla
<1>4. /\ kuyruk' \in KuyrukSatirlari /\ kuyruk'.hata = kuyruk.hata
      /\ kuyruk'.dinlenKosu = kuyruk.dinlenKosu /\ kuyruk'.bitis = kuyruk.bitis
  BY <1>3 DEF KuyrukSatirlari, KUYRUK_DURUMLARI, AKTIF_KUYRUK
<1>5. UNCHANGED <<oge, kosu, istek, gecmis, ariza, basma>>
  BY DEF KuyrukBasla
<1>. QED BY <1>1, <1>2, <1>4, <1>5, KuyrukYazilir, KuyrukAdimEtkisi DEF gecmis

LEMMA CalisanOgeEtki == ASSUME IInv, NEW p \in Surec, CalisanOge(p) PROVE Etki(p)
<1>1. TipInv
  BY DEF IInv
<1>2. surec \in [Surec -> Turlar] /\ surec[p].adim = "oge" /\ surec[p].r = Yok /\ surec[p] \in Turlar
  BY <1>1, TurTipleri, AdimAdlari DEF TurTipi, CalisanOge
<1>3. ASSUME NEW o \in Oge, oge[o].durum = "CALISIYOR",
             surec' = [surec EXCEPT ![p].adim = "ilerlet", ![p].o = o, ![p].goz = Kopya(oge[o])]
      PROVE  SurecEtki(p)
  <2>. DEFINE x == oge[o]
              g == Kopya(x)
              t == [surec[p] EXCEPT !.adim = "ilerlet", !.o = o, !.goz = g]
  <2>1. x \in OgeSatirlari /\ OgeKurali(o)
    BY <1>1 DEF IInv, TipInv, TypeOK
  <2>2. g \in OgeSatirlari /\ g.ok = x.ok /\ g.kosu = x.kosu /\ g.govde = x.govde
    BY <2>1 DEF Kopya, OgeSatirlari
  <2>3. surec' = [surec EXCEPT ![p] = t]
    BY <1>2, <1>3
  <2>4. t \in Turlar /\ t.adim = "ilerlet" /\ t.o = o /\ t.goz = g /\ t.r = Yok
    BY <1>2, <2>2 DEF Turlar, Adimlar
  <2>. HIDE DEF g, t
  <2>5. surec' \in [Surec -> Turlar] /\ surec'[p] = t /\ \A q \in Surec \ {p} : surec'[q] = surec[q]
    BY <1>2, <2>3, <2>4
  <2>6. TurTipi(t) /\ t.adim \notin Baslatma
    BY <2>4 DEF TurTipi, OgeliAdimlar, NumaraliAdimlar, Baslatma
  <2>7. /\ g.ok # Yok => kosu[g.ok].durum # "yok" /\ kosu[g.ok].govde = g.govde
        /\ g.kosu # Yok => kosu[g.kosu].durum # "yok"
    BY <1>3, <2>1, <2>2 DEF OgeKurali, Onun
  <2>8. kosu' = kosu
    BY DEF CalisanOge
  <2>9. SurecKurali(p)'
    BY <2>4, <2>5, <2>6, <2>7, <2>8 DEF SurecKurali
  <2>. QED BY <2>5, <2>6, <2>9 DEF SurecEtki, TurGecis
<1>4. SurecEtki(p)
  BY <1>1, <1>2, <1>3, AdimAdlari, GitEtki, DurEtki DEF CalisanOge
<1>. QED BY <1>4, TurAdimEtkisi DEF CalisanOge

LEMMA SiradakiOgeEtki == ASSUME IInv, NEW p \in Surec, SiradakiOge(p) PROVE Etki(p)
<1>1. TipInv
  BY DEF IInv
<1>2. surec \in [Surec -> Turlar] /\ surec[p].adim = "siradaki" /\ surec[p].r = Yok /\ surec[p] \in Turlar
  BY <1>1, TurTipleri, AdimAdlari DEF TurTipi, SiradakiOge
<1>3. ASSUME NEW o \in Oge,
             surec' = [surec EXCEPT ![p].adim = "kapi", ![p].o = o, ![p].goz = Kopya(oge[o])]
      PROVE  SurecEtki(p)
  <2>. DEFINE g == Kopya(oge[o])
              t == [surec[p] EXCEPT !.adim = "kapi", !.o = o, !.goz = g]
  <2>1. g \in OgeSatirlari
    BY <1>1, TurTipleri DEF Kopya, OgeSatirlari
  <2>2. surec' = [surec EXCEPT ![p] = t]
    BY <1>2, <1>3
  <2>3. t \in Turlar /\ t.adim = "kapi" /\ t.o = o /\ t.r = Yok
    BY <1>2, <2>1 DEF Turlar, Adimlar
  <2>. HIDE DEF t
  <2>. QED BY <1>2, <2>2, <2>3, SadeEtki
<1>4. SurecEtki(p)
  BY <1>1, <1>3, DurEtki DEF SiradakiOge
<1>5. /\ kuyruk \in KuyrukSatirlari
      /\ \E d \in {kuyruk.durum, "BITTI"} : kuyruk' = [kuyruk EXCEPT !.durum = d]
  <2>1. kuyruk \in KuyrukSatirlari
    BY <1>1, TurTipleri
  <2>2. CASE UNCHANGED kuyruk
    BY <2>1, <2>2 DEF KuyrukSatirlari
  <2>3. CASE ~UNCHANGED kuyruk
    BY <2>1, <2>3 DEF SiradakiOge
  <2>. QED BY <2>1, <2>2, <2>3
<1>6. /\ kuyruk' \in KuyrukSatirlari /\ kuyruk'.hata = kuyruk.hata
      /\ kuyruk'.dinlenKosu = kuyruk.dinlenKosu /\ kuyruk'.bitis = kuyruk.bitis
  BY <1>5 DEF KuyrukSatirlari, KUYRUK_DURUMLARI
<1>7. UNCHANGED <<oge, kosu, istek, gecmis, ariza, basma>>
  BY DEF SiradakiOge
<1>. QED BY <1>1, <1>4, <1>6, <1>7, KuyrukYazilir, KuyrukAdimEtkisi DEF gecmis

-----------------------------------------------------------------------------
(***************************************************************************)
(* The gates and the claim                                                 *)
(***************************************************************************)

LEMMA GeciciEtki ==
    ASSUME TipInv, NEW p \in Surec, surec[p].o \in Oge, NEW d \in OGE_DURUMLARI, GeciciSonu(p, d)
    PROVE  SurecEtki(p)
<1>1. surec \in [Surec -> Turlar]
  BY TurTipleri
<1>2. /\ surec' \in [Surec -> Turlar] /\ \A q \in Surec \ {p} : surec'[q] = surec[q]
      /\ surec'[p].adim \in {"kapatGecici", "ertele"} /\ surec'[p].o \in Oge
  BY <1>1, GeciciTuru
<1>. QED BY <1>2, SadeEtki

LEMMA NedenYazEtki ==
    ASSUME TipInv, NEW p, NEW o \in Oge, NEW beklenen, NedenYaz(o, beklenen), basma' = basma
    PROVE  OgeEtki(p)
<1>. DEFINE x == oge[o]
            n == IF x.durum = beklenen THEN Artir(x.deneme) ELSE x.deneme
            y == [x EXCEPT !.deneme = n]
<1>1. x \in OgeSatirlari /\ x.govde <= basma /\ oge \in [Oge -> OgeSatirlari]
  BY DEF TipInv, TypeOK
<1>2. n \in Nat
  BY <1>1 DEF OgeSatirlari, Artir
<1>3. oge' = [oge EXCEPT ![o] = y]
  BY <1>1 DEF NedenYaz
<1>. HIDE DEF n
<1>4. y \in OgeSatirlari /\ y.govde <= basma /\ OgeGecis(p, o, y)
  BY <1>1, <1>2 DEF OgeSatirlari, OgeGecis
<1>. HIDE DEF y
<1>. QED BY <1>3, <1>4, OgeYazilir

LEMMA KapiHataEtki == ASSUME IInv, NEW p \in Surec, KapiHata(p) PROVE Etki(p)
<1>1. TipInv /\ surec[p].o \in Oge
  BY TurTipleri DEF IInv, KapiHata, TurTipi, OgeliAdimlar
<1>2. OgeEtki(p)
  BY <1>1, NedenYazEtki DEF KapiHata
<1>3. SurecEtki(p)
  BY <1>1, GeciciEtki DEF KapiHata, OGE_DURUMLARI
<1>4. UNCHANGED <<kuyruk, kosu, istek, ariza, basma>> /\ GecmisKalir
  BY YarimYazilir DEF KapiHata
<1>. QED BY <1>2, <1>3, <1>4, OgeAdimEtkisi

LEMMA OgeAtlaEtki == ASSUME IInv, NEW p \in Surec, OgeAtla(p) PROVE Etki(p)
<1>. DEFINE o == surec[p].o
            y == [oge[o] EXCEPT !.durum = "ATLANDI", !.token = Yok]
<1>1. TipInv /\ o \in Oge
  BY TurTipleri DEF IInv, OgeAtla, TurTipi, OgeliAdimlar
<1>2. oge[o] \in OgeSatirlari /\ oge[o].govde <= basma
  BY <1>1 DEF TipInv, TypeOK
<1>3. y \in OgeSatirlari /\ y.govde <= basma /\ OgeGecis(p, o, y)
  BY <1>2 DEF OgeSatirlari, OGE_DURUMLARI, KapaliOge, OgeGecis
<1>4. \/ oge' = [oge EXCEPT ![o] = y] /\ Devam(p)
      \/ UNCHANGED oge /\ Dur(p)
  BY DEF OgeAtla, Yazar
<1>5. UNCHANGED <<kuyruk, kosu, istek, gecmis, ariza, basma>>
  BY DEF OgeAtla
<1>. HIDE DEF y, o
<1>6. OgeEtki(p) /\ SurecEtki(p)
  BY <1>1, <1>3, <1>4, <1>5, YazarEtki
<1>. QED BY <1>5, <1>6, OgeAdimEtkisi

LEMMA OgeSahiplenEtki == ASSUME IInv, NEW p \in Surec, OgeSahiplen(p) PROVE Etki(p)
<1>. DEFINE s == surec[p]
            o == s.o
            x == oge[o]
            y == [x EXCEPT !.durum = "CALISIYOR", !.asama = "on_kontrol", !.token = p]
            g == [s.goz EXCEPT !.asama = "on_kontrol"]
            t == [s EXCEPT !.adim = "al", !.goz = g]
<1>1. /\ TipInv /\ o \in Oge /\ s \in Turlar /\ surec \in [Surec -> Turlar] /\ s.r = Yok /\ s.goz \in OgeSatirlari
  BY TurTipleri DEF IInv, OgeSahiplen, TurTipi, OgeliAdimlar, NumarasizAdimlar
<1>2. x \in OgeSatirlari /\ x.govde <= basma
  BY <1>1 DEF TipInv, TypeOK
<1>3. CASE ~Sahiplenilir(p) /\ UNCHANGED oge /\ Dur(p)
  BY <1>1, <1>3, OgeKalir, DurEtki, OgeAdimEtkisi DEF OgeSahiplen
<1>4. CASE /\ Sahiplenilir(p)
           /\ oge' = [oge EXCEPT ![s.o] =
                 [@ EXCEPT !.durum = "CALISIYOR", !.asama = "on_kontrol", !.token = p]]
           /\ surec' = [surec EXCEPT ![p].adim = "al", ![p].goz.asama = "on_kontrol"]
  <2>1. x.durum = "BEKLIYOR" /\ x.ok = Yok /\ x.kosu = Yok /\ x.govde = s.goz.govde
    BY <1>4 DEF Sahiplenilir
  <2>2. /\ y \in OgeSatirlari /\ y.govde = x.govde /\ OgeGecis(p, o, y)
    BY <1>2, <2>1 DEF OgeSatirlari, OGE_DURUMLARI, OgeGecis
  <2>3. oge' = [oge EXCEPT ![o] = y] /\ surec' = [surec EXCEPT ![p] = t]
    BY <1>4
  <2>4. UNCHANGED <<kuyruk, kosu, istek, gecmis, ariza, basma>>
    BY DEF OgeSahiplen
  <2>5. g \in OgeSatirlari /\ g.asama = "on_kontrol" /\ g.govde = s.goz.govde
    BY <1>1 DEF OgeSatirlari
  <2>. HIDE DEF g
  <2>6. t \in Turlar /\ t.adim = "al" /\ t.o = o /\ t.r = Yok /\ t.goz = g
    BY <1>1, <2>5 DEF Turlar, Adimlar
  <2>. HIDE DEF t, y
  <2>7. OgeEtki(p)
    BY <1>1, <1>2, <2>2, <2>3, <2>4, OgeYazilir
  <2>8. /\ surec' \in [Surec -> Turlar] /\ surec'[p] = t /\ \A q \in Surec \ {p} : surec'[q] = surec[q]
        /\ oge'[o] = y
    BY <1>1, <2>3, <2>6 DEF TipInv, TypeOK
  <2>9. TurTipi(t) /\ t.adim \notin Baslatma
    BY <1>1, <2>5, <2>6 DEF TurTipi, OgeliAdimlar, NumaraliAdimlar, Baslatma
  <2>10. SurecKurali(p)'
    BY <2>1, <2>2, <2>5, <2>6, <2>8, <2>9 DEF SurecKurali
  <2>11. SurecEtki(p)
    BY <2>8, <2>9, <2>10 DEF SurecEtki, TurGecis
  <2>. QED BY <2>4, <2>7, <2>11, OgeAdimEtkisi
<1>. QED BY <1>3, <1>4 DEF OgeSahiplen

-----------------------------------------------------------------------------
(***************************************************************************)
(* The launch                                                              *)
(***************************************************************************)

\* The row of a run under its launch, which no other turn has.
LEMMA BaslatmaSatiri ==
    ASSUME IInv, NEW p \in Surec, surec[p].adim \in Baslatma, NEW r, r = surec[p].r
    PROVE  /\ r \in Kosu /\ kosu[r] \in KosuSatirlari /\ KosuKurali(kosu[r])
           /\ kosu[r].durum \in {"QUEUED", "FAILED"} /\ kosu[r].awx = "yok"
           /\ kosu[r].kilit /\ ~kosu[r].iptal
           /\ ~\E q \in Surec \ {p} : surec[q].adim \in Baslatma /\ surec[q].r = r
<1>1. r \in Kosu /\ kosu \in [Kosu -> KosuSatirlari]
  BY TurTipleri DEF IInv, TurTipi, NumaraliAdimlar
<1>2. /\ kosu[r].durum \in {"QUEUED", "FAILED"} /\ kosu[r].awx = "yok"
      /\ kosu[r].kilit /\ ~kosu[r].iptal
  BY DEF IInv, SurecKurali
<1>3. ~\E q \in Surec \ {p} : surec[q].adim \in Baslatma /\ surec[q].r = r
  BY DEF IInv, AyriKosu
<1>. QED BY <1>1, <1>2, <1>3 DEF IInv

\* A step of a launch: no queue row, perhaps a fault, perhaps a load.
LEMMA BaslatmaAdimEtkisi ==
    ASSUME IInv, NEW p, UNCHANGED <<kuyruk, istek, basma>>, ariza' = ariza \/ Ariza,
           UNCHANGED gecmis \/ GecmisKalir \/ \E r \in Kosu : Yorulur(r),
           OgeEtki(p), KosuEtki(p), SurecEtki(p)
    PROVE  Etki(p)
<1>1. TipInv /\ ariza \in Nat /\ ariza \in 0 .. EnCokAriza
  BY DEF IInv, TipInv, TypeOK
<1>2. ariza' \in {ariza, ariza + 1} /\ ariza' \in 0 .. EnCokAriza
  BY <1>1, KuyrukSinirlari DEF Ariza
<1>3. yorgun' \in BOOLEAN /\ bayat' = bayat /\ yarim' \in BOOLEAN
  <2>1. yorgun \in BOOLEAN /\ yarim \in BOOLEAN
    BY <1>1 DEF TipInv, TypeOK
  <2>2. CASE UNCHANGED gecmis \/ GecmisKalir
    BY <2>1, <2>2 DEF gecmis, GecmisKalir
  <2>3. ASSUME NEW r \in Kosu, Yorulur(r) PROVE yorgun' \in BOOLEAN /\ bayat' = bayat /\ yarim' \in BOOLEAN
    BY <2>1, <2>3, Zenon DEF Yorulur
  <2>. QED BY <2>2, <2>3
<1>4. KuyrukEtki
  BY <1>1, <1>2, <1>3, KuyrukKalir
<1>5. SayacEtki
  BY <1>1, <1>2, <1>3 DEF SayacEtki, TipInv, TypeOK
<1>. QED BY <1>4, <1>5 DEF Etki

LEMMA AlEtki == ASSUME IInv, NEW p \in Surec, Al(p) PROVE Etki(p)
<1>. DEFINE s == surec[p]
<1>1. /\ TipInv /\ s.o \in Oge /\ s \in Turlar /\ surec \in [Surec -> Turlar]
      /\ s.goz.asama \in {"on_kontrol", "kosu"} /\ s.goz.govde \in 0 .. EnCokBasma /\ s.adim = "al"
  BY TurTipleri DEF IInv, Al, TurTipi, OgeliAdimlar, OgeSatirlari
<1>2. PICK r \in Kosu :
        /\ kosu[r].durum = "yok"
        /\ kosu' = [kosu EXCEPT ![r] = [KosuYok EXCEPT
                !.durum = "QUEUED", !.islem = s.goz.asama, !.oge = s.o,
                !.govde = s.goz.govde, !.kilit = TRUE]]
        /\ surec' = [surec EXCEPT ![p].adim = "kanca", ![p].r = r]
  BY DEF Al
<1>. DEFINE i == s.goz.asama
            g == s.goz.govde
            o == s.o
            y == [KosuYok EXCEPT !.durum = "QUEUED", !.islem = i, !.oge = o, !.govde = g, !.kilit = TRUE]
            t == [s EXCEPT !.adim = "kanca", !.r = r]
<1>3. kosu[r] \in KosuSatirlari /\ kosu[r].awx = "yok" /\ kosu \in [Kosu -> KosuSatirlari]
  BY <1>1, <1>2 DEF IInv, KosuKurali, TipInv, TypeOK
<1>4. kosu' = [kosu EXCEPT ![r] = y]
  BY <1>2
<1>5. /\ y \in KosuSatirlari /\ KosuKurali(y) /\ Ileri(kosu[r], y)
      /\ y.durum = "QUEUED" /\ y.awx = "yok" /\ y.kilit /\ ~y.iptal
      /\ y.oge = o /\ y.islem = i /\ y.govde = g
  <2>1. i \in {"on_kontrol", "kosu"} /\ g \in 0 .. EnCokBasma /\ o \in Oge
    BY <1>1
  <2>. HIDE DEF i, g, o
  <2>. QED BY <1>2, <2>1 DEF KosuSatirlari, KosuYok, KosuKurali, DurdurulmusKapali, KosuDurduruldu,
                             AKTIF_KOSU, Ileri
<1>. HIDE DEF y
<1>6. kosu'[r] = y
  BY <1>3, <1>4
<1>7. \A q \in Surec : surec[q].adim \in Baslatma => kosu[surec[q].r].durum # "yok"
  BY DEF IInv, SurecKurali
<1>8. KosuGecis(p, r)
  BY <1>2, <1>3, <1>5, <1>6, <1>7 DEF KosuGecis
<1>9. KosuEtki(p)
  BY <1>4, <1>5, <1>8, KosuYazilir
<1>10. surec' = [surec EXCEPT ![p] = t] /\ UNCHANGED <<kuyruk, oge, istek, gecmis, ariza, basma>>
  BY <1>1, <1>2 DEF Al
<1>11. t \in Turlar /\ t.adim = "kanca" /\ t.r = r /\ t.o = s.o /\ t.goz = s.goz
  BY <1>1 DEF Turlar, Adimlar
<1>. HIDE DEF t
<1>12. surec' \in [Surec -> Turlar] /\ surec'[p] = t /\ \A q \in Surec \ {p} : surec'[q] = surec[q]
  BY <1>1, <1>10, <1>11
<1>13. TurTipi(t) /\ TurGecis(p)
  BY <1>1, <1>2, <1>11, <1>12 DEF TurTipi, OgeliAdimlar, NumaraliAdimlar, NumarasizAdimlar, Sakin, Baslatma, TurGecis
<1>14. oge[s.o].durum = "CALISIYOR" /\ oge[s.o].token = p => oge[s.o].govde = s.goz.govde
  BY <1>1 DEF IInv, SurecKurali
<1>15. SurecKurali(p)'
  BY <1>5, <1>6, <1>10, <1>11, <1>12, <1>14 DEF SurecKurali, Baslatma
<1>16. SurecEtki(p) /\ OgeEtki(p)
  BY <1>1, <1>10, <1>12, <1>13, <1>15, OgeKalir DEF SurecEtki
<1>. QED BY <1>9, <1>10, <1>16, BaslatmaAdimEtkisi

LEMMA AlinamazEtki == ASSUME IInv, NEW p \in Surec, Alinamaz(p) PROVE Etki(p)
<1>. DEFINE s == surec[p]
<1>1. /\ TipInv /\ s.o \in Oge /\ s \in Turlar /\ surec \in [Surec -> Turlar] /\ s.r = Yok
  BY TurTipleri DEF IInv, Alinamaz, TurTipi, OgeliAdimlar, NumarasizAdimlar
<1>2. ASSUME NEW t \in Turlar, t.adim = "geriAl", t.r = Yok, t.o \in Oge, surec' = [surec EXCEPT ![p] = t]
      PROVE  SurecEtki(p)
  <2>1. surec' \in [Surec -> Turlar] /\ surec'[p] = t /\ \A q \in Surec \ {p} : surec'[q] = surec[q]
    BY <1>1, <1>2
  <2>2. TurTipi(t)
    BY <1>2 DEF TurTipi, NumaraliAdimlar, NumarasizAdimlar, Sakin, OgeliAdimlar, Baslatma
  <2>3. SurecKurali(p)' /\ TurGecis(p)
    BY <1>2, <2>1 DEF SurecKurali, TurGecis, Baslatma
  <2>. QED BY <2>1, <2>2, <2>3 DEF SurecEtki
<1>3. ASSUME Git(p, "geriAl") PROVE SurecEtki(p)
  <2>. DEFINE t == [s EXCEPT !.adim = "geriAl"]
  <2>1. t \in Turlar /\ t.adim = "geriAl" /\ t.r = Yok /\ t.o \in Oge
    BY <1>1 DEF Turlar, Adimlar
  <2>2. surec' = [surec EXCEPT ![p] = t]
    BY <1>3 DEF Git
  <2>. HIDE DEF t
  <2>. QED BY <1>2, <2>1, <2>2
<1>4. ASSUME surec' = [surec EXCEPT ![p].adim = "geriAl", ![p].sayilir = TRUE]
      PROVE  SurecEtki(p)
  <2>. DEFINE t == [s EXCEPT !.adim = "geriAl", !.sayilir = TRUE]
  <2>1. t \in Turlar /\ t.adim = "geriAl" /\ t.r = Yok /\ t.o \in Oge
    BY <1>1 DEF Turlar, Adimlar
  <2>2. surec' = [surec EXCEPT ![p] = t]
    BY <1>1, <1>4
  <2>. HIDE DEF t
  <2>. QED BY <1>2, <2>1, <2>2
<1>5. ASSUME Git(p, "kapatAtla") PROVE SurecEtki(p)
  <2>1. "kapatAtla" \in Adimlar
    BY DEF Adimlar
  <2>2. /\ surec' \in [Surec -> Turlar] /\ \A q \in Surec \ {p} : surec'[q] = surec[q]
        /\ surec'[p].adim = "kapatAtla" /\ surec'[p].o = s.o
    BY <1>1, <1>5, <2>1, GitTuru
  <2>3. surec'[p].o \in Oge
    BY <1>1, <2>2
  <2>. HIDE DEF s
  <2>. QED BY <2>2, <2>3, SadeEtki
<1>6. UNCHANGED <<kuyruk, oge, kosu, istek, gecmis, basma>> /\ (ariza' = ariza \/ Ariza)
  BY DEF Alinamaz
<1>7. OgeEtki(p) /\ KosuEtki(p) /\ SurecEtki(p)
  BY <1>1, <1>3, <1>4, <1>5, <1>6, OgeKalir, KosuKalir DEF Alinamaz
<1>. QED BY <1>6, <1>7, BaslatmaAdimEtkisi

LEMMA KancaEtki == ASSUME IInv, NEW p \in Surec, Kanca(p) PROVE Etki(p)
<1>. DEFINE s == surec[p]
            o == s.o
            r == s.r
            x == oge[o]
<1>1. /\ TipInv /\ o \in Oge /\ s \in Turlar /\ surec \in [Surec -> Turlar] /\ s.adim = "kanca"
      /\ s.goz.asama \in {"on_kontrol", "kosu"} /\ s.adim \in Baslatma
  BY TurTipleri DEF IInv, Kanca, TurTipi, OgeliAdimlar, Baslatma
<1>2. /\ r \in Kosu /\ kosu[r] \in KosuSatirlari /\ KosuKurali(kosu[r])
      /\ kosu[r].durum \in {"QUEUED", "FAILED"} /\ kosu[r].awx = "yok"
      /\ kosu[r].kilit /\ ~kosu[r].iptal
      /\ ~\E q \in Surec \ {p} : surec[q].adim \in Baslatma /\ surec[q].r = r
  BY <1>1, BaslatmaSatiri
<1>3. UNCHANGED <<kuyruk, istek, gecmis, basma>> /\ (ariza' = ariza \/ Ariza)
  BY DEF Kanca
<1>4. CASE /\ NumaraYazilir(p)
           /\ oge' = [oge EXCEPT ![o] = Numarali(@, r)]
           /\ Git(p, "baslat")
           /\ UNCHANGED <<kosu, ariza>>
  <2>. DEFINE y == Numarali(x, r)
  <2>1. x \in OgeSatirlari /\ x.govde <= basma /\ oge \in [Oge -> OgeSatirlari]
    BY <1>1 DEF TipInv, TypeOK
  <2>2. /\ y \in OgeSatirlari /\ y.govde = x.govde /\ y.token = x.token /\ y.asama = x.asama
        /\ y.durum = x.durum
    BY <1>2, <2>1 DEF Numarali, OgeSatirlari
  <2>3. x.token = p /\ x.asama = s.goz.asama
    BY <1>4 DEF NumaraYazilir
  <2>4. oge' = [oge EXCEPT ![o] = y] /\ OgeGecis(p, o, y)
    BY <1>1, <1>4 DEF OgeGecis
  <2>5. "baslat" \in Adimlar
    BY DEF Adimlar
  <2>6. /\ surec' \in [Surec -> Turlar] /\ \A q \in Surec \ {p} : surec'[q] = surec[q]
        /\ surec'[p].adim = "baslat" /\ surec'[p].o = o /\ surec'[p].r = r /\ surec'[p].goz = s.goz
    BY <1>1, <1>4, <2>5, GitTuru
  <2>7. oge'[o] = y
    BY <1>1, <2>1, <2>4
  <2>8. TurTipi(surec'[p])
    BY <1>1, <1>2, <2>6 DEF TurTipi, NumaraliAdimlar, NumarasizAdimlar, Sakin, OgeliAdimlar, Baslatma
  <2>9. TurGecis(p)
    BY <1>1, <1>4, <2>6, <2>7 DEF TurGecis
  <2>10. /\ kosu[r].oge = o /\ kosu[r].islem = s.goz.asama /\ kosu[r].govde = s.goz.govde
    BY <1>1 DEF IInv, SurecKurali
  <2>. HIDE DEF y, x, o, r
  <2>11. SurecKurali(p)'
    BY <1>2, <1>4, <2>2, <2>3, <2>6, <2>7, <2>10 DEF SurecKurali
  <2>12. OgeEtki(p)
    BY <1>1, <1>3, <2>1, <2>2, <2>4, OgeYazilir DEF o
  <2>13. KosuEtki(p) /\ SurecEtki(p)
    BY <1>4, <2>6, <2>8, <2>9, <2>11, KosuKalir DEF SurecEtki
  <2>. QED BY <1>3, <2>12, <2>13, BaslatmaAdimEtkisi
<1>5. CASE /\ kosu' = [kosu EXCEPT ![r] = [Basarisiz(@) EXCEPT !.kilit = FALSE]]
           /\ Dur(p)
           /\ UNCHANGED oge
  <2>. DEFINE y == [Basarisiz(kosu[r]) EXCEPT !.kilit = FALSE]
  <2>1. y \in KosuSatirlari /\ KosuKurali(y) /\ Ileri(kosu[r], y) /\ y.awx = "yok" /\ y.durum = "FAILED"
    BY <1>2, BasarisizSatir
  <2>2. kosu' = [kosu EXCEPT ![r] = y]
    BY <1>5
  <2>. HIDE DEF y
  <2>3. kosu'[r] = y
    BY <1>1, <1>2, <2>2 DEF TipInv, TypeOK
  <2>4. KosuGecis(p, r)
    BY <1>2, <2>1, <2>3 DEF KosuGecis
  <2>5. KosuEtki(p)
    BY <1>2, <2>1, <2>2, <2>4, KosuYazilir
  <2>6. OgeEtki(p) /\ SurecEtki(p)
    BY <1>1, <1>3, <1>5, OgeKalir, DurEtki
  <2>. QED BY <1>3, <2>5, <2>6, BaslatmaAdimEtkisi
<1>. QED BY <1>4, <1>5 DEF Kanca

\* AWX's answer: the row of the run is written, and the turn goes on.
LEMMA CevapEtki ==
    ASSUME IInv, NEW p \in Surec, surec[p].adim = "baslat", NEW y,
           kosu' = [kosu EXCEPT ![surec[p].r] = y],
           y \in KosuSatirlari, KosuKurali(y), Ileri(kosu[surec[p].r], y), y.durum # "silindi"
    PROVE  /\ KosuEtki(p)
           /\ kosu' \in [Kosu -> KosuSatirlari] /\ kosu'[surec[p].r] = y
<1>. DEFINE r == surec[p].r
<1>1. /\ r \in Kosu /\ ~\E q \in Surec \ {p} : surec[q].adim \in Baslatma /\ surec[q].r = r
  BY BaslatmaSatiri DEF Baslatma
<1>2. kosu'[r] = y /\ kosu' \in [Kosu -> KosuSatirlari]
  BY <1>1 DEF IInv, TipInv, TypeOK
<1>3. KosuGecis(p, r)
  BY <1>1, <1>2 DEF KosuGecis
<1>. QED BY <1>1, <1>2, <1>3, KosuYazilir

LEMMA BaslarEtki == ASSUME IInv, NEW p \in Surec, Baslar(p) PROVE Etki(p)
<1>. DEFINE s == surec[p]
            r == s.r
            x == kosu[r]
            y == [x EXCEPT !.awx = "calisiyor", !.durum = IF @ = "QUEUED" THEN "RUNNING" ELSE @]
            z == [x EXCEPT !.awx = "calisiyor"]
<1>1. /\ TipInv /\ s.adim = "baslat" /\ s.adim \in Baslatma /\ s.o \in Oge /\ s \in Turlar
      /\ surec \in [Surec -> Turlar] /\ kosu \in [Kosu -> KosuSatirlari]
  BY TurTipleri DEF IInv, Baslar, Baslatma, TurTipi, OgeliAdimlar
<1>2. /\ r \in Kosu /\ x \in KosuSatirlari /\ KosuKurali(x)
      /\ x.durum \in {"QUEUED", "FAILED"} /\ x.awx = "yok" /\ x.kilit /\ ~x.iptal
  BY <1>1, BaslatmaSatiri
<1>3. /\ y \in KosuSatirlari /\ KosuKurali(y) /\ Ileri(x, y) /\ y.durum # "silindi"
      /\ z \in KosuSatirlari /\ KosuKurali(z) /\ Ileri(x, z) /\ z.durum # "silindi"
  <2>. HIDE DEF x
  <2>. QED BY <1>2, BaslayanSatir
<1>4. /\ UNCHANGED <<kuyruk, oge, istek, basma>> /\ (ariza' = ariza \/ Ariza)
      /\ \E q \in Kosu : Yorulur(q)
  BY <1>2 DEF Baslar
<1>5. OgeEtki(p)
  BY <1>1, <1>4, OgeKalir
<1>6. CASE /\ kosu' = [kosu EXCEPT ![r].awx = "calisiyor",
                                  ![r].durum = IF @ = "QUEUED" THEN "RUNNING" ELSE @]
           /\ Dur(p)
  <2>1. kosu' = [kosu EXCEPT ![r] = y]
    BY <1>1, <1>2, <1>6
  <2>. HIDE DEF y
  <2>2. KosuEtki(p)
    BY <1>1, <1>3, <2>1, CevapEtki
  <2>3. SurecEtki(p)
    BY <1>1, <1>6, DurEtki
  <2>. QED BY <1>4, <1>5, <2>2, <2>3, BaslatmaAdimEtkisi
<1>7. CASE /\ kosu' = [kosu EXCEPT ![r].awx = "calisiyor"]
           /\ surec' = [surec EXCEPT ![p].adim = "geriAl", ![p].sayilir = TRUE, ![p].r = Yok]
  <2>. DEFINE t == [s EXCEPT !.adim = "geriAl", !.sayilir = TRUE, !.r = Yok]
  <2>1. kosu' = [kosu EXCEPT ![r] = z]
    BY <1>1, <1>2, <1>7
  <2>. HIDE DEF z
  <2>2. KosuEtki(p)
    BY <1>1, <1>3, <2>1, CevapEtki
  <2>3. t \in Turlar /\ t.adim = "geriAl" /\ t.r = Yok /\ t.o = s.o
    BY <1>1 DEF Turlar, Adimlar
  <2>4. surec' = [surec EXCEPT ![p] = t]
    BY <1>1, <1>7
  <2>. HIDE DEF t
  <2>5. surec' \in [Surec -> Turlar] /\ surec'[p] = t /\ \A q \in Surec \ {p} : surec'[q] = surec[q]
    BY <1>1, <2>3, <2>4
  <2>6. TurTipi(t) /\ t.adim \notin Baslatma
    BY <1>1, <2>3 DEF TurTipi, NumaraliAdimlar, NumarasizAdimlar, Sakin, OgeliAdimlar, Baslatma
  <2>7. SurecKurali(p)'
    BY <2>3, <2>5, <2>6 DEF SurecKurali
  <2>8. SurecEtki(p)
    BY <2>5, <2>6, <2>7 DEF SurecEtki, TurGecis
  <2>. QED BY <1>4, <1>5, <2>2, <2>8, BaslatmaAdimEtkisi
<1>. QED BY <1>6, <1>7 DEF Baslar

LEMMA BaslamazEtki == ASSUME IInv, NEW p \in Surec, Baslamaz(p) PROVE Etki(p)
<1>. DEFINE s == surec[p]
            r == s.r
            x == kosu[r]
            y == [Basarisiz(x) EXCEPT !.kilit = FALSE]
<1>1. /\ TipInv /\ s.adim = "baslat" /\ s.adim \in Baslatma /\ s.o \in Oge /\ s \in Turlar
      /\ surec \in [Surec -> Turlar]
  BY TurTipleri DEF IInv, Baslamaz, Baslatma, TurTipi, OgeliAdimlar
<1>2. /\ r \in Kosu /\ x \in KosuSatirlari /\ KosuKurali(x)
      /\ x.durum \in {"QUEUED", "FAILED"} /\ x.awx = "yok" /\ x.kilit /\ ~x.iptal
      /\ ~\E q \in Surec \ {p} : surec[q].adim \in Baslatma /\ surec[q].r = r
  BY <1>1, BaslatmaSatiri
<1>3. kosu' = [kosu EXCEPT ![r] = y]
  BY DEF Baslamaz
<1>4. y \in KosuSatirlari /\ KosuKurali(y) /\ Ileri(x, y) /\ y.durum = "FAILED" /\ y.awx = "yok"
  <2>. HIDE DEF x
  <2>. QED BY <1>2, BasarisizSatir
<1>. HIDE DEF y
<1>5. KosuEtki(p) /\ kosu'[r] = y
  BY <1>1, <1>3, <1>4, CevapEtki
<1>6. SurecEtki(p)
  <2>1. ASSUME surec' = [surec EXCEPT ![p].adim = "geriAl", ![p].sayilir = TRUE]
        PROVE  SurecEtki(p)
    <3>. DEFINE t == [s EXCEPT !.adim = "geriAl", !.sayilir = TRUE]
    <3>1. t \in Turlar /\ t.adim = "geriAl" /\ t.r = r /\ t.o = s.o
      BY <1>1 DEF Turlar, Adimlar
    <3>2. surec' = [surec EXCEPT ![p] = t]
      BY <1>1, <2>1
    <3>. HIDE DEF t
    <3>3. surec' \in [Surec -> Turlar] /\ surec'[p] = t /\ \A q \in Surec \ {p} : surec'[q] = surec[q]
      BY <1>1, <3>1, <3>2
    <3>4. TurTipi(t) /\ t.adim \notin Baslatma
      BY <1>1, <3>1 DEF TurTipi, NumaraliAdimlar, NumarasizAdimlar, Sakin, OgeliAdimlar, Baslatma
    <3>5. \A q \in Surec : surec'[q].adim \in Baslatma => surec'[q].r # r
      BY <1>2, <3>3, <3>4
    <3>6. SurecKurali(p)'
      BY <1>4, <1>5, <3>1, <3>3, <3>4, <3>5 DEF SurecKurali
    <3>. QED BY <3>3, <3>4, <3>6 DEF SurecEtki, TurGecis
  <2>2. ASSUME Git(p, "kapatAtla") PROVE SurecEtki(p)
    <3>1. "kapatAtla" \in Adimlar
      BY DEF Adimlar
    <3>2. /\ surec' \in [Surec -> Turlar] /\ \A q \in Surec \ {p} : surec'[q] = surec[q]
          /\ surec'[p].adim = "kapatAtla" /\ surec'[p].o = s.o
      BY <1>1, <2>2, <3>1, GitTuru
    <3>3. surec'[p].o \in Oge
      BY <1>1, <3>2
    <3>. QED BY <3>2, <3>3, SadeEtki
  <2>. QED BY <2>1, <2>2 DEF Baslamaz
<1>7. UNCHANGED <<kuyruk, oge, istek, gecmis, ariza, basma>>
  BY DEF Baslamaz
<1>8. OgeEtki(p)
  BY <1>1, <1>7, OgeKalir
<1>. QED BY <1>5, <1>6, <1>7, <1>8, BaslatmaAdimEtkisi

LEMMA BelirsizEtki == ASSUME IInv, NEW p \in Surec, Belirsiz(p) PROVE Etki(p)
<1>. DEFINE s == surec[p]
            r == s.r
            x == kosu[r]
<1>1. /\ TipInv /\ s.adim = "baslat" /\ s.adim \in Baslatma /\ s.o \in Oge /\ s \in Turlar
      /\ surec \in [Surec -> Turlar]
  BY TurTipleri DEF IInv, Belirsiz, Baslatma, TurTipi, OgeliAdimlar
<1>2. /\ r \in Kosu /\ x \in KosuSatirlari /\ KosuKurali(x)
      /\ x.durum \in {"QUEUED", "FAILED"} /\ x.awx = "yok" /\ x.kilit /\ ~x.iptal
  BY <1>1, BaslatmaSatiri
<1>3. ASSUME NEW y, kosu' = [kosu EXCEPT ![r] = y],
             y \in {Basarisiz(x), [Basarisiz(x) EXCEPT !.awx = "calisiyor"]}
      PROVE  KosuEtki(p) /\ kosu'[r].durum # "yok"
  <2>1. y \in KosuSatirlari /\ KosuKurali(y) /\ Ileri(x, y) /\ y.durum \notin {"yok", "silindi"}
    <3>. HIDE DEF x
    <3>1. CASE y = Basarisiz(x)
      BY <1>2, <3>1, BasarisizSatir
    <3>2. CASE y = [Basarisiz(x) EXCEPT !.awx = "calisiyor"]
      BY <1>2, <3>2, BaslayanSatir
    <3>. QED BY <1>3, <3>1, <3>2
  <2>. QED BY <1>1, <1>3, <2>1, CevapEtki
<1>4. KosuEtki(p) /\ kosu'[r].durum # "yok"
  <2>1. CASE kosu' = [kosu EXCEPT ![r] = Basarisiz(@)]
    <3>. DEFINE y == Basarisiz(x)
    <3>1. kosu' = [kosu EXCEPT ![r] = y]
      BY <2>1
    <3>. QED BY <1>3, <3>1
  <2>2. CASE kosu' = [kosu EXCEPT ![r] = [Basarisiz(@) EXCEPT !.awx = "calisiyor"]]
    <3>. DEFINE y == [Basarisiz(x) EXCEPT !.awx = "calisiyor"]
    <3>1. kosu' = [kosu EXCEPT ![r] = y]
      BY <2>2
    <3>. QED BY <1>3, <3>1
  <2>. QED BY <2>1, <2>2 DEF Belirsiz
<1>5. "kapatHatali" \in Adimlar
  BY DEF Adimlar
<1>6. /\ surec' \in [Surec -> Turlar] /\ \A q \in Surec \ {p} : surec'[q] = surec[q]
      /\ surec'[p].adim = "kapatHatali" /\ surec'[p].o = s.o /\ surec'[p].r = r
  BY <1>1, <1>5, GitTuru DEF Belirsiz
<1>7. TurTipi(surec'[p]) /\ TurGecis(p)
  BY <1>1, <1>2, <1>6 DEF TurTipi, NumaraliAdimlar, NumarasizAdimlar, Sakin, OgeliAdimlar, Baslatma, TurGecis
<1>8. SurecKurali(p)'
  BY <1>4, <1>6 DEF SurecKurali, Baslatma
<1>9. /\ UNCHANGED <<kuyruk, oge, istek, basma>> /\ Ariza
      /\ UNCHANGED gecmis \/ Yorulur(r)
  BY DEF Belirsiz
<1>10. OgeEtki(p) /\ SurecEtki(p)
  BY <1>1, <1>6, <1>7, <1>8, <1>9, OgeKalir DEF SurecEtki
<1>. QED BY <1>2, <1>4, <1>9, <1>10, BaslatmaAdimEtkisi

-----------------------------------------------------------------------------
(***************************************************************************)
(* What follows an attempt that failed                                     *)
(***************************************************************************)

\* An item that is taken back.
LEMMA GeriAlinmisSatir ==
    ASSUME TipInv, NEW p, NEW o \in Oge, oge[o].durum = "CALISIYOR",
           IF oge[o].asama = "kosu" THEN Serbest(oge[o].kosu)
           ELSE Serbest(oge[o].ok) /\ oge[o].kosu = Yok,
           NEW y, y = GeriAlinmis(oge[o], TRUE) \/ y = GeriAlinmis(oge[o], FALSE)
    PROVE  y \in OgeSatirlari /\ y.govde <= basma /\ OgeGecis(p, o, y)
<1>. DEFINE x == oge[o]
<1>1. x \in OgeSatirlari /\ x.govde <= basma
  BY DEF TipInv, TypeOK
<1>2. Artir(x.deneme) \in Nat
  BY <1>1 DEF OgeSatirlari, Artir
<1>. DEFINE a == Artir(x.deneme)
<1>3. PICK n \in {x.deneme, a} :
         y = IF x.asama = "kosu"
             THEN [[x EXCEPT !.token = Yok, !.deneme = n] EXCEPT !.asama = "on_kontrol", !.kosu = Yok]
             ELSE [[x EXCEPT !.token = Yok, !.deneme = n] EXCEPT !.durum = "BEKLIYOR", !.asama = "-", !.ok = Yok]
  BY <1>1 DEF GeriAlinmis, OgeSatirlari
<1>. HIDE DEF a
<1>4. CASE x.asama = "kosu"
  BY <1>1, <1>2, <1>3, <1>4 DEF OgeSatirlari, OgeGecis, a
<1>5. CASE x.asama # "kosu"
  <2>1. /\ y.durum = "BEKLIYOR" /\ y.asama = "-" /\ y.token = Yok /\ y.ok = Yok /\ y.kosu = Yok
        /\ y.govde = x.govde /\ y \in OgeSatirlari
    BY <1>1, <1>2, <1>3, <1>5 DEF OgeSatirlari, OGE_DURUMLARI, a
  <2>2. Serbest(x.kosu)
    BY <1>5 DEF Serbest
  <2>. QED BY <1>1, <1>5, <2>1, <2>2 DEF OgeGecis
<1>. QED BY <1>4, <1>5

LEMMA GeriAlEtki == ASSUME IInv, NEW p \in Surec, GeriAl(p) PROVE Etki(p)
<1>. DEFINE s == surec[p]
            o == s.o
            x == oge[o]
<1>1. /\ TipInv /\ s.adim = "geriAl" /\ o \in Oge /\ s \in Turlar /\ surec \in [Surec -> Turlar]
  BY TurTipleri DEF IInv, GeriAl, TurTipi, OgeliAdimlar
<1>2. UNCHANGED <<kuyruk, kosu, istek, ariza, basma>> /\ GecmisKalir
  BY YarimYazilir DEF GeriAl
<1>3. Serbest(s.r)
  BY <1>1 DEF IInv, SurecKurali, Serbest, Canli, Yuk, Verilir, Baslatma
<1>4. OgeEtki(p)
  <2>1. CASE ~GeriAlinir(x, s.goz.asama, s.r, {p})
    BY <1>1, <1>2, <2>1, OgeKalir DEF GeriAl
  <2>2. CASE GeriAlinir(x, s.goz.asama, s.r, {p})
    <3>. DEFINE y == GeriAlinmis(x, s.sayilir)
    <3>1. /\ x.durum = "CALISIYOR"
          /\ IF x.asama = "kosu" THEN Serbest(x.kosu) ELSE Serbest(x.ok) /\ x.kosu = Yok
      BY <1>3, <2>2 DEF GeriAlinir
    <3>2. y = GeriAlinmis(x, TRUE) \/ y = GeriAlinmis(x, FALSE)
      BY <1>1 DEF Turlar
    <3>3. oge' = [oge EXCEPT ![o] = y]
      BY <2>2 DEF GeriAl
    <3>. HIDE DEF y
    <3>4. y \in OgeSatirlari /\ y.govde <= basma /\ OgeGecis(p, o, y)
      BY <1>1, <3>1, <3>2, GeriAlinmisSatir
    <3>. HIDE DEF o
    <3>. QED BY <1>1, <1>2, <3>3, <3>4, OgeYazilir
  <2>. QED BY <2>1, <2>2
<1>5. SurecEtki(p)
  BY <1>1, GeciciEtki, DurEtki DEF GeriAl, OGE_DURUMLARI
<1>. QED BY <1>2, <1>4, <1>5, OgeAdimEtkisi

LEMMA OgeErteleEtki == ASSUME IInv, NEW p \in Surec, OgeErtele(p) PROVE Etki(p)
<1>. DEFINE o == surec[p].o
            x == oge[o]
            g == x.geri \/ x.durum \notin KapaliOge
            y == [x EXCEPT !.geri = g]
<1>1. /\ TipInv /\ o \in Oge
  BY TurTipleri DEF IInv, OgeErtele, TurTipi, OgeliAdimlar
<1>2. UNCHANGED <<kuyruk, kosu, istek, gecmis, ariza, basma>>
  BY DEF OgeErtele
<1>3. x \in OgeSatirlari /\ x.govde <= basma
  BY <1>1 DEF TipInv, TypeOK
<1>4. oge' = [oge EXCEPT ![o] = y]
  BY DEF OgeErtele
<1>5. y \in OgeSatirlari /\ y.govde <= basma /\ OgeGecis(p, o, y)
  BY <1>3 DEF OgeSatirlari, OgeGecis
<1>. HIDE DEF y, o
<1>6. OgeEtki(p)
  BY <1>1, <1>2, <1>4, <1>5, OgeYazilir
<1>7. SurecEtki(p)
  BY <1>1, DurEtki DEF OgeErtele
<1>. QED BY <1>2, <1>6, <1>7, OgeAdimEtkisi

LEMMA KapatEtki == ASSUME IInv, NEW p \in Surec, Kapat(p) PROVE Etki(p)
<1>. DEFINE s == surec[p]
            o == s.o
<1>1. /\ TipInv /\ o \in Oge /\ s \in Turlar /\ surec \in [Surec -> Turlar] /\ TurTipi(s)
  BY TurTipleri DEF IInv, Kapat, TurTipi, OgeliAdimlar
<1>2. UNCHANGED <<kuyruk, kosu, istek, ariza, basma>> /\ GecmisKalir
  BY YarimYazilir DEF Kapat
<1>3. ASSUME NEW b, NEW yeni \in KapaliOge, oge' = [oge EXCEPT ![o] = Kapanmis(@, b, yeni)]
      PROVE  OgeEtki(p)
  <2>. DEFINE y == Kapanmis(oge[o], b, yeni)
  <2>1. y \in OgeSatirlari /\ y.govde <= basma /\ OgeGecis(p, o, y)
    BY <1>1, KapanmisSatir
  <2>2. oge' = [oge EXCEPT ![o] = y]
    BY <1>3
  <2>. HIDE DEF y, o
  <2>. QED BY <1>1, <1>2, <2>1, <2>2, OgeYazilir
<1>4. OgeEtki(p)
  BY <1>3 DEF Kapat, KapaliOge
<1>5. SurecEtki(p)
  <2>1. ASSUME s.adim = "kapatHatali", Git(p, "dinlen") PROVE SurecEtki(p)
    <3>1. "dinlen" \in Adimlar
      BY DEF Adimlar
    <3>2. /\ surec' \in [Surec -> Turlar] /\ \A q \in Surec \ {p} : surec'[q] = surec[q]
          /\ surec'[p].adim = "dinlen" /\ surec'[p].r = s.r
      BY <1>1, <2>1, <3>1, GitTuru
    <3>3. s.r \in Kosu /\ kosu[s.r].durum # "yok"
      BY <1>1, <2>1 DEF TurTipi, NumaraliAdimlar, IInv, SurecKurali
    <3>4. TurTipi(surec'[p]) /\ TurGecis(p)
      BY <3>2, <3>3 DEF TurTipi, NumaraliAdimlar, NumarasizAdimlar, Sakin, OgeliAdimlar, Baslatma, TurGecis
    <3>5. SurecKurali(p)'
      BY <1>2, <3>2, <3>3 DEF SurecKurali, Baslatma
    <3>. QED BY <3>2, <3>4, <3>5 DEF SurecEtki
  <2>2. ASSUME Devam(p) PROVE SurecEtki(p)
    BY <1>1, <2>2, DevamEtki
  <2>. QED BY <2>1, <2>2 DEF Kapat
<1>. QED BY <1>2, <1>4, <1>5, OgeAdimEtkisi

-----------------------------------------------------------------------------
(***************************************************************************)
(* The running item                                                        *)
(***************************************************************************)

LEMMA IlerletNumarasizEtki == ASSUME IInv, NEW p \in Surec, IlerletNumarasiz(p) PROVE Etki(p)
<1>. DEFINE s == surec[p]
            o == s.o
            x == oge[o]
            y == GeriAlinmis(x, FALSE)
<1>1. /\ TipInv /\ s.adim = "ilerlet" /\ o \in Oge
  BY TurTipleri DEF IInv, IlerletNumarasiz, TurTipi, OgeliAdimlar
<1>2. UNCHANGED <<kuyruk, kosu, istek, gecmis, ariza, basma>>
  BY DEF IlerletNumarasiz
<1>3. ASSUME KapatVe(p, "IPTAL") PROVE OgeEtki(p) /\ SurecEtki(p)
  BY <1>1, <1>2, <1>3, KapatVeEtki DEF KapaliOge
<1>4. ASSUME Yazar(p, GeriAlinir(x, s.goz.asama, Yok, Surec \cup {Yok}), y)
      PROVE  OgeEtki(p) /\ SurecEtki(p)
  <2>1. \/ GeriAlinir(x, s.goz.asama, Yok, Surec \cup {Yok}) /\ oge' = [oge EXCEPT ![o] = y] /\ Devam(p)
        \/ UNCHANGED oge /\ Dur(p)
    BY <1>4 DEF Yazar
  <2>2. CASE UNCHANGED oge /\ Dur(p)
    BY <1>1, <1>2, <2>2, OgeKalir, DurEtki
  <2>3. CASE GeriAlinir(x, s.goz.asama, Yok, Surec \cup {Yok}) /\ oge' = [oge EXCEPT ![o] = y] /\ Devam(p)
    <3>1. /\ x.durum = "CALISIYOR"
          /\ IF x.asama = "kosu" THEN Serbest(x.kosu) ELSE Serbest(x.ok) /\ x.kosu = Yok
      BY <2>3 DEF GeriAlinir, Serbest
    <3>2. y \in OgeSatirlari /\ y.govde <= basma /\ OgeGecis(p, o, y)
      BY <1>1, <3>1, GeriAlinmisSatir
    <3>. HIDE DEF y, o
    <3>. QED BY <1>1, <1>2, <2>3, <3>2, YazarEtki
  <2>. QED BY <2>1, <2>2, <2>3
<1>5. OgeEtki(p) /\ SurecEtki(p)
  BY <1>3, <1>4 DEF IlerletNumarasiz
<1>. QED BY <1>2, <1>5, OgeAdimEtkisi

\* The copy that a turn has of the numbers of the running item.
LEMMA IlerletTuru ==
    ASSUME IInv, NEW p \in Surec, surec[p].adim = "ilerlet"
    PROVE  /\ TipInv /\ surec[p].o \in Oge /\ surec[p] \in Turlar /\ surec \in [Surec -> Turlar]
           /\ surec[p].r = Yok
           /\ surec[p].goz.kosu # Yok =>
                 surec[p].goz.kosu \in Kosu /\ kosu[surec[p].goz.kosu].durum # "yok"
           /\ surec[p].goz.ok # Yok =>
                 /\ surec[p].goz.ok \in Kosu /\ kosu[surec[p].goz.ok].durum # "yok"
                 /\ kosu[surec[p].goz.ok].govde = surec[p].goz.govde
<1>1. /\ TipInv /\ surec[p].o \in Oge /\ surec[p] \in Turlar /\ surec \in [Surec -> Turlar]
      /\ surec[p].r = Yok /\ surec[p].goz \in OgeSatirlari
  BY TurTipleri DEF IInv, TurTipi, OgeliAdimlar, NumarasizAdimlar
<1>. QED BY <1>1 DEF IInv, SurecKurali, OgeSatirlari

LEMMA IlerletKosuEtki == ASSUME IInv, NEW p \in Surec, IlerletKosu(p) PROVE Etki(p)
<1>. DEFINE s == surec[p]
            o == s.o
            r == s.goz.kosu
            d == IF kosu[r].durum = "DONE" THEN "BITTI" ELSE "HATALI"
            y == Kapanmis(oge[o], "CALISIYOR", d)
            t == [s EXCEPT !.adim = "dinlen", !.r = r]
<1>1. /\ TipInv /\ o \in Oge /\ s \in Turlar /\ surec \in [Surec -> Turlar]
      /\ r \in Kosu /\ kosu[r].durum # "yok"
  BY IlerletTuru DEF IlerletKosu
<1>2. UNCHANGED <<kuyruk, kosu, istek, gecmis, ariza, basma>>
  BY DEF IlerletKosu
<1>3. ASSUME UNCHANGED oge /\ Dur(p) PROVE OgeEtki(p) /\ SurecEtki(p)
  BY <1>1, <1>2, <1>3, OgeKalir, DurEtki
<1>4. ASSUME oge' = [oge EXCEPT ![o] = y], surec' = [surec EXCEPT ![p].adim = "dinlen", ![p].r = r]
      PROVE  OgeEtki(p) /\ SurecEtki(p)
  <2>1. d \in KapaliOge
    BY DEF KapaliOge
  <2>. HIDE DEF d
  <2>2. y \in OgeSatirlari /\ y.govde <= basma /\ OgeGecis(p, o, y)
    BY <1>1, <2>1, KapanmisSatir
  <2>. HIDE DEF y
  <2>3. OgeEtki(p)
    BY <1>1, <1>2, <1>4, <2>2, OgeYazilir
  <2>4. t \in Turlar /\ t.adim = "dinlen" /\ t.r = r
    BY <1>1 DEF Turlar, Adimlar
  <2>5. surec' = [surec EXCEPT ![p] = t]
    BY <1>1, <1>4
  <2>. HIDE DEF t, r
  <2>6. surec' \in [Surec -> Turlar] /\ surec'[p] = t /\ \A q \in Surec \ {p} : surec'[q] = surec[q]
    BY <1>1, <2>4, <2>5
  <2>7. TurTipi(t) /\ TurGecis(p)
    BY <1>1, <2>4, <2>6 DEF TurTipi, NumaraliAdimlar, NumarasizAdimlar, Sakin, OgeliAdimlar, Baslatma, TurGecis
  <2>8. SurecKurali(p)'
    BY <1>1, <1>2, <2>4, <2>6 DEF SurecKurali, Baslatma
  <2>. QED BY <2>3, <2>6, <2>7, <2>8 DEF SurecEtki
<1>5. OgeEtki(p) /\ SurecEtki(p)
  <2>1. \/ UNCHANGED oge /\ Dur(p)
        \/ oge' = [oge EXCEPT ![o] = y] /\ surec' = [surec EXCEPT ![p].adim = "dinlen", ![p].r = r]
    BY DEF IlerletKosu
  <2>. QED BY <1>3, <1>4, <2>1
<1>. QED BY <1>2, <1>5, OgeAdimEtkisi

\* The queue begins to rest for the run r.
LEMMA DinlenmeyeGecer ==
    ASSUME TipInv, NEW r \in Kosu, kosu[r].durum # "yok", bayat' = bayat, ariza' = ariza,
           kuyruk' = [kuyruk EXCEPT !.durum = "DINLENME", !.dinlenKosu = r, !.bitis = "yok"]
    PROVE  KuyrukEtki
<1>1. kuyruk \in KuyrukSatirlari /\ kuyruk.hata <= ariza
  BY DEF TipInv, TypeOK, KuyrukSatirlari
<1>2. /\ kuyruk' \in KuyrukSatirlari /\ kuyruk'.hata = kuyruk.hata
      /\ kuyruk'.dinlenKosu = r /\ kuyruk'.bitis = "yok"
  BY <1>1 DEF KuyrukSatirlari, KUYRUK_DURUMLARI, AKTIF_KUYRUK, Bitisler
<1>. QED BY <1>1, <1>2 DEF KuyrukEtki

LEMMA IlerletDurdurulanEtki == ASSUME IInv, NEW p \in Surec, IlerletDurdurulan(p) PROVE Etki(p)
<1>. DEFINE s == surec[p]
            r == s.goz.kosu
<1>1. /\ TipInv /\ s.o \in Oge /\ s \in Turlar /\ surec \in [Surec -> Turlar]
      /\ r \in Kosu /\ kosu[r].durum # "yok"
  BY IlerletTuru DEF IlerletDurdurulan
<1>2. UNCHANGED <<oge, kosu, istek, gecmis, ariza, basma>> /\ DurdurulmusKapali(kosu[r])
  BY DEF IlerletDurdurulan, DurdurulmusKapali
<1>3. ASSUME Git(p, "sirala") PROVE SurecEtki(p)
  <2>1. "sirala" \in Adimlar
    BY DEF Adimlar
  <2>2. /\ surec' \in [Surec -> Turlar] /\ \A q \in Surec \ {p} : surec'[q] = surec[q]
        /\ surec'[p].adim = "sirala" /\ surec'[p].o = s.o /\ surec'[p].goz = s.goz
    BY <1>1, <1>3, <2>1, GitTuru
  <2>3. TurTipi(surec'[p]) /\ TurGecis(p)
    BY <1>1, <2>2 DEF TurTipi, NumaraliAdimlar, NumarasizAdimlar, Sakin, OgeliAdimlar, Baslatma, TurGecis
  <2>4. SurecKurali(p)'
    BY <1>1, <1>2, <2>2 DEF SurecKurali, Baslatma, DurdurulmusKapali, KosuDurduruldu
  <2>. QED BY <2>2, <2>3, <2>4 DEF SurecEtki
<1>4. SurecEtki(p)
  BY <1>1, <1>3, DurEtki DEF IlerletDurdurulan
<1>5. \/ UNCHANGED kuyruk
      \/ kuyruk' = [kuyruk EXCEPT !.durum = "DINLENME", !.dinlenKosu = r, !.bitis = "yok"]
  BY DEF IlerletDurdurulan
<1>. HIDE DEF r
<1>6. KuyrukEtki
  BY <1>1, <1>2, <1>5, KuyrukKalir, DinlenmeyeGecer DEF gecmis
<1>. QED BY <1>2, <1>4, <1>6, KuyrukAdimEtkisi

\* No turn launches a run that is closed without a lock, or done.
LEMMA VerilmezKapali ==
    ASSUME IInv, NEW r \in Kosu,
           ~KosuKilitliMi(r) \/ kosu[r].durum = "DONE" \/ kosu[r].awx # "yok" \/ DurdurulmusKapali(kosu[r])
    PROVE  ~Verilir(r)
<1>. SUFFICES ASSUME NEW q \in Surec, surec[q].adim = "baslat", surec[q].r = r
              PROVE  FALSE
  BY DEF Verilir
<1>1. kosu[r].durum \in {"QUEUED", "FAILED"} /\ kosu[r].awx = "yok" /\ kosu[r].kilit /\ ~kosu[r].iptal
  BY DEF IInv, SurecKurali, Baslatma
<1>2. r # Yok
  BY YokAyri
<1>. QED BY <1>1, <1>2 DEF KosuKilitliMi, DurdurulmusKapali, KosuDurduruldu

LEMMA KosuYenidenSiralaEtki == ASSUME IInv, NEW p \in Surec, KosuYenidenSirala(p) PROVE Etki(p)
<1>. DEFINE s == surec[p]
            o == s.o
            x == oge[o]
            r == s.goz.kosu
            y == [x EXCEPT !.durum = "BEKLIYOR", !.asama = "-", !.token = Yok, !.kosu = Yok, !.ok = Yok]
<1>1. /\ TipInv /\ s.adim = "sirala" /\ o \in Oge /\ r \in Kosu
  BY TurTipleri DEF IInv, KosuYenidenSirala, TurTipi, OgeliAdimlar
<1>2. UNCHANGED <<kuyruk, kosu, istek, gecmis, ariza, basma>>
  BY DEF KosuYenidenSirala
<1>3. DurdurulmusKapali(kosu[r])
  BY <1>1 DEF IInv, SurecKurali
<1>4. x \in OgeSatirlari /\ x.govde <= basma /\ OgeKurali(o)
  BY <1>1 DEF IInv, TipInv, TypeOK
<1>5. ASSUME x.durum = "CALISIYOR", x.asama = "kosu", x.kosu = r
      PROVE  y \in OgeSatirlari /\ y.govde <= basma /\ OgeGecis(p, o, y)
  <2>1. Serbest(x.kosu)
    BY <1>3, <1>5 DEF Serbest, Canli, Yuk
  <2>2. x.ok # Yok /\ x.ok \in Kosu /\ kosu[x.ok].awx = "bitti" /\ kosu[x.ok].islem = "on_kontrol"
    BY <1>4, <1>5 DEF OgeKurali, Onun, OgeSatirlari
  <2>3. ~Verilir(x.ok)
    BY <2>2, VerilmezKapali
  <2>4. Serbest(x.ok)
    BY <2>2, <2>3 DEF Serbest, Canli, Yuk
  <2>. QED BY <1>4, <1>5, <2>1, <2>4 DEF OgeSatirlari, OGE_DURUMLARI, OgeGecis
<1>6. \/ (x.durum = "CALISIYOR" /\ x.asama = "kosu" /\ x.kosu = r) /\ oge' = [oge EXCEPT ![o] = y] /\ Devam(p)
      \/ UNCHANGED oge /\ Dur(p)
  BY DEF KosuYenidenSirala, Yazar
<1>. HIDE DEF y, o
<1>7. OgeEtki(p) /\ SurecEtki(p)
  BY <1>1, <1>2, <1>5, <1>6, YazarEtki
<1>. QED BY <1>2, <1>7, OgeAdimEtkisi

LEMMA OnKontrolYenileEtki ==
    ASSUME IInv, NEW p \in Surec, surec[p].o \in Oge, surec[p].goz.ok \in Kosu,
           kosu[surec[p].goz.ok].durum \notin AKTIF_KOSU,
           ~KosuKilitliMi(surec[p].goz.ok) \/ kosu[surec[p].goz.ok].durum = "DONE",
           OnKontrolYenile(p), basma' = basma
    PROVE  OgeEtki(p) /\ SurecEtki(p)
<1>. DEFINE o == surec[p].o
            x == oge[o]
            r == surec[p].goz.ok
            y == [x EXCEPT !.durum = "BEKLIYOR", !.asama = "-", !.token = Yok, !.ok = Yok]
<1>1. TipInv
  BY DEF IInv
<1>2. x \in OgeSatirlari /\ x.govde <= basma /\ OgeKurali(o) /\ KosuKurali(kosu[r])
  BY <1>1 DEF IInv, TipInv, TypeOK
<1>3. ASSUME x.durum = "CALISIYOR", x.asama = "on_kontrol", x.ok = r, x.kosu = Yok
      PROVE  y \in OgeSatirlari /\ y.govde <= basma /\ OgeGecis(p, o, y)
  <2>1. ~Verilir(r) /\ r # Yok
    BY VerilmezKapali, YokAyri
  <2>2. kosu[r].islem = "on_kontrol"
    BY <1>2, <1>3, <2>1 DEF OgeKurali, Onun
  <2>3. kosu[r].awx # "calisiyor" \/ DurdurulmusKapali(kosu[r])
    BY <1>2, <2>1 DEF KosuKurali, KosuKilitliMi
  <2>4. Serbest(x.ok) /\ Serbest(x.kosu)
    BY <1>3, <2>1, <2>2, <2>3 DEF Serbest, Canli, Yuk
  <2>. QED BY <1>2, <1>3, <2>4 DEF OgeSatirlari, OGE_DURUMLARI, OgeGecis
<1>4. \/ /\ x.durum = "CALISIYOR" /\ x.asama = "on_kontrol" /\ x.ok = r /\ x.kosu = Yok
         /\ oge' = [oge EXCEPT ![o] = y] /\ Devam(p)
      \/ UNCHANGED oge /\ Dur(p)
  BY DEF OnKontrolYenile, Yazar
<1>. HIDE DEF y, o
<1>5. o \in Oge
  BY DEF o
<1>. QED BY <1>1, <1>3, <1>4, <1>5, YazarEtki

LEMMA IlerletOnKontrolEtki == ASSUME IInv, NEW p \in Surec, IlerletOnKontrol(p) PROVE Etki(p)
<1>. DEFINE s == surec[p]
            r == s.goz.ok
<1>1. /\ TipInv /\ s.o \in Oge /\ r \in Kosu
  BY IlerletTuru DEF IlerletOnKontrol
<1>2. UNCHANGED <<kuyruk, kosu, istek, gecmis, ariza, basma>>
  BY DEF IlerletOnKontrol
<1>3. ASSUME NEW yeni \in KapaliOge, KapatVe(p, yeni) PROVE OgeEtki(p) /\ SurecEtki(p)
  BY <1>1, <1>2, <1>3, KapatVeEtki
<1>4. ASSUME UNCHANGED oge /\ Dur(p) PROVE OgeEtki(p) /\ SurecEtki(p)
  BY <1>1, <1>2, <1>4, OgeKalir, DurEtki
<1>5. ASSUME kosu[r].durum \in {"DONE", "FAILED", "CANCELED"}, ~KosuKilitliMi(r), OnKontrolYenile(p)
      PROVE  OgeEtki(p) /\ SurecEtki(p)
  BY <1>1, <1>2, <1>5, OnKontrolYenileEtki DEF AKTIF_KOSU
<1>6. OgeEtki(p) /\ SurecEtki(p)
  BY <1>3, <1>4, <1>5 DEF IlerletOnKontrol, KapaliOge
<1>. QED BY <1>2, <1>6, OgeAdimEtkisi

LEMMA KosuAsamasiEtki == ASSUME IInv, NEW p \in Surec, KosuAsamasi(p) PROVE Etki(p)
<1>. DEFINE s == surec[p]
            o == s.o
            x == oge[o]
            r == s.goz.ok
            y == [x EXCEPT !.asama = "kosu", !.token = p]
            g == [s.goz EXCEPT !.asama = "kosu"]
            t == [s EXCEPT !.adim = "al", !.goz = g]
<1>1. /\ TipInv /\ o \in Oge /\ s \in Turlar /\ surec \in [Surec -> Turlar] /\ s.r = Yok
      /\ r \in Kosu /\ kosu[r].govde = s.goz.govde /\ kosu[r].durum = "DONE"
  BY IlerletTuru DEF KosuAsamasi
<1>2. UNCHANGED <<kuyruk, kosu, istek, ariza, basma>> /\ (UNCHANGED gecmis \/ GecmisKalir)
  BY YarimYazilir DEF KosuAsamasi
<1>3. ASSUME UNCHANGED oge /\ Dur(p) PROVE OgeEtki(p) /\ SurecEtki(p)
  BY <1>1, <1>2, <1>3, OgeKalir, DurEtki
<1>4. ASSUME NedenYaz(o, "CALISIYOR"), GeciciSonu(p, "CALISIYOR") PROVE OgeEtki(p) /\ SurecEtki(p)
  BY <1>1, <1>2, <1>4, NedenYazEtki, GeciciEtki DEF OGE_DURUMLARI
<1>5. ASSUME KapatVe(p, "ATLANDI") PROVE OgeEtki(p) /\ SurecEtki(p)
  BY <1>1, <1>2, <1>5, KapatVeEtki DEF KapaliOge
<1>6. ASSUME OnKontrolYenile(p) PROVE OgeEtki(p) /\ SurecEtki(p)
  BY <1>1, <1>2, <1>6, OnKontrolYenileEtki DEF AKTIF_KOSU
<1>7. ASSUME x.durum = "CALISIYOR", x.asama = "on_kontrol", x.ok = r, x.kosu = Yok,
             oge' = [oge EXCEPT ![s.o].asama = "kosu", ![s.o].token = p],
             surec' = [surec EXCEPT ![p].adim = "al", ![p].goz.asama = "kosu"]
      PROVE  OgeEtki(p) /\ SurecEtki(p)
  <2>1. x \in OgeSatirlari /\ x.govde <= basma /\ OgeKurali(o) /\ oge \in [Oge -> OgeSatirlari]
    BY <1>1 DEF IInv, TipInv, TypeOK
  <2>2. r # Yok /\ x.govde = s.goz.govde
    BY <1>1, <1>7, <2>1, YokAyri DEF OgeKurali, Onun
  <2>3. y \in OgeSatirlari /\ y.govde = x.govde /\ OgeGecis(p, o, y)
    BY <1>1, <1>7, <2>1, <2>2 DEF OgeSatirlari, OgeGecis
  <2>4. oge' = [oge EXCEPT ![o] = y] /\ surec' = [surec EXCEPT ![p] = t]
    BY <1>1, <1>7, <2>1
  <2>5. g \in OgeSatirlari /\ g.asama = "kosu" /\ g.govde = s.goz.govde
    BY <1>1 DEF Turlar, OgeSatirlari
  <2>. HIDE DEF g
  <2>6. t \in Turlar /\ t.adim = "al" /\ t.o = o /\ t.r = Yok /\ t.goz = g
    BY <1>1, <2>5 DEF Turlar, Adimlar
  <2>. HIDE DEF t, y
  <2>7. OgeEtki(p)
    BY <1>1, <1>2, <2>1, <2>3, <2>4, OgeYazilir
  <2>8. /\ surec' \in [Surec -> Turlar] /\ surec'[p] = t /\ \A q \in Surec \ {p} : surec'[q] = surec[q]
        /\ oge'[o] = y
    BY <1>1, <2>1, <2>4, <2>6
  <2>9. TurTipi(t) /\ TurGecis(p)
    BY <1>1, <2>5, <2>6, <2>8 DEF TurTipi, OgeliAdimlar, NumaraliAdimlar, Baslatma, TurGecis
  <2>10. SurecKurali(p)'
    BY <2>2, <2>3, <2>5, <2>6, <2>8 DEF SurecKurali, Baslatma
  <2>. QED BY <2>7, <2>8, <2>9, <2>10 DEF SurecEtki
<1>8. OgeEtki(p) /\ SurecEtki(p)
  BY <1>3, <1>4, <1>5, <1>6, <1>7 DEF KosuAsamasi
<1>. QED BY <1>2, <1>8, OgeAdimEtkisi

-----------------------------------------------------------------------------
(***************************************************************************)
(* The rest, the end of a turn, and a turn that fails                      *)
(***************************************************************************)

LEMMA DinlenEtki == ASSUME IInv, NEW p \in Surec, Dinlen(p) PROVE Etki(p)
<1>1. TipInv /\ surec[p].adim = "dinlen" /\ surec[p].r \in Kosu
  BY TurTipleri DEF IInv, Dinlen, TurTipi, NumaraliAdimlar
<1>2. kosu[surec[p].r].durum # "yok"
  BY <1>1 DEF IInv, SurecKurali
<1>3. UNCHANGED <<oge, kosu, istek, gecmis, ariza, basma>>
  BY DEF Dinlen
<1>4. \/ UNCHANGED kuyruk
      \/ kuyruk' = [kuyruk EXCEPT !.durum = "DINLENME", !.dinlenKosu = surec[p].r, !.bitis = "yok"]
  BY DEF Dinlen
<1>5. KuyrukEtki
  BY <1>1, <1>2, <1>3, <1>4, KuyrukKalir, DinlenmeyeGecer DEF gecmis
<1>6. SurecEtki(p)
  BY <1>1, DurEtki, DevamEtki DEF Dinlen
<1>. QED BY <1>3, <1>5, <1>6, KuyrukAdimEtkisi

LEMMA DinlenmeBaslatEtki == ASSUME IInv, NEW p \in Surec, DinlenmeBaslat(p) PROVE Etki(p)
<1>. DEFINE d == surec[p].k.dinlenKosu
            e == kuyruk.dinlenKosu
            baslar == ~KosuKilitliMi(d) /\ kuyruk.durum = "DINLENME" /\ kuyruk.bitis = "yok"
<1>1. TipInv /\ kuyruk \in KuyrukSatirlari /\ kuyruk.hata <= ariza
  BY TurTipleri DEF IInv, TipInv
<1>2. UNCHANGED <<oge, kosu, istek, yorgun, yarim, ariza, basma>>
  BY DEF DinlenmeBaslat
<1>3. SurecEtki(p)
  BY <1>1, DurEtki, DevamEtki DEF DinlenmeBaslat
<1>4. /\ \/ baslar /\ kuyruk' = [kuyruk EXCEPT !.bitis = "bekler"]
         \/ ~baslar /\ UNCHANGED kuyruk
      /\ bayat' \in BOOLEAN
      /\ bayat => bayat'
      /\ baslar /\ d # e => bayat'
  BY DEF DinlenmeBaslat
<1>5. KuyrukEtki
  <2>1. CASE ~baslar /\ UNCHANGED kuyruk
    <3>1. kuyruk' \in KuyrukSatirlari /\ kuyruk'.hata <= ariza'
      BY <1>1, <1>2, <2>1
    <3>2. kuyruk'.dinlenKosu = kuyruk.dinlenKosu /\ (kuyruk'.bitis # "yok" => kuyruk.bitis # "yok")
      BY <2>1
    <3>. QED BY <1>4, <3>1, <3>2, Zenon DEF KuyrukEtki
  <2>2. CASE baslar /\ kuyruk' = [kuyruk EXCEPT !.bitis = "bekler"]
    <3>1. /\ kuyruk' \in KuyrukSatirlari /\ kuyruk'.dinlenKosu = e /\ kuyruk'.hata = kuyruk.hata
      BY <1>1, <2>2 DEF KuyrukSatirlari, Bitisler
    <3>2. kuyruk'.hata <= ariza'
      BY <1>1, <1>2, <3>1
    <3>3. bayat' \/ ~KosuKilitliMi(e)
      BY <1>4, <2>2
    <3>. QED BY <1>4, <3>1, <3>2, <3>3, Zenon DEF KuyrukEtki
  <2>. QED BY <1>4, <2>1, <2>2
<1>6. OgeEtki(p) /\ KosuEtki(p)
  BY <1>1, <1>2, OgeKalir, KosuKalir
<1>7. SayacEtki
  <2>1. /\ istek' \in {"yok", "iptal", "devam"} /\ ariza' \in 0 .. EnCokAriza /\ basma' \in 0 .. EnCokBasma
    BY <1>1, <1>2 DEF TipInv, TypeOK
  <2>2. yorgun' \in BOOLEAN /\ yarim' \in BOOLEAN
    BY <1>1, <1>2, Zenon DEF TipInv, TypeOK
  <2>. QED BY <1>4, <2>1, <2>2, Zenon DEF SayacEtki
<1>. QED BY <1>3, <1>5, <1>6, <1>7 DEF Etki

LEMMA DinlenmeBittiEtki == ASSUME IInv, NEW p \in Surec, DinlenmeBitti(p) PROVE Etki(p)
<1>1. TipInv /\ kuyruk \in KuyrukSatirlari /\ kuyruk.hata <= ariza
  BY TurTipleri DEF IInv, TipInv
<1>2. UNCHANGED <<oge, kosu, istek, bayat, yarim, ariza, basma>> /\ (yorgun' = yorgun \/ yorgun' = FALSE)
  BY DEF DinlenmeBitti
<1>3. SurecEtki(p)
  BY <1>1, DurEtki, DevamEtki DEF DinlenmeBitti
<1>4. KuyrukEtki
  <2>1. CASE UNCHANGED kuyruk
    BY <1>1, <1>2, <2>1, KuyrukKalir
  <2>2. CASE kuyruk' = [kuyruk EXCEPT !.durum = "CALISIYOR", !.dinlenKosu = Yok, !.bitis = "yok"]
    <3>1. /\ kuyruk' \in KuyrukSatirlari /\ kuyruk'.dinlenKosu = Yok /\ kuyruk'.bitis = "yok"
          /\ kuyruk'.hata = kuyruk.hata
      BY <1>1, <2>2 DEF KuyrukSatirlari, KUYRUK_DURUMLARI, AKTIF_KUYRUK, Bitisler
    <3>. QED BY <1>1, <1>2, <3>1 DEF KuyrukEtki
  <2>. QED BY <2>1, <2>2 DEF DinlenmeBitti
<1>5. OgeEtki(p) /\ KosuEtki(p)
  BY <1>1, <1>2, OgeKalir, KosuKalir
<1>6. SayacEtki
  BY <1>1, <1>2 DEF SayacEtki, TipInv, TypeOK
<1>. QED BY <1>3, <1>4, <1>5, <1>6 DEF Etki

LEMMA TurBiterEtki == ASSUME IInv, NEW p \in Surec, TurBiter(p) PROVE Etki(p)
<1>1. TipInv /\ kuyruk \in KuyrukSatirlari /\ "bos" \in Sakin
  BY TurTipleri, AdimAdlari DEF IInv
<1>2. UNCHANGED <<oge, kosu, istek, gecmis, ariza, basma>> /\ kuyruk' = [kuyruk EXCEPT !.hata = 0]
  BY DEF TurBiter
<1>3. SurecEtki(p)
  BY <1>1, BosEtki DEF TurBiter
<1>4. /\ kuyruk' \in KuyrukSatirlari /\ kuyruk'.hata = 0
      /\ kuyruk'.dinlenKosu = kuyruk.dinlenKosu /\ kuyruk'.bitis = kuyruk.bitis
  BY <1>1, <1>2, KuyrukSinirlari DEF KuyrukSatirlari
<1>5. KuyrukEtki
  BY <1>1, <1>2, <1>4, KuyrukYazilir DEF gecmis
<1>. QED BY <1>2, <1>3, <1>5, KuyrukAdimEtkisi

\* The counters.
LEMMA SayacArtar ==
    ASSUME TipInv, istek' \in {"yok", "iptal", "devam"}, UNCHANGED gecmis \/ GecmisKalir,
           ariza' = ariza \/ Ariza, basma' = basma \/ Basma
    PROVE  /\ SayacEtki /\ bayat' = bayat
           /\ ariza' \in {ariza, ariza + 1} /\ basma' \in {basma, basma + 1}
<1>1. /\ ariza \in 0 .. EnCokAriza /\ basma \in 0 .. EnCokBasma
      /\ yorgun \in BOOLEAN /\ bayat \in BOOLEAN /\ yarim \in BOOLEAN
  BY DEF TipInv, TypeOK
<1>2. /\ ariza' \in {ariza, ariza + 1} /\ basma' \in {basma, basma + 1}
      /\ ariza' \in 0 .. EnCokAriza /\ basma' \in 0 .. EnCokBasma
  BY <1>1, KuyrukSinirlari DEF Ariza, Basma
<1>3. yorgun' = yorgun /\ bayat' = bayat /\ (yarim' = yarim \/ yarim' \in BOOLEAN)
  BY DEF gecmis, GecmisKalir
<1>4. yorgun' \in BOOLEAN /\ bayat' \in BOOLEAN /\ yarim' \in BOOLEAN
  BY <1>1, <1>3, Zenon
<1>. QED BY <1>2, <1>3, <1>4 DEF SayacEtki

LEMMA TurHatasiEtki == ASSUME IInv, NEW p \in Surec, TurHatasi(p) PROVE Etki(p)
<1>. DEFINE hatali == kuyruk.hata + 1 >= KUYRUK_HATA_SINIRI /\ kuyruk.durum \in AKTIF_KUYRUK
            d == IF hatali THEN "HATALI" ELSE kuyruk.durum
            a == IF hatali THEN "hataliOgeler" ELSE "bos"
<1>1. TipInv /\ kuyruk \in KuyrukSatirlari /\ kuyruk.hata <= ariza /\ "bos" \in Sakin
  BY TurTipleri, AdimAdlari DEF IInv, TipInv
<1>2. UNCHANGED <<oge, kosu, istek, basma>> /\ GecmisKalir /\ Ariza
  BY YarimYazilir DEF TurHatasi
<1>3. SayacEtki /\ bayat' = bayat /\ ariza' \in {ariza, ariza + 1}
  BY <1>1, <1>2, SayacArtar DEF TipInv, TypeOK
<1>4. \/ /\ kuyruk' = [kuyruk EXCEPT !.hata = @ + 1, !.durum = d]
         /\ surec' = [surec EXCEPT ![p] = [SurecBos EXCEPT !.adim = a]]
      \/ UNCHANGED kuyruk /\ surec' = [surec EXCEPT ![p] = SurecBos]
  BY <1>1 DEF TurHatasi, KuyrukSatirlari
<1>5. a \in Sakin /\ d \in KUYRUK_DURUMLARI
  BY <1>1, AdimAdlari DEF KuyrukSatirlari, KUYRUK_DURUMLARI
<1>. HIDE DEF a, d
<1>6. SurecEtki(p)
  BY <1>1, <1>4, <1>5, BosEtki
<1>7. KuyrukEtki
  <2>1. CASE UNCHANGED kuyruk
    BY <1>1, <1>3, <2>1, KuyrukKalir
  <2>2. CASE kuyruk' = [kuyruk EXCEPT !.hata = @ + 1, !.durum = d]
    <3>1. ariza' = ariza + 1 /\ ariza' <= EnCokAriza /\ ariza \in Nat
      BY <1>1, <1>2, KuyrukSinirlari DEF Ariza, TipInv, TypeOK
    <3>. DEFINE n == kuyruk.hata + 1
    <3>2. n \in 0 .. EnCokAriza /\ n <= ariza'
      BY <1>1, <3>1, KuyrukSinirlari DEF KuyrukSatirlari
    <3>3. kuyruk' = [kuyruk EXCEPT !.hata = n, !.durum = d]
      BY <2>2
    <3>. HIDE DEF n
    <3>4. /\ kuyruk' \in KuyrukSatirlari /\ kuyruk'.hata = n
          /\ kuyruk'.dinlenKosu = kuyruk.dinlenKosu /\ kuyruk'.bitis = kuyruk.bitis
      BY <1>1, <1>5, <3>2, <3>3 DEF KuyrukSatirlari
    <3>5. kuyruk'.hata <= ariza'
      BY <3>2, <3>4
    <3>. QED BY <1>3, <3>4, <3>5 DEF KuyrukEtki
  <2>. QED BY <1>4, <2>1, <2>2
<1>8. OgeEtki(p) /\ KosuEtki(p)
  BY <1>1, <1>2, OgeKalir, KosuKalir
<1>. QED BY <1>3, <1>6, <1>7, <1>8 DEF Etki

LEMMA BekleyenKapatEtki ==
    ASSUME TipInv, NEW p, NEW yeni \in KapaliOge, BekleyenKapat(yeni), basma' = basma
    PROVE  OgeEtki(p)
<1>1. ASSUME NEW o \in Oge
      PROVE  oge'[o] \in OgeSatirlari /\ oge'[o].govde <= basma /\ OgeGecis(p, o, oge'[o])
  <2>1. oge'[o] = Kapanmis(oge[o], "BEKLIYOR", yeni)
    BY <1>1 DEF BekleyenKapat
  <2>. QED BY <1>1, <2>1, KapanmisSatir
<1>2. oge' \in [Oge -> OgeSatirlari]
  BY <1>1 DEF BekleyenKapat
<1>. QED BY <1>1, <1>2 DEF OgeEtki

LEMMA HataliOgelerEtki == ASSUME IInv, NEW p \in Surec, HataliOgeler(p) PROVE Etki(p)
<1>1. TipInv /\ "bos" \in Sakin
  BY AdimAdlari DEF IInv
<1>2. SurecEtki(p)
  BY <1>1, BosEtki DEF HataliOgeler
<1>3. OgeEtki(p)
  BY <1>1, BekleyenKapatEtki DEF HataliOgeler, KapaliOge
<1>. QED BY <1>2, <1>3, OgeAdimEtkisi DEF HataliOgeler

LEMMA CokmeEtki == ASSUME IInv, NEW p \in Surec, Cokme(p) PROVE Etki(p)
<1>. DEFINE r == surec[p].r
            x == kosu[r]
            y == [x EXCEPT !.awx = "calisiyor"]
<1>1. TipInv /\ "oldu" \in Sakin
  BY AdimAdlari DEF IInv
<1>2. /\ UNCHANGED <<kuyruk, oge, istek, basma>> /\ Ariza
      /\ surec' = [surec EXCEPT ![p] = [SurecBos EXCEPT !.adim = "oldu"]]
  BY DEF Cokme
<1>3. SurecEtki(p) /\ OgeEtki(p)
  BY <1>1, <1>2, BosEtki, OgeKalir
<1>4. CASE UNCHANGED kosu /\ Yarim(surec[p].adim = "kapatGecici")
  <2>1. KosuEtki(p) /\ GecmisKalir
    BY <1>4, KosuKalir, YarimYazilir
  <2>. QED BY <1>2, <1>3, <2>1, BaslatmaAdimEtkisi
<1>5. CASE surec[p].adim = "baslat" /\ kosu' = [kosu EXCEPT ![surec[p].r].awx = "calisiyor"] /\ Yorulur(r)
  <2>1. /\ r \in Kosu /\ x \in KosuSatirlari /\ KosuKurali(x)
        /\ x.durum \in {"QUEUED", "FAILED"} /\ x.awx = "yok" /\ x.kilit /\ ~x.iptal
    BY <1>5, BaslatmaSatiri DEF Baslatma
  <2>2. y \in KosuSatirlari /\ KosuKurali(y) /\ Ileri(x, y) /\ y.durum # "silindi"
    <3>. HIDE DEF x
    <3>. QED BY <2>1, BaslayanSatir
  <2>3. kosu' = [kosu EXCEPT ![r] = y]
    BY <1>5
  <2>. HIDE DEF y
  <2>4. KosuEtki(p)
    BY <1>5, <2>2, <2>3, CevapEtki
  <2>. QED BY <1>2, <1>3, <1>5, <2>1, <2>4, BaslatmaAdimEtkisi
<1>. QED BY <1>4, <1>5 DEF Cokme

-----------------------------------------------------------------------------
(***************************************************************************)
(* The owner, AWX and time                                                 *)
(***************************************************************************)

\* A step of nobody's turn that writes one item.
LEMMA SahipOgeEtkisi ==
    ASSUME IInv, UNCHANGED <<kuyruk, kosu, surec, istek, gecmis, ariza>>, basma' = basma \/ Basma,
           NEW o \in Oge, NEW y \in OgeSatirlari, oge' = [oge EXCEPT ![o] = y],
           y.govde <= basma', OgeGecis(Yok, o, y)
    PROVE  Etki(Yok)
<1>1. TipInv /\ istek' \in {"yok", "iptal", "devam"}
  BY DEF IInv, TipInv, TypeOK
<1>2. /\ SayacEtki /\ bayat' = bayat
      /\ ariza' \in {ariza, ariza + 1} /\ basma' \in {basma, basma + 1}
  BY <1>1, SayacArtar
<1>3. OgeEtki(Yok)
  BY <1>1, <1>2, OgeYazilir
<1>4. KosuEtki(Yok) /\ SurecEtki(Yok) /\ KuyrukEtki
  BY <1>1, <1>2, KosuKalir, SurecKalir, KuyrukKalir
<1>. QED BY <1>2, <1>3, <1>4 DEF Etki

\* One that writes the queue, or only the owner's request.
LEMMA SahipKuyrukEtkisi ==
    ASSUME IInv, UNCHANGED <<kosu, surec, gecmis>>, ariza' = ariza \/ Ariza, basma' = basma \/ Basma,
           istek' \in {"yok", "iptal", "devam"}, OgeEtki(Yok),
           kuyruk' \in KuyrukSatirlari, kuyruk'.hata = kuyruk.hata, kuyruk'.dinlenKosu = kuyruk.dinlenKosu,
           kuyruk'.bitis # "yok" => kuyruk.bitis # "yok"
    PROVE  Etki(Yok)
<1>1. TipInv /\ kuyruk.hata <= ariza /\ kuyruk.hata \in Nat /\ ariza \in Nat
  BY DEF IInv, TipInv, TypeOK
<1>2. /\ SayacEtki /\ bayat' = bayat
      /\ ariza' \in {ariza, ariza + 1} /\ basma' \in {basma, basma + 1}
  BY <1>1, SayacArtar
<1>3. kuyruk'.hata <= ariza'
  BY <1>1, <1>2
<1>4. KuyrukEtki
  BY <1>2, <1>3 DEF KuyrukEtki
<1>5. KosuEtki(Yok) /\ SurecEtki(Yok)
  BY <1>1, KosuKalir, SurecKalir
<1>. QED BY <1>2, <1>4, <1>5 DEF Etki

\* One that writes a run.
LEMMA CevreKosuEtkisi ==
    ASSUME IInv, UNCHANGED <<kuyruk, oge, surec, istek, gecmis>>,
           ariza' = ariza \/ Ariza, basma' = basma \/ Basma,
           NEW r \in Kosu, NEW y, kosu' = [kosu EXCEPT ![r] = y], SatirIlerler(kosu[r], y),
           y.durum = "silindi" =>
              \A o \in Oge : oge[o].durum = "CALISIYOR" => r # oge[o].ok /\ r # oge[o].kosu,
           Baslatiliyor(r) =>
              y.durum \in {"QUEUED", "FAILED"} /\ y.awx = "yok" /\ y.kilit /\ ~y.iptal
    PROVE  Etki(Yok)
<1>1. /\ TipInv /\ istek' \in {"yok", "iptal", "devam"}
      /\ kosu \in [Kosu -> KosuSatirlari] /\ KosuKurali(kosu[r])
  BY DEF IInv, TipInv, TypeOK
<1>2. /\ SayacEtki /\ bayat' = bayat
      /\ ariza' \in {ariza, ariza + 1} /\ basma' \in {basma, basma + 1}
  BY <1>1, SayacArtar
<1>3. y \in KosuSatirlari /\ KosuKurali(y) /\ Ileri(kosu[r], y) /\ (y.awx = kosu[r].awx \/ kosu[r].awx = "calisiyor")
  BY <1>1, CevreSatiri
<1>4. kosu'[r] = y
  BY <1>1
<1>5. (\E q \in Surec \ {Yok} : surec[q].adim \in Baslatma /\ surec[q].r = r) => Baslatiliyor(r)
  BY DEF Baslatiliyor, Baslatma
<1>6. KosuGecis(Yok, r)
  BY <1>3, <1>4, <1>5 DEF KosuGecis
<1>7. KosuEtki(Yok)
  BY <1>3, <1>6, KosuYazilir
<1>8. OgeEtki(Yok) /\ SurecEtki(Yok) /\ KuyrukEtki
  BY <1>1, <1>2, OgeKalir, SurecKalir, KuyrukKalir
<1>. QED BY <1>2, <1>7, <1>8 DEF Etki

\* A run of which a turn has the number is waiting or has failed, without a job.
LEMMA BaslatilanSatir ==
    ASSUME IInv, NEW r \in Kosu, Baslatiliyor(r)
    PROVE  /\ kosu[r].durum \in {"QUEUED", "FAILED"} /\ kosu[r].awx = "yok"
           /\ kosu[r].kilit /\ ~kosu[r].iptal
<1>1. PICK q \in Surec : surec[q].adim \in Baslatma /\ surec[q].r = r
  BY DEF Baslatiliyor, Baslatma
<1>. QED BY <1>1 DEF IInv, SurecKurali

LEMMA SahipEtki == ASSUME IInv, Sahip PROVE Etki(Yok)
<1>1. TipInv /\ kuyruk \in KuyrukSatirlari /\ istek \in {"yok", "iptal", "devam"}
  BY DEF IInv, TipInv, TypeOK, KuyrukSatirlari
<1>2. ASSUME Iptal PROVE Etki(Yok)
  <2>1. /\ UNCHANGED <<oge, kosu, surec, gecmis, ariza>> /\ Basma /\ istek' = "iptal"
        /\ kuyruk' = [kuyruk EXCEPT !.durum = "IPTAL"]
    BY <1>2 DEF Iptal
  <2>2. /\ kuyruk' \in KuyrukSatirlari /\ kuyruk'.hata = kuyruk.hata
        /\ kuyruk'.dinlenKosu = kuyruk.dinlenKosu /\ kuyruk'.bitis = kuyruk.bitis
    BY <1>1, <2>1 DEF KuyrukSatirlari, KUYRUK_DURUMLARI
  <2>3. OgeEtki(Yok)
    BY <1>1, <2>1, OgeKalir DEF Basma
  <2>. QED BY <2>1, <2>2, <2>3, SahipKuyrukEtkisi
<1>3. ASSUME OgelerIptal PROVE Etki(Yok)
  <2>1. OgeEtki(Yok)
    BY <1>1, <1>3, BekleyenKapatEtki DEF OgelerIptal, KapaliOge
  <2>2. UNCHANGED <<kuyruk, kosu, surec, gecmis, ariza, basma>> /\ istek' = "yok"
    BY <1>3 DEF OgelerIptal
  <2>. QED BY <1>1, <2>1, <2>2, SahipKuyrukEtkisi
<1>4. ASSUME Duraklat PROVE Etki(Yok)
  <2>1. /\ UNCHANGED <<oge, kosu, surec, istek, gecmis, ariza>> /\ Basma
        /\ kuyruk' = [kuyruk EXCEPT !.duraklat = TRUE]
    BY <1>4 DEF Duraklat
  <2>2. /\ kuyruk' \in KuyrukSatirlari /\ kuyruk'.hata = kuyruk.hata
        /\ kuyruk'.dinlenKosu = kuyruk.dinlenKosu /\ kuyruk'.bitis = kuyruk.bitis
    BY <1>1, <2>1 DEF KuyrukSatirlari
  <2>3. OgeEtki(Yok)
    BY <1>1, <2>1, OgeKalir DEF Basma
  <2>. QED BY <1>1, <2>1, <2>2, <2>3, SahipKuyrukEtkisi
<1>5. ASSUME DevamOku PROVE Etki(Yok)
  <2>1. UNCHANGED <<kuyruk, oge, kosu, surec, gecmis, ariza>> /\ Basma /\ istek' = "devam"
    BY <1>5 DEF DevamOku
  <2>2. OgeEtki(Yok)
    BY <1>1, <2>1, OgeKalir DEF Basma
  <2>. QED BY <1>1, <2>1, <2>2, SahipKuyrukEtkisi
<1>6. ASSUME KuyrukDevam PROVE Etki(Yok)
  <2>. DEFINE b == kuyruk.duraklat /\ kuyruk.durum \notin AKTIF_KUYRUK
  <2>1. /\ UNCHANGED <<oge, kosu, surec, gecmis, ariza, basma>> /\ istek' = "yok"
        /\ kuyruk' = [kuyruk EXCEPT !.duraklat = b]
    BY <1>6 DEF KuyrukDevam
  <2>2. /\ kuyruk' \in KuyrukSatirlari /\ kuyruk'.hata = kuyruk.hata
        /\ kuyruk'.dinlenKosu = kuyruk.dinlenKosu /\ kuyruk'.bitis = kuyruk.bitis
    BY <1>1, <2>1 DEF KuyrukSatirlari
  <2>3. OgeEtki(Yok)
    BY <1>1, <2>1, OgeKalir
  <2>. QED BY <2>1, <2>2, <2>3, SahipKuyrukEtkisi
<1>7. ASSUME NEW o \in Oge, OgeGuncelle(o) PROVE Etki(Yok)
  <2>. DEFINE x == oge[o]
              g == x.govde + 1
              y == [x EXCEPT !.govde = g, !.deneme = 0, !.geri = FALSE]
  <2>1. /\ UNCHANGED <<kuyruk, kosu, surec, istek, gecmis, ariza>> /\ Basma
        /\ x.durum = "BEKLIYOR"
    BY <1>7 DEF OgeGuncelle
  <2>2. x \in OgeSatirlari /\ x.govde <= basma /\ oge \in [Oge -> OgeSatirlari] /\ basma \in Nat
    BY <1>1, <1>7 DEF TipInv, TypeOK
  <2>3. oge' = [oge EXCEPT ![o] = y]
    BY <1>7, <2>2 DEF OgeGuncelle
  <2>4. g \in 0 .. EnCokBasma /\ g <= basma'
    BY <2>1, <2>2, KuyrukSinirlari DEF OgeSatirlari, Basma
  <2>. HIDE DEF g
  <2>5. 0 \in Nat
    BY KuyrukSinirlari
  <2>6. y \in OgeSatirlari /\ y.govde = g /\ y.durum = x.durum /\ y.ok = x.ok /\ y.kosu = x.kosu
    BY <2>2, <2>4, <2>5 DEF OgeSatirlari
  <2>7. OgeGecis(Yok, o, y)
    BY <2>1, <2>6 DEF OgeGecis
  <2>. HIDE DEF y, x
  <2>. QED BY <1>7, <2>1, <2>3, <2>4, <2>6, <2>7, SahipOgeEtkisi
<1>8. ASSUME NEW o \in Oge, OgeCikar(o) PROVE Etki(Yok)
  <2>. DEFINE x == oge[o]
              y == [x EXCEPT !.durum = "IPTAL"]
  <2>1. /\ UNCHANGED <<kuyruk, kosu, surec, istek, gecmis, ariza>> /\ Basma
        /\ oge' = [oge EXCEPT ![o] = y]
    BY <1>8 DEF OgeCikar
  <2>2. x \in OgeSatirlari /\ x.govde <= basma /\ basma \in Nat /\ x.govde \in Nat
    BY <1>1, <1>8 DEF TipInv, TypeOK, OgeSatirlari
  <2>3. y \in OgeSatirlari /\ y.govde = x.govde /\ OgeGecis(Yok, o, y)
    BY <2>2 DEF OgeSatirlari, OGE_DURUMLARI, KapaliOge, OgeGecis
  <2>4. y.govde <= basma'
    BY <2>1, <2>2, <2>3 DEF Basma
  <2>. HIDE DEF y, x
  <2>. QED BY <1>8, <2>1, <2>3, <2>4, SahipOgeEtkisi
<1>9. ASSUME NEW r \in Kosu, Durdur(r) PROVE Etki(Yok)
  <2>. DEFINE x == kosu[r]
              y == IF x.durum = "RUNNING" THEN [x EXCEPT !.iptal = TRUE]
                   ELSE [x EXCEPT !.iptal = TRUE, !.durum = "CANCELED"]
  <2>1. /\ UNCHANGED <<kuyruk, oge, surec, istek, gecmis, ariza>> /\ Basma
        /\ \/ x.durum = "RUNNING"
           \/ x.durum = "QUEUED" /\ ~Baslatiliyor(r)
    BY <1>9 DEF Durdur
  <2>2. kosu' = [kosu EXCEPT ![r] = y]
    BY <1>1, <1>9 DEF Durdur, TipInv, TypeOK
  <2>3. ~Baslatiliyor(r)
    BY <1>9, <2>1, BaslatilanSatir
  <2>4. SatirIlerler(x, y)
    BY <2>1 DEF SatirIlerler
  <2>5. y.durum # "silindi"
    BY <1>1, <1>9, <2>1 DEF TipInv, TypeOK, KosuSatirlari
  <2>. HIDE DEF y
  <2>. QED BY <1>9, <2>1, <2>2, <2>3, <2>4, <2>5, CevreKosuEtkisi
<1>10. ASSUME NEW r \in Kosu, KosuSil(r) PROVE Etki(Yok)
  <2>. DEFINE x == kosu[r]
              y == Silinmis(x)
  <2>1. /\ UNCHANGED <<kuyruk, oge, surec, istek, gecmis, ariza>> /\ Basma
        /\ kosu' = [kosu EXCEPT ![r] = y]
        /\ x.durum \in {"DONE", "FAILED", "CANCELED"} /\ ~x.kilit
        /\ \A o \in Oge : oge[o].durum = "CALISIYOR" => r # oge[o].ok /\ r # oge[o].kosu
    BY <1>10 DEF KosuSil, KapaliOge
  <2>2. ~Baslatiliyor(r)
    BY <1>10, <2>1, BaslatilanSatir
  <2>3. SatirIlerler(x, y)
    BY <2>1 DEF SatirIlerler
  <2>. HIDE DEF y
  <2>. QED BY <1>10, <2>1, <2>2, <2>3, CevreKosuEtkisi
<1>. QED BY <1>2, <1>3, <1>4, <1>5, <1>6, <1>7, <1>8, <1>9, <1>10 DEF Sahip

LEMMA CevreKosuEtki ==
    ASSUME IInv, NEW r \in Kosu,
           AwxBiter(r) \/ KosuKapanir(r) \/ BayatKuyruk(r) \/ KilitBirakilir(r)
    PROVE  Etki(Yok)
<1>. DEFINE x == kosu[r]
<1>1. /\ UNCHANGED <<kuyruk, oge, surec, istek, gecmis, basma>>
      /\ ariza' = ariza \/ Ariza
  BY DEF AwxBiter, KosuKapanir, BayatKuyruk, KilitBirakilir
<1>2. kosu \in [Kosu -> KosuSatirlari] /\ x \in KosuSatirlari
  BY DEF IInv, TipInv, TypeOK
<1>3. ASSUME NEW y, kosu' = [kosu EXCEPT ![r] = y], SatirIlerler(x, y), y.durum # "silindi",
             Baslatiliyor(r) => y.durum \in {"QUEUED", "FAILED"} /\ y.awx = "yok" /\ y.kilit /\ ~y.iptal
      PROVE  Etki(Yok)
  BY <1>1, <1>3, CevreKosuEtkisi
<1>4. CASE AwxBiter(r)
  <2>. DEFINE y == [x EXCEPT !.awx = "bitti"]
  <2>1. /\ kosu' = [kosu EXCEPT ![r] = y] /\ SatirIlerler(x, y) /\ x.awx = "calisiyor"
    BY <1>2, <1>4 DEF AwxBiter, SatirIlerler
  <2>2. ~Baslatiliyor(r)
    BY <2>1, BaslatilanSatir
  <2>3. CASE x.durum # "silindi"
    <3>1. y.durum # "silindi"
      BY <1>2, <2>3 DEF KosuSatirlari
    <3>. HIDE DEF y, x
    <3>. QED BY <1>3, <2>1, <2>2, <3>1
  <2>4. CASE x.durum = "silindi"
    <3>1. \A o \in Oge : oge[o].durum = "CALISIYOR" => r # oge[o].ok /\ r # oge[o].kosu
      BY <2>4, YokAyri DEF IInv, OgeKurali, Onun
    <3>. HIDE DEF y
    <3>. QED BY <1>1, <2>1, <2>2, <3>1, CevreKosuEtkisi
  <2>. QED BY <2>3, <2>4
<1>5. CASE KosuKapanir(r)
  <2>1. x.durum = "RUNNING"
    BY <1>5 DEF KosuKapanir
  <2>2. ~Baslatiliyor(r)
    BY <2>1, BaslatilanSatir
  <2>3. PICK d \in {"DONE", "FAILED", "CANCELED"}, tut \in BOOLEAN :
          kosu' = [kosu EXCEPT ![r].durum = d, ![r].awx = "bitti", ![r].kilit = tut]
    BY <1>5 DEF KosuKapanir
  <2>. DEFINE y == [x EXCEPT !.durum = d, !.awx = "bitti", !.kilit = tut]
  <2>4. kosu' = [kosu EXCEPT ![r] = y] /\ y.durum # "silindi"
    BY <1>2, <2>3 DEF KosuSatirlari
  <2>5. SatirIlerler(x, y)
    BY <2>1 DEF SatirIlerler
  <2>. HIDE DEF y, x
  <2>. QED BY <1>3, <2>2, <2>4, <2>5
<1>6. CASE BayatKuyruk(r)
  <2>. DEFINE y == [x EXCEPT !.durum = "FAILED"]
  <2>1. x.durum = "QUEUED" /\ kosu' = [kosu EXCEPT ![r] = y]
    BY <1>2, <1>6 DEF BayatKuyruk
  <2>2. SatirIlerler(x, y)
    BY <2>1 DEF SatirIlerler
  <2>3. y.durum = "FAILED" /\ y.awx = x.awx /\ y.kilit = x.kilit /\ y.iptal = x.iptal
    BY <1>2 DEF KosuSatirlari
  <2>4. Baslatiliyor(r) => x.awx = "yok" /\ x.kilit /\ ~x.iptal
    BY BaslatilanSatir
  <2>. HIDE DEF y, x
  <2>. QED BY <1>3, <2>1, <2>2, <2>3, <2>4
<1>7. CASE KilitBirakilir(r)
  <2>. DEFINE y == [x EXCEPT !.kilit = FALSE]
  <2>1. /\ kosu' = [kosu EXCEPT ![r] = y] /\ ~Baslatiliyor(r)
        /\ x.durum \notin AKTIF_KOSU /\ x.kilit /\ (x.awx # "calisiyor" \/ x.iptal)
    BY <1>2, <1>7 DEF KilitBirakilir
  <2>2. SatirIlerler(x, y)
    BY <2>1 DEF SatirIlerler
  <2>3. CASE x.durum # "silindi"
    <3>1. y.durum # "silindi"
      BY <1>2, <2>3 DEF KosuSatirlari
    <3>. HIDE DEF y, x
    <3>. QED BY <1>3, <2>1, <2>2, <3>1
  <2>4. CASE x.durum = "silindi"
    <3>1. \A o \in Oge : oge[o].durum = "CALISIYOR" => r # oge[o].ok /\ r # oge[o].kosu
      BY <2>4, YokAyri DEF IInv, OgeKurali, Onun
    <3>. HIDE DEF y
    <3>. QED BY <1>1, <2>1, <2>2, <3>1, CevreKosuEtkisi
  <2>. QED BY <2>3, <2>4
<1>. QED BY <1>4, <1>5, <1>6, <1>7

\* Time: a pause of an item or of the queue is over, a lease runs out.
LEMMA ZamanEtki ==
    ASSUME IInv, (\E o \in Oge : GeriCekilmeBiter(o)) \/ DinlenmeDolar \/ KiraDuser
    PROVE  Etki(Yok)
<1>1. TipInv /\ kuyruk \in KuyrukSatirlari /\ istek \in {"yok", "iptal", "devam"}
  BY DEF IInv, TipInv, TypeOK, KuyrukSatirlari
<1>2. ASSUME NEW o \in Oge, GeriCekilmeBiter(o) PROVE Etki(Yok)
  <2>. DEFINE x == oge[o]
              y == [x EXCEPT !.geri = FALSE]
  <2>1. UNCHANGED <<kuyruk, kosu, surec, istek, gecmis, ariza, basma>> /\ oge' = [oge EXCEPT ![o] = y]
    BY <1>1, <1>2 DEF GeriCekilmeBiter, TipInv, TypeOK
  <2>2. x \in OgeSatirlari /\ x.govde <= basma
    BY <1>1, <1>2 DEF TipInv, TypeOK
  <2>3. y \in OgeSatirlari /\ y.govde = x.govde /\ OgeGecis(Yok, o, y)
    BY <2>2 DEF OgeSatirlari, OgeGecis
  <2>4. y.govde <= basma'
    BY <2>1, <2>2, <2>3
  <2>. HIDE DEF y, x
  <2>. QED BY <1>2, <2>1, <2>3, <2>4, SahipOgeEtkisi
<1>3. CASE DinlenmeDolar
  <2>1. /\ UNCHANGED <<oge, kosu, surec, istek, gecmis, ariza, basma>>
        /\ kuyruk.bitis = "bekler" /\ kuyruk' = [kuyruk EXCEPT !.bitis = "doldu"]
    BY <1>3 DEF DinlenmeDolar
  <2>2. /\ kuyruk' \in KuyrukSatirlari /\ kuyruk'.hata = kuyruk.hata
        /\ kuyruk'.dinlenKosu = kuyruk.dinlenKosu
    BY <1>1, <2>1 DEF KuyrukSatirlari, Bitisler
  <2>3. OgeEtki(Yok)
    BY <1>1, <2>1, OgeKalir
  <2>. QED BY <1>1, <2>1, <2>2, <2>3, SahipKuyrukEtkisi
<1>4. CASE KiraDuser
  <2>1. /\ UNCHANGED <<oge, kosu, surec, istek, gecmis, basma>>
        /\ ariza' = ariza \/ Ariza
        /\ kuyruk' = [kuyruk EXCEPT !.gecerli = FALSE]
    BY <1>4 DEF KiraDuser
  <2>2. /\ kuyruk' \in KuyrukSatirlari /\ kuyruk'.hata = kuyruk.hata
        /\ kuyruk'.dinlenKosu = kuyruk.dinlenKosu /\ kuyruk'.bitis = kuyruk.bitis
    BY <1>1, <2>1 DEF KuyrukSatirlari
  <2>3. OgeEtki(Yok)
    BY <1>1, <2>1, OgeKalir
  <2>. QED BY <1>1, <2>1, <2>2, <2>3, SahipKuyrukEtkisi
<1>. QED BY <1>2, <1>3, <1>4

-----------------------------------------------------------------------------
(***************************************************************************)
(* The invariant holds                                                     *)
(***************************************************************************)

LEMMA BaslangicIInv == ASSUME Init PROVE IInv
<1>1. kuyruk = [durum |-> "BEKLIYOR", duraklat |-> FALSE, dinlenKosu |-> Yok,
                bitis |-> "yok", kira |-> Yok, gecerli |-> FALSE, hata |-> 0]
  BY DEF Init
<1>2. 0 \in 0 .. EnCokAriza /\ 0 \in 0 .. EnCokBasma /\ EnCokAriza \in Nat /\ EnCokBasma \in Nat
  BY KuyrukSinirlari
<1>3. \A o \in Oge : oge[o] = YeniOge
  BY DEF Init
<1>4. \A r \in Kosu : kosu[r] = KosuYok
  BY DEF Init
<1>5. \A p \in Surec : surec[p] = SurecBos
  BY DEF Init
<1>6. KosuYok \in KosuSatirlari /\ KosuKurali(KosuYok)
  BY <1>2 DEF KosuYok, KosuSatirlari, KosuKurali, AKTIF_KOSU
<1>7. TurTipi(SurecBos)
  BY BosTur, AdimAdlari DEF TurTipi
<1>8. kuyruk \in KuyrukSatirlari /\ kuyruk.hata = 0 /\ kuyruk.dinlenKosu = Yok /\ kuyruk.bitis = "yok"
  BY <1>1, <1>2 DEF KuyrukSatirlari, KUYRUK_DURUMLARI, AKTIF_KUYRUK, Bitisler
<1>9. TypeOK
  <2>1. oge \in [Oge -> OgeSatirlari]
    BY YeniOgeTipi DEF Init
  <2>2. kosu \in [Kosu -> KosuSatirlari]
    BY <1>6 DEF Init
  <2>3. surec \in [Surec -> Turlar]
    BY BosTur DEF Init
  <2>4. /\ istek \in {"yok", "iptal", "devam"}
        /\ yorgun \in BOOLEAN /\ bayat \in BOOLEAN /\ yarim \in BOOLEAN
        /\ ariza \in 0 .. EnCokAriza /\ basma \in 0 .. EnCokBasma
    BY <1>2 DEF Init
  <2>. QED BY <1>8, <2>1, <2>2, <2>3, <2>4 DEF TypeOK, KuyrukSatirlari, Turlar
<1>10. TipInv
  <2>1. kuyruk.hata <= ariza
    BY <1>8 DEF Init
  <2>2. \A o \in Oge : oge[o].govde <= basma
    BY <1>3 DEF Init, YeniOge
  <2>. QED BY <1>5, <1>7, <1>9, <2>1, <2>2 DEF TipInv
<1>11. \A o \in Oge : OgeKurali(o)
  BY <1>3 DEF OgeKurali, YeniOge
<1>12. \A p \in Surec : surec[p].adim = "bos"
  BY <1>5, BosTur
<1>13. \A p \in Surec : SurecKurali(p)
  BY <1>12 DEF SurecKurali, Baslatma
<1>14. AyriKosu
  BY <1>12 DEF AyriKosu, Baslatma
<1>15. \A r \in Kosu : ~Canli(r) /\ ~Yuk(r)
  BY <1>4, <1>12 DEF Canli, Yuk, Verilir, KosuYok
<1>16. TakipInv
  BY <1>15 DEF TakipInv
<1>17. DinlenmeInv
  BY <1>8 DEF DinlenmeInv, DinlenmeKilitsiz
<1>. QED BY <1>4, <1>6, <1>10, <1>11, <1>13, <1>14, <1>16, <1>17 DEF IInv

\* One step of one process.
LEMMA AdimEtki ==
    ASSUME IInv, NEW p \in Surec, Adim(p) \/ TurHatasi(p) \/ Cokme(p)
    PROVE  Etki(p)
<1>1. CASE KiraAl(p) \/ KuyrukOku(p) \/ KuyrukBasla(p) \/ CalisanOge(p) \/ SiradakiOge(p)
  BY <1>1, KiraAlEtki, KuyrukOkuEtki, KuyrukBaslaEtki, CalisanOgeEtki, SiradakiOgeEtki
<1>2. CASE KapiHata(p) \/ OgeAtla(p) \/ OgeSahiplen(p)
  BY <1>2, KapiHataEtki, OgeAtlaEtki, OgeSahiplenEtki
<1>3. CASE Al(p) \/ Alinamaz(p) \/ Kanca(p) \/ Baslar(p) \/ Baslamaz(p) \/ Belirsiz(p)
  BY <1>3, AlEtki, AlinamazEtki, KancaEtki, BaslarEtki, BaslamazEtki, BelirsizEtki
<1>4. CASE GeriAl(p) \/ OgeErtele(p) \/ Kapat(p)
  BY <1>4, GeriAlEtki, OgeErteleEtki, KapatEtki
<1>5. CASE IlerletNumarasiz(p) \/ IlerletKosu(p) \/ IlerletDurdurulan(p) \/ KosuYenidenSirala(p)
  BY <1>5, IlerletNumarasizEtki, IlerletKosuEtki, IlerletDurdurulanEtki, KosuYenidenSiralaEtki
<1>6. CASE IlerletOnKontrol(p) \/ KosuAsamasi(p)
  BY <1>6, IlerletOnKontrolEtki, KosuAsamasiEtki
<1>7. CASE Dinlen(p) \/ DinlenmeBaslat(p) \/ DinlenmeBitti(p) \/ TurBiter(p) \/ HataliOgeler(p)
  BY <1>7, DinlenEtki, DinlenmeBaslatEtki, DinlenmeBittiEtki, TurBiterEtki, HataliOgelerEtki
<1>8. CASE TurHatasi(p) \/ Cokme(p)
  BY <1>8, TurHatasiEtki, CokmeEtki
<1>. QED BY <1>1, <1>2, <1>3, <1>4, <1>5, <1>6, <1>7, <1>8 DEF Adim

LEMMA AdimIInv == ASSUME IInv, [Next]_vars PROVE IInv'
<1>1. ASSUME NEW p \in Surec, Adim(p) \/ TurHatasi(p) \/ Cokme(p) PROVE IInv'
  BY <1>1, AdimEtki, EtkiKorur
<1>2. CASE Sahip
  BY <1>2, SahipEtki, EtkiKorur
<1>3. ASSUME NEW r \in Kosu, AwxBiter(r) \/ KosuKapanir(r) \/ BayatKuyruk(r) \/ KilitBirakilir(r)
      PROVE  IInv'
  BY <1>3, CevreKosuEtki, EtkiKorur
<1>4. CASE (\E o \in Oge : GeriCekilmeBiter(o)) \/ DinlenmeDolar \/ KiraDuser
  BY <1>4, ZamanEtki, EtkiKorur
<1>5. CASE UNCHANGED vars
  <2>1. UNCHANGED <<kuyruk, kosu, surec, gecmis>> /\ ariza' = ariza /\ basma' = basma
        /\ UNCHANGED <<oge, istek>>
    BY <1>5 DEF vars
  <2>2. TipInv /\ istek \in {"yok", "iptal", "devam"} /\ kuyruk \in KuyrukSatirlari
    BY DEF IInv, TipInv, TypeOK, KuyrukSatirlari
  <2>3. OgeEtki(Yok)
    BY <2>1, <2>2, OgeKalir
  <2>4. Etki(Yok)
    BY <2>1, <2>2, <2>3, SahipKuyrukEtkisi
  <2>. QED BY <2>4, EtkiKorur
<1>. QED BY <1>1, <1>2, <1>3, <1>4, <1>5 DEF Next

\* The inductive invariant holds in every behaviour, whatever the bounds.
THEOREM IInvDogru == Spec => []IInv
<1>. QED BY BaslangicIInv, AdimIInv, PTL DEF Spec

-----------------------------------------------------------------------------
(***************************************************************************)
(* What the runs check, for every value of the constants                   *)
(***************************************************************************)

\* Every variable keeps its type: run numbers and the rounds of a turn stay within their bounds;
\* the attempts of an item are counted without one (DenemeSiniriDogru of KuyrukDenemeKanit).
THEOREM TipDogru == Spec => []TypeOK
<1>1. IInv => TypeOK
  BY DEF IInv, TipInv
<1>. QED BY <1>1, IInvDogru, PTL

\* A load that AWX was given and nobody stopped is its item's; so are two of them.
LEMMA YukTek ==
    ASSUME IInv, NEW o \in Oge, NEW r \in Kosu, NEW q \in Kosu,
           kosu[r].oge = o, kosu[r].islem = "kosu", kosu[r].awx # "yok", ~KosuDurduruldu(kosu[r]),
           kosu[q].oge = o, kosu[q].islem = "kosu", kosu[q].awx # "yok", ~KosuDurduruldu(kosu[q])
    PROVE  r = q
<1>1. Yuk(r) /\ Yuk(q)
  BY DEF Yuk, DurdurulmusKapali
<1>. QED BY <1>1 DEF IInv, TakipInv

\* "cift baslatma yok" (kuyruk.cjs:19-23): however many processes, faults and requests, AWX
\* is given the load of an item once, but for runs that were stopped.
THEOREM CiftBaslatmaYokDogru == Spec => []CiftBaslatmaYok
<1>1. ASSUME IInv PROVE CiftBaslatmaYok
  <2>. SUFFICES ASSUME NEW o \in Oge
                PROVE  Cardinality({r \in Kosu : /\ kosu[r].oge = o /\ kosu[r].islem = "kosu"
                                                 /\ kosu[r].awx # "yok" /\ ~KosuDurduruldu(kosu[r])}) <= 1
    BY DEF CiftBaslatmaYok
  <2>. DEFINE S == {r \in Kosu : /\ kosu[r].oge = o /\ kosu[r].islem = "kosu"
                                 /\ kosu[r].awx # "yok" /\ ~KosuDurduruldu(kosu[r])}
  <2>1. \A r, q \in S : r = q
    BY <1>1, YukTek
  <2>2. CASE S = {}
    BY <2>2, FS_EmptySet
  <2>3. CASE S # {}
    <3>1. PICK r \in S : TRUE
      BY <2>3
    <3>2. S = {r}
      BY <2>1, <3>1
    <3>3. Cardinality({r}) = 1
      BY FS_Singleton
    <3>. QED BY <3>2, <3>3
  <2>. QED BY <2>2, <2>3
<1>. QED BY <1>1, IInvDogru, PTL

\* No job of the queue runs unseen: its item follows it, or is closed, or its owner stopped it.
THEOREM IsIzlenirDogru == Spec => []IsIzlenir
<1>1. ASSUME IInv PROVE IsIzlenir
  <2>. SUFFICES ASSUME NEW r \in Kosu, kosu[r].awx = "calisiyor", ~DurdurulmusKapali(kosu[r])
                PROVE  \/ oge[kosu[r].oge].durum \in KapaliOge
                       \/ /\ oge[kosu[r].oge].durum = "CALISIYOR"
                          /\ r \in {oge[kosu[r].oge].ok, oge[kosu[r].oge].kosu}
    BY DEF IsIzlenir, DurdurulmusKapali
  <2>1. Izler(kosu[r].oge, r)
    BY <1>1 DEF IInv, TakipInv, Canli
  <2>. QED BY <2>1 DEF Izler
<1>. QED BY <1>1, IInvDogru, PTL

\* The runs that a running item follows have the body its owner sees.
THEOREM GovdeAyniDogru == Spec => []GovdeAyni
<1>1. ASSUME IInv PROVE GovdeAyni
  <2>. SUFFICES ASSUME NEW o \in Oge, NEW r \in Kosu, oge[o].durum = "CALISIYOR",
                       r = oge[o].ok \/ r = oge[o].kosu
                PROVE  kosu[r].govde = oge[o].govde
    BY DEF GovdeAyni
  <2>1. r # Yok
    BY YokAyri
  <2>. QED BY <1>1, <2>1 DEF IInv, OgeKurali, Onun
<1>. QED BY <1>1, IInvDogru, PTL

\* A pause is counted with the locks of its run free, unless a turn counted it for a run the
\* queue no longer rested for.
THEOREM DinlenmeKilitsizDogru == Spec => []DinlenmeKilitsiz
<1>1. IInv => DinlenmeKilitsiz
  BY DEF IInv, DinlenmeInv
<1>. QED BY <1>1, IInvDogru, PTL

\* Nothing a running item follows is deleted.
THEOREM IzlenenSilinmezDogru == Spec => []IzlenenSilinmez
<1>1. ASSUME IInv PROVE IzlenenSilinmez
  <2>. SUFFICES ASSUME NEW o \in Oge, oge[o].durum = "CALISIYOR", NEW r, r # Yok,
                       r = oge[o].ok \/ r = oge[o].kosu
                PROVE  kosu[r].durum # "silindi"
    BY DEF IzlenenSilinmez
  <2>. QED BY <1>1 DEF IInv, OgeKurali, Onun
<1>. QED BY <1>1, IInvDogru, PTL
=============================================================================
