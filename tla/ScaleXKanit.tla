---------------------------- MODULE ScaleXKanit ----------------------------
(***************************************************************************)
(* Proofs about ScaleX, for every set of requests, targets and finalisers  *)
(* and any number of faults, cancellations and scans.                      *)
(***************************************************************************)
EXTENDS ScaleX, SequenceTheorems, TLAPS

-----------------------------------------------------------------------------
(***************************************************************************)
(* The inductive invariant                                                 *)
(***************************************************************************)

\* The loop indices point into the list of targets; a row is written with a status.
SiraTipi ==
    /\ \A o \in Islem :
        /\ istek[o].sira \in 1 .. Len(Hedefler[o])
        /\ istek[o].adim = "yaz" => istek[o].durum # "yok"
    /\ \A f \in Sonuclandiran :
        fin[f].adim # "bos" =>
            fin[f].is \in Islem /\ fin[f].sira \in 1 .. Len(Hedefler[fin[f].is])

TipInv == TypeOK /\ SiraTipi

\* A request writes its rows last and each of them once.
SatirInv ==
    \A o \in Islem :
        /\ istek[o].adim \in {"bos", "kilit", "bak", "kapi", "baslat"}
           => \A t \in Hedef : satir[o][t] = "yok"
        /\ istek[o].adim = "yaz"
           => \A i \in istek[o].sira .. Len(Hedefler[o]) : satir[o][Hedefler[o][i]] = "yok"

\* A restore that the sweep saw open is open or closed, and the locks the sweep
\* is about to free are of closed ones.
SupurInv ==
    \A o \in Islem, t \in Hedef :
        <<o, t>> \in supur.eski =>
            /\ o \in GeriAlma
            /\ satir[o][t] \in {"RUNNING", "PENDING_APPROVAL"} \cup SonDurumlar
            /\ supur.adim = "birak" /\ satir[o][t] \in AcikDurumlar => t \notin supur.kilitli

\* A lock that a request under way took last is one it still has to give back,
\* unless an unlock of it failed.
KilitInv ==
    /\ \A o \in Islem : istek[o].adim \in {"bos", "ret"} => istek[o].alinan = <<>>
    /\ \A o \in GeriAlma, t \in Hedef :
        /\ ayna[t].faz = "restoring" /\ sahip[t] = o
        /\ istek[o].adim # "bitti" /\ ~istek[o].hata
        => t \in Range(istek[o].alinan)

IInv == TipInv /\ SatirInv /\ SupurInv /\ KilitInv

-----------------------------------------------------------------------------
(***************************************************************************)
(* Operators                                                               *)
(***************************************************************************)

\* A target of a request is a target.
LEMMA HedefTipi ==
    ASSUME NEW o \in Islem
    PROVE  /\ Len(Hedefler[o]) \in Nat \ {0}
           /\ \A i \in 1 .. Len(Hedefler[o]) : Hedefler[o][i] \in Hedef
           /\ HedefKumesi(o) \subseteq Hedef
           /\ \A i, j \in 1 .. Len(Hedefler[o]) :
                Hedefler[o][i] = Hedefler[o][j] => i = j
<1>1. Hedefler[o] \in Seq(Hedef) /\ Len(Hedefler[o]) > 0 /\ IsInjective(Hedefler[o])
  BY IslemVarsayimi
<1>. QED BY <1>1 DEF HedefKumesi, Range, IsInjective

\* The values a mirror row can have.
LEMMA AynaSatirlari ==
    /\ AynaYok \in AynaSatiri /\ AynaDurdu \in AynaSatiri
    /\ \A s \in AynaSatiri :
        /\ s.faz \in {"yok", "scaled_down", "restoring"} /\ s.deneme \in Nat
        /\ s.faz = "scaled_down" => [s EXCEPT !.faz = "restoring"] \in AynaSatiri
        /\ unlockRestore(s) \in AynaSatiri /\ unlockRestore(s).faz # "restoring"
        /\ upsertStopped(s) \in AynaSatiri /\ upsertStopped(s).faz # "restoring"
        /\ recordRestoreFailure(s) \in AynaSatiri /\ recordRestoreFailure(s).faz # "restoring"
<1>. DEFINE Kayitli == [faz : {"scaled_down", "restoring"}, deneme : Nat]
<1>1. AynaSatiri = {AynaYok} \cup Kayitli
  BY DEF AynaSatiri
<1>2. AynaYok.faz = "yok" /\ AynaYok.deneme = 0 /\ AynaYok = [faz |-> "yok", deneme |-> 0]
  BY DEF AynaYok
<1>3. ASSUME NEW s \in Kayitli
      PROVE  /\ [s EXCEPT !.faz = "restoring"] \in Kayitli
             /\ [s EXCEPT !.faz = "scaled_down"] \in Kayitli
             /\ [s EXCEPT !.faz = "scaled_down"].faz = "scaled_down"
             /\ [faz |-> "scaled_down", deneme |-> s.deneme + 1] \in Kayitli
             /\ s.faz \in {"scaled_down", "restoring"} /\ s.deneme \in Nat
  OBVIOUS
<1>4. AynaDurdu \in Kayitli
  BY DEF AynaDurdu
<1>5. [AynaYok EXCEPT !.faz = "scaled_down"] \in Kayitli
      /\ [AynaYok EXCEPT !.faz = "scaled_down"].faz = "scaled_down"
  BY <1>2
<1>. HIDE DEF Kayitli
<1>6. ASSUME NEW s \in AynaSatiri
      PROVE  /\ s.faz \in {"yok", "scaled_down", "restoring"} /\ s.deneme \in Nat
             /\ s.faz = "scaled_down" => [s EXCEPT !.faz = "restoring"] \in AynaSatiri
             /\ unlockRestore(s) \in AynaSatiri /\ unlockRestore(s).faz # "restoring"
             /\ upsertStopped(s) \in AynaSatiri /\ upsertStopped(s).faz # "restoring"
             /\ recordRestoreFailure(s) \in AynaSatiri /\ recordRestoreFailure(s).faz # "restoring"
  <2>1. CASE s = AynaYok
    BY <1>1, <1>2, <1>5, <2>1 DEF unlockRestore, upsertStopped, recordRestoreFailure
  <2>2. CASE s \in Kayitli
    BY <1>1, <1>3, <2>2 DEF unlockRestore, upsertStopped, recordRestoreFailure
  <2>. QED BY <1>1, <2>1, <2>2
<1>. QED BY <1>1, <1>4, <1>6

\* What the finaliser writes is a mirror row without a lock, or a stop's row as it is.
LEMMA YazilanTipi ==
    ASSUME ayna \in [Hedef -> AynaSatiri], NEW o \in Islem, NEW t \in Hedef
    PROVE  /\ AynayaYazilan(o, t) \in AynaSatiri
           /\ AynayaYazilan(o, t).faz = "restoring" => AynayaYazilan(o, t) = ayna[t]
<1>1. AynaYok.faz # "restoring"
  BY DEF AynaYok
<1>. QED BY <1>1, AynaSatirlari DEF AynayaYazilan

\* Range of the sequences of acquired targets.
LEMMA AlinanEklenir ==
    ASSUME NEW s \in Seq(Hedef), NEW t \in Hedef
    PROVE  Append(s, t) \in Seq(Hedef) /\ Range(Append(s, t)) = Range(s) \cup {t}
<1>1. /\ Append(s, t) \in Seq(Hedef) /\ Len(s) \in Nat /\ Len(Append(s, t)) = Len(s) + 1
      /\ \A i \in 1 .. Len(s) : Append(s, t)[i] = s[i]
      /\ Append(s, t)[Len(s) + 1] = t
  BY AppendProperties
<1>2. DOMAIN s = 1 .. Len(s) /\ DOMAIN Append(s, t) = 1 .. Len(s) + 1
  BY <1>1
<1>3. 1 .. Len(s) + 1 = (1 .. Len(s)) \cup {Len(s) + 1}
  BY <1>1
<1>. QED BY <1>1, <1>2, <1>3 DEF Range

\* Giving back the last target leaves the others.
LEMMA AlinanCikar ==
    ASSUME NEW s \in Seq(Hedef), s # <<>>
    PROVE  /\ Head(s) \in Hedef /\ Tail(s) \in Seq(Hedef)
           /\ Range(s) \subseteq Range(Tail(s)) \cup {Head(s)}
<1>1. Head(s) \in Hedef /\ Tail(s) \in Seq(Hedef) /\ Len(Tail(s)) = Len(s) - 1
      /\ \A i \in 1 .. Len(Tail(s)) : Tail(s)[i] = s[i + 1]
  BY HeadTailProperties
<1>2. ASSUME NEW i \in 1 .. Len(s), i # 1 PROVE s[i] \in Range(Tail(s))
  <2>1. i - 1 \in 1 .. Len(Tail(s)) /\ Tail(s)[i - 1] = s[i]
    BY <1>1, <1>2
  <2>2. i - 1 \in DOMAIN Tail(s)
    BY <1>1, <2>1
  <2>. QED BY <2>1, <2>2 DEF Range
<1>3. s[1] = Head(s) /\ DOMAIN s = 1 .. Len(s)
  OBVIOUS
<1>. QED BY <1>1, <1>2, <1>3 DEF Range

-----------------------------------------------------------------------------
(***************************************************************************)
(* Type correctness                                                        *)
(***************************************************************************)

\* The steps of a handler keep its record a record of the type.
LEMMA IstekTipi ==
    /\ IstekBos \in Istekler
    /\ \A s \in Istekler :
        /\ s.sira \in Nat /\ s.alinan \in Seq(Hedef) /\ s.hata \in BOOLEAN
        /\ s.durum \in AcikDurumlar \cup {"yok"}
        /\ \A d \in {"bos", "kilit", "bak", "kapi", "baslat", "yaz", "birak", "ret", "bitti"} :
            /\ [s EXCEPT !.adim = d] \in Istekler
            /\ \A n \in Nat : [s EXCEPT !.sira = n, !.adim = d] \in Istekler
            /\ \A u \in AcikDurumlar \cup {"yok"} :
                [s EXCEPT !.adim = d, !.durum = u] \in Istekler
        /\ \A n \in Nat : [s EXCEPT !.sira = n] \in Istekler
        /\ \A q \in Seq(Hedef) :
            /\ [s EXCEPT !.alinan = q] \in Istekler
            /\ [s EXCEPT !.alinan = q, !.hata = TRUE] \in Istekler
        /\ \A b \in BOOLEAN : [s EXCEPT !.mesgul = b] \in Istekler
<1>1. <<>> \in Seq(Hedef)
  OBVIOUS
<1>2. IstekBos \in Istekler
  BY <1>1 DEF IstekBos, Istekler
<1>. DEFINE Adimlar == {"bos", "kilit", "bak", "kapi", "baslat", "yaz", "birak", "ret", "bitti"}
<1>3. ASSUME NEW s \in Istekler
      PROVE  /\ s.sira \in Nat /\ s.alinan \in Seq(Hedef) /\ s.hata \in BOOLEAN
             /\ s.durum \in AcikDurumlar \cup {"yok"}
  BY DEF Istekler
<1>4. ASSUME NEW s \in Istekler, NEW d \in Adimlar
      PROVE  /\ [s EXCEPT !.adim = d] \in Istekler
             /\ \A n \in Nat : [s EXCEPT !.sira = n, !.adim = d] \in Istekler
             /\ \A u \in AcikDurumlar \cup {"yok"} :
                  [s EXCEPT !.adim = d, !.durum = u] \in Istekler
  <2>1. [s EXCEPT !.adim = d] \in Istekler
    BY DEF Istekler
  <2>2. ASSUME NEW n \in Nat PROVE [s EXCEPT !.sira = n, !.adim = d] \in Istekler
    BY DEF Istekler
  <2>3. ASSUME NEW u \in AcikDurumlar \cup {"yok"}
        PROVE  [s EXCEPT !.adim = d, !.durum = u] \in Istekler
    BY DEF Istekler
  <2>. QED BY <2>1, <2>2, <2>3
<1>5. ASSUME NEW s \in Istekler, NEW n \in Nat PROVE [s EXCEPT !.sira = n] \in Istekler
  BY DEF Istekler
<1>6. ASSUME NEW s \in Istekler, NEW q \in Seq(Hedef)
      PROVE  [s EXCEPT !.alinan = q] \in Istekler /\ [s EXCEPT !.alinan = q, !.hata = TRUE] \in Istekler
  BY DEF Istekler
<1>7. ASSUME NEW s \in Istekler, NEW b \in BOOLEAN PROVE [s EXCEPT !.mesgul = b] \in Istekler
  BY DEF Istekler
<1>. QED BY <1>2, <1>3, <1>4, <1>5, <1>6, <1>7

\* Ilerle moves to the next target, to the release or to the gates.
LEMMA IlerleTipi ==
    ASSUME TypeOK, SiraTipi, NEW o \in Islem, NEW i \in Istekler,
           i.sira = istek[o].sira, Ilerle(o, i)
    PROVE  /\ istek' \in [Islem -> Istekler]
           /\ istek'[o].sira \in 1 .. Len(Hedefler[o])
           /\ istek'[o].adim \in {"kilit", "birak", "kapi"}
           /\ istek'[o].alinan = i.alinan /\ istek'[o].hata = i.hata
           /\ \A p \in Islem \ {o} : istek'[p] = istek[p]
<1>1. Len(Hedefler[o]) \in Nat \ {0} /\ i.sira \in 1 .. Len(Hedefler[o])
  BY HedefTipi DEF SiraTipi
<1>. DEFINE n == IF i.sira = Len(Hedefler[o]) THEN 1 ELSE i.sira + 1
            d == IF i.sira < Len(Hedefler[o]) THEN "kilit"
                 ELSE IF i.mesgul THEN "birak" ELSE "kapi"
<1>2. n \in 1 .. Len(Hedefler[o]) /\ n \in Nat
  BY <1>1
<1>3. d \in {"kilit", "birak", "kapi"}
  OBVIOUS
<1>4. istek' = [istek EXCEPT ![o] = [i EXCEPT !.sira = n, !.adim = d]]
  BY DEF Ilerle
<1>. HIDE DEF n, d
<1>5. [i EXCEPT !.sira = n, !.adim = d] \in Istekler
  BY <1>2, <1>3, IstekTipi
<1>6. LET r == [i EXCEPT !.sira = n, !.adim = d] IN
      r.sira = n /\ r.adim = d /\ r.alinan = i.alinan /\ r.hata = i.hata
  BY DEF Istekler
<1>. QED BY <1>2, <1>3, <1>4, <1>5, <1>6 DEF TypeOK

\* The first state is well typed.
LEMMA TipBaslangic == Init => TipInv
<1>. SUFFICES ASSUME Init PROVE TypeOK /\ SiraTipi
  BY DEF TipInv
<1>1. ayna \in [Hedef -> AynaSatiri]
  BY AynaSatirlari DEF Init
<1>2. FinBos \in Finler /\ SupurBos \in Supurmeler /\ TaramaBos \in Taramalar
  BY DEF FinBos, Finler, SupurBos, Supurmeler, TaramaBos, Taramalar
<1>3. istek \in [Islem -> Istekler] /\ fin \in [Sonuclandiran -> Finler]
      /\ supur \in Supurmeler /\ tarama \in Taramalar
  BY <1>2, IstekTipi DEF Init
<1>4. satir \in [Islem -> [Hedef -> AcikDurumlar \cup SonDurumlar \cup {"yok"}]]
      /\ sonuc \in [Islem -> [yayin : BOOLEAN, ok : SUBSET Hedef]]
  BY DEF Init
<1>5. TypeOK
  BY <1>1, <1>3, <1>4, SinirVarsayimi DEF Init, TypeOK
<1>6. SiraTipi
  BY HedefTipi DEF Init, SiraTipi, IstekBos, FinBos
<1>. QED BY <1>5, <1>6

\* A step of one handler leaves the others alone.
LEMMA IstekDegisir ==
    ASSUME TypeOK, SiraTipi, NEW o \in Islem, NEW r \in Istekler,
           istek' = [istek EXCEPT ![o] = r], UNCHANGED fin,
           r.sira \in 1 .. Len(Hedefler[o]), r.adim = "yaz" => r.durum # "yok"
    PROVE  istek' \in [Islem -> Istekler] /\ SiraTipi'
<1>1. istek' \in [Islem -> Istekler] /\ istek'[o] = r /\ \A p \in Islem \ {o} : istek'[p] = istek[p]
  BY DEF TypeOK
<1>. QED BY <1>1 DEF SiraTipi

\* Every step keeps the types and the loop indices, action by action.
LEMMA TipAdim == TipInv /\ [Next]_vars => TipInv'
<1>. SUFFICES ASSUME TypeOK, SiraTipi, [Next]_vars PROVE TypeOK' /\ SiraTipi'
  BY DEF TipInv
<1>. USE DEF IstekVerileri, FinDegismez, SatirDegismez, SupurDegismez, TaramaDegismez
<1>a. ariza \in Nat /\ (Ariza => ariza' \in 0 .. EnCokAriza)
      /\ (ArizaYok => ariza' \in 0 .. EnCokAriza)
  BY SinirVarsayimi DEF TypeOK, Ariza, ArizaYok
<1>h. \A o \in Islem :
        /\ istek[o] \in Istekler /\ istek[o].sira \in 1 .. Len(Hedefler[o])
        /\ SiradakiHedef(o) \in Hedef
  BY HedefTipi DEF TypeOK, SiraTipi, SiradakiHedef
<1>1. ASSUME NEW o \in Islem, Istek(o) PROVE TypeOK' /\ SiraTipi'
  <2>1. istek' \in [Islem -> Istekler]
    BY <1>1, <1>h, IstekTipi DEF Istek, TypeOK
  <2>2. SiraTipi'
    BY <1>1, HedefTipi DEF Istek, TypeOK, SiraTipi, Istekler
  <2>. QED BY <1>1, <2>1, <2>2 DEF Istek, TypeOK
<1>2. ASSUME NEW o \in Islem, KilitDene(o) PROVE TypeOK' /\ SiraTipi'
  <2>. DEFINE t == SiradakiHedef(o)
  <2>1. CASE ayna[t].faz = "scaled_down"
    <3>. DEFINE i == [istek[o] EXCEPT !.alinan = Append(@, t)]
    <3>1. i \in Istekler /\ i.sira = istek[o].sira
      <4>. DEFINE q == Append(istek[o].alinan, t)
      <4>1. q \in Seq(Hedef)
        BY <1>h, IstekTipi, AlinanEklenir
      <4>. HIDE DEF q
      <4>2. [istek[o] EXCEPT !.alinan = q] \in Istekler
        BY <1>h, <4>1, IstekTipi
      <4>3. [istek[o] EXCEPT !.alinan = q].sira = istek[o].sira
        BY <1>h DEF Istekler
      <4>. QED BY <4>2, <4>3 DEF q
    <3>2. ayna' = [ayna EXCEPT ![t].faz = "restoring"] /\ sahip' = [sahip EXCEPT ![t] = o]
          /\ Ilerle(o, i)
      BY <1>2, <2>1 DEF KilitDene
    <3>3. ayna' \in [Hedef -> AynaSatiri]
      BY <1>h, <2>1, <3>2, AynaSatirlari DEF TypeOK
    <3>. HIDE DEF i
    <3>4. istek' \in [Islem -> Istekler] /\ istek'[o].sira \in 1 .. Len(Hedefler[o])
          /\ istek'[o].adim # "yaz" /\ \A p \in Islem \ {o} : istek'[p] = istek[p]
      BY <3>1, <3>2, IlerleTipi
    <3>5. SiraTipi'
      BY <1>2, <3>4 DEF KilitDene, SiraTipi
    <3>. QED BY <1>2, <1>h, <3>2, <3>3, <3>4, <3>5 DEF KilitDene, TypeOK
  <2>2. CASE ayna[t].faz # "scaled_down"
    <3>1. istek' = [istek EXCEPT ![o].adim = "bak"] /\ UNCHANGED <<ayna, sahip>>
      BY <1>2, <2>2 DEF KilitDene
    <3>2. istek' \in [Islem -> Istekler]
      BY <1>h, <3>1, IstekTipi DEF TypeOK
    <3>3. SiraTipi'
      BY <1>2, <3>1 DEF KilitDene, TypeOK, SiraTipi, Istekler
    <3>. QED BY <1>2, <3>1, <3>2, <3>3 DEF KilitDene, TypeOK
  <2>. QED BY <2>1, <2>2
<1>3. ASSUME NEW o \in Islem, KilitBak(o) PROVE TypeOK' /\ SiraTipi'
  <2>. DEFINE i == [istek[o] EXCEPT !.mesgul = @ \/ ayna[SiradakiHedef(o)].faz # "yok"]
  <2>2. i \in Istekler /\ i.sira = istek[o].sira
    <3>. DEFINE b == istek[o].mesgul \/ ayna[SiradakiHedef(o)].faz # "yok"
    <3>1. b \in BOOLEAN
      OBVIOUS
    <3>. HIDE DEF b
    <3>2. [istek[o] EXCEPT !.mesgul = b] \in Istekler
      BY <1>h, <3>1, IstekTipi
    <3>3. [istek[o] EXCEPT !.mesgul = b].sira = istek[o].sira
      BY <1>h DEF Istekler
    <3>. QED BY <3>2, <3>3 DEF b
  <2>3. Ilerle(o, i)
    BY <1>3 DEF KilitBak
  <2>. HIDE DEF i
  <2>4. istek' \in [Islem -> Istekler] /\ istek'[o].sira \in 1 .. Len(Hedefler[o])
        /\ istek'[o].adim # "yaz" /\ \A p \in Islem \ {o} : istek'[p] = istek[p]
    BY <2>2, <2>3, IlerleTipi
  <2>5. SiraTipi'
    BY <1>3, <2>4 DEF KilitBak, SiraTipi
  <2>. QED BY <1>3, <2>4, <2>5 DEF KilitBak, TypeOK
<1>4. ASSUME NEW o \in Islem, KilitHata(o) PROVE TypeOK' /\ SiraTipi'
  <2>1. istek' \in [Islem -> Istekler]
    BY <1>4, <1>h, IstekTipi DEF KilitHata, TypeOK
  <2>2. SiraTipi'
    BY <1>4 DEF KilitHata, TypeOK, SiraTipi, Istekler
  <2>. QED BY <1>4, <1>a, <2>1, <2>2 DEF KilitHata, TypeOK
<1>5. ASSUME NEW o \in Islem, Birak(o) PROVE TypeOK' /\ SiraTipi'
  <2>1. istek' \in [Islem -> Istekler] /\ SiraTipi'
    <3>1. CASE istek[o].alinan # <<>>
      <4>. DEFINE q == Tail(istek[o].alinan)
      <4>1. q \in Seq(Hedef)
        BY <1>h, <3>1, IstekTipi, AlinanCikar
      <4>2. \/ istek' = [istek EXCEPT ![o] = [istek[o] EXCEPT !.alinan = q]]
            \/ istek' = [istek EXCEPT ![o] = [istek[o] EXCEPT !.alinan = q, !.hata = TRUE]]
        BY <1>5, <3>1 DEF Birak, TypeOK
      <4>. HIDE DEF q
      <4>. DEFINE r1 == [istek[o] EXCEPT !.alinan = q]
                  r2 == [istek[o] EXCEPT !.alinan = q, !.hata = TRUE]
      <4>3. r1 \in Istekler /\ r2 \in Istekler
        BY <1>h, <4>1, IstekTipi
      <4>4. /\ r1.sira = istek[o].sira /\ r1.adim = istek[o].adim
            /\ r2.sira = istek[o].sira /\ r2.adim = istek[o].adim
        BY <1>h DEF Istekler
      <4>5. istek[o].adim = "birak" /\ UNCHANGED fin
        BY <1>5 DEF Birak
      <4>. HIDE DEF r1, r2
      <4>6. istek' = [istek EXCEPT ![o] = r1] \/ istek' = [istek EXCEPT ![o] = r2]
        BY <4>2 DEF r1, r2
      <4>. QED BY <1>h, <4>3, <4>4, <4>5, <4>6, IstekDegisir
    <3>2. CASE istek[o].alinan = <<>>
      <4>1. istek' = [istek EXCEPT ![o] = [istek[o] EXCEPT !.adim = "ret"]]
        BY <1>5, <3>2 DEF Birak
      <4>. DEFINE r == [istek[o] EXCEPT !.adim = "ret"]
      <4>2. r \in Istekler
        BY <1>h, IstekTipi
      <4>3. r.sira = istek[o].sira /\ r.adim = "ret"
        BY <1>h DEF Istekler
      <4>4. UNCHANGED fin
        BY <1>5 DEF Birak
      <4>. QED BY <1>h, <4>1, <4>2, <4>3, <4>4, IstekDegisir
    <3>. QED BY <3>1, <3>2
  <2>2. ayna' \in [Hedef -> AynaSatiri]
    <3>1. istek[o].alinan # <<>> => Head(istek[o].alinan) \in Hedef
      BY <1>h, IstekTipi, AlinanCikar
    <3>2. \/ UNCHANGED ayna
          \/ /\ istek[o].alinan # <<>>
             /\ ayna' = [ayna EXCEPT ![Head(istek[o].alinan)] = unlockRestore(@)]
      BY <1>5 DEF Birak
    <3>3. CASE /\ istek[o].alinan # <<>>
               /\ ayna' = [ayna EXCEPT ![Head(istek[o].alinan)] = unlockRestore(@)]
      <4>. DEFINE h == Head(istek[o].alinan)
      <4>1. h \in Hedef /\ ayna[h] \in AynaSatiri
        BY <3>1, <3>3 DEF TypeOK
      <4>. HIDE DEF h
      <4>2. unlockRestore(ayna[h]) \in AynaSatiri
        BY <4>1, AynaSatirlari
      <4>. QED BY <3>3, <4>1, <4>2 DEF TypeOK, h
    <3>. QED BY <3>2, <3>3 DEF TypeOK
  <2>3. ariza' \in 0 .. EnCokAriza
    BY <1>5, <1>a DEF Birak, ArizaYok
  <2>. QED BY <1>5, <2>1, <2>2, <2>3 DEF Birak, TypeOK
<1>6. ASSUME NEW o \in Islem, Kapi(o) PROVE TypeOK' /\ SiraTipi'
  <2>1. \E d \in {"baslat", "birak", "yaz"}, u \in AcikDurumlar \cup {"yok"} :
            Gider(o, d, u) /\ (d = "yaz" => u # "yok")
    BY <1>6 DEF Kapi, AcikDurumlar, BekleyenDurumlar
  <2>2. PICK d \in {"baslat", "birak", "yaz"}, u \in AcikDurumlar \cup {"yok"} :
            Gider(o, d, u) /\ (d = "yaz" => u # "yok")
    BY <2>1
  <2>3. istek' = [istek EXCEPT ![o] = [istek[o] EXCEPT !.adim = d, !.durum = u]]
    BY <2>2 DEF Gider, TypeOK
  <2>4. istek' \in [Islem -> Istekler] /\ SiraTipi'
    <3>. DEFINE r == [istek[o] EXCEPT !.adim = d, !.durum = u]
    <3>1. r \in Istekler
      BY <1>h, IstekTipi
    <3>2. r.sira = istek[o].sira /\ r.adim = d /\ r.durum = u
      BY <1>h DEF Istekler
    <3>3. UNCHANGED fin
      BY <1>6 DEF Kapi
    <3>. QED BY <1>h, <2>2, <2>3, <3>1, <3>2, <3>3, IstekDegisir
  <2>5. bilet' \in [Islem -> {"yok", "bekler", "basladi", "kapandi"}]
    BY <1>6 DEF Kapi, TypeOK
  <2>. QED BY <1>6, <2>4, <2>5 DEF Kapi, TypeOK
<1>7. ASSUME NEW o \in Islem, Baslat(o) PROVE TypeOK' /\ SiraTipi'
  <2>1. Gider(o, "yaz", "RUNNING") \/ Gider(o, "birak", "yok")
    BY <1>7 DEF Baslat
  <2>2. PICK d \in {"yaz", "birak"}, u \in AcikDurumlar \cup {"yok"} :
            Gider(o, d, u) /\ (d = "yaz" => u # "yok")
    BY <2>1 DEF AcikDurumlar
  <2>3. istek' \in [Islem -> Istekler] /\ SiraTipi'
    <3>. DEFINE r == [istek[o] EXCEPT !.adim = d, !.durum = u]
    <3>1. r \in Istekler
      BY <1>h, IstekTipi
    <3>2. r.sira = istek[o].sira /\ r.adim = d /\ r.durum = u
      BY <1>h DEF Istekler
    <3>3. UNCHANGED fin
      BY <1>7 DEF Baslat
    <3>4. istek' = [istek EXCEPT ![o] = r]
      BY <2>2 DEF Gider, TypeOK
    <3>. QED BY <1>h, <2>2, <3>1, <3>2, <3>3, <3>4, IstekDegisir
  <2>. QED BY <1>7, <1>a, <2>3 DEF Baslat, TypeOK
<1>8. ASSUME NEW o \in Islem, SatirYaz(o) PROVE TypeOK' /\ SiraTipi'
  <2>1. istek[o].sira \in Nat /\ Len(Hedefler[o]) \in Nat
    BY <1>h, HedefTipi
  <2>2. istek' \in [Islem -> Istekler] /\ SiraTipi'
    <3>1. \/ istek' = [istek EXCEPT ![o].sira = @ + 1] /\ istek[o].sira < Len(Hedefler[o])
          \/ istek' = [istek EXCEPT ![o].adim = "bitti"]
          \/ istek' = [istek EXCEPT ![o].adim = "birak"]
      BY <1>8 DEF SatirYaz
    <3>2. UNCHANGED fin
      BY <1>8 DEF SatirYaz
    <3>3. CASE istek' = [istek EXCEPT ![o].sira = @ + 1] /\ istek[o].sira < Len(Hedefler[o])
      <4>. DEFINE r == [istek[o] EXCEPT !.sira = istek[o].sira + 1]
      <4>1. r \in Istekler
        <5>1. istek[o].sira + 1 \in Nat
          BY <2>1
        <5>. QED BY <1>h, <5>1, IstekTipi
      <4>2. r.sira = istek[o].sira + 1 /\ r.adim = istek[o].adim /\ r.durum = istek[o].durum
        BY <1>h DEF Istekler
      <4>3. istek' = [istek EXCEPT ![o] = r]
        BY <3>3
      <4>4. r.sira \in 1 .. Len(Hedefler[o]) /\ (r.adim = "yaz" => r.durum # "yok")
        BY <1>h, <2>1, <3>3, <4>2 DEF SiraTipi
      <4>. QED BY <3>2, <4>1, <4>3, <4>4, IstekDegisir
    <3>4. ASSUME NEW d \in {"bitti", "birak"}, istek' = [istek EXCEPT ![o].adim = d]
          PROVE  istek' \in [Islem -> Istekler] /\ SiraTipi'
      <4>. DEFINE r == [istek[o] EXCEPT !.adim = d]
      <4>1. r \in Istekler
        BY <1>h, IstekTipi
      <4>2. r.sira = istek[o].sira /\ r.adim = d
        BY <1>h DEF Istekler
      <4>3. istek' = [istek EXCEPT ![o] = r]
        BY <3>4
      <4>. QED BY <1>h, <3>2, <4>1, <4>2, <4>3, IstekDegisir
    <3>. QED BY <3>1, <3>3, <3>4
  <2>3. satir' \in [Islem -> [Hedef -> AcikDurumlar \cup SonDurumlar \cup {"yok"}]]
    <3>. DEFINE Durumlar == AcikDurumlar \cup SonDurumlar \cup {"yok"}
    <3>1. istek[o].durum \in Durumlar
      BY <1>h, IstekTipi
    <3>2. \/ satir' = [satir EXCEPT ![o][SiradakiHedef(o)] = istek[o].durum]
          \/ UNCHANGED satir
      BY <1>8 DEF SatirYaz
    <3>3. satir \in [Islem -> [Hedef -> Durumlar]]
      BY DEF TypeOK
    <3>. HIDE DEF Durumlar
    <3>4. [satir[o] EXCEPT ![SiradakiHedef(o)] = istek[o].durum] \in [Hedef -> Durumlar]
      BY <1>h, <3>1, <3>3
    <3>5. satir' \in [Islem -> [Hedef -> Durumlar]]
      BY <3>2, <3>3, <3>4
    <3>. QED BY <3>5 DEF Durumlar
  <2>. QED BY <1>8, <1>a, <2>2, <2>3 DEF SatirYaz, TypeOK
<1>9. ASSUME NEW f \in Sonuclandiran, NEW o \in Islem, FinOku(f, o) PROVE TypeOK' /\ SiraTipi'
  <2>1. fin' \in [Sonuclandiran -> Finler]
    BY <1>9 DEF FinOku, TypeOK, Finler
  <2>2. SiraTipi'
    BY <1>9, HedefTipi DEF FinOku, TypeOK, SiraTipi
  <2>. QED BY <1>9, <2>1, <2>2 DEF FinOku, TypeOK
<1>10. ASSUME NEW f \in Sonuclandiran, FinYaz(f) PROVE TypeOK' /\ SiraTipi'
  <2>0. FinBos \in Finler /\ fin[f] \in Finler /\ fin[f].is \in Islem
    BY <1>10 DEF FinBos, Finler, FinYaz, TypeOK, SiraTipi
  <2>1. fin' \in [Sonuclandiran -> Finler] /\ SiraTipi'
    <3>1. \/ fin' = [fin EXCEPT ![f].adim = "ayna"]
          \/ fin' = [fin EXCEPT ![f] = FinBos]
      BY <1>10 DEF FinYaz
    <3>2. [fin[f] EXCEPT !.adim = "ayna"] \in Finler
      BY <2>0 DEF Finler
    <3>3. fin' \in [Sonuclandiran -> Finler]
      BY <2>0, <3>1, <3>2 DEF TypeOK
    <3>4. /\ \A g \in Sonuclandiran \ {f} : fin'[g] = fin[g]
          /\ fin'[f].adim # "bos" => fin'[f].is = fin[f].is /\ fin'[f].sira = fin[f].sira
      BY <2>0, <3>1 DEF TypeOK, FinBos, Finler
    <3>5. fin[f].adim # "bos" /\ UNCHANGED istek
      BY <1>10 DEF FinYaz
    <3>6. SiraTipi'
      BY <3>4, <3>5 DEF SiraTipi
    <3>. QED BY <3>3, <3>6
  <2>2. satir' \in [Islem -> [Hedef -> AcikDurumlar \cup SonDurumlar \cup {"yok"}]]
    <3>1. \/ UNCHANGED satir
          \/ satir' = [satir EXCEPT ![fin[f].is] = [t \in Hedef |->
                IF satir[fin[f].is][t] = "RUNNING" THEN "FINISHED" ELSE satir[fin[f].is][t]]]
      BY <1>10 DEF FinYaz
    <3>. DEFINE D == AcikDurumlar \cup SonDurumlar \cup {"yok"}
                o == fin[f].is
                yeni == [t \in Hedef |-> IF satir[o][t] = "RUNNING" THEN "FINISHED" ELSE satir[o][t]]
    <3>2. satir \in [Islem -> [Hedef -> D]] /\ o \in Islem
      BY <2>0 DEF TypeOK
    <3>3. "FINISHED" \in D
      BY DEF SonDurumlar
    <3>. HIDE DEF D
    <3>4. yeni \in [Hedef -> D]
      BY <3>2, <3>3
    <3>5. satir' = satir \/ satir' = [satir EXCEPT ![o] = yeni]
      BY <3>1
    <3>. HIDE DEF yeni, o
    <3>6. satir' \in [Islem -> [Hedef -> D]]
      BY <3>2, <3>4, <3>5
    <3>. QED BY <3>6 DEF D
  <2>. QED BY <1>10, <1>a, <2>1, <2>2 DEF FinYaz, TypeOK
<1>11. ASSUME NEW f \in Sonuclandiran, FinAyna(f) PROVE TypeOK' /\ SiraTipi'
  <2>. DEFINE o == fin[f].is
              t == Hedefler[o][fin[f].sira]
  <2>0. FinBos \in Finler /\ fin[f] \in Finler /\ o \in Islem
        /\ fin[f].sira \in 1 .. Len(Hedefler[o]) /\ Len(Hedefler[o]) \in Nat
    BY <1>11, HedefTipi DEF FinBos, Finler, FinAyna, TypeOK, SiraTipi
  <2>1. t \in Hedef /\ AynayaYazilan(o, t) \in AynaSatiri
    BY <2>0, HedefTipi, YazilanTipi DEF TypeOK
  <2>2. ayna' \in [Hedef -> AynaSatiri]
    BY <1>11, <2>1 DEF FinAyna, TypeOK
  <2>3. \/ fin' = [fin EXCEPT ![f].sira = @ + 1] /\ fin[f].sira < Len(Hedefler[o])
        \/ fin' = [fin EXCEPT ![f] = FinBos]
    BY <1>11 DEF FinAyna
  <2>4. fin[f].sira < Len(Hedefler[o]) => [fin[f] EXCEPT !.sira = @ + 1] \in Finler
    BY <2>0 DEF Finler
  <2>5. fin' \in [Sonuclandiran -> Finler]
    BY <2>0, <2>3, <2>4 DEF TypeOK
  <2>6. SiraTipi'
    <3>1. /\ \A g \in Sonuclandiran \ {f} : fin'[g] = fin[g]
          /\ fin'[f].adim # "bos" =>
                fin'[f].is = o /\ fin'[f].sira = fin[f].sira + 1 /\ fin[f].sira < Len(Hedefler[o])
      BY <2>0, <2>3 DEF TypeOK, FinBos, Finler
    <3>2. UNCHANGED istek
      BY <1>11 DEF FinAyna
    <3>. HIDE DEF o
    <3>3. fin'[f].adim # "bos" => fin'[f].is \in Islem /\ fin'[f].sira \in 1 .. Len(Hedefler[fin'[f].is])
      BY ONLY <2>0, <3>1
    <3>4. \A g \in Sonuclandiran : fin'[g].adim # "bos" =>
            fin'[g].is \in Islem /\ fin'[g].sira \in 1 .. Len(Hedefler[fin'[g].is])
      BY <3>1, <3>3 DEF SiraTipi
    <3>. QED BY ONLY SiraTipi, <3>2, <3>4 DEF SiraTipi
  <2>. QED BY <1>11, <1>a, <2>2, <2>5, <2>6 DEF FinAyna, TypeOK
<1>12. ASSUME NEW o \in Islem, NEW d, NEW u \in AcikDurumlar \cup SonDurumlar, Guncelle(o, d, u)
       PROVE  satir' \in [Islem -> [Hedef -> AcikDurumlar \cup SonDurumlar \cup {"yok"}]]
  <2>. DEFINE yeni == [t \in Hedef |-> IF satir[o][t] = d THEN u ELSE satir[o][t]]
  <2>1. yeni \in [Hedef -> AcikDurumlar \cup SonDurumlar \cup {"yok"}]
    BY DEF TypeOK
  <2>. QED BY <1>12, <2>1 DEF Guncelle, TypeOK
<1>13. ASSUME NEW o \in Islem, Devral(o) PROVE TypeOK' /\ SiraTipi'
  <2>1. \E d \in BekleyenDurumlar, u \in AcikDurumlar \cup SonDurumlar : Guncelle(o, d, u)
    BY <1>13 DEF Devral, AcikDurumlar, SonDurumlar
  <2>. QED BY <1>12, <1>13, <2>1 DEF Devral, TypeOK, SiraTipi
<1>14. ASSUME NEW o \in Islem, Bayat(o) PROVE TypeOK' /\ SiraTipi'
  <2>1. \E u \in AcikDurumlar \cup SonDurumlar : Guncelle(o, "RUNNING", u)
    BY <1>14 DEF Bayat, SonDurumlar
  <2>. QED BY <1>12, <1>14, <1>a, <2>1 DEF Bayat, TypeOK, SiraTipi
<1>15. ASSUME NEW o \in Islem, Iptal(o) PROVE TypeOK' /\ SiraTipi'
  <2>1. \E u \in AcikDurumlar \cup SonDurumlar : Guncelle(o, "RUNNING", u)
    BY <1>15 DEF Iptal, SonDurumlar
  <2>2. iptal' \in 0 .. EnCokIptal
    BY <1>15, SinirVarsayimi DEF Iptal, TypeOK
  <2>. QED BY <1>12, <1>15, <2>1, <2>2 DEF Iptal, TypeOK, SiraTipi
<1>16. ASSUME SupurListele PROVE TypeOK' /\ SiraTipi'
  <2>1. supur' \in Supurmeler
    BY <1>16 DEF SupurListele, Supurmeler
  <2>. QED BY <1>16, <2>1 DEF SupurListele, TypeOK, SiraTipi
<1>17. ASSUME SupurIslem PROVE TypeOK' /\ SiraTipi'
  <2>1. supur' \in Supurmeler
    BY <1>17 DEF SupurIslem, Supurmeler, SupurBos, TypeOK
  <2>. QED BY <1>17, <2>1 DEF SupurIslem, TypeOK, SiraTipi
<1>18. ASSUME SupurBirak PROVE TypeOK' /\ SiraTipi'
  <2>1. supur' \in Supurmeler
    <3>1. supur \in Supurmeler /\ SupurBos \in Supurmeler
      BY DEF TypeOK, Supurmeler, SupurBos
    <3>2. \A t : [supur EXCEPT !.kilitli = @ \ {t}] \in Supurmeler
      BY <3>1 DEF Supurmeler
    <3>. QED BY <1>18, <3>1, <3>2 DEF SupurBirak
  <2>2. ayna' \in [Hedef -> AynaSatiri]
    <3>1. \/ UNCHANGED ayna
          \/ \E t \in supur.kilitli : ayna' = [ayna EXCEPT ![t] = unlockRestore(@)]
      BY <1>18 DEF SupurBirak
    <3>2. ASSUME NEW t \in supur.kilitli, ayna' = [ayna EXCEPT ![t] = unlockRestore(@)]
          PROVE  ayna' \in [Hedef -> AynaSatiri]
      <4>1. t \in Hedef /\ ayna[t] \in AynaSatiri
        BY DEF TypeOK, Supurmeler
      <4>2. unlockRestore(ayna[t]) \in AynaSatiri
        BY <4>1, AynaSatirlari
      <4>. QED BY <3>2, <4>1, <4>2 DEF TypeOK
    <3>. QED BY <3>1, <3>2 DEF TypeOK
  <2>. QED BY <1>18, <1>a, <2>1, <2>2 DEF SupurBirak, TypeOK, SiraTipi
<1>19. ASSUME Tara \/ TaramaListele PROVE TypeOK' /\ SiraTipi'
  <2>1. tarama' \in Taramalar /\ taranan' \in 0 .. EnCokTarama
    BY <1>19, SinirVarsayimi DEF Tara, TaramaListele, Taramalar, TaramaBos, TypeOK
  <2>. QED BY <1>19, <2>1 DEF Tara, TaramaListele, TypeOK, SiraTipi
<1>20. ASSUME TaramaSil PROVE TypeOK' /\ SiraTipi'
  <2>1. tarama' \in Taramalar
    BY <1>20 DEF TaramaSil, Taramalar, TaramaBos, TypeOK
  <2>2. ayna' \in [Hedef -> AynaSatiri]
    BY <1>20, AynaSatirlari DEF TaramaSil, TypeOK
  <2>. QED BY <1>20, <2>1, <2>2 DEF TaramaSil, TypeOK, SiraTipi
<1>21. ASSUME NEW o \in Islem, BiletCozulur(o) PROVE TypeOK' /\ SiraTipi'
  BY <1>21 DEF BiletCozulur, TypeOK, SiraTipi
<1>22. ASSUME NEW o \in Islem, AwxBiter(o) PROVE TypeOK' /\ SiraTipi'
  <2>1. PICK degisen \in SUBSET HedefKumesi(o), yayin \in BOOLEAN :
            /\ sonuc' = [sonuc EXCEPT ![o] =
                            [yayin |-> yayin, ok |-> IF yayin THEN degisen ELSE {}]]
            /\ calisir' = [t \in Hedef |-> IF t \in degisen THEN o \in GeriAlma ELSE calisir[t]]
    BY <1>22 DEF AwxBiter
  <2>2. [yayin |-> yayin, ok |-> IF yayin THEN degisen ELSE {}] \in [yayin : BOOLEAN, ok : SUBSET Hedef]
    BY HedefTipi
  <2>3. sonuc' \in [Islem -> [yayin : BOOLEAN, ok : SUBSET Hedef]]
    BY <2>1, <2>2 DEF TypeOK
  <2>4. \A t \in Hedef : (IF t \in degisen THEN o \in GeriAlma ELSE calisir[t]) \in BOOLEAN
    <3>1. \A t \in Hedef : calisir[t] \in BOOLEAN
      BY DEF TypeOK
    <3>2. (o \in GeriAlma) \in BOOLEAN
      OBVIOUS
    <3>. QED BY <3>1, <3>2, Zenon
  <2>5. calisir' \in [Hedef -> BOOLEAN]
    BY <2>1, <2>4, Zenon
  <2>. QED BY <1>22, <2>3, <2>5 DEF AwxBiter, TypeOK, SiraTipi
<1>23. ASSUME Cokme PROVE TypeOK' /\ SiraTipi'
  <2>1. \A o \in Islem : istek'[o] = istek[o] \/ istek'[o] = [istek[o] EXCEPT !.adim = "bitti"]
    BY <1>23 DEF Cokme
  <2>2. istek' \in [Islem -> Istekler]
    <3>1. ASSUME NEW o \in Islem PROVE istek'[o] \in Istekler
      <4>1. [istek[o] EXCEPT !.adim = "bitti"] \in Istekler
        BY <1>h, IstekTipi
      <4>. QED BY <1>h, <2>1, <4>1
    <3>. QED BY <1>23, <3>1 DEF Cokme
  <2>3. FinBos \in Finler /\ SupurBos \in Supurmeler /\ TaramaBos \in Taramalar
    BY DEF FinBos, Finler, SupurBos, Supurmeler, TaramaBos, Taramalar
  <2>4. SiraTipi'
    BY <1>23, <1>h, <2>1 DEF Cokme, SiraTipi, FinBos, Istekler
  <2>. QED BY <1>23, <1>a, <2>2, <2>3, <2>4 DEF Cokme, TypeOK
<1>24. ASSUME UNCHANGED vars PROVE TypeOK' /\ SiraTipi'
  BY <1>24 DEF vars, TypeOK, SiraTipi
<1>. QED BY <1>1, <1>2, <1>3, <1>4, <1>5, <1>6, <1>7, <1>8, <1>9, <1>10, <1>11, <1>13,
          <1>14, <1>15, <1>16, <1>17, <1>18, <1>19, <1>20, <1>21, <1>22, <1>23, <1>24
     DEF Next, IstekAdimi, FinAdimi, Supurme

-----------------------------------------------------------------------------
(***************************************************************************)
(* Rows                                                                    *)
(***************************************************************************)

\* What a step may do to the row of o for t: nothing, write it, or move it on.
SatirGecer(o, t) ==
    \/ satir'[o][t] = satir[o][t]
    \/ /\ istek[o].adim = "yaz" /\ t = SiradakiHedef(o) /\ istek'[o] # istek[o]
       /\ satir[o][t] = "yok" /\ satir'[o][t] \in AcikDurumlar
    \/ satir[o][t] \in AcikDurumlar /\ satir'[o][t] \in {"RUNNING"} \cup SonDurumlar

\* A conditional UPDATE of the rows (Guncelle) moves open rows only.
LEMMA GuncelleGecer ==
    ASSUME TypeOK, NEW o \in Islem, NEW d \in AcikDurumlar,
           NEW u \in {"RUNNING"} \cup SonDurumlar, Guncelle(o, d, u)
    PROVE  \A p \in Islem, t \in Hedef : SatirGecer(p, t)
<1>1. /\ \A p \in Islem \ {o} : satir'[p] = satir[p]
      /\ \A t \in Hedef : satir'[o][t] = IF satir[o][t] = d THEN u ELSE satir[o][t]
  BY DEF Guncelle, TypeOK
<1>. QED BY <1>1 DEF SatirGecer

\* What a step may do to a row: write it from "yaz", start or close an open one.
LEMMA SatirAdim ==
    ASSUME TipInv, SatirInv, [Next]_vars
    PROVE  \A o \in Islem, t \in Hedef : SatirGecer(o, t)
<1>. USE DEF IstekVerileri, FinDegismez, SatirDegismez, SupurDegismez, TaramaDegismez, TipInv
<1>1. ASSUME UNCHANGED satir PROVE \A o \in Islem, t \in Hedef : SatirGecer(o, t)
  BY <1>1 DEF SatirGecer
<1>2. ASSUME NEW o \in Islem, Birak(o) \/ Kapi(o) \/ Baslat(o) \/ Istek(o) \/ KilitDene(o)
                              \/ KilitBak(o) \/ KilitHata(o)
      PROVE  UNCHANGED satir
  BY <1>2 DEF Birak, Kapi, Baslat, Istek, KilitDene, KilitBak, KilitHata
<1>3. ASSUME NEW o \in Islem, SatirYaz(o) PROVE \A p \in Islem, t \in Hedef : SatirGecer(p, t)
  <2>1. CASE UNCHANGED satir
    BY <1>1, <2>1
  <2>2. CASE satir' = [satir EXCEPT ![o][SiradakiHedef(o)] = istek[o].durum]
    <3>1. istek[o].adim = "yaz" /\ istek[o].durum \in AcikDurumlar
          /\ istek[o].sira \in 1 .. Len(Hedefler[o])
      BY <1>3, IstekTipi DEF SatirYaz, SiraTipi, TypeOK
    <3>2. SiradakiHedef(o) \in Hedef /\ satir[o][SiradakiHedef(o)] = "yok"
      BY <3>1, HedefTipi DEF SiradakiHedef, SatirInv
    <3>3. /\ \A p \in Islem \ {o} : satir'[p] = satir[p]
          /\ \A t \in Hedef \ {SiradakiHedef(o)} : satir'[o][t] = satir[o][t]
          /\ satir'[o][SiradakiHedef(o)] = istek[o].durum
      BY <2>2, <3>2 DEF TypeOK
    <3>4. istek'[o] # istek[o]
      <4>1. \/ istek' = [istek EXCEPT ![o].sira = @ + 1]
            \/ istek' = [istek EXCEPT ![o].adim = "bitti"]
            \/ istek' = [istek EXCEPT ![o].adim = "birak"]
        BY <1>3 DEF SatirYaz
      <4>. QED BY <3>1, <4>1 DEF TypeOK, Istekler
    <3>. QED BY <3>1, <3>2, <3>3, <3>4 DEF SatirGecer
  <2>. QED BY <1>3, <2>1, <2>2 DEF SatirYaz
<1>4. ASSUME NEW f \in Sonuclandiran, FinYaz(f) PROVE \A p \in Islem, t \in Hedef : SatirGecer(p, t)
  <2>1. CASE UNCHANGED satir
    BY <1>1, <2>1
  <2>2. CASE Guncelle(fin[f].is, "RUNNING", "FINISHED")
    <3>1. fin[f].is \in Islem
      BY <1>4 DEF FinYaz, SiraTipi
    <3>. QED BY <2>2, <3>1, GuncelleGecer DEF AcikDurumlar, SonDurumlar
  <2>. QED BY <1>4, <2>1, <2>2 DEF FinYaz, Guncelle
<1>5. ASSUME NEW o \in Islem, Devral(o) \/ Bayat(o) \/ Iptal(o)
      PROVE  \A p \in Islem, t \in Hedef : SatirGecer(p, t)
  <2>1. \E d \in AcikDurumlar, u \in {"RUNNING"} \cup SonDurumlar : Guncelle(o, d, u)
    BY <1>5 DEF Devral, Bayat, Iptal, AcikDurumlar, SonDurumlar
  <2>. QED BY <2>1, GuncelleGecer
<1>6. ASSUME NEW o \in Islem, NEW f \in Sonuclandiran, FinOku(f, o) PROVE UNCHANGED satir
  BY <1>6 DEF FinOku
<1>7. ASSUME NEW f \in Sonuclandiran, FinAyna(f) PROVE UNCHANGED satir
  BY <1>7 DEF FinAyna
<1>8. ASSUME Supurme PROVE UNCHANGED satir
  BY <1>8 DEF Supurme, SupurListele, SupurIslem, SupurBirak
<1>9. ASSUME Tara \/ TaramaListele \/ TaramaSil PROVE UNCHANGED satir
  BY <1>9 DEF Tara, TaramaListele, TaramaSil
<1>10. ASSUME NEW o \in Islem, BiletCozulur(o) \/ AwxBiter(o) PROVE UNCHANGED satir
  BY <1>10 DEF BiletCozulur, AwxBiter
<1>11. ASSUME Cokme \/ UNCHANGED vars PROVE UNCHANGED satir
  BY <1>11 DEF Cokme, vars
<1>. QED BY <1>1, <1>2, <1>3, <1>4, <1>5, <1>6, <1>7, <1>8, <1>9, <1>10, <1>11
     DEF Next, IstekAdimi, FinAdimi

\* A row that is there does not vanish, and a closed row does not move.
LEMMA SatirKalir ==
    ASSUME TypeOK, NEW o \in Islem, NEW t \in Hedef, SatirGecer(o, t)
    PROVE  /\ satir[o][t] \in SonDurumlar => satir'[o][t] = satir[o][t]
           /\ satir'[o][t] \in AcikDurumlar => satir[o][t] \in AcikDurumlar \cup {"yok"}
           /\ istek[o].adim # "yaz" /\ satir[o][t] = "yok" => satir'[o][t] = "yok"
           /\ istek'[o] = istek[o] /\ satir[o][t] = "yok" => satir'[o][t] = "yok"
           /\ t # SiradakiHedef(o) /\ satir[o][t] = "yok" => satir'[o][t] = "yok"
  BY DEF SatirGecer, AcikDurumlar, BekleyenDurumlar, SonDurumlar, TypeOK

\* Where a step takes a request.  Rows are written only from "yaz".
LEMMA SatirInvAdim ==
    ASSUME TipInv, SatirInv, [Next]_vars
    PROVE  SatirInv'
<1>. USE DEF IstekVerileri, FinDegismez, SatirDegismez, SupurDegismez, TaramaDegismez
<1>g. \A o \in Islem, t \in Hedef : SatirGecer(o, t)
  BY SatirAdim
<1>h. /\ TypeOK /\ SiraTipi
      /\ \A o \in Islem : istek[o] \in Istekler /\ istek[o].sira \in 1 .. Len(Hedefler[o])
  BY DEF TipInv, TypeOK, SiraTipi
<1>. DEFINE Onceki == {"bos", "kilit", "bak", "kapi", "baslat"}
            Iyi(o) == \/ istek'[o] = istek[o]
                      \/ istek'[o].adim \in {"birak", "ret", "bitti"}
                      \/ istek[o].adim \in Onceki
                         /\ istek'[o].adim \in Onceki \cup {"yaz"}
                         /\ istek'[o].sira \in 1 .. Len(Hedefler[o])
                      \/ istek[o].adim \notin Onceki \cup {"yaz"}
                         /\ istek'[o].adim \notin Onceki \cup {"yaz"}
                      \/ SatirYaz(o) /\ istek'[o].adim = "yaz"
                         /\ istek'[o].sira = istek[o].sira + 1
<1>1. ASSUME UNCHANGED istek PROVE \A o \in Islem : Iyi(o)
  BY <1>1
<1>2. ASSUME NEW o \in Islem, Istek(o) \/ KilitHata(o) \/ Kapi(o) \/ Baslat(o) \/ Birak(o) \/ SatirYaz(o)
      PROVE  \A p \in Islem : Iyi(p)
  <2>1. \A p \in Islem \ {o} : istek'[p] = istek[p]
    BY <1>2, <1>h DEF Istek, KilitHata, Kapi, Baslat, Birak, SatirYaz, Gider, TypeOK
  <2>2. CASE Istek(o) \/ KilitHata(o)
    <3>1. CASE KilitHata(o)
      BY <1>h, <2>1, <3>1 DEF KilitHata, TypeOK, Istekler
    <3>2. CASE Istek(o)
      <4>1. PICK d \in {"kilit", "kapi"} : istek' = [istek EXCEPT ![o].adim = d]
        BY <3>2 DEF Istek
      <4>2. istek'[o].adim = d /\ istek'[o].sira = istek[o].sira /\ istek[o].adim = "bos"
        BY <1>h, <3>2, <4>1 DEF Istek, TypeOK, Istekler
      <4>. QED BY <1>h, <2>1, <4>2
    <3>. QED BY <2>2, <3>1, <3>2
  <2>3. CASE Kapi(o) \/ Baslat(o)
    BY <1>h, <2>1, <2>3 DEF Kapi, Baslat, Gider, TypeOK, Istekler
  <2>4. CASE Birak(o)
    BY <1>h, <2>1, <2>4 DEF Birak, TypeOK, Istekler
  <2>5. CASE SatirYaz(o)
    <3>1. \/ istek' = [istek EXCEPT ![o].sira = @ + 1]
          \/ istek' = [istek EXCEPT ![o].adim = "bitti"]
          \/ istek' = [istek EXCEPT ![o].adim = "birak"]
      BY <2>5 DEF SatirYaz
    <3>2. istek[o].adim = "yaz"
      BY <2>5 DEF SatirYaz
    <3>. QED BY <1>h, <2>1, <2>5, <3>1, <3>2 DEF TypeOK, Istekler
  <2>. QED BY <1>2, <2>2, <2>3, <2>4, <2>5
<1>3. ASSUME NEW o \in Islem, KilitDene(o) \/ KilitBak(o) PROVE \A p \in Islem : Iyi(p)
  <2>1. istek[o].adim \in {"kilit", "bak"}
    BY <1>3 DEF KilitDene, KilitBak
  <2>2. \/ istek' = [istek EXCEPT ![o].adim = "bak"]
        \/ \E i \in Istekler : i.sira = istek[o].sira /\ Ilerle(o, i)
    <3>1. CASE KilitDene(o)
      <4>. DEFINE q == Append(istek[o].alinan, SiradakiHedef(o))
      <4>1. q \in Seq(Hedef)
        BY <1>h, IstekTipi, AlinanEklenir, HedefTipi DEF SiradakiHedef
      <4>2. istek' = [istek EXCEPT ![o].adim = "bak"] \/ Ilerle(o, [istek[o] EXCEPT !.alinan = q])
        BY <3>1 DEF KilitDene
      <4>. HIDE DEF q
      <4>3. [istek[o] EXCEPT !.alinan = q] \in Istekler
        BY <1>h, <4>1, IstekTipi
      <4>4. [istek[o] EXCEPT !.alinan = q].sira = istek[o].sira
        BY <1>h DEF Istekler
      <4>. QED BY <4>2, <4>3, <4>4
    <3>2. CASE KilitBak(o)
      <4>. DEFINE b == istek[o].mesgul \/ ayna[SiradakiHedef(o)].faz # "yok"
      <4>1. Ilerle(o, [istek[o] EXCEPT !.mesgul = b]) /\ b \in BOOLEAN
        BY <3>2 DEF KilitBak
      <4>. HIDE DEF b
      <4>2. [istek[o] EXCEPT !.mesgul = b] \in Istekler
        BY <1>h, <4>1, IstekTipi
      <4>3. [istek[o] EXCEPT !.mesgul = b].sira = istek[o].sira
        BY <1>h DEF Istekler
      <4>. QED BY <4>1, <4>2, <4>3
    <3>. QED BY <1>3, <3>1, <3>2
  <2>3. CASE istek' = [istek EXCEPT ![o].adim = "bak"]
    BY <1>h, <2>1, <2>3 DEF TypeOK, Istekler
  <2>4. ASSUME NEW i \in Istekler, i.sira = istek[o].sira, Ilerle(o, i)
        PROVE  \A p \in Islem : Iyi(p)
    <3>1. /\ istek'[o].sira \in 1 .. Len(Hedefler[o])
          /\ istek'[o].adim \in {"kilit", "birak", "kapi"}
          /\ \A p \in Islem \ {o} : istek'[p] = istek[p]
      BY <1>h, <2>4, IlerleTipi
    <3>. QED BY <2>1, <3>1
  <2>. QED BY <2>2, <2>3, <2>4
<1>4. ASSUME NEW o \in Islem, Devral(o) \/ Bayat(o) \/ Iptal(o) \/ BiletCozulur(o) \/ AwxBiter(o)
      PROVE  UNCHANGED istek
  BY <1>4 DEF Devral, Bayat, Iptal, BiletCozulur, AwxBiter
<1>5. ASSUME NEW o \in Islem, NEW f \in Sonuclandiran, FinOku(f, o) PROVE UNCHANGED istek
  BY <1>5 DEF FinOku
<1>6. ASSUME NEW f \in Sonuclandiran, FinAdimi(f) PROVE UNCHANGED istek
  BY <1>6 DEF FinAdimi, FinYaz, FinAyna
<1>7. ASSUME Supurme \/ Tara \/ TaramaListele \/ TaramaSil \/ UNCHANGED vars PROVE UNCHANGED istek
  BY <1>7 DEF Supurme, SupurListele, SupurIslem, SupurBirak, Tara, TaramaListele, TaramaSil, vars
<1>8. ASSUME Cokme PROVE \A o \in Islem : Iyi(o)
  BY <1>8, <1>h DEF Cokme, Istekler
<1>9. \A o \in Islem : Iyi(o)
  BY <1>1, <1>2, <1>3, <1>4, <1>5, <1>6, <1>7, <1>8 DEF Next, IstekAdimi
<1>10. ASSUME NEW o \in Islem
       PROVE  /\ istek'[o].adim \in Onceki => \A t \in Hedef : satir'[o][t] = "yok"
              /\ istek'[o].adim = "yaz"
                 => \A i \in istek'[o].sira .. Len(Hedefler[o]) : satir'[o][Hedefler[o][i]] = "yok"
  <2>0. /\ Len(Hedefler[o]) \in Nat
        /\ \A i \in 1 .. Len(Hedefler[o]) : Hedefler[o][i] \in Hedef
        /\ \A i, j \in 1 .. Len(Hedefler[o]) : Hedefler[o][i] = Hedefler[o][j] => i = j
    BY HedefTipi
  <2>1. CASE istek[o].adim \in Onceki
    <3>1. \A t \in Hedef : satir'[o][t] = "yok"
      BY <1>g, <1>h, <2>1, SatirKalir DEF SatirInv
    <3>2. istek'[o].adim = "yaz" => istek'[o].sira \in 1 .. Len(Hedefler[o])
      BY <1>9, <2>1 DEF SatirYaz
    <3>. QED BY <2>0, <3>1, <3>2
  <2>2. CASE istek[o].adim = "yaz" /\ SatirYaz(o) /\ istek'[o].adim = "yaz"
             /\ istek'[o].sira = istek[o].sira + 1
    <3>1. ASSUME NEW i \in istek[o].sira + 1 .. Len(Hedefler[o])
          PROVE  satir'[o][Hedefler[o][i]] = "yok"
      <4>1. i \in 1 .. Len(Hedefler[o]) /\ i \in istek[o].sira .. Len(Hedefler[o]) /\ i # istek[o].sira
        BY <1>h, <2>0, <3>1
      <4>2. Hedefler[o][i] \in Hedef /\ Hedefler[o][i] # SiradakiHedef(o)
        BY <1>h, <2>0, <4>1 DEF SiradakiHedef
      <4>3. satir[o][Hedefler[o][i]] = "yok"
        BY <2>2, <4>1 DEF SatirInv
      <4>. QED BY <1>g, <1>h, <4>2, <4>3, SatirKalir
    <3>. QED BY <2>2, <3>1
  <2>3. CASE istek[o].adim = "yaz" /\ istek'[o] = istek[o]
    <3>1. ASSUME NEW i \in istek[o].sira .. Len(Hedefler[o])
          PROVE  satir'[o][Hedefler[o][i]] = "yok"
      <4>1. i \in 1 .. Len(Hedefler[o]) /\ satir[o][Hedefler[o][i]] = "yok"
        BY <1>h, <2>0, <2>3, <3>1 DEF SatirInv
      <4>. QED BY <1>g, <1>h, <2>0, <2>3, <4>1, SatirKalir
    <3>. QED BY <2>3, <3>1
  <2>4. CASE istek'[o].adim \notin Onceki \cup {"yaz"}
    BY <2>4
  <2>5. SatirYaz(o) => istek[o].adim = "yaz"
    BY DEF SatirYaz
  <2>6. Iyi(o)
    BY <1>9
  <2>. HIDE DEF Onceki
  <2>7. \/ istek[o].adim \in Onceki
        \/ istek[o].adim = "yaz" /\ SatirYaz(o) /\ istek'[o].adim = "yaz"
             /\ istek'[o].sira = istek[o].sira + 1
        \/ istek[o].adim = "yaz" /\ istek'[o] = istek[o]
        \/ istek'[o].adim \notin Onceki \cup {"yaz"}
    <3>1. {"birak", "ret", "bitti"} \cap (Onceki \cup {"yaz"}) = {}
      BY DEF Onceki
    <3>. QED BY <2>5, <2>6, <3>1
  <2>. QED BY <2>1, <2>2, <2>3, <2>4, <2>7
<1>. QED BY <1>10 DEF SatirInv

-----------------------------------------------------------------------------
(***************************************************************************)
(* The sweep                                                               *)
(***************************************************************************)

\* Every step keeps what the sweep knows; only its unlocking frees a lock of eski.
LEMMA SupurInvAdim ==
    ASSUME TipInv, SatirInv, SupurInv, [Next]_vars
    PROVE  SupurInv'
<1>. USE DEF IstekVerileri, FinDegismez, SatirDegismez, SupurDegismez, TaramaDegismez
<1>t. TypeOK
  BY DEF TipInv
<1>g. ASSUME NEW o \in Islem, NEW t \in Hedef, <<o, t>> \in supur.eski
      PROVE  /\ o \in GeriAlma
             /\ satir'[o][t] \in {"RUNNING", "PENDING_APPROVAL"} \cup SonDurumlar
             /\ satir'[o][t] \in AcikDurumlar => satir[o][t] \in AcikDurumlar
  <2>1. SatirGecer(o, t)
    BY SatirAdim
  <2>2. o \in GeriAlma /\ satir[o][t] \in {"RUNNING", "PENDING_APPROVAL"} \cup SonDurumlar
    BY <1>g DEF SupurInv
  <2>. QED BY <2>1, <2>2 DEF SatirGecer, AcikDurumlar, BekleyenDurumlar, SonDurumlar
<1>1. ASSUME UNCHANGED supur PROVE SupurInv'
  BY <1>1, <1>g DEF SupurInv
<1>2. ASSUME supur' = SupurBos PROVE SupurInv'
  BY <1>2 DEF SupurInv, SupurBos
<1>3. ASSUME SupurListele PROVE SupurInv'
  <2>1. UNCHANGED satir /\ supur'.adim = "islem"
        /\ \A p \in supur'.eski : p \in Islem \X Hedef /\ SurenGeriAlma(p[1], p[2])
    BY <1>3 DEF SupurListele
  <2>. QED BY <2>1 DEF SupurInv, SurenGeriAlma
<1>4. ASSUME SupurIslem PROVE SupurInv'
  <2>. DEFINE yetim == {t \in supur.kilitli : ~Suruyor(t)}
  <2>1. CASE supur' = [supur EXCEPT !.adim = "birak", !.kilitli = yetim]
    <3>1. supur'.eski = supur.eski /\ supur'.kilitli = yetim /\ UNCHANGED satir
      BY <1>4, <1>t, <2>1 DEF SupurIslem, TypeOK, Supurmeler
    <3>2. ASSUME NEW o \in Islem, NEW t \in Hedef, <<o, t>> \in supur.eski,
                 satir[o][t] \in AcikDurumlar
          PROVE  t \notin yetim
      <4>1. SurenGeriAlma(o, t) /\ o \in GeriAlma
        BY <3>2 DEF SupurInv, SurenGeriAlma, AcikDurumlar, BekleyenDurumlar, SonDurumlar
      <4>. QED BY <4>1 DEF Suruyor
    <3>. QED BY <3>1, <3>2 DEF SupurInv
  <2>2. CASE supur' = SupurBos
    BY <1>2, <2>2
  <2>. QED BY <1>4, <2>1, <2>2 DEF SupurIslem
<1>5. ASSUME SupurBirak PROVE SupurInv'
  <2>1. CASE supur' = SupurBos
    BY <1>2, <2>1
  <2>2. ASSUME NEW t \in supur.kilitli, supur' = [supur EXCEPT !.kilitli = @ \ {t}]
        PROVE  SupurInv'
    <3>1. supur'.eski = supur.eski /\ supur'.kilitli \subseteq supur.kilitli
          /\ supur'.adim = supur.adim /\ UNCHANGED satir
      BY <1>5, <1>t, <2>2 DEF SupurBirak, TypeOK, Supurmeler
    <3>. QED BY <3>1 DEF SupurInv
  <2>. QED BY <1>5, <2>1, <2>2 DEF SupurBirak
<1>6. ASSUME NEW o \in Islem,
             \/ Istek(o) \/ IstekAdimi(o) \/ Devral(o) \/ Bayat(o) \/ Iptal(o)
             \/ BiletCozulur(o) \/ AwxBiter(o)
      PROVE  UNCHANGED supur
  BY <1>6 DEF Istek, IstekAdimi, KilitDene, KilitBak, KilitHata, Birak, Kapi, Baslat, SatirYaz,
              Devral, Bayat, Iptal, BiletCozulur, AwxBiter
<1>7. ASSUME NEW o \in Islem, NEW f \in Sonuclandiran, FinOku(f, o) PROVE UNCHANGED supur
  BY <1>7 DEF FinOku
<1>8. ASSUME NEW f \in Sonuclandiran, FinAdimi(f) PROVE UNCHANGED supur
  BY <1>8 DEF FinAdimi, FinYaz, FinAyna
<1>9. ASSUME Tara \/ TaramaListele \/ TaramaSil \/ UNCHANGED vars PROVE UNCHANGED supur
  BY <1>9 DEF Tara, TaramaListele, TaramaSil, vars
<1>10. ASSUME Cokme PROVE supur' = SupurBos
  BY <1>10 DEF Cokme
<1>. QED BY <1>1, <1>2, <1>3, <1>4, <1>5, <1>6, <1>7, <1>8, <1>9, <1>10 DEF Next, Supurme

-----------------------------------------------------------------------------
(***************************************************************************)
(* The locks of a request                                                  *)
(***************************************************************************)

\* A step that takes no lock.
KilitAlinmaz ==
    \A t \in Hedef : ayna'[t].faz = "restoring" => ayna[t].faz = "restoring" /\ sahip'[t] = sahip[t]

\* A step after which request o still knows the locks it knew.
Unutmaz(o) ==
    /\ istek'[o].adim \in {"bos", "ret"} => istek'[o].alinan = <<>>
    /\ istek'[o].adim # "bitti" /\ ~istek'[o].hata
       => /\ istek[o].adim # "bitti" /\ ~istek[o].hata
          /\ Range(istek[o].alinan) \subseteq Range(istek'[o].alinan)

\* A step that loses no lock a request has to give back preserves KilitInv.
LEMMA UnutmazKorur ==
    ASSUME TypeOK, KilitInv, KilitAlinmaz, \A o \in Islem : Unutmaz(o)
    PROVE  KilitInv'
<1>1. GeriAlma \subseteq Islem
  BY IslemVarsayimi
<1>. QED BY <1>1 DEF KilitInv, KilitAlinmaz, Unutmaz

\* Every step keeps KilitInv: a lock is taken together with its entry in alinan.
LEMMA KilitInvAdim ==
    ASSUME TipInv, KilitInv, [Next]_vars
    PROVE  KilitInv'
<1>. USE DEF IstekVerileri, FinDegismez, SatirDegismez, SupurDegismez, TaramaDegismez
<1>h. /\ TypeOK /\ SiraTipi
      /\ \A o \in Islem : /\ istek[o] \in Istekler /\ istek[o].sira \in 1 .. Len(Hedefler[o])
                          /\ SiradakiHedef(o) \in Hedef /\ istek[o].alinan \in Seq(Hedef)
  BY HedefTipi, IstekTipi DEF TipInv, TypeOK, SiraTipi, SiradakiHedef
<1>u. ASSUME NEW o \in Islem, istek'[o] = istek[o] PROVE Unutmaz(o)
  BY <1>u DEF Unutmaz, KilitInv
<1>k. ASSUME UNCHANGED <<ayna, sahip>> PROVE KilitAlinmaz
  BY <1>k DEF KilitAlinmaz
<1>1. ASSUME NEW o \in Islem, Istek(o) PROVE KilitInv'
  <2>1. KilitAlinmaz
    BY <1>1, <1>k DEF Istek
  <2>2. PICK d \in {"kilit", "kapi"} : istek' = [istek EXCEPT ![o].adim = d]
    BY <1>1 DEF Istek
  <2>3. /\ \A p \in Islem \ {o} : istek'[p] = istek[p]
        /\ istek'[o].adim = d /\ istek'[o].alinan = istek[o].alinan /\ istek'[o].hata = istek[o].hata
        /\ istek[o].adim = "bos"
    BY <1>1, <1>h, <2>2 DEF Istek, TypeOK, Istekler
  <2>4. \A p \in Islem : Unutmaz(p)
    BY <1>u, <2>3 DEF Unutmaz
  <2>. QED BY <1>h, <2>1, <2>4, UnutmazKorur
<1>2. ASSUME NEW o \in Islem, NEW i \in Istekler, i.sira = istek[o].sira, i.hata = istek[o].hata,
             i.alinan = istek[o].alinan, Ilerle(o, i), UNCHANGED <<ayna, sahip>>,
             istek[o].adim = "bak"
      PROVE  KilitInv'
  <2>1. /\ istek'[o].adim \in {"kilit", "birak", "kapi"}
        /\ istek'[o].alinan = istek[o].alinan /\ istek'[o].hata = istek[o].hata
        /\ \A p \in Islem \ {o} : istek'[p] = istek[p]
    BY <1>2, <1>h, IlerleTipi
  <2>2. \A p \in Islem : Unutmaz(p)
    BY <1>2, <1>u, <2>1 DEF Unutmaz
  <2>. QED BY <1>2, <1>h, <1>k, <2>2, UnutmazKorur
<1>3. ASSUME NEW o \in Islem, KilitBak(o) PROVE KilitInv'
  <2>. DEFINE b == istek[o].mesgul \/ ayna[SiradakiHedef(o)].faz # "yok"
              i == [istek[o] EXCEPT !.mesgul = b]
  <2>1. b \in BOOLEAN /\ Ilerle(o, i) /\ UNCHANGED <<ayna, sahip>> /\ istek[o].adim = "bak"
    BY <1>3 DEF KilitBak
  <2>. HIDE DEF b
  <2>2. i \in Istekler
    BY <1>h, <2>1, IstekTipi
  <2>3. i.sira = istek[o].sira /\ i.hata = istek[o].hata /\ i.alinan = istek[o].alinan
    BY <1>h DEF Istekler
  <2>. HIDE DEF i
  <2>. QED BY <1>2, <2>1, <2>2, <2>3
<1>4. ASSUME NEW o \in Islem, KilitDene(o) PROVE KilitInv'
  <2>. DEFINE t == SiradakiHedef(o)
              q == Append(istek[o].alinan, t)
              i == [istek[o] EXCEPT !.alinan = q]
  <2>0. istek[o].adim = "kilit"
    BY <1>4 DEF KilitDene
  <2>1. CASE istek' = [istek EXCEPT ![o].adim = "bak"] /\ UNCHANGED <<ayna, sahip>>
    <3>1. /\ \A p \in Islem \ {o} : istek'[p] = istek[p]
          /\ istek'[o].adim = "bak" /\ istek'[o].alinan = istek[o].alinan /\ istek'[o].hata = istek[o].hata
      BY <1>h, <2>1 DEF TypeOK, Istekler
    <3>2. \A p \in Islem : Unutmaz(p)
      BY <1>u, <2>0, <3>1 DEF Unutmaz
    <3>. QED BY <1>h, <1>k, <2>1, <3>2, UnutmazKorur
  <2>2. CASE /\ ayna' = [ayna EXCEPT ![t].faz = "restoring"] /\ sahip' = [sahip EXCEPT ![t] = o]
             /\ Ilerle(o, i)
    <3>1. q \in Seq(Hedef) /\ Range(q) = Range(istek[o].alinan) \cup {t} /\ t \in Hedef
      BY <1>h, AlinanEklenir
    <3>. HIDE DEF q
    <3>2. i \in Istekler
      BY <1>h, <3>1, IstekTipi
    <3>3. i.sira = istek[o].sira /\ i.hata = istek[o].hata /\ i.alinan = q
      BY <1>h DEF Istekler
    <3>. HIDE DEF i
    <3>4. /\ istek'[o].adim \in {"kilit", "birak", "kapi"}
          /\ istek'[o].alinan = q /\ istek'[o].hata = istek[o].hata
          /\ \A p \in Islem \ {o} : istek'[p] = istek[p]
      BY <1>h, <2>2, <3>2, <3>3, IlerleTipi
    <3>. HIDE DEF t
    <3>5. /\ sahip'[t] = o
          /\ \A r \in Hedef \ {t} : ayna'[r] = ayna[r] /\ sahip'[r] = sahip[r]
      BY <1>h, <2>2, <3>1 DEF TypeOK
    <3>6. \A p \in Islem : istek'[p].adim \in {"bos", "ret"} => istek'[p].alinan = <<>>
      BY <3>4 DEF KilitInv
    <3>7. ASSUME NEW p \in GeriAlma, NEW r \in Hedef, ayna'[r].faz = "restoring", sahip'[r] = p,
                 istek'[p].adim # "bitti", ~istek'[p].hata
          PROVE  r \in Range(istek'[p].alinan)
      <4>1. p \in Islem
        BY IslemVarsayimi
      <4>2. CASE r = t
        BY <3>1, <3>4, <3>5, <3>7, <4>2
      <4>3. CASE r # t
        <5>1. ayna[r].faz = "restoring" /\ sahip[r] = p
          BY <3>5, <3>7, <4>3
        <5>2. istek[p].adim # "bitti" /\ ~istek[p].hata
          BY <2>0, <3>4, <3>7, <4>1
        <5>3. r \in Range(istek[p].alinan)
          BY <5>1, <5>2 DEF KilitInv
        <5>. QED BY <3>1, <3>4, <4>1, <5>3
      <4>. QED BY <4>2, <4>3
    <3>. QED BY <3>6, <3>7 DEF KilitInv
  <2>. QED BY <1>4, <2>1, <2>2 DEF KilitDene
<1>5. ASSUME NEW o \in Islem, Birak(o) PROVE KilitInv'
  <2>0. istek[o].adim = "birak" /\ UNCHANGED sahip
    BY <1>5 DEF Birak
  <2>1. CASE istek[o].alinan = <<>>
    <3>1. istek' = [istek EXCEPT ![o].adim = "ret"] /\ UNCHANGED ayna
      BY <1>5, <2>1 DEF Birak
    <3>2. /\ \A p \in Islem \ {o} : istek'[p] = istek[p]
          /\ istek'[o].adim = "ret" /\ istek'[o].alinan = <<>> /\ istek'[o].hata = istek[o].hata
      BY <1>h, <2>1, <3>1 DEF TypeOK, Istekler
    <3>3. \A p \in Islem : Unutmaz(p)
      BY <1>u, <2>0, <2>1, <3>2 DEF Unutmaz
    <3>. QED BY <1>h, <1>k, <2>0, <3>1, <3>3, UnutmazKorur
  <2>2. CASE istek[o].alinan # <<>>
    <3>. DEFINE h == Head(istek[o].alinan)
                q == Tail(istek[o].alinan)
    <3>1. h \in Hedef /\ q \in Seq(Hedef) /\ Range(istek[o].alinan) \subseteq Range(q) \cup {h}
      BY <1>h, <2>2, AlinanCikar
    <3>2. \/ ayna' = [ayna EXCEPT ![h] = unlockRestore(@)] /\ istek' = [istek EXCEPT ![o].alinan = q]
          \/ UNCHANGED ayna /\ istek' = [istek EXCEPT ![o].alinan = q, ![o].hata = TRUE]
      BY <1>5, <2>2 DEF Birak
    <3>. HIDE DEF h, q
    <3>3. /\ \A p \in Islem \ {o} : istek'[p] = istek[p]
          /\ istek'[o].adim = "birak"
      BY <1>h, <2>0, <3>2 DEF TypeOK, Istekler
    <3>4. CASE UNCHANGED ayna /\ istek' = [istek EXCEPT ![o].alinan = q, ![o].hata = TRUE]
      <4>1. istek'[o].hata
        BY <1>h, <3>4 DEF TypeOK, Istekler
      <4>2. \A p \in Islem : Unutmaz(p)
        BY <1>u, <3>3, <4>1 DEF Unutmaz
      <4>. QED BY <1>h, <1>k, <2>0, <3>4, <4>2, UnutmazKorur
    <3>5. CASE ayna' = [ayna EXCEPT ![h] = unlockRestore(@)] /\ istek' = [istek EXCEPT ![o].alinan = q]
      <4>1. istek'[o].alinan = q /\ istek'[o].hata = istek[o].hata
        BY <1>h, <3>5 DEF TypeOK, Istekler
      <4>2. ayna[h] \in AynaSatiri
        BY <1>h, <3>1 DEF TypeOK
      <4>3. /\ ayna'[h].faz # "restoring"
            /\ \A r \in Hedef \ {h} : ayna'[r] = ayna[r]
        BY <1>h, <3>1, <3>5, <4>2, AynaSatirlari DEF TypeOK
      <4>4. \A p \in Islem : istek'[p].adim \in {"bos", "ret"} => istek'[p].alinan = <<>>
        BY <3>3 DEF KilitInv
      <4>5. ASSUME NEW p \in GeriAlma, NEW r \in Hedef, ayna'[r].faz = "restoring", sahip'[r] = p,
                   istek'[p].adim # "bitti", ~istek'[p].hata
            PROVE  r \in Range(istek'[p].alinan)
        <5>1. p \in Islem
          BY IslemVarsayimi
        <5>2. r # h /\ ayna[r].faz = "restoring" /\ sahip[r] = p
          BY <2>0, <4>3, <4>5
        <5>3. istek[p].adim # "bitti" /\ ~istek[p].hata
          BY <2>0, <3>3, <4>1, <4>5, <5>1
        <5>4. r \in Range(istek[p].alinan)
          BY <5>2, <5>3 DEF KilitInv
        <5>. QED BY <3>1, <3>3, <4>1, <5>1, <5>2, <5>4
      <4>. QED BY <4>4, <4>5 DEF KilitInv
    <3>. QED BY <3>2, <3>4, <3>5
  <2>. QED BY <2>1, <2>2
<1>6. ASSUME NEW o \in Islem, KilitHata(o) \/ Kapi(o) \/ Baslat(o) \/ SatirYaz(o) PROVE KilitInv'
  <2>1. KilitAlinmaz
    BY <1>6, <1>k DEF KilitHata, Kapi, Baslat, SatirYaz
  <2>2. istek[o].adim \in {"kilit", "bak", "kapi", "baslat", "yaz"}
    BY <1>6 DEF KilitHata, Kapi, Baslat, SatirYaz
  <2>3. \/ \E d \in {"bitti", "baslat", "birak", "yaz"} :
              \/ istek' = [istek EXCEPT ![o].adim = d]
              \/ \E u : istek' = [istek EXCEPT ![o].adim = d, ![o].durum = u]
        \/ istek' = [istek EXCEPT ![o].sira = @ + 1]
    BY <1>6 DEF KilitHata, Kapi, Baslat, SatirYaz, Gider
  <2>4. /\ \A p \in Islem \ {o} : istek'[p] = istek[p]
        /\ istek'[o].alinan = istek[o].alinan /\ istek'[o].hata = istek[o].hata
        /\ istek'[o].adim \notin {"bos", "ret"}
    BY <1>h, <2>2, <2>3 DEF TypeOK, Istekler
  <2>5. \A p \in Islem : Unutmaz(p)
    BY <1>u, <2>2, <2>4 DEF Unutmaz
  <2>. QED BY <1>h, <2>1, <2>5, UnutmazKorur
<1>7. ASSUME UNCHANGED istek, KilitAlinmaz PROVE KilitInv'
  <2>1. \A o \in Islem : Unutmaz(o)
    BY <1>7, <1>u
  <2>. QED BY <1>7, <1>h, <2>1, UnutmazKorur
<1>8. ASSUME NEW o \in Islem, Devral(o) \/ Bayat(o) \/ Iptal(o) \/ BiletCozulur(o) \/ AwxBiter(o)
      PROVE  KilitInv'
  <2>1. UNCHANGED <<istek, ayna, sahip>>
    BY <1>8 DEF Devral, Bayat, Iptal, BiletCozulur, AwxBiter
  <2>. QED BY <1>7, <1>k, <2>1
<1>9. ASSUME NEW o \in Islem, NEW f \in Sonuclandiran, FinOku(f, o) PROVE KilitInv'
  <2>1. UNCHANGED <<istek, ayna, sahip>>
    BY <1>9 DEF FinOku
  <2>. QED BY <1>7, <1>k, <2>1
<1>10. ASSUME NEW f \in Sonuclandiran, FinYaz(f) PROVE KilitInv'
  <2>1. UNCHANGED <<istek, ayna, sahip>>
    BY <1>10 DEF FinYaz
  <2>. QED BY <1>7, <1>k, <2>1
<1>11. ASSUME NEW f \in Sonuclandiran, FinAyna(f) PROVE KilitInv'
  <2>. DEFINE o == fin[f].is
              t == Hedefler[o][fin[f].sira]
  <2>1. o \in Islem /\ t \in Hedef
    BY <1>11, <1>h, HedefTipi DEF FinAyna, SiraTipi
  <2>2. AynayaYazilan(o, t).faz = "restoring" => AynayaYazilan(o, t) = ayna[t]
    BY <1>h, <2>1, YazilanTipi DEF TypeOK
  <2>3. UNCHANGED <<istek, sahip>>
        /\ (UNCHANGED ayna \/ ayna' = [ayna EXCEPT ![t] = AynayaYazilan(o, t)])
    BY <1>11 DEF FinAyna
  <2>4. KilitAlinmaz
    BY <1>h, <2>1, <2>2, <2>3 DEF KilitAlinmaz, TypeOK
  <2>. QED BY <1>7, <2>3, <2>4
<1>12. ASSUME NEW t \in Hedef, ayna' = [ayna EXCEPT ![t] = unlockRestore(@)], UNCHANGED sahip
       PROVE  KilitAlinmaz
  <2>1. unlockRestore(ayna[t]).faz # "restoring"
    BY <1>h, AynaSatirlari DEF TypeOK
  <2>. QED BY <1>12, <1>h, <2>1 DEF KilitAlinmaz, TypeOK
<1>13. ASSUME Supurme PROVE KilitInv'
  <2>1. UNCHANGED <<istek, sahip>>
        /\ (UNCHANGED ayna \/ \E t \in supur.kilitli : ayna' = [ayna EXCEPT ![t] = unlockRestore(@)])
    BY <1>13 DEF Supurme, SupurListele, SupurIslem, SupurBirak
  <2>2. supur.kilitli \subseteq Hedef
    BY <1>h DEF TypeOK, Supurmeler
  <2>. QED BY <1>7, <1>k, <1>12, <2>1, <2>2
<1>14. ASSUME Tara \/ TaramaListele \/ TaramaSil PROVE KilitInv'
  <2>1. UNCHANGED <<istek, sahip>>
        /\ (UNCHANGED ayna \/ \E t \in tarama.canli : ayna' = [ayna EXCEPT ![t] = AynaYok])
    BY <1>14 DEF Tara, TaramaListele, TaramaSil
  <2>2. AynaYok.faz # "restoring" /\ ayna \in [Hedef -> AynaSatiri]
    BY <1>h DEF TypeOK, AynaYok
  <2>3. KilitAlinmaz
    BY <2>1, <2>2 DEF KilitAlinmaz
  <2>. QED BY <1>7, <2>1, <2>3
<1>15. ASSUME Cokme PROVE KilitInv'
  <2>1. UNCHANGED <<ayna, sahip>>
    BY <1>15 DEF Cokme
  <2>2. ASSUME NEW o \in Islem PROVE Unutmaz(o)
    <3>1. istek'[o] = istek[o] \/ istek'[o] = [istek[o] EXCEPT !.adim = "bitti"]
      BY <1>15 DEF Cokme
    <3>2. CASE istek'[o] = [istek[o] EXCEPT !.adim = "bitti"]
      <4>1. istek'[o].adim = "bitti"
        BY <1>h, <3>2 DEF Istekler
      <4>. QED BY <4>1 DEF Unutmaz
    <3>. QED BY <1>u, <3>1, <3>2
  <2>. QED BY <1>h, <1>k, <2>1, <2>2, UnutmazKorur
<1>16. ASSUME UNCHANGED vars PROVE KilitInv'
  <2>1. UNCHANGED <<istek, ayna, sahip>>
    BY <1>16 DEF vars
  <2>. QED BY <1>7, <1>k, <2>1
<1>. QED BY <1>1, <1>3, <1>4, <1>5, <1>6, <1>8, <1>9, <1>10, <1>11, <1>13, <1>14, <1>15, <1>16
     DEF Next, IstekAdimi, FinAdimi

-----------------------------------------------------------------------------
(***************************************************************************)
(* Theorems                                                                *)
(***************************************************************************)

\* The first state satisfies the inductive invariant.
LEMMA Baslangic == Init => IInv
<1>. SUFFICES ASSUME Init PROVE IInv
  OBVIOUS
<1>1. TipInv
  BY TipBaslangic
<1>2. SatirInv
  BY DEF Init, SatirInv, IstekBos
<1>3. SupurInv
  BY DEF Init, SupurInv, SupurBos
<1>4. KilitInv
  <2>1. \A o \in Islem : istek[o].alinan = <<>>
    BY DEF Init, IstekBos
  <2>2. \A t \in Hedef : ayna[t].faz # "restoring"
    BY DEF Init, AynaYok, AynaDurdu
  <2>. QED BY <2>1, <2>2 DEF KilitInv
<1>. QED BY <1>1, <1>2, <1>3, <1>4 DEF IInv

\* Every step preserves the inductive invariant.
LEMMA Adim == IInv /\ [Next]_vars => IInv'
  BY TipAdim, SatirInvAdim, SupurInvAdim, KilitInvAdim DEF IInv

\* The inductive invariant holds: loop indices, where the rows of a request are, what
\* the sweep may free and what a request still has to give back (scalex/index.cjs,
\* reconciler.cjs, state.cjs).
THEOREM IInvDogru == Spec => []IInv
  BY Baslangic, Adim, PTL DEF Spec

\* Every reachable state of ScaleX is well typed: no mirror row counts attempts
\* without being there.
THEOREM TipDogru == Spec => []TypeOK
<1>1. IInv => TypeOK
  BY DEF IInv, TipInv
<1>. QED BY <1>1, IInvDogru, PTL

\* A closed row keeps its status, whoever races for it: SatirAdim says what a step
\* may do to a row, and a handler writes a row only while it is not there.
THEOREM SonlananDegismezDogru == Spec => SonlananDegismez
<1>1. IInv /\ [Next]_vars =>
        [\A o \in Islem, t \in Hedef :
            satir[o][t] \in SonDurumlar => satir'[o][t] = satir[o][t]]_vars
  BY SatirAdim, SatirKalir DEF IInv, TipInv
<1>. QED BY <1>1, IInvDogru, PTL DEF Spec, SonlananDegismez

\* The sweep does not free the lock of a restore that was open when it listed the
\* locks and still is.
THEOREM SupurmeDogru == Spec => []SupurmeCalisaniBirakmaz
<1>1. IInv => SupurmeCalisaniBirakmaz
  BY DEF IInv, SupurInv, SupurmeCalisaniBirakmaz
<1>. QED BY <1>1, IInvDogru, PTL

\* A restore that was turned away keeps no target locked, unless an unlock failed.
THEOREM TumuYaDaHicbiriDogru == Spec => []TumuYaDaHicbiri
<1>1. IInv => TumuYaDaHicbiri
  <2>1. Range(<<>>) = {}
    BY DEF Range
  <2>2. GeriAlma \subseteq Islem
    BY IslemVarsayimi
  <2>. QED BY <2>1, <2>2 DEF IInv, KilitInv, TumuYaDaHicbiri
<1>. QED BY <1>1, IInvDogru, PTL
=============================================================================
