------------------------- MODULE KuyrukDenemeKanit -------------------------
(***************************************************************************)
(* The limit of attempts, for every set of processes and items: the count  *)
(* is in the row of the item, the decision is taken from a copy, and the   *)
(* close is a statement of its own.                                        *)
(***************************************************************************)
EXTENDS KuyrukKanit

-----------------------------------------------------------------------------
(***************************************************************************)
(* The inductive invariant                                                 *)
(***************************************************************************)

\* The steps of a turn from which it may still count an attempt of its item.
Sayma == {"kapi", "al", "kanca", "baslat", "geriAl", "ilerlet"}

\* The count in the copy of the turn is not behind that of the row.
KopyaGeride(p) ==
    kuyruk.kira = p /\ surec[p].adim \in Sayma => oge[surec[p].o].deneme <= surec[p].goz.deneme

\* With it the turn that brings a row to the limit sees that it does: DenemeSiniri alone is not
\* inductive, a copy could be older than the row.
SinirInv == DenemeSiniri /\ (~yarim => \A p \in Surec : KopyaGeride(p))

-----------------------------------------------------------------------------
(***************************************************************************)
(* Steps that count nothing                                                *)
(***************************************************************************)

\* No attempt is added, though the owner's edit may take all of them away.
SayilmazOge == \A o \in Oge : oge'[o].deneme \in {0, oge[o].deneme}

\* The turn p works on the copy it had, takes a new one, or counts no more; and it does not
\* leave the close after the last attempt undone.
SayilmazTur(p) ==
    /\ surec'[p].adim \in Sayma =>
        \/ /\ surec[p].adim \in Sayma /\ surec'[p].o = surec[p].o
           /\ surec'[p].goz.deneme = surec[p].goz.deneme
        \/ /\ surec'[p].o \in Oge
           /\ oge[surec'[p].o].deneme <= surec'[p].goz.deneme
    /\ surec[p].adim = "kapatGecici" => yarim' \/ oge'[surec[p].o].durum \in KapaliOge

SayilmazGecmis == kuyruk'.kira = kuyruk.kira /\ (yarim => yarim')

\* A closed item stays closed.
LEMMA KapaliKalir ==
    ASSUME NEW p, Etki(p), NEW o \in Oge, oge[o].durum \in KapaliOge
    PROVE  oge'[o].durum \in KapaliOge
<1>1. OgeGecis(p, o, oge'[o])
  BY DEF Etki, OgeEtki
<1>. QED BY <1>1 DEF OgeGecis, KapaliOge, NumaraYazilir, Numarali

\* The types that are needed below.
LEMMA DenemeTipleri ==
    ASSUME TipInv
    PROVE  /\ GECICI_DENEME_SINIRI \in Nat \ {0} /\ yarim \in BOOLEAN
           /\ \A o \in Oge : oge[o] \in OgeSatirlari /\ oge[o].deneme \in Nat
           /\ \A p \in Surec : /\ surec[p].goz.deneme \in Nat
                               /\ surec[p].adim \in Sayma \cup {"kapatGecici"} => surec[p].o \in Oge
<1>1. \A o \in Oge : oge[o] \in OgeSatirlari
  BY DEF TipInv, TypeOK
<1>2. \A p \in Surec : surec[p].goz \in OgeSatirlari /\ TurTipi(surec[p])
  BY DEF TipInv, TypeOK
<1>3. \A p \in Surec : surec[p].adim \in Sayma \cup {"kapatGecici"} => surec[p].o \in Oge
  BY <1>2 DEF TurTipi, Sayma, OgeliAdimlar
<1>4. yarim \in BOOLEAN
  BY DEF TipInv, TypeOK
<1>. QED BY <1>1, <1>2, <1>3, <1>4, KuyrukSinirlari DEF OgeSatirlari

LEMMA SayilmazSinir ==
    ASSUME IInv, SinirInv, NEW p \in Surec \cup {Yok}, Etki(p),
           SayilmazOge, SayilmazGecmis, p \in Surec => SayilmazTur(p)
    PROVE  SinirInv'
<1>. SUFFICES ASSUME ~yarim' PROVE SinirInv'
  BY DEF SinirInv, DenemeSiniri
<1>1. TipInv /\ ~yarim /\ kuyruk'.kira = kuyruk.kira
  BY DEF IInv, SayilmazGecmis
<1>2. /\ GECICI_DENEME_SINIRI \in Nat \ {0}
      /\ \A o \in Oge : oge[o].deneme \in Nat /\ oge'[o].deneme \in {0, oge[o].deneme}
  BY <1>1, DenemeTipleri DEF SayilmazOge
<1>3. \A q \in Surec \ {p} : surec'[q] = surec[q]
  BY DEF Etki, SurecEtki
<1>4. ASSUME NEW o \in Oge
      PROVE  /\ oge'[o].deneme <= GECICI_DENEME_SINIRI
             /\ oge'[o].deneme = GECICI_DENEME_SINIRI =>
                  \/ oge'[o].durum \in KapaliOge
                  \/ \E q \in Surec : kuyruk'.kira = q /\ surec'[q].adim = "kapatGecici" /\ surec'[q].o = o
  <2>1. oge[o].deneme <= GECICI_DENEME_SINIRI
    BY <1>1 DEF SinirInv, DenemeSiniri
  <2>2. oge'[o].deneme <= GECICI_DENEME_SINIRI
    BY <1>2, <2>1
  <2>3. ASSUME oge'[o].deneme = GECICI_DENEME_SINIRI, oge'[o].durum \notin KapaliOge
        PROVE  \E q \in Surec : kuyruk'.kira = q /\ surec'[q].adim = "kapatGecici" /\ surec'[q].o = o
    <3>1. oge[o].deneme = GECICI_DENEME_SINIRI /\ oge[o].durum \notin KapaliOge
      BY <1>2, <2>3, KapaliKalir
    <3>2. PICK q \in Surec : kuyruk.kira = q /\ surec[q].adim = "kapatGecici" /\ surec[q].o = o
      BY <1>1, <3>1 DEF SinirInv, DenemeSiniri
    <3>3. q # p
      BY <2>3, <3>2 DEF SayilmazTur
    <3>. QED BY <1>1, <1>3, <3>2, <3>3
  <2>. QED BY <2>2, <2>3
<1>5. ASSUME NEW q \in Surec, kuyruk'.kira = q, surec'[q].adim \in Sayma
      PROVE  oge'[surec'[q].o].deneme <= surec'[q].goz.deneme
  <2>1. TipInv'
    BY <1>1, EtkiTip
  <2>2. surec'[q].o \in Oge /\ surec'[q].goz.deneme \in Nat
    <3>1. surec'[q] \in Turlar /\ TurTipi(surec'[q])
      BY <2>1 DEF TipInv, TypeOK, Turlar, TurTipi
    <3>. QED BY <1>5, <3>1 DEF Turlar, OgeSatirlari, TurTipi, Sayma, OgeliAdimlar
  <2>3. oge[surec'[q].o].deneme <= surec'[q].goz.deneme
    <3>1. CASE q # p \/ (/\ surec[q].adim \in Sayma /\ surec'[q].o = surec[q].o
                         /\ surec'[q].goz.deneme = surec[q].goz.deneme)
      <4>1. /\ surec[q].adim \in Sayma /\ surec'[q].o = surec[q].o
            /\ surec'[q].goz.deneme = surec[q].goz.deneme
        BY <1>3, <1>5, <3>1
      <4>2. oge[surec[q].o].deneme <= surec[q].goz.deneme
        BY <1>1, <1>5, <4>1 DEF SinirInv, KopyaGeride
      <4>. QED BY <4>1, <4>2
    <3>2. CASE q = p /\ oge[surec'[q].o].deneme <= surec'[q].goz.deneme
      BY <3>2
    <3>. QED BY <1>5, <3>1, <3>2 DEF SayilmazTur
  <2>. DEFINE u == surec'[q].o   n == surec'[q].goz.deneme
  <2>4. oge[u].deneme <= n /\ u \in Oge /\ n \in Nat
    BY <2>2, <2>3
  <2>. HIDE DEF u, n
  <2>5. oge'[u].deneme <= n
    BY <1>2, <2>4
  <2>. QED BY <2>5 DEF u, n
<1>. QED BY <1>4, <1>5 DEF SinirInv, DenemeSiniri, KopyaGeride

-----------------------------------------------------------------------------
(***************************************************************************)
(* A step that counts an attempt                                           *)
(***************************************************************************)

\* The item o of the turn may have one attempt more, if it is open; the turn closes it next
\* when its copy says that this was the last one.
SayanTur(p) ==
    /\ surec[p].adim \in Sayma /\ surec'[p].o = surec[p].o
    /\ surec'[p].adim = IF surec[p].goz.deneme + 1 >= GECICI_DENEME_SINIRI
                        THEN "kapatGecici" ELSE "ertele"
    /\ \A o \in Oge \ {surec[p].o} : oge'[o].deneme = oge[o].deneme
    /\ LET n == oge[surec[p].o].deneme IN
        \/ oge'[surec[p].o].deneme = n
        \/ oge'[surec[p].o].deneme = n + 1 /\ oge[surec[p].o].durum \notin KapaliOge

SayanGecmis(p) == kuyruk'.kira = kuyruk.kira /\ (yarim \/ kuyruk.kira # p => yarim')

LEMMA SayanSinir ==
    ASSUME IInv, SinirInv, NEW p \in Surec, Etki(p), SayanTur(p), SayanGecmis(p)
    PROVE  SinirInv'
<1>. DEFINE L == GECICI_DENEME_SINIRI
            u == surec[p].o
            g == surec[p].goz.deneme
<1>. SUFFICES ASSUME ~yarim' PROVE SinirInv'
  BY DEF SinirInv, DenemeSiniri
<1>1. TipInv /\ ~yarim /\ kuyruk'.kira = p /\ kuyruk.kira = p
  BY DEF IInv, SayanGecmis
<1>2. L \in Nat \ {0} /\ u \in Oge /\ g \in Nat /\ \A o \in Oge : oge[o].deneme \in Nat
  BY <1>1, DenemeTipleri DEF SayanTur
<1>3. \A q \in Surec \ {p} : surec'[q] = surec[q]
  BY DEF Etki, SurecEtki
<1>4. surec[p].adim # "kapatGecici" /\ surec'[p].adim \notin Sayma
  BY DEF SayanTur, Sayma
<1>5. ASSUME NEW o \in Oge
      PROVE  oge[o].deneme <= L /\ (oge[o].deneme = L => oge[o].durum \in KapaliOge)
  BY <1>1, <1>4, <1>5 DEF SinirInv, DenemeSiniri
<1>6. oge[u].deneme <= g
  BY <1>1 DEF SinirInv, KopyaGeride, SayanTur
<1>7. ASSUME NEW o \in Oge
      PROVE  /\ oge'[o].deneme <= L
             /\ oge'[o].deneme = L =>
                  \/ oge'[o].durum \in KapaliOge
                  \/ \E q \in Surec : kuyruk'.kira = q /\ surec'[q].adim = "kapatGecici" /\ surec'[q].o = o
  <2>1. CASE oge'[o].deneme = oge[o].deneme
    BY <1>5, <2>1, KapaliKalir
  <2>2. CASE oge'[o].deneme # oge[o].deneme
    <3>1. o = u /\ oge'[o].deneme = oge[o].deneme + 1 /\ oge[o].durum \notin KapaliOge
      BY <2>2 DEF SayanTur
    <3>2. oge'[o].deneme <= L /\ oge'[o].deneme <= g + 1
      <4>. DEFINE n == oge[o].deneme   m == oge'[o].deneme
      <4>1. n \in Nat /\ n <= L /\ n # L /\ n <= g /\ m = n + 1
        BY <1>2, <1>5, <1>6, <3>1
      <4>. HIDE DEF n, m, g, L
      <4>2. m <= L /\ m <= g + 1
        BY <1>2, <4>1
      <4>. QED BY <4>2 DEF n, m
    <3>3. oge'[o].deneme = L => surec'[p].adim = "kapatGecici" /\ surec'[p].o = o
      BY <1>2, <3>1, <3>2 DEF SayanTur
    <3>. QED BY <1>1, <3>2, <3>3
  <2>. QED BY <2>1, <2>2
<1>8. \A q \in Surec : KopyaGeride(q)'
  BY <1>1, <1>4 DEF KopyaGeride
<1>. QED BY <1>7, <1>8 DEF SinirInv, DenemeSiniri

-----------------------------------------------------------------------------
(***************************************************************************)
(* What many actions share                                                 *)
(***************************************************************************)

LEMMA SayilmazKalir ==
    ASSUME UNCHANGED oge PROVE SayilmazOge
  BY DEF SayilmazOge

LEMMA SayilmazYazilir ==
    ASSUME TipInv, NEW o \in Oge, NEW y, oge' = [oge EXCEPT ![o] = y], y.deneme \in {0, oge[o].deneme}
    PROVE  SayilmazOge
<1>1. oge'[o] = y /\ \A u \in Oge \ {o} : oge'[u] = oge[u]
  BY DEF TipInv, TypeOK
<1>. QED BY <1>1 DEF SayilmazOge

\* The history is left, or only grows.
LEMMA GecmisArtar ==
    ASSUME \/ UNCHANGED gecmis \/ UNCHANGED yarim
           \/ (\E b \in BOOLEAN : Yarim(b)) \/ (\E r \in Kosu : Yorulur(r))
    PROVE  yarim => yarim'
  BY DEF gecmis, Yarim, Yorulur

\* A turn that counts no more.
LEMMA TurSaymaz ==
    ASSUME NEW p, surec[p].adim # "kapatGecici", surec'[p].adim \notin Sayma
    PROVE  SayilmazTur(p)
  BY DEF SayilmazTur

LEMMA SakinSaymaz ==
    ASSUME NEW adim, adim \in Sakin \cup {"kapatAtla", "kapatHatali", "kapatGecici", "ertele", "dinlen", "sirala"}
    PROVE  adim \notin Sayma
  BY DEF Sakin, OgeliAdimlar, Sayma

LEMMA DurSaymaz ==
    ASSUME TipInv, NEW p \in Surec, Dur(p) \/ Devam(p)
    PROVE  surec'[p].adim \notin Sayma
<1>1. surec'[p].adim \in Sakin
  BY TurTipleri, DurTuru, DevamTuru
<1>. QED BY <1>1, SakinSaymaz

LEMMA GitSaymaz ==
    ASSUME TipInv, NEW p \in Surec, NEW adim \in Adimlar \ Sayma, Git(p, adim)
    PROVE  surec'[p].adim \notin Sayma
  BY TurTipleri, GitTuru

\* A turn that goes on with its copy.
LEMMA GitSayar ==
    ASSUME TipInv, NEW p \in Surec, surec[p].adim \in Sayma, NEW adim \in Adimlar, Git(p, adim)
    PROVE  SayilmazTur(p)
<1>1. surec'[p].o = surec[p].o /\ surec'[p].goz = surec[p].goz
  BY TurTipleri, GitTuru
<1>. QED BY <1>1 DEF SayilmazTur, Sayma

LEMMA GeciciSayar ==
    ASSUME TipInv, NEW p \in Surec, NEW d \in OGE_DURUMLARI, GeciciSonu(p, d)
    PROVE  /\ surec'[p].o = surec[p].o
           /\ surec'[p].adim = IF surec[p].goz.deneme + 1 >= GECICI_DENEME_SINIRI
                               THEN "kapatGecici" ELSE "ertele"
<1>. DEFINE adim == IF surec[p].goz.deneme + 1 >= GECICI_DENEME_SINIRI THEN "kapatGecici" ELSE "ertele"
            t == [surec[p] EXCEPT !.goz.durum = d, !.adim = adim]
<1>1. surec' = [surec EXCEPT ![p] = t] /\ surec \in [Surec -> Turlar] /\ surec[p] \in Turlar
  BY TurTipleri DEF GeciciSonu
<1>. HIDE DEF adim
<1>2. t.adim = adim /\ t.o = surec[p].o
  BY <1>1 DEF Turlar
<1>. HIDE DEF t
<1>3. surec'[p] = t
  BY <1>1
<1>. QED BY <1>2, <1>3 DEF adim

LEMMA KapanmisSayilmaz ==
    ASSUME TipInv, NEW o \in Oge, NEW b, NEW yeni, NEW y, y = Kapanmis(oge[o], b, yeni)
    PROVE  y.deneme = oge[o].deneme
<1>1. oge[o] \in OgeSatirlari
  BY DenemeTipleri
<1>. QED BY <1>1 DEF Kapanmis, OgeSatirlari

\* The loop goes on once the item is written, or the turn ends; nothing is counted.
LEMMA YazarSayilmaz ==
    ASSUME TipInv, NEW p \in Surec, surec[p].adim # "kapatGecici", surec[p].o \in Oge, NEW y, NEW k,
           Yazar(p, k, y), y.deneme = oge[surec[p].o].deneme
    PROVE  SayilmazOge /\ SayilmazTur(p)
<1>1. SayilmazOge
  BY SayilmazKalir, SayilmazYazilir DEF Yazar
<1>2. SayilmazTur(p)
  BY DurSaymaz, TurSaymaz DEF Yazar
<1>. QED BY <1>1, <1>2

LEMMA KapatVeSayilmaz ==
    ASSUME TipInv, NEW p \in Surec, surec[p].adim # "kapatGecici", surec[p].o \in Oge, NEW yeni,
           KapatVe(p, yeni)
    PROVE  SayilmazOge /\ SayilmazTur(p)
<1>. DEFINE y == Kapanmis(oge[surec[p].o], "CALISIYOR", yeni)
<1>1. y.deneme = oge[surec[p].o].deneme
  BY KapanmisSayilmaz
<1>2. Yazar(p, oge[surec[p].o].durum = "CALISIYOR", y)
  BY DEF KapatVe
<1>. HIDE DEF y
<1>. QED BY <1>1, <1>2, YazarSayilmaz

Sayilmaz(p) == SayilmazOge /\ SayilmazGecmis /\ SayilmazTur(p)

-----------------------------------------------------------------------------
(***************************************************************************)
(* The actions that write no item                                          *)
(***************************************************************************)

LEMMA KuyrukOkuSayilmaz == ASSUME IInv, NEW p \in Surec, KuyrukOku(p) PROVE Sayilmaz(p)
<1>1. TipInv /\ surec \in [Surec -> Turlar] /\ surec[p].adim = "oku"
  BY TurTipleri DEF IInv, KuyrukOku
<1>. DEFINE k == [f \in {"durum", "duraklat", "dinlenKosu", "bitis"} |-> kuyruk[f]]
            t == [surec[p] EXCEPT !.adim = "oge", !.k = k]
<1>2. surec' = [surec EXCEPT ![p] = t]
  BY DEF KuyrukOku
<1>. HIDE DEF k
<1>3. t.adim = "oge"
  BY <1>1 DEF Turlar
<1>. HIDE DEF t
<1>4. surec'[p].adim \notin Sayma
  BY <1>1, <1>2, <1>3 DEF Sayma
<1>. QED BY <1>1, <1>4, TurSaymaz, SayilmazKalir, GecmisArtar DEF KuyrukOku, Sayilmaz, SayilmazGecmis

LEMMA CalisanOgeSayilmaz == ASSUME IInv, NEW p \in Surec, CalisanOge(p) PROVE Sayilmaz(p)
<1>1. TipInv /\ surec \in [Surec -> Turlar] /\ surec[p].adim = "oge"
  BY TurTipleri DEF IInv, CalisanOge
<1>2. ASSUME NEW o \in Oge,
             surec' = [surec EXCEPT ![p].adim = "ilerlet", ![p].o = o, ![p].goz = Kopya(oge[o])]
      PROVE  SayilmazTur(p)
  <2>1. oge[o] \in OgeSatirlari /\ oge[o].deneme \in Nat
    BY <1>1, DenemeTipleri
  <2>. DEFINE g == Kopya(oge[o])
              t == [surec[p] EXCEPT !.adim = "ilerlet", !.o = o, !.goz = g]
  <2>2. g.deneme = oge[o].deneme
    BY <2>1 DEF Kopya, OgeSatirlari
  <2>. HIDE DEF g
  <2>3. t.o = o /\ t.goz = g
    BY <1>1 DEF Turlar
  <2>4. surec' = [surec EXCEPT ![p] = t]
    BY <1>2 DEF g
  <2>. HIDE DEF t
  <2>. QED BY <1>1, <2>1, <2>2, <2>3, <2>4 DEF SayilmazTur
<1>3. ASSUME NEW a \in {"siradaki", "dinlenme"}, Git(p, a) PROVE SayilmazTur(p)
  BY <1>1, <1>3, GitSaymaz, TurSaymaz DEF Adimlar, Sayma
<1>4. ASSUME Dur(p) PROVE SayilmazTur(p)
  BY <1>1, <1>4, DurSaymaz, TurSaymaz
<1>5. SayilmazTur(p)
  BY <1>2, <1>3, <1>4 DEF CalisanOge
<1>. QED BY <1>5, SayilmazKalir, GecmisArtar DEF CalisanOge, Sayilmaz, SayilmazGecmis

LEMMA SiradakiOgeSayilmaz == ASSUME IInv, NEW p \in Surec, SiradakiOge(p) PROVE Sayilmaz(p)
<1>1. /\ TipInv /\ surec \in [Surec -> Turlar] /\ surec[p].adim = "siradaki"
      /\ kuyruk \in KuyrukSatirlari
  BY TurTipleri DEF IInv, SiradakiOge
<1>2. ASSUME NEW o \in Oge,
             surec' = [surec EXCEPT ![p].adim = "kapi", ![p].o = o, ![p].goz = Kopya(oge[o])]
      PROVE  SayilmazTur(p)
  <2>1. oge[o] \in OgeSatirlari /\ oge[o].deneme \in Nat
    BY <1>1, DenemeTipleri
  <2>. DEFINE g == Kopya(oge[o])
              t == [surec[p] EXCEPT !.adim = "kapi", !.o = o, !.goz = g]
  <2>2. g.deneme = oge[o].deneme
    BY <2>1 DEF Kopya, OgeSatirlari
  <2>. HIDE DEF g
  <2>3. t.o = o /\ t.goz = g
    BY <1>1 DEF Turlar
  <2>4. surec' = [surec EXCEPT ![p] = t]
    BY <1>2 DEF g
  <2>. HIDE DEF t
  <2>. QED BY <1>1, <2>1, <2>2, <2>3, <2>4 DEF SayilmazTur
<1>3. ASSUME Dur(p) PROVE SayilmazTur(p)
  BY <1>1, <1>3, DurSaymaz, TurSaymaz
<1>4. SayilmazTur(p)
  BY <1>2, <1>3 DEF SiradakiOge
<1>5. kuyruk'.kira = kuyruk.kira
  BY <1>1 DEF SiradakiOge, KuyrukSatirlari
<1>. QED BY <1>4, <1>5, SayilmazKalir, GecmisArtar DEF SiradakiOge, Sayilmaz, SayilmazGecmis

\* A launch: the turn keeps its copy until AWX has answered.
LEMMA BaslatmaSayilmaz ==
    ASSUME IInv, NEW p \in Surec, Al(p) \/ Alinamaz(p) \/ Baslar(p) \/ Baslamaz(p) \/ Belirsiz(p)
    PROVE  Sayilmaz(p)
<1>1. /\ TipInv /\ surec \in [Surec -> Turlar] /\ surec[p] \in Turlar
      /\ surec[p].adim \in Sayma
  BY TurTipleri DEF IInv, Al, Alinamaz, Baslar, Baslamaz, Belirsiz, Sayma
<1>2. ASSUME NEW r, surec' = [surec EXCEPT ![p].adim = "kanca", ![p].r = r] PROVE SayilmazTur(p)
  <2>. DEFINE t == [surec[p] EXCEPT !.adim = "kanca", !.r = r]
  <2>1. t.o = surec[p].o /\ t.goz = surec[p].goz
    BY <1>1 DEF Turlar
  <2>2. surec' = [surec EXCEPT ![p] = t]
    BY <1>2
  <2>. HIDE DEF t
  <2>. QED BY <1>1, <2>1, <2>2 DEF SayilmazTur, Sayma
<1>3. ASSUME surec' = [surec EXCEPT ![p].adim = "geriAl", ![p].sayilir = TRUE] PROVE SayilmazTur(p)
  <2>. DEFINE t == [surec[p] EXCEPT !.adim = "geriAl", !.sayilir = TRUE]
  <2>1. t.o = surec[p].o /\ t.goz = surec[p].goz
    BY <1>1 DEF Turlar
  <2>2. surec' = [surec EXCEPT ![p] = t]
    BY <1>3
  <2>. HIDE DEF t
  <2>. QED BY <1>1, <2>1, <2>2 DEF SayilmazTur, Sayma
<1>4. ASSUME surec' = [surec EXCEPT ![p].adim = "geriAl", ![p].sayilir = TRUE, ![p].r = Yok]
      PROVE  SayilmazTur(p)
  <2>. DEFINE t == [surec[p] EXCEPT !.adim = "geriAl", !.sayilir = TRUE, !.r = Yok]
  <2>1. t.o = surec[p].o /\ t.goz = surec[p].goz
    BY <1>1 DEF Turlar
  <2>2. surec' = [surec EXCEPT ![p] = t]
    BY <1>4
  <2>. HIDE DEF t
  <2>. QED BY <1>1, <2>1, <2>2 DEF SayilmazTur, Sayma
<1>5. ASSUME NEW a \in {"geriAl", "kapatAtla", "kapatHatali"}, Git(p, a) PROVE SayilmazTur(p)
  BY <1>1, <1>5, GitSayar DEF Adimlar
<1>6. ASSUME Dur(p) PROVE SayilmazTur(p)
  BY <1>1, <1>6, DurSaymaz, TurSaymaz DEF Sayma
<1>7. SayilmazTur(p)
  BY <1>2, <1>3, <1>4, <1>5, <1>6 DEF Al, Alinamaz, Baslar, Baslamaz, Belirsiz
<1>8. surec[p].adim \in Baslatma => surec[p].r \in Kosu
  BY <1>1, BaslatmaSatiri
<1>9. UNCHANGED gecmis \/ \E r \in Kosu : Yorulur(r)
  BY <1>8 DEF Al, Alinamaz, Baslar, Baslamaz, Belirsiz, Baslatma
<1>10. UNCHANGED <<kuyruk, oge>>
  BY DEF Al, Alinamaz, Baslar, Baslamaz, Belirsiz
<1>. QED BY <1>7, <1>9, <1>10, SayilmazKalir, GecmisArtar DEF Sayilmaz, SayilmazGecmis

\* The queue row and the rest.
LEMMA KuyrukSayilmaz ==
    ASSUME IInv, NEW p \in Surec,
           \/ KuyrukBasla(p) \/ Dinlen(p) \/ DinlenmeBaslat(p) \/ DinlenmeBitti(p)
           \/ IlerletDurdurulan(p) \/ TurBiter(p)
    PROVE  Sayilmaz(p)
<1>1. TipInv /\ kuyruk \in KuyrukSatirlari /\ surec \in [Surec -> Turlar]
  BY TurTipleri DEF IInv
<1>2. surec[p].adim # "kapatGecici" /\ UNCHANGED oge
  BY DEF KuyrukBasla, Dinlen, DinlenmeBaslat, DinlenmeBitti, IlerletDurdurulan, TurBiter
<1>3. ASSUME Git(p, "sirala") PROVE surec'[p].adim \notin Sayma
  BY <1>1, <1>3, GitSaymaz DEF Adimlar, Sayma
<1>4. ASSUME surec' = [surec EXCEPT ![p] = SurecBos] PROVE surec'[p].adim \notin Sayma
  BY <1>1, <1>4, BosTur DEF Sayma
<1>5. surec'[p].adim \notin Sayma
  BY <1>1, <1>3, <1>4, DurSaymaz
     DEF KuyrukBasla, Dinlen, DinlenmeBaslat, DinlenmeBitti, IlerletDurdurulan, TurBiter
<1>6. kuyruk'.kira = kuyruk.kira
  BY <1>1 DEF KuyrukSatirlari, KuyrukBasla, Dinlen, DinlenmeBaslat, DinlenmeBitti, IlerletDurdurulan,
              TurBiter
<1>7. yarim => yarim'
  BY GecmisArtar DEF KuyrukBasla, Dinlen, DinlenmeBaslat, DinlenmeBitti, IlerletDurdurulan, TurBiter
<1>. QED BY <1>2, <1>5, <1>6, <1>7, SayilmazKalir, TurSaymaz DEF Sayilmaz, SayilmazGecmis

\* A turn that fails, or its process dies: a close under way is lost.
LEMMA TurHatasiSayilmaz == ASSUME IInv, NEW p \in Surec, TurHatasi(p) \/ Cokme(p) PROVE Sayilmaz(p)
<1>1. TipInv /\ kuyruk \in KuyrukSatirlari /\ surec \in [Surec -> Turlar] /\ yarim \in BOOLEAN
  BY TurTipleri, DenemeTipleri DEF IInv
<1>2. kuyruk'.kira = kuyruk.kira /\ UNCHANGED oge
  BY <1>1 DEF TurHatasi, Cokme, KuyrukSatirlari
<1>3. ASSUME NEW a \in {"hataliOgeler", "bos", "oldu"},
             \/ surec' = [surec EXCEPT ![p] = [SurecBos EXCEPT !.adim = a]]
             \/ surec' = [surec EXCEPT ![p] = SurecBos]
      PROVE  surec'[p].adim \notin Sayma
  <2>1. a \in Adimlar /\ a \notin Sayma
    BY DEF Adimlar, Sayma
  <2>2. CASE surec' = [surec EXCEPT ![p] = [SurecBos EXCEPT !.adim = a]]
    <3>. DEFINE t == [SurecBos EXCEPT !.adim = a]
    <3>1. t.adim = a
      BY <2>1, BosTurAdimi
    <3>. HIDE DEF t
    <3>2. surec' = [surec EXCEPT ![p] = t]
      BY <2>2 DEF t
    <3>. QED BY <1>1, <2>1, <3>1, <3>2
  <2>3. CASE surec' = [surec EXCEPT ![p] = SurecBos]
    BY <1>1, <2>3, BosTur DEF Sayma
  <2>. QED BY <1>3, <2>2, <2>3
<1>4. surec'[p].adim \notin Sayma
  BY <1>3 DEF TurHatasi, Cokme
<1>5. (yarim => yarim') /\ (surec[p].adim = "kapatGecici" => yarim')
  <2>1. CASE Yarim(surec[p].adim = "kapatGecici")
    BY <2>1 DEF Yarim
  <2>2. ASSUME surec[p].adim = "baslat", Yorulur(surec[p].r)
        PROVE  (yarim => yarim') /\ (surec[p].adim = "kapatGecici" => yarim')
    BY <2>2 DEF Yorulur
  <2>. QED BY <2>1, <2>2 DEF TurHatasi, Cokme
<1>. QED BY <1>2, <1>4, <1>5, SayilmazKalir DEF Sayilmaz, SayilmazGecmis, SayilmazTur

-----------------------------------------------------------------------------
(***************************************************************************)
(* The actions that write the item                                         *)
(***************************************************************************)

LEMMA OgeAtlaSayilmaz == ASSUME IInv, NEW p \in Surec, OgeAtla(p) PROVE Sayilmaz(p)
<1>. DEFINE o == surec[p].o
            x == oge[o]
            y == [x EXCEPT !.durum = "ATLANDI", !.token = Yok]
            k == x.durum = "BEKLIYOR" /\ x.govde = surec[p].goz.govde
<1>1. TipInv /\ surec[p].adim = "kapi" /\ o \in Oge
  BY DenemeTipleri DEF IInv, OgeAtla, Sayma
<1>2. y.deneme = x.deneme
  BY <1>1, DenemeTipleri DEF OgeSatirlari
<1>3. Yazar(p, k, y)
  BY DEF OgeAtla
<1>. HIDE DEF k, y
<1>4. SayilmazOge /\ SayilmazTur(p)
  BY <1>1, <1>2, <1>3, YazarSayilmaz
<1>. QED BY <1>4, GecmisArtar DEF OgeAtla, Sayilmaz, SayilmazGecmis

\* A claim, for the check or for the load: the turn goes on with the count of its copy.
LEMMA SahiplenmeSayilmaz ==
    ASSUME TipInv, NEW p \in Surec, surec[p].adim \in Sayma, NEW asama,
           surec' = [surec EXCEPT ![p].adim = "al", ![p].goz.asama = asama]
    PROVE  SayilmazTur(p)
<1>. DEFINE g == [surec[p].goz EXCEPT !.asama = asama]
            t == [surec[p] EXCEPT !.adim = "al", !.goz = g]
<1>1. surec \in [Surec -> Turlar] /\ surec[p] \in Turlar /\ surec[p].goz \in OgeSatirlari
  BY TurTipleri
<1>2. g.deneme = surec[p].goz.deneme
  BY <1>1 DEF OgeSatirlari
<1>3. surec' = [surec EXCEPT ![p] = t]
  OBVIOUS
<1>. HIDE DEF g
<1>4. t.o = surec[p].o /\ t.goz = g
  BY <1>1 DEF Turlar
<1>. HIDE DEF t
<1>. QED BY <1>1, <1>2, <1>3, <1>4 DEF SayilmazTur, Sayma

LEMMA OgeSahiplenSayilmaz == ASSUME IInv, NEW p \in Surec, OgeSahiplen(p) PROVE Sayilmaz(p)
<1>. DEFINE o == surec[p].o
            y == [oge[o] EXCEPT !.durum = "CALISIYOR", !.asama = "on_kontrol", !.token = p]
<1>1. TipInv /\ surec[p].adim = "kapi" /\ surec[p].adim \in Sayma /\ o \in Oge
  BY DenemeTipleri DEF IInv, OgeSahiplen, Sayma
<1>2. y.deneme = oge[o].deneme
  BY <1>1, DenemeTipleri DEF OgeSatirlari
<1>3. oge' = [oge EXCEPT ![o] = y] \/ UNCHANGED oge
  BY DEF OgeSahiplen
<1>. HIDE DEF y
<1>4. SayilmazOge
  BY <1>1, <1>2, <1>3, SayilmazYazilir, SayilmazKalir
<1>5. SayilmazTur(p)
  BY <1>1, SahiplenmeSayilmaz, DurSaymaz, TurSaymaz DEF OgeSahiplen
<1>. QED BY <1>4, <1>5, GecmisArtar DEF OgeSahiplen, Sayilmaz, SayilmazGecmis

LEMMA KancaSayilmaz == ASSUME IInv, NEW p \in Surec, Kanca(p) PROVE Sayilmaz(p)
<1>. DEFINE o == surec[p].o
            y == Numarali(oge[o], surec[p].r)
<1>1. TipInv /\ surec[p].adim = "kanca" /\ surec[p].adim \in Sayma /\ o \in Oge
  BY DenemeTipleri DEF IInv, Kanca, Sayma
<1>2. y.deneme = oge[o].deneme
  BY <1>1, DenemeTipleri DEF Numarali, OgeSatirlari
<1>3. oge' = [oge EXCEPT ![o] = y] \/ UNCHANGED oge
  BY DEF Kanca
<1>. HIDE DEF y
<1>4. SayilmazOge
  BY <1>1, <1>2, <1>3, SayilmazYazilir, SayilmazKalir
<1>5. Git(p, "baslat") \/ Dur(p)
  BY DEF Kanca
<1>6. SayilmazTur(p)
  BY <1>1, <1>5, GitSayar, DurSaymaz, TurSaymaz DEF Adimlar
<1>. QED BY <1>4, <1>6, GecmisArtar DEF Kanca, Sayilmaz, SayilmazGecmis

LEMMA OgeErteleSayilmaz == ASSUME IInv, NEW p \in Surec, OgeErtele(p) PROVE Sayilmaz(p)
<1>. DEFINE o == surec[p].o
            g == oge[o].geri \/ oge[o].durum \notin KapaliOge
            y == [oge[o] EXCEPT !.geri = g]
<1>1. TipInv /\ surec[p].adim = "ertele" /\ o \in Oge
  BY TurTipleri DEF IInv, OgeErtele, TurTipi, OgeliAdimlar
<1>2. oge' = [oge EXCEPT ![o] = y]
  BY DEF OgeErtele
<1>. HIDE DEF g
<1>3. y.deneme = oge[o].deneme
  BY <1>1, DenemeTipleri DEF OgeSatirlari
<1>. HIDE DEF y
<1>4. SayilmazOge
  BY <1>1, <1>2, <1>3, SayilmazYazilir
<1>5. SayilmazTur(p)
  BY <1>1, DurSaymaz, TurSaymaz DEF OgeErtele
<1>. QED BY <1>4, <1>5, GecmisArtar DEF OgeErtele, Sayilmaz, SayilmazGecmis

\* The close.  After the last attempt it closes the item, unless it finds it in another state.
LEMMA KapatSayilmaz == ASSUME IInv, NEW p \in Surec, Kapat(p) PROVE Sayilmaz(p)
<1>. DEFINE s == surec[p]
            o == s.o
            x == oge[o]
<1>1. TipInv /\ o \in Oge /\ x \in OgeSatirlari /\ oge \in [Oge -> OgeSatirlari]
  BY TurTipleri DEF IInv, Kapat, TurTipi, OgeliAdimlar
<1>2. ASSUME NEW b, NEW yeni, oge' = [oge EXCEPT ![o] = Kapanmis(@, b, yeni)] PROVE SayilmazOge
  <2>. DEFINE y == Kapanmis(x, b, yeni)
  <2>1. y.deneme = x.deneme
    BY <1>1, KapanmisSayilmaz
  <2>2. oge' = [oge EXCEPT ![o] = y]
    BY <1>2
  <2>. HIDE DEF y, o
  <2>. QED BY <1>1, <2>1, <2>2, SayilmazYazilir
<1>3. SayilmazOge
  BY <1>2 DEF Kapat
<1>4. surec'[p].adim \notin Sayma
  BY <1>1, DurSaymaz, GitSaymaz DEF Kapat, Adimlar, Sayma
<1>5. ASSUME s.adim = "kapatGecici" PROVE yarim' \/ oge'[o].durum \in KapaliOge
  <2>1. /\ oge' = [oge EXCEPT ![o] = Kapanmis(@, s.goz.durum, "HATALI")]
        /\ yarim' = (yarim \/ (s.adim = "kapatGecici" /\ x.durum \notin KapaliOge /\ x.durum # s.goz.durum))
    BY <1>5 DEF Kapat, Yarim
  <2>. DEFINE y == Kapanmis(x, s.goz.durum, "HATALI")
  <2>2. oge'[o] = y
    BY <1>1, <2>1
  <2>3. CASE x.durum \in KapaliOge
    <3>1. y.durum = x.durum \/ y.durum = "HATALI"
      BY <1>1 DEF Kapanmis, OgeSatirlari
    <3>. QED BY <2>2, <2>3, <3>1 DEF KapaliOge
  <2>4. CASE x.durum \notin KapaliOge /\ x.durum = s.goz.durum
    <3>1. y.durum = "HATALI"
      BY <1>1, <2>4 DEF Kapanmis, OgeSatirlari
    <3>. QED BY <2>2, <3>1 DEF KapaliOge
  <2>5. CASE x.durum \notin KapaliOge /\ x.durum # s.goz.durum
    BY <1>5, <2>1, <2>5
  <2>. QED BY <2>3, <2>4, <2>5
<1>6. SayilmazTur(p)
  BY <1>4, <1>5 DEF SayilmazTur
<1>7. kuyruk' = kuyruk /\ (yarim => yarim')
  BY DEF Kapat, Yarim
<1>. QED BY <1>3, <1>6, <1>7 DEF Sayilmaz, SayilmazGecmis

\* The running item: it is closed, taken back without a count, or waits again.
LEMMA GeriAlinmisSayilmaz ==
    ASSUME TipInv, NEW o \in Oge, NEW y, y = GeriAlinmis(oge[o], FALSE)
    PROVE  y.deneme = oge[o].deneme
<1>1. oge[o] \in OgeSatirlari
  BY DenemeTipleri
<1>. QED BY <1>1 DEF GeriAlinmis, OgeSatirlari

LEMMA OnKontrolYenileSayilmaz ==
    ASSUME TipInv, NEW p \in Surec, surec[p].adim # "kapatGecici", surec[p].o \in Oge, OnKontrolYenile(p)
    PROVE  SayilmazOge /\ SayilmazTur(p)
<1>. DEFINE x == oge[surec[p].o]
            y == [x EXCEPT !.durum = "BEKLIYOR", !.asama = "-", !.token = Yok, !.ok = Yok]
            k == /\ x.durum = "CALISIYOR" /\ x.asama = "on_kontrol" /\ x.ok = surec[p].goz.ok
                 /\ x.kosu = Yok /\ kuyruk.durum = "CALISIYOR"
<1>1. y.deneme = x.deneme
  BY DenemeTipleri DEF OgeSatirlari
<1>2. Yazar(p, k, y)
  BY DEF OnKontrolYenile
<1>. HIDE DEF k, y
<1>. QED BY <1>1, <1>2, YazarSayilmaz

LEMMA IlerletNumarasizSayilmaz == ASSUME IInv, NEW p \in Surec, IlerletNumarasiz(p) PROVE Sayilmaz(p)
<1>. DEFINE s == surec[p]
            x == oge[s.o]
            y == GeriAlinmis(x, FALSE)
            k == GeriAlinir(x, s.goz.asama, Yok, Surec \cup {Yok})
<1>1. TipInv /\ s.adim = "ilerlet" /\ s.o \in Oge
  BY DenemeTipleri DEF IInv, IlerletNumarasiz, Sayma
<1>2. ASSUME KapatVe(p, "IPTAL") PROVE SayilmazOge /\ SayilmazTur(p)
  BY <1>1, <1>2, KapatVeSayilmaz
<1>3. ASSUME Yazar(p, k, y) PROVE SayilmazOge /\ SayilmazTur(p)
  <2>1. y.deneme = x.deneme
    BY <1>1, GeriAlinmisSayilmaz
  <2>. HIDE DEF k, y
  <2>. QED BY <1>1, <1>3, <2>1, YazarSayilmaz
<1>4. SayilmazOge /\ SayilmazTur(p)
  BY <1>2, <1>3 DEF IlerletNumarasiz
<1>. QED BY <1>4, GecmisArtar DEF IlerletNumarasiz, Sayilmaz, SayilmazGecmis

LEMMA IlerletKosuSayilmaz == ASSUME IInv, NEW p \in Surec, IlerletKosu(p) PROVE Sayilmaz(p)
<1>. DEFINE s == surec[p]
            o == s.o
<1>1. TipInv /\ s.adim = "ilerlet" /\ o \in Oge /\ s \in Turlar /\ surec \in [Surec -> Turlar]
  BY TurTipleri, DenemeTipleri DEF IInv, IlerletKosu, Sayma
<1>2. ASSUME NEW yeni, NEW r, oge' = [oge EXCEPT ![s.o] = Kapanmis(@, "CALISIYOR", yeni)],
             surec' = [surec EXCEPT ![p].adim = "dinlen", ![p].r = r]
      PROVE  SayilmazOge /\ SayilmazTur(p)
  <2>. DEFINE y == Kapanmis(oge[o], "CALISIYOR", yeni)
              t == [s EXCEPT !.adim = "dinlen", !.r = r]
  <2>1. y.deneme = oge[o].deneme
    BY <1>1, KapanmisSayilmaz
  <2>2. oge' = [oge EXCEPT ![o] = y]
    BY <1>2
  <2>3. t.adim = "dinlen"
    BY <1>1 DEF Turlar
  <2>4. surec' = [surec EXCEPT ![p] = t]
    BY <1>2
  <2>. HIDE DEF y, t
  <2>5. surec'[p].adim \notin Sayma
    BY <1>1, <2>3, <2>4 DEF Sayma
  <2>6. SayilmazOge
    <3>. HIDE DEF o
    <3>. QED BY <1>1, <2>1, <2>2, SayilmazYazilir
  <2>. QED BY <1>1, <2>5, <2>6, TurSaymaz
<1>3. ASSUME UNCHANGED oge, Dur(p) PROVE SayilmazOge /\ SayilmazTur(p)
  BY <1>1, <1>3, SayilmazKalir, DurSaymaz, TurSaymaz
<1>4. SayilmazOge /\ SayilmazTur(p)
  BY <1>2, <1>3 DEF IlerletKosu
<1>. QED BY <1>4, GecmisArtar DEF IlerletKosu, Sayilmaz, SayilmazGecmis

LEMMA KosuYenidenSiralaSayilmaz == ASSUME IInv, NEW p \in Surec, KosuYenidenSirala(p) PROVE Sayilmaz(p)
<1>. DEFINE s == surec[p]
            x == oge[s.o]
            y == [x EXCEPT !.durum = "BEKLIYOR", !.asama = "-", !.token = Yok, !.kosu = Yok, !.ok = Yok]
            k == /\ x.durum = "CALISIYOR" /\ x.asama = "kosu" /\ x.kosu = s.goz.kosu
                 /\ kuyruk.durum \in {"CALISIYOR", "DINLENME"}
<1>1. TipInv /\ s.adim = "sirala" /\ s.o \in Oge
  BY TurTipleri DEF IInv, KosuYenidenSirala, TurTipi, OgeliAdimlar
<1>2. y.deneme = x.deneme
  BY <1>1, DenemeTipleri DEF OgeSatirlari
<1>3. Yazar(p, k, y)
  BY DEF KosuYenidenSirala
<1>. HIDE DEF k, y
<1>4. SayilmazOge /\ SayilmazTur(p)
  BY <1>1, <1>2, <1>3, YazarSayilmaz
<1>. QED BY <1>4, GecmisArtar DEF KosuYenidenSirala, Sayilmaz, SayilmazGecmis

LEMMA IlerletOnKontrolSayilmaz == ASSUME IInv, NEW p \in Surec, IlerletOnKontrol(p) PROVE Sayilmaz(p)
<1>1. TipInv /\ surec[p].adim = "ilerlet" /\ surec[p].o \in Oge
  BY DenemeTipleri DEF IInv, IlerletOnKontrol, Sayma
<1>2. ASSUME NEW yeni, KapatVe(p, yeni) PROVE SayilmazOge /\ SayilmazTur(p)
  BY <1>1, <1>2, KapatVeSayilmaz
<1>3. ASSUME UNCHANGED oge, Dur(p) PROVE SayilmazOge /\ SayilmazTur(p)
  BY <1>1, <1>3, SayilmazKalir, DurSaymaz, TurSaymaz
<1>4. ASSUME OnKontrolYenile(p) PROVE SayilmazOge /\ SayilmazTur(p)
  BY <1>1, <1>4, OnKontrolYenileSayilmaz
<1>5. SayilmazOge /\ SayilmazTur(p)
  BY <1>2, <1>3, <1>4 DEF IlerletOnKontrol
<1>. QED BY <1>5, GecmisArtar DEF IlerletOnKontrol, Sayilmaz, SayilmazGecmis

LEMMA HataliOgelerSayilmaz ==
    ASSUME IInv, NEW yeni, BekleyenKapat(yeni) PROVE SayilmazOge
<1>. SUFFICES ASSUME NEW o \in Oge PROVE oge'[o].deneme = oge[o].deneme
  BY DEF SayilmazOge
<1>1. oge'[o] = Kapanmis(oge[o], "BEKLIYOR", yeni)
  BY DEF BekleyenKapat
<1>. QED BY <1>1, KapanmisSayilmaz DEF IInv

-----------------------------------------------------------------------------
(***************************************************************************)
(* The actions that count, and the lease                                   *)
(***************************************************************************)

LEMMA NedenYazSayar ==
    ASSUME TipInv, NEW p \in Surec, surec[p].adim \in Sayma, NEW d \in {"BEKLIYOR", "CALISIYOR"},
           NedenYaz(surec[p].o, d), GeciciSonu(p, d)
    PROVE  SayanTur(p)
<1>. DEFINE o == surec[p].o
            x == oge[o]
            n == IF x.durum = d THEN Artir(x.deneme) ELSE x.deneme
            y == [x EXCEPT !.deneme = n]
<1>1. o \in Oge /\ x \in OgeSatirlari /\ oge \in [Oge -> OgeSatirlari]
  BY TurTipleri, DenemeTipleri
<1>2. oge' = [oge EXCEPT ![o] = y]
  BY <1>1 DEF NedenYaz
<1>3. n = x.deneme \/ (n = x.deneme + 1 /\ x.durum \notin KapaliOge)
  BY DEF Artir, KapaliOge
<1>. HIDE DEF n
<1>4. y.deneme = n
  BY <1>1 DEF OgeSatirlari
<1>. HIDE DEF y
<1>5. oge'[o] = y /\ \A u \in Oge \ {o} : oge'[u] = oge[u]
  BY <1>1, <1>2
<1>6. /\ surec'[p].o = o
      /\ surec'[p].adim = IF surec[p].goz.deneme + 1 >= GECICI_DENEME_SINIRI
                          THEN "kapatGecici" ELSE "ertele"
  BY GeciciSayar DEF OGE_DURUMLARI
<1>. QED BY <1>3, <1>4, <1>5, <1>6 DEF SayanTur

LEMMA GeriAlSayar == ASSUME IInv, NEW p \in Surec, GeriAl(p), surec[p].sayilir PROVE SayanTur(p)
<1>. DEFINE s == surec[p]
            o == s.o
            x == oge[o]
            y == GeriAlinmis(x, TRUE)
<1>1. /\ TipInv /\ s.adim = "geriAl" /\ s.adim \in Sayma /\ o \in Oge /\ x \in OgeSatirlari
      /\ oge \in [Oge -> OgeSatirlari]
  BY TurTipleri, DenemeTipleri DEF IInv, GeriAl, Sayma
<1>2. y.deneme = x.deneme + 1
  BY <1>1 DEF GeriAlinmis, OgeSatirlari, Artir
<1>3. /\ surec'[p].o = o
      /\ surec'[p].adim = IF s.goz.deneme + 1 >= GECICI_DENEME_SINIRI THEN "kapatGecici" ELSE "ertele"
  BY <1>1, GeciciSayar DEF GeriAl, OGE_DURUMLARI
<1>4. CASE GeriAlinir(x, s.goz.asama, s.r, {p})
  <2>1. x.durum \notin KapaliOge
    BY <1>4 DEF GeriAlinir, KapaliOge
  <2>2. oge' = [oge EXCEPT ![o] = y]
    BY <1>4 DEF GeriAl
  <2>. HIDE DEF y
  <2>3. oge'[o] = y /\ \A u \in Oge \ {o} : oge'[u] = oge[u]
    BY <1>1, <2>2
  <2>. QED BY <1>1, <1>2, <1>3, <2>1, <2>3 DEF SayanTur
<1>5. CASE ~GeriAlinir(x, s.goz.asama, s.r, {p})
  <2>1. oge' = oge
    BY <1>5 DEF GeriAl
  <2>. QED BY <1>1, <1>3, <2>1 DEF SayanTur
<1>. QED BY <1>4, <1>5

LEMMA GeriAlSinir == ASSUME IInv, SinirInv, NEW p \in Surec, GeriAl(p) PROVE SinirInv'
<1>. DEFINE s == surec[p]
            o == s.o
            y == GeriAlinmis(oge[o], FALSE)
<1>1. /\ TipInv /\ Etki(p) /\ s.adim = "geriAl" /\ o \in Oge /\ s.sayilir \in BOOLEAN
  BY GeriAlEtki, TurTipleri, DenemeTipleri DEF IInv, GeriAl, Sayma, Turlar
<1>2. /\ kuyruk' = kuyruk
      /\ yarim' = (yarim \/ (s.sayilir /\ kuyruk.kira # p))
  BY DEF GeriAl, Yarim
<1>3. CASE s.sayilir
  BY <1>1, <1>2, <1>3, GeriAlSayar, SayanSinir DEF SayanGecmis
<1>4. CASE ~s.sayilir
  <2>1. y.deneme = oge[o].deneme
    BY <1>1, GeriAlinmisSayilmaz
  <2>2. oge' = [oge EXCEPT ![o] = y] \/ UNCHANGED oge
    BY <1>1, <1>4 DEF GeriAl
  <2>. HIDE DEF y
  <2>3. SayilmazOge
    BY <1>1, <2>1, <2>2, SayilmazYazilir, SayilmazKalir
  <2>4. SayilmazTur(p)
    BY <1>1, <1>4, DurSaymaz, TurSaymaz DEF GeriAl
  <2>. QED BY <1>1, <1>2, <2>3, <2>4, SayilmazSinir DEF SayilmazGecmis
<1>. QED BY <1>1, <1>3, <1>4

LEMMA KapiHataSinir == ASSUME IInv, SinirInv, NEW p \in Surec, KapiHata(p) PROVE SinirInv'
<1>1. TipInv /\ Etki(p)
  BY KapiHataEtki DEF IInv
<1>2. SayanTur(p)
  BY <1>1, NedenYazSayar DEF KapiHata, Sayma
<1>3. SayanGecmis(p)
  BY DEF SayanGecmis, KapiHata, Yarim
<1>. QED BY <1>1, <1>2, <1>3, SayanSinir

LEMMA KosuAsamasiSinir == ASSUME IInv, SinirInv, NEW p \in Surec, KosuAsamasi(p) PROVE SinirInv'
<1>. DEFINE s == surec[p]
            o == s.o
<1>1. /\ TipInv /\ Etki(p) /\ s.adim = "ilerlet" /\ s.adim \in Sayma /\ o \in Oge
      /\ oge[o] \in OgeSatirlari /\ kuyruk' = kuyruk
  BY KosuAsamasiEtki, DenemeTipleri DEF IInv, KosuAsamasi, Sayma
<1>2. ASSUME NedenYaz(o, "CALISIYOR"), GeciciSonu(p, "CALISIYOR"), Yarim(kuyruk.kira # p)
      PROVE  SinirInv'
  <2>1. SayanTur(p)
    BY <1>1, <1>2, NedenYazSayar
  <2>2. SayanGecmis(p)
    BY <1>1, <1>2 DEF SayanGecmis, Yarim
  <2>. QED BY <1>1, <2>1, <2>2, SayanSinir
<1>3. ASSUME UNCHANGED gecmis, SayilmazOge /\ SayilmazTur(p) PROVE SinirInv'
  BY <1>1, <1>3, SayilmazSinir, GecmisArtar DEF SayilmazGecmis
<1>4. ASSUME UNCHANGED oge, Dur(p) PROVE SayilmazOge /\ SayilmazTur(p)
  BY <1>1, <1>4, SayilmazKalir, DurSaymaz, TurSaymaz
<1>5. ASSUME KapatVe(p, "ATLANDI") \/ OnKontrolYenile(p) PROVE SayilmazOge /\ SayilmazTur(p)
  BY <1>1, <1>5, KapatVeSayilmaz, OnKontrolYenileSayilmaz
<1>6. ASSUME oge' = [oge EXCEPT ![s.o].asama = "kosu", ![s.o].token = p],
             surec' = [surec EXCEPT ![p].adim = "al", ![p].goz.asama = "kosu"]
      PROVE  SayilmazOge /\ SayilmazTur(p)
  <2>. DEFINE y == [oge[o] EXCEPT !.asama = "kosu", !.token = p]
  <2>1. y.deneme = oge[o].deneme
    BY <1>1 DEF OgeSatirlari
  <2>2. oge' = [oge EXCEPT ![o] = y]
    BY <1>1, <1>6 DEF TipInv, TypeOK
  <2>. HIDE DEF y, o
  <2>. QED BY <1>1, <1>6, <2>1, <2>2, SayilmazYazilir, SahiplenmeSayilmaz
<1>. QED BY <1>2, <1>3, <1>4, <1>5, <1>6 DEF KosuAsamasi

\* The lease passes on: not silently while the turn before is about to close an item.
LEMMA KiraAlSinir == ASSUME IInv, SinirInv, NEW p \in Surec, KiraAl(p) PROVE SinirInv'
<1>. SUFFICES ASSUME ~yarim' PROVE SinirInv'
  BY DEF SinirInv, DenemeSiniri
<1>1. /\ TipInv /\ kuyruk \in KuyrukSatirlari /\ surec \in [Surec -> Turlar]
      /\ surec[p].adim = "bos" /\ UNCHANGED oge
  BY TurTipleri DEF IInv, KiraAl
<1>2. ~yarim /\ \A q \in Surec \ {p} : surec[q].adim # "kapatGecici"
  BY DEF KiraAl, Yarim
<1>3. kuyruk'.kira = p
  BY <1>1 DEF KiraAl, KuyrukSatirlari
<1>4. surec'[p].adim = "oku"
  BY <1>1, GitTuru DEF KiraAl, Adimlar
<1>5. \A o \in Oge : /\ oge[o].deneme <= GECICI_DENEME_SINIRI
                     /\ oge[o].deneme = GECICI_DENEME_SINIRI => oge[o].durum \in KapaliOge
  BY <1>1, <1>2 DEF SinirInv, DenemeSiniri
<1>6. \A q \in Surec : KopyaGeride(q)'
  BY <1>3, <1>4 DEF KopyaGeride, Sayma
<1>. QED BY <1>1, <1>5, <1>6 DEF SinirInv, DenemeSiniri

-----------------------------------------------------------------------------
(***************************************************************************)
(* The limit holds                                                         *)
(***************************************************************************)

LEMMA AdimSinir ==
    ASSUME IInv, SinirInv, NEW p \in Surec, Adim(p) \/ TurHatasi(p) \/ Cokme(p)
    PROVE  SinirInv'
<1>1. Etki(p)
  BY AdimEtki
<1>2. ASSUME Sayilmaz(p) PROVE SinirInv'
  BY <1>1, <1>2, SayilmazSinir DEF Sayilmaz
<1>3. CASE KiraAl(p) \/ KapiHata(p) \/ GeriAl(p) \/ KosuAsamasi(p)
  BY <1>3, KiraAlSinir, KapiHataSinir, GeriAlSinir, KosuAsamasiSinir
<1>4. CASE KuyrukOku(p) \/ CalisanOge(p) \/ SiradakiOge(p) \/ TurHatasi(p) \/ Cokme(p)
  BY <1>2, <1>4, KuyrukOkuSayilmaz, CalisanOgeSayilmaz, SiradakiOgeSayilmaz, TurHatasiSayilmaz
<1>5. CASE Al(p) \/ Alinamaz(p) \/ Baslar(p) \/ Baslamaz(p) \/ Belirsiz(p)
  BY <1>2, <1>5, BaslatmaSayilmaz
<1>6. CASE \/ KuyrukBasla(p) \/ Dinlen(p) \/ DinlenmeBaslat(p) \/ DinlenmeBitti(p)
           \/ IlerletDurdurulan(p) \/ TurBiter(p)
  BY <1>2, <1>6, KuyrukSayilmaz
<1>7. CASE OgeAtla(p) \/ OgeSahiplen(p) \/ Kanca(p) \/ OgeErtele(p) \/ Kapat(p)
  BY <1>2, <1>7, OgeAtlaSayilmaz, OgeSahiplenSayilmaz, KancaSayilmaz, OgeErteleSayilmaz, KapatSayilmaz
<1>8. CASE IlerletNumarasiz(p) \/ IlerletKosu(p) \/ KosuYenidenSirala(p) \/ IlerletOnKontrol(p)
  BY <1>2, <1>8, IlerletNumarasizSayilmaz, IlerletKosuSayilmaz, KosuYenidenSiralaSayilmaz,
     IlerletOnKontrolSayilmaz
<1>9. CASE HataliOgeler(p)
  <2>1. /\ TipInv /\ surec \in [Surec -> Turlar] /\ surec[p].adim # "kapatGecici"
        /\ surec' = [surec EXCEPT ![p] = SurecBos]
    BY <1>9, TurTipleri DEF IInv, HataliOgeler
  <2>2. surec'[p].adim \notin Sayma
    BY <2>1, BosTur DEF Sayma
  <2>3. SayilmazOge
    BY <1>9, HataliOgelerSayilmaz DEF HataliOgeler
  <2>. QED BY <1>2, <1>9, <2>1, <2>2, <2>3, TurSaymaz, GecmisArtar
              DEF HataliOgeler, Sayilmaz, SayilmazGecmis
<1>. QED BY <1>3, <1>4, <1>5, <1>6, <1>7, <1>8, <1>9 DEF Adim

\* The owner, AWX and time count nothing, and take no lease.
LEMMA CevreSinir ==
    ASSUME IInv, SinirInv,
           \/ Sahip \/ (\E o \in Oge : GeriCekilmeBiter(o)) \/ DinlenmeDolar \/ KiraDuser
           \/ \E r \in Kosu : AwxBiter(r) \/ KosuKapanir(r) \/ BayatKuyruk(r) \/ KilitBirakilir(r)
    PROVE  SinirInv'
<1>1. TipInv /\ kuyruk \in KuyrukSatirlari /\ oge \in [Oge -> OgeSatirlari] /\ Yok \notin Surec
  BY YokAyri DEF IInv, TipInv, TypeOK, KuyrukSatirlari
<1>2. Etki(Yok)
  BY SahipEtki, ZamanEtki, CevreKosuEtki
<1>3. ASSUME SayilmazOge, kuyruk'.kira = kuyruk.kira, UNCHANGED gecmis PROVE SinirInv'
  BY <1>1, <1>2, <1>3, SayilmazSinir, GecmisArtar DEF SayilmazGecmis
<1>4. CASE Sahip
  <2>1. ASSUME NEW o \in Oge, OgeGuncelle(o) \/ OgeCikar(o) PROVE SayilmazOge
    <3>. DEFINE x == oge[o]
    <3>1. x \in OgeSatirlari /\ oge \in [Oge -> OgeSatirlari]
      BY <1>1
    <3>2. ASSUME NEW y, oge' = [oge EXCEPT ![o] = y], y.deneme \in {0, x.deneme} PROVE SayilmazOge
      BY <1>1, <3>2, SayilmazYazilir
    <3>3. CASE OgeGuncelle(o)
      <4>. DEFINE g == x.govde + 1
                  y == [x EXCEPT !.govde = g, !.deneme = 0, !.geri = FALSE]
      <4>1. oge' = [oge EXCEPT ![o] = y]
        BY <3>1, <3>3 DEF OgeGuncelle
      <4>. HIDE DEF g
      <4>2. y.deneme = 0
        BY <3>1 DEF OgeSatirlari
      <4>. HIDE DEF y
      <4>. QED BY <3>2, <4>1, <4>2
    <3>4. CASE OgeCikar(o)
      <4>. DEFINE y == [x EXCEPT !.durum = "IPTAL"]
      <4>1. oge' = [oge EXCEPT ![o] = y]
        BY <3>1, <3>4 DEF OgeCikar
      <4>2. y.deneme = x.deneme
        BY <3>1 DEF OgeSatirlari
      <4>. HIDE DEF y
      <4>. QED BY <3>2, <4>1, <4>2
    <3>. QED BY <2>1, <3>3, <3>4
  <2>2. ASSUME OgelerIptal PROVE SayilmazOge
    BY <2>2, HataliOgelerSayilmaz DEF OgelerIptal
  <2>3. SayilmazOge
    BY <1>4, <2>1, <2>2, SayilmazKalir
       DEF Sahip, Iptal, Duraklat, DevamOku, KuyrukDevam, Durdur, KosuSil
  <2>4. kuyruk'.kira = kuyruk.kira /\ UNCHANGED gecmis
    BY <1>1, <1>4 DEF KuyrukSatirlari, Sahip, Iptal, OgelerIptal, Duraklat, DevamOku, KuyrukDevam,
                      OgeGuncelle, OgeCikar, Durdur, KosuSil
  <2>. QED BY <1>3, <2>3, <2>4
<1>5. ASSUME NEW o \in Oge, GeriCekilmeBiter(o) PROVE SinirInv'
  <2>. DEFINE x == oge[o]
              y == [x EXCEPT !.geri = FALSE]
  <2>1. oge' = [oge EXCEPT ![o] = y]
    BY <1>1, <1>5 DEF GeriCekilmeBiter
  <2>2. y.deneme = x.deneme
    BY <1>1, <1>5 DEF OgeSatirlari
  <2>. HIDE DEF y
  <2>3. SayilmazOge
    BY <1>1, <1>5, <2>1, <2>2, SayilmazYazilir
  <2>. QED BY <1>3, <1>5, <2>3 DEF GeriCekilmeBiter
<1>6. CASE DinlenmeDolar \/ KiraDuser
  <2>1. kuyruk'.kira = kuyruk.kira /\ UNCHANGED <<oge, gecmis>>
    BY <1>1, <1>6 DEF DinlenmeDolar, KiraDuser, KuyrukSatirlari
  <2>. QED BY <1>3, <2>1, SayilmazKalir
<1>7. ASSUME NEW r \in Kosu, AwxBiter(r) \/ KosuKapanir(r) \/ BayatKuyruk(r) \/ KilitBirakilir(r)
      PROVE  SinirInv'
  <2>1. UNCHANGED <<kuyruk, oge, gecmis>>
    BY <1>7 DEF AwxBiter, KosuKapanir, BayatKuyruk, KilitBirakilir
  <2>. QED BY <1>3, <2>1, SayilmazKalir
<1>. QED BY <1>4, <1>5, <1>6, <1>7

\* No item has more attempts than GECICI_DENEME_SINIRI, and one that had the last is closed or
\* being closed by the holder of the lease, although count and close are two statements and the
\* decision is taken from a copy (geciciHata, kuyruk/index.cjs:506-517); unless a turn that had
\* lost the lease counted, or the close was lost (yarim).
THEOREM DenemeSiniriDogru == Spec => []DenemeSiniri
<1>1. Init => IInv /\ SinirInv
  <2>1. ASSUME Init PROVE IInv /\ SinirInv
    <3>1. IInv
      BY <2>1, BaslangicIInv
    <3>2. \A o \in Oge : oge[o].deneme = 0
      BY <2>1 DEF Init, YeniOge
    <3>3. \A p \in Surec : surec[p].adim \notin Sayma
      BY <2>1, BosTur DEF Init, Sayma
    <3>. QED BY <3>1, <3>2, <3>3, KuyrukSinirlari DEF SinirInv, DenemeSiniri, KopyaGeride
  <2>. QED BY <2>1
<1>2. IInv /\ SinirInv /\ [Next]_vars => (IInv /\ SinirInv)'
  <2>1. ASSUME IInv, SinirInv, [Next]_vars PROVE IInv' /\ SinirInv'
    <3>1. IInv'
      BY <2>1, AdimIInv
    <3>2. CASE UNCHANGED vars
      <4>1. kuyruk' = kuyruk /\ oge' = oge /\ surec' = surec /\ yarim' = yarim
        BY <3>2 DEF vars, gecmis
      <4>2. DenemeSiniri' = DenemeSiniri /\ \A p \in Surec : KopyaGeride(p)' = KopyaGeride(p)
        BY <4>1 DEF DenemeSiniri, KopyaGeride
      <4>. QED BY <2>1, <3>1, <4>1, <4>2 DEF SinirInv
    <3>3. ASSUME NEW p \in Surec, Adim(p) \/ TurHatasi(p) \/ Cokme(p) PROVE SinirInv'
      BY <2>1, <3>3, AdimSinir
    <3>4. ASSUME \/ Sahip \/ (\E o \in Oge : GeriCekilmeBiter(o)) \/ DinlenmeDolar \/ KiraDuser
                 \/ \E r \in Kosu : AwxBiter(r) \/ KosuKapanir(r) \/ BayatKuyruk(r) \/ KilitBirakilir(r)
          PROVE  SinirInv'
      BY <2>1, <3>4, CevreSinir
    <3>5. CASE Next
      <4>1. CASE \E p \in Surec : Adim(p) \/ TurHatasi(p) \/ Cokme(p)
        BY <3>1, <3>3, <4>1
      <4>2. CASE \E r \in Kosu : AwxBiter(r) \/ KosuKapanir(r) \/ BayatKuyruk(r) \/ KilitBirakilir(r)
        BY <3>1, <3>4, <4>2
      <4>3. CASE Sahip \/ (\E o \in Oge : GeriCekilmeBiter(o)) \/ DinlenmeDolar \/ KiraDuser
        BY <3>1, <3>4, <4>3
      <4>. QED BY <3>5, <4>1, <4>2, <4>3 DEF Next
    <3>. QED BY <2>1, <3>1, <3>2, <3>5
  <2>. QED BY <2>1
<1>3. SinirInv => DenemeSiniri
  BY DEF SinirInv
<1>. QED BY <1>1, <1>2, <1>3, PTL DEF Spec
=============================================================================
