--------------------------- MODULE YukTestiKanit ---------------------------
(***************************************************************************)
(* Proofs about YukTesti, for every set of requests, keys and stop jobs,   *)
(* every lifetime that satisfies SureVarsayimi and any number of faults.   *)
(***************************************************************************)
EXTENDS YukTesti, TLAPS

-----------------------------------------------------------------------------
(***************************************************************************)
(* The inductive invariant                                                 *)
(***************************************************************************)

\* The locals of acquireLocks.
AlmaTipi ==
    \A a \in Deneme :
        /\ pc[a] = "bos" => alinan[a] = 0
        /\ pc[a] \in AlmaAdimlari => alinan[a] < AnahtarSayisi(a)
        /\ pc[a] \in {"satir", "baslat"} => alinan[a] = AnahtarSayisi(a)
        /\ pc[a] = "sor" => goz[a].is # Yok

TipInv == TypeOK /\ AlmaTipi

Sahip(a, k) == kilit[k].held /\ kilit[k].id = a

\* Before its launch is answered a request has no job, nor a row that Stop or
\* the sweep of stale rows would touch.
Once(a) == pc[a] \in {"bos"} \cup BaslatmaAdimlari

OnceSatir(a) ==
    Once(a) =>
        /\ ~satir[a].is /\ ~satir[a].eski
        /\ satir[a].durum \in {"yok", "QUEUED"}
        /\ pc[a] = "bos" => satir[a].durum = "yok"
        /\ drd[a].adim = "bos" /\ son[a].adim = "bos"

OnceInv ==
    \A a \in Deneme :
        /\ Once(a) \/ pc[a] = "birak" => awx[a] = "yok"
        /\ OnceSatir(a)

\* The keys taken so far are the request's own, unbound and fresh.
AlinanInv ==
    \A a \in Deneme :
        pc[a] \in BaslatmaAdimlari =>
            \A i \in 1 .. alinan[a] :
                LET s == kilit[kilitAnahtarlari(a)[i]] IN
                s.held /\ s.id = a /\ s.is = Yok /\ s.kalan = KilitSuresi

\* A live job has all of its keys, and they outlast it.
Korunur(a) == Canli(a) /\ a \notin korDurdur

KorunurInv ==
    \A a \in Deneme : Korunur(a) =>
        \A k \in Anahtarlari(a) :
            Sahip(a, k) /\ kilit[k].is \in {a, Yok} /\ kilit[k].kalan > sure[a]

\* A stop job takes over only the locks of a run that is over, or that
\* korDurdur records; a job seen in a lock row is the run's own or such a one.
Ayrik(a) == ~Once(a) /\ (a \in korDurdur \/ awx[a] # "surer")

BagOlur(a, j) == a \in Deneme /\ (j = a \/ (j \in Durdurma /\ Ayrik(a)))

BagInv ==
    /\ \A k \in Anahtar : kilit[k].is # Yok => BagOlur(kilit[k].id, kilit[k].is)
    /\ \A a \in Deneme : goz[a].is # Yok => BagOlur(goz[a].id, goz[a].is)
    /\ \A a \in Deneme : drd[a].adim = "bagla" => drd[a].is \in Durdurma
    /\ \A a \in Deneme : son[a].adim \in {"otoYaz", "otoBagla"} => son[a].is \in Durdurma
    /\ \A a \in Deneme : son[a].adim \notin {"bos", "okundu"} => awx[a] \in AwxTerminal

\* What a request can hold while it takes or releases its keys.
TutulanInv ==
    \A a \in Deneme, k \in Anahtar : Sahip(a, k) =>
        /\ Once(a) => \E i \in 1 .. alinan[a] : k = kilitAnahtarlari(a)[i]
        /\ pc[a] = "birak" => \E i \in sira[a] .. alinan[a] : k = kilitAnahtarlari(a)[i]
        /\ pc[a] # "ret"

IInv == TipInv /\ OnceInv /\ AlinanInv /\ KorunurInv /\ BagInv /\ TutulanInv

-----------------------------------------------------------------------------
(***************************************************************************)
(* The operations of the lock table                                        *)
(***************************************************************************)

\* kilitAnahtarlari gives two or three keys of the table.
LEMMA AnahtarListesi ==
    ASSUME NEW a \in Deneme
    PROVE  /\ kilitAnahtarlari(a) \in Seq(Anahtar)
           /\ AnahtarSayisi(a) \in Nat \ {0}
           /\ \A i \in 1 .. AnahtarSayisi(a) : kilitAnahtarlari(a)[i] \in Anahtar
           /\ Anahtarlari(a) \subseteq Anahtar
<1>1. /\ Global \in Anahtar /\ Hedef[a] \in Anahtar /\ YukMakinesi[a] \in Anahtar
  BY DEF Anahtar
<1>2. CASE a \in Kosu \cup Serbest
  <2>1. kilitAnahtarlari(a) = <<Global, Hedef[a], YukMakinesi[a]>>
    BY <1>2 DEF kilitAnahtarlari
  <2>. QED BY <1>1, <2>1 DEF AnahtarSayisi, Anahtarlari
<1>3. CASE a \notin Kosu \cup Serbest
  <2>1. kilitAnahtarlari(a) = <<Hedef[a], YukMakinesi[a]>>
    BY <1>3 DEF kilitAnahtarlari
  <2>. QED BY <1>1, <2>1 DEF AnahtarSayisi, Anahtarlari
<1>. QED BY <1>2, <1>3

\* The range of the clock of a lock holds what the operations write into it.
LEMMA SureAraligi ==
    /\ EnUzunSure \in Nat /\ KilitSuresi \in (-YarimGun) .. EnUzunSure
    /\ 0 \in (-YarimGun) .. EnUzunSure
    /\ Uzatma \in (-YarimGun) .. EnUzunSure /\ Uzatmasiz \in (-YarimGun) .. EnUzunSure
  BY SureVarsayimi DEF EnUzunSure, Uzatmasiz

\* Every operation maps lock tables to lock tables.
LEMMA KilitTipi ==
    ASSUME NEW t \in [Anahtar -> KilitSatiri]
    PROVE  /\ \A k, a : a \in Deneme =>
                /\ casLock(t, k, a) \in [Anahtar -> KilitSatiri]
                /\ bindLock(t, k, a) \in [Anahtar -> KilitSatiri]
           /\ \A j \in Is : releaseLocksForJob(t, j) \in [Anahtar -> KilitSatiri]
           /\ \A j \in Is, n \in {Uzatma, Uzatmasiz} :
                isinKilitleriniCoz(t, j, n) \in [Anahtar -> KilitSatiri]
           /\ \A a, j : j \in Is \cup {Yok} =>
                durdurIsineBagla(t, a, j) \in [Anahtar -> KilitSatiri]
           /\ YaslanKilit(t) \in [Anahtar -> KilitSatiri]
<1>. USE SureAraligi, SureVarsayimi
<1>1. ASSUME NEW k, NEW a \in Deneme PROVE casLock(t, k, a) \in [Anahtar -> KilitSatiri]
  BY DEF casLock, KilitSatiri
<1>2. \A s \in KilitSatiri : Birakilmis(s) \in KilitSatiri
  BY DEF Birakilmis, KilitSatiri
<1>4. ASSUME NEW k, NEW a \in Deneme PROVE bindLock(t, k, a) \in [Anahtar -> KilitSatiri]
  <2>1. bagTuruOf(a) \in BagTurleri
    BY DEF bagTuruOf, BagTurleri
  <2>2. \A s \in KilitSatiri : [s EXCEPT !.is = a, !.tur = bagTuruOf(a)] \in KilitSatiri
    BY <2>1 DEF KilitSatiri, Is
  <2>. QED BY <2>2 DEF bindLock
<1>5. ASSUME NEW j \in Is PROVE releaseLocksForJob(t, j) \in [Anahtar -> KilitSatiri]
  BY <1>2 DEF releaseLocksForJob
<1>6. \A s \in KilitSatiri, m \in {Uzatma, Uzatmasiz} :
        EnAz(s.kalan, m) \in (-YarimGun) .. EnUzunSure
  BY DEF EnAz, KilitSatiri
<1>7. ASSUME NEW j \in Is, NEW n \in {Uzatma, Uzatmasiz}
      PROVE  isinKilitleriniCoz(t, j, n) \in [Anahtar -> KilitSatiri]
  <2>1. \A s \in KilitSatiri :
          [s EXCEPT !.is = Yok, !.tur = Yok, !.kalan = EnAz(@, n)] \in KilitSatiri
    BY <1>6 DEF KilitSatiri
  <2>. QED BY <2>1 DEF isinKilitleriniCoz
<1>8. ASSUME NEW a, NEW j \in Is \cup {Yok} PROVE durdurIsineBagla(t, a, j) \in [Anahtar -> KilitSatiri]
  BY <1>6 DEF durdurIsineBagla, KilitSatiri, BagTurleri
<1>9. YaslanKilit(t) \in [Anahtar -> KilitSatiri]
  BY DEF YaslanKilit, KilitSatiri
<1>. QED BY <1>1, <1>4, <1>5, <1>7, <1>8, <1>9

\* So does a release, whatever key and owner it is called with.
LEMMA BirakTipi ==
    ASSUME NEW t \in [Anahtar -> KilitSatiri], NEW k, NEW a
    PROVE  releaseLockById(t, k, a) \in [Anahtar -> KilitSatiri]
<1>1. \A s \in KilitSatiri : Birakilmis(s) \in KilitSatiri
  BY SureAraligi DEF Birakilmis, KilitSatiri
<1>. QED BY <1>1 DEF releaseLockById
-----------------------------------------------------------------------------
(***************************************************************************)
(* Type correctness                                                        *)
(***************************************************************************)

\* The first state is well typed.
LEMMA TipBaslangic == Init => TipInv
<1>. SUFFICES ASSUME Init PROVE TipInv
  OBVIOUS
<1>1. kilit \in [Anahtar -> KilitSatiri]
  BY SureAraligi DEF Init, KilitSatiri, BosSatir
<1>2. SatirYok \in Satirlar /\ DurdurBos \in DurdurIsleyicileri /\ SonBos \in Sonuclandiricilar
  BY SinirVarsayimi DEF SatirYok, Satirlar, DurdurBos, DurdurIsleyicileri, SonBos, Sonuclandiricilar
<1>3. satir \in [Deneme -> Satirlar] /\ drd \in [Deneme -> DurdurIsleyicileri]
        /\ son \in [Deneme -> Sonuclandiricilar]
  BY <1>2 DEF Init
<1>4. GozYok \in Gorulen
  BY DEF GozYok, Gorulen
<1>. QED BY <1>1, <1>3, <1>4, SureVarsayimi, SinirVarsayimi, AnahtarListesi
         DEF Init, TipInv, TypeOK, AlmaTipi, AwxDurumlari, IstekAdimlari, AlmaAdimlari

\* Every step keeps the types and the loop indices, action by action.
LEMMA TipAdim == TipInv /\ [Next]_vars => TipInv'
<1>. SUFFICES ASSUME TypeOK, AlmaTipi, [Next]_vars PROVE TypeOK' /\ AlmaTipi'
  BY DEF TipInv
<1>s. \A a \in Deneme : AnahtarSayisi(a) \in Nat /\ AnahtarSayisi(a) > 0
  BY AnahtarListesi
<1>k. kilit \in [Anahtar -> KilitSatiri]
  BY DEF TypeOK
<1>g. GozYok \in Gorulen
  BY DEF GozYok, Gorulen
<1>. USE <1>s, <1>g DEF TypeOK, awxVars, IstekAdimlari, BaslatmaAdimlari, AlmaAdimlari, Git
<1>a. ASSUME NEW a \in Deneme, Istek(a) PROVE TypeOK' /\ AlmaTipi'
  BY <1>a DEF AlmaTipi, Istek
<1>b. ASSUME NEW a \in Deneme, KilitAl(a) PROVE TypeOK' /\ AlmaTipi'
  <2>1. kilit' \in [Anahtar -> KilitSatiri]
    <3>1. casLock(kilit, Siradaki(a), a) \in [Anahtar -> KilitSatiri]
      BY ONLY <1>k, KilitTipi, a \in Deneme
    <3>. QED BY ONLY <1>b, <1>k, <3>1 DEF KilitAl, AnahtarAlindi
  <2>2. TypeOK'
    BY <1>b, <2>1 DEF KilitAl, AnahtarAlindi
  <2>3. AlmaTipi'
    BY <1>b, SMTT(30) DEF AlmaTipi, KilitAl, AnahtarAlindi
  <2>. QED BY <2>2, <2>3
<1>c. ASSUME NEW a \in Deneme, KilitOku(a) PROVE TypeOK' /\ AlmaTipi'
  <2>1. Siradaki(a) \in Anahtar
    <3>1. alinan[a] + 1 \in 1 .. AnahtarSayisi(a)
      BY <1>c DEF AlmaTipi, KilitOku
    <3>. QED BY ONLY <3>1, AnahtarListesi, a \in Deneme DEF Siradaki
  <2>2. ASSUME NEW s \in KilitSatiri, s.is # Yok
        PROVE  [id |-> s.id, is |-> s.is, tur |-> s.tur] \in Gorulen
    BY <2>2 DEF KilitSatiri, Gorulen
  <2>3. goz' \in [Deneme -> Gorulen]
    BY <1>c, <2>1, <2>2 DEF KilitOku
  <2>4. TypeOK'
    <3>1. /\ pc' \in [Deneme -> IstekAdimlari] /\ alinan' \in [Deneme -> Nat]
          /\ sira' \in [Deneme -> Nat]
      BY <1>c DEF KilitOku, Birakmaya
    <3>2. UNCHANGED <<kilit, awxVars, sonuc, satir, drd, son, korDurdur, ariza, basma>>
      BY <1>c DEF KilitOku
    <3>3. /\ awx' = awx /\ sure' = sure /\ sahip' = sahip /\ yayin' = yayin /\ kilit' = kilit
          /\ sonuc' = sonuc /\ satir' = satir /\ drd' = drd /\ son' = son
          /\ korDurdur' = korDurdur /\ ariza' = ariza /\ basma' = basma
      BY ONLY <3>2 DEF awxVars
    <3>. QED BY ONLY TypeOK, <2>3, <3>1, <3>3 DEF TypeOK
  <2>5. AlmaTipi'
    BY <1>c DEF AlmaTipi, KilitOku, Birakmaya
  <2>. QED BY <2>4, <2>5
<1>d. ASSUME NEW a \in Deneme, KilitSor(a) PROVE TypeOK' /\ AlmaTipi'
  <2>1. goz[a] \in Gorulen /\ goz[a].is \in Is
    BY <1>d DEF AlmaTipi, KilitSor, Gorulen, AlmaAdimlari
  <2>2. releaseLockById(kilit, Siradaki(a), goz[a].id) \in [Anahtar -> KilitSatiri]
    BY ONLY <1>k, BirakTipi
  <2>3. isinKilitleriniCoz(kilit, goz[a].is, Uzatmasiz) \in [Anahtar -> KilitSatiri]
    BY ONLY <1>k, <2>1, KilitTipi
  <2>5. kilit' \in [Anahtar -> KilitSatiri] /\ goz' \in [Deneme -> Gorulen]
    BY <1>d, <2>2, <2>3 DEF KilitSor
  <2>6. TypeOK'
    BY <1>d, <2>5 DEF KilitSor, Birakmaya
  <2>7. AlmaTipi'
    BY <1>d DEF AlmaTipi, KilitSor, Birakmaya
  <2>. QED BY <2>6, <2>7
<1>e. ASSUME NEW a \in Deneme, KilitTekrar(a) PROVE TypeOK' /\ AlmaTipi'
  <2>1. kilit' \in [Anahtar -> KilitSatiri]
    <3>1. casLock(kilit, Siradaki(a), a) \in [Anahtar -> KilitSatiri]
      BY ONLY <1>k, KilitTipi, a \in Deneme
    <3>. QED BY ONLY <1>e, <1>k, <3>1 DEF KilitTekrar, AnahtarAlindi
  <2>2. TypeOK'
    BY <1>e, <2>1 DEF KilitTekrar, AnahtarAlindi, Birakmaya
  <2>3. AlmaTipi'
    BY <1>e DEF AlmaTipi, KilitTekrar, AnahtarAlindi, Birakmaya
  <2>. QED BY <2>2, <2>3
<1>f. ASSUME NEW a \in Deneme, KilitHata(a) PROVE TypeOK' /\ AlmaTipi'
  <2>1. ariza' \in 0 .. EnCokAriza
    BY <1>f, SinirVarsayimi DEF KilitHata, Ariza
  <2>2. TypeOK'
    BY <1>f, <2>1 DEF KilitHata, Birakmaya
  <2>3. AlmaTipi'
    BY <1>f DEF AlmaTipi, KilitHata, Birakmaya
  <2>. QED BY <2>2, <2>3
<1>h. ASSUME NEW a \in Deneme, Birak(a) PROVE TypeOK' /\ AlmaTipi'
  <2>1. kilit' \in [Anahtar -> KilitSatiri]
    <3>1. releaseLockById(kilit, kilitAnahtarlari(a)[sira[a]], a) \in [Anahtar -> KilitSatiri]
      BY ONLY <1>k, BirakTipi
    <3>. QED BY ONLY <1>h, <1>k, <3>1 DEF Birak
  <2>2. ariza' \in 0 .. EnCokAriza
    BY <1>h, SinirVarsayimi DEF Birak, Ariza, ArizaYok
  <2>3. satir' \in [Deneme -> Satirlar]
    <3>1. \A s \in Satirlar : kosuBasarisiz(s) \in Satirlar
      BY DEF kosuBasarisiz, Satirlar, SonDurumlar
    <3>. QED BY <1>h, <3>1 DEF Birak
  <2>4. /\ pc' \in [Deneme -> IstekAdimlari] /\ alinan' \in [Deneme -> Nat]
        /\ sira' \in [Deneme -> Nat]
        /\ sonuc' \in [Deneme -> {"yok", "tamam", "yutuldu", "belirsiz"}]
    BY <1>h DEF Birak, Biter
  <2>5. TypeOK'
    BY <1>h, <2>1, <2>2, <2>3, <2>4 DEF Birak
  <2>6. AlmaTipi'
    BY <1>h DEF AlmaTipi, Birak, Biter
  <2>. QED BY <2>5, <2>6
<1>i. ASSUME NEW a \in Deneme, SatirYaz(a) PROVE TypeOK' /\ AlmaTipi'
  <2>1. satir' \in [Deneme -> Satirlar]
    <3>1. \A s \in Satirlar : [s EXCEPT !.durum = "QUEUED"] \in Satirlar
      BY DEF Satirlar, AKTIF
    <3>. QED BY <1>i, <3>1 DEF SatirYaz
  <2>2. ariza' \in 0 .. EnCokAriza
    BY <1>i, SinirVarsayimi DEF SatirYaz, Ariza, ArizaYok
  <2>3. TypeOK'
    BY <1>i, <2>1, <2>2 DEF SatirYaz, Birakmaya
  <2>4. AlmaTipi'
    BY <1>i DEF AlmaTipi, SatirYaz, Birakmaya
  <2>. QED BY <2>3, <2>4
<1>j. ASSUME NEW a \in Deneme, BaslatRed(a) PROVE TypeOK' /\ AlmaTipi'
  BY <1>j DEF AlmaTipi, BaslatRed, Birakmaya
<1>l. ASSUME NEW a \in Deneme, AwxBaslat(a) PROVE TypeOK' /\ AlmaTipi'
  <2>1. awx' \in [Is -> AwxDurumlari] /\ sure' \in [Deneme -> 0 .. SablonZamanAsimi]
    BY <1>l, SureVarsayimi DEF AwxBaslat, IsBaslar, AwxDurumlari, Is
  <2>2. ariza' \in 0 .. EnCokAriza
    BY <1>l, SinirVarsayimi DEF AwxBaslat, Ariza, ArizaYok
  <2>3. TypeOK'
    BY <1>l, <2>1, <2>2 DEF AwxBaslat
  <2>4. AlmaTipi'
    BY <1>l DEF AlmaTipi, AwxBaslat
  <2>. QED BY <2>3, <2>4
<1>m. ASSUME NEW a \in Deneme, Bagla(a) PROVE TypeOK' /\ AlmaTipi'
  <2>1. kilit' \in [Anahtar -> KilitSatiri]
    <3>1. bindLock(kilit, kilitAnahtarlari(a)[sira[a]], a) \in [Anahtar -> KilitSatiri]
      BY ONLY <1>k, KilitTipi, a \in Deneme
    <3>. QED BY ONLY <1>m, <1>k, <3>1 DEF Bagla
  <2>2. ariza' \in 0 .. EnCokAriza
    BY <1>m, SinirVarsayimi DEF Bagla, Ariza, ArizaYok
  <2>3. TypeOK'
    BY <1>m, <2>1, <2>2 DEF Bagla
  <2>4. AlmaTipi'
    BY <1>m DEF AlmaTipi, Bagla
  <2>. QED BY <2>3, <2>4
<1>n. ASSUME NEW a \in Deneme, SatirGuncelle(a) PROVE TypeOK' /\ AlmaTipi'
  <2>1. satir' \in [Deneme -> Satirlar]
    <3>1. \A s \in Satirlar : kosuBasarisiz(s) \in Satirlar
      BY DEF kosuBasarisiz, Satirlar, SonDurumlar
    <3>2. \A s \in Satirlar : [s EXCEPT !.is = TRUE, !.durum = IF @ = "QUEUED" THEN "RUNNING" ELSE @] \in Satirlar
      BY DEF Satirlar, AKTIF
    <3>3. \A s \in Satirlar : [s EXCEPT !.durum = "FAILED", !.is = TRUE] \in Satirlar
      BY DEF Satirlar, SonDurumlar
    <3>4. satir[a] \in Satirlar
      OBVIOUS
    <3>5. CASE satir' = [satir EXCEPT ![a] = kosuBasarisiz(@)]
      BY <3>1, <3>4, <3>5
    <3>6. CASE satir' = [satir EXCEPT ![a].is = TRUE,
                                      ![a].durum = IF @ = "QUEUED" THEN "RUNNING" ELSE @]
      BY <3>2, <3>4, <3>6
    <3>7. CASE satir' = [satir EXCEPT ![a].durum = "FAILED", ![a].is = TRUE]
      BY <3>3, <3>4, <3>7
    <3>. QED BY <1>n, <3>5, <3>6, <3>7 DEF SatirGuncelle
  <2>2. ariza' \in 0 .. EnCokAriza
    BY <1>n, SinirVarsayimi DEF SatirGuncelle, Ariza, ArizaYok
  <2>3. TypeOK'
    BY <1>n, <2>1, <2>2 DEF SatirGuncelle, Biter
  <2>4. AlmaTipi'
    BY <1>n DEF AlmaTipi, SatirGuncelle, Biter
  <2>. QED BY <2>3, <2>4
<1>o. ASSUME NEW a \in Deneme, SatirKontrol(a) PROVE TypeOK' /\ AlmaTipi'
  <2>1. awx' \in [Is -> AwxDurumlari]
    BY <1>o DEF SatirKontrol, AwxDurumlari, Is
  <2>2. ariza' \in 0 .. EnCokAriza
    BY <1>o, SinirVarsayimi DEF SatirKontrol, Ariza, ArizaYok
  <2>3. TypeOK'
    BY <1>o, <2>1, <2>2 DEF SatirKontrol, Biter
  <2>4. AlmaTipi'
    BY <1>o DEF AlmaTipi, SatirKontrol, Biter
  <2>. QED BY <2>3, <2>4
<1>p. ASSUME NEW a \in Deneme, Durdur(a) PROVE TypeOK' /\ AlmaTipi'
  <2>1. awx' \in [Is -> AwxDurumlari]
    BY <1>p DEF Durdur, AwxDurumlari, Is
  <2>2. ariza' \in 0 .. EnCokAriza /\ basma' \in 0 .. EnCokBasma
    BY <1>p, SinirVarsayimi DEF Durdur, Ariza, ArizaYok, Basma
  <2>3. drd' \in [Deneme -> DurdurIsleyicileri]
    <3>1. satir[a].is \in BOOLEAN
      BY DEF Satirlar
    <3>. QED BY <1>p, <3>1 DEF Durdur, DurdurIsleyicileri
  <2>4. TypeOK'
    BY <1>p, <2>1, <2>2, <2>3 DEF Durdur, istekVars
  <2>5. AlmaTipi'
    BY <1>p DEF AlmaTipi, Durdur, istekVars
  <2>. QED BY <2>4, <2>5
<1>q. ASSUME NEW a \in Deneme, DurdurBaslat(a) PROVE TypeOK' /\ AlmaTipi'
  <2>1. awx' \in [Is -> AwxDurumlari] /\ sahip' \in [Durdurma -> Deneme \cup {Yok}]
    BY <1>q DEF DurdurBaslat, DurdurIsiBaslar, AwxDurumlari, Is
  <2>2. ariza' \in 0 .. EnCokAriza
    BY <1>q, SinirVarsayimi DEF DurdurBaslat, DurdurmaBaslamaz, Ariza, ArizaYok
  <2>3. drd' \in [Deneme -> DurdurIsleyicileri]
    <3>1. \A r \in DurdurIsleyicileri : [r EXCEPT !.adim = "yaz"] \in DurdurIsleyicileri
      BY DEF DurdurIsleyicileri
    <3>2. \A r \in DurdurIsleyicileri, d \in Durdurma :
            [r EXCEPT !.adim = "yaz", !.is = d] \in DurdurIsleyicileri
      BY DEF DurdurIsleyicileri
    <3>3. drd[a] \in DurdurIsleyicileri
      OBVIOUS
    <3>4. CASE drd' = [drd EXCEPT ![a].adim = "yaz"]
      BY <3>1, <3>3, <3>4
    <3>5. ASSUME NEW d \in Durdurma, drd' = [drd EXCEPT ![a].adim = "yaz", ![a].is = d]
          PROVE  drd' \in [Deneme -> DurdurIsleyicileri]
      BY <3>2, <3>3, <3>5
    <3>. QED BY <1>q, <3>4, <3>5 DEF DurdurBaslat
  <2>4. TypeOK'
    BY <1>q, <2>1, <2>2, <2>3 DEF DurdurBaslat, istekVars
  <2>5. AlmaTipi'
    BY <1>q DEF AlmaTipi, DurdurBaslat, istekVars
  <2>. QED BY <2>4, <2>5
<1>r. ASSUME NEW a \in Deneme, DurdurYaz(a) PROVE TypeOK' /\ AlmaTipi'
  <2>1. satir' \in [Deneme -> Satirlar]
    <3>1. drd[a].is \in Durdurma \cup {Yok} /\ satir[a] \in Satirlar
      BY DEF DurdurIsleyicileri
    <3>2. ASSUME NEW s \in Satirlar, NEW i \in Durdurma \cup {Yok},
                 NEW u \in {"yok"} \cup AKTIF \cup SonDurumlar
          PROVE  [s EXCEPT !.durdur = i, !.durum = u] \in Satirlar
      BY DEF Satirlar
    <3>3. satir[a].durum \in {"yok"} \cup AKTIF \cup SonDurumlar /\ satir[a].durdur \in Durdurma \cup {Yok}
      BY <3>1 DEF Satirlar
    <3>4. "CANCELED" \in SonDurumlar
      BY DEF SonDurumlar
    <3>. DEFINE i == IF drd[a].is # Yok THEN drd[a].is ELSE satir[a].durdur
                u == IF drd[a].kor /\ satir[a].durum = "QUEUED" /\ ~satir[a].is
                     THEN "CANCELED" ELSE satir[a].durum
    <3>5. i \in Durdurma \cup {Yok} /\ u \in {"yok"} \cup AKTIF \cup SonDurumlar
      BY <3>1, <3>3, <3>4
    <3>6. satir' = satir \/ satir' = [satir EXCEPT ![a].durdur = i, ![a].durum = u]
      BY <1>r DEF DurdurYaz
    <3>7. [satir[a] EXCEPT !.durdur = i, !.durum = u] \in Satirlar
      BY ONLY <3>1, <3>2, <3>5
    <3>. HIDE DEF i, u
    <3>. QED BY <3>6, <3>7
  <2>2. ariza' \in 0 .. EnCokAriza
    BY <1>r, SinirVarsayimi DEF DurdurYaz, Ariza, ArizaYok
  <2>3. drd' \in [Deneme -> DurdurIsleyicileri]
    <3>1. \A r \in DurdurIsleyicileri : [r EXCEPT !.adim = "bagla"] \in DurdurIsleyicileri
      BY DEF DurdurIsleyicileri
    <3>2. DurdurBos \in DurdurIsleyicileri /\ drd[a] \in DurdurIsleyicileri
      BY DEF DurdurIsleyicileri, DurdurBos
    <3>. QED BY <1>r, <3>1, <3>2 DEF DurdurYaz
  <2>4. TypeOK'
    BY <1>r, <2>1, <2>2, <2>3 DEF DurdurYaz, istekVars
  <2>5. AlmaTipi'
    BY <1>r DEF AlmaTipi, DurdurYaz, istekVars
  <2>. QED BY <2>4, <2>5
<1>t. ASSUME NEW a \in Deneme, DurdurBagla(a) PROVE TypeOK' /\ AlmaTipi'
  <2>1. kilit' \in [Anahtar -> KilitSatiri]
    <3>1. drd[a].is \in Is \cup {Yok}
      BY DEF DurdurIsleyicileri, Is
    <3>2. durdurIsineBagla(kilit, a, drd[a].is) \in [Anahtar -> KilitSatiri]
      BY ONLY <1>k, KilitTipi, <3>1
    <3>. QED BY ONLY <1>t, <3>2 DEF DurdurBagla
  <2>2. drd' \in [Deneme -> DurdurIsleyicileri]
    BY <1>t DEF DurdurBagla, DurdurIsleyicileri, DurdurBos
  <2>3. TypeOK'
    BY <1>t, <2>1, <2>2 DEF DurdurBagla, istekVars
  <2>4. AlmaTipi'
    BY <1>t DEF AlmaTipi, DurdurBagla, istekVars
  <2>. QED BY <2>3, <2>4
<1>u. ASSUME NEW a \in Deneme, SonucOku(a) PROVE TypeOK' /\ AlmaTipi'
  <2>1. son' \in [Deneme -> Sonuclandiricilar]
    <3>1. (satir[a].durdur = Yok) \in BOOLEAN
      OBVIOUS
    <3>. QED BY <1>u, <3>1 DEF SonucOku, Sonuclandiricilar
  <2>2. TypeOK'
    BY <1>u, <2>1 DEF SonucOku, istekVars
  <2>3. AlmaTipi'
    BY <1>u DEF AlmaTipi, SonucOku, istekVars
  <2>. QED BY <2>2, <2>3
<1>x. \A r \in Sonuclandiricilar :
        \A adim \in {"bos", "okundu", "kilit", "oto", "otoYaz", "otoBagla", "yaz"} :
            [r EXCEPT !.adim = adim] \in Sonuclandiricilar
  BY DEF Sonuclandiricilar
<1>z. 0 \in 0 .. OKUMA_DENEME_SINIRI + 1
  BY SinirVarsayimi
<1>y. SonBos \in Sonuclandiricilar
  BY DEF SonBos, Sonuclandiricilar
<1>v. ASSUME NEW a \in Deneme, SonucAl(a) PROVE TypeOK' /\ AlmaTipi'
  <2>1. son' \in [Deneme -> Sonuclandiricilar]
    BY <1>v, <1>x DEF SonucAl, SonGit
  <2>2. satir' \in [Deneme -> Satirlar]
    <3>1. ASSUME NEW s \in Satirlar, NEW n \in 0 .. OKUMA_DENEME_SINIRI + 1
          PROVE  [s EXCEPT !.durum = "FINALIZING", !.deneme = n] \in Satirlar
      BY DEF Satirlar, AKTIF
    <3>. DEFINE n == IF satir[a].deneme > OKUMA_DENEME_SINIRI THEN satir[a].deneme
                                                            ELSE satir[a].deneme + 1
    <3>2. n \in 0 .. OKUMA_DENEME_SINIRI + 1
      <4>1. satir[a].deneme \in 0 .. OKUMA_DENEME_SINIRI + 1
        BY DEF Satirlar
      <4>. QED BY <4>1, SinirVarsayimi
    <3>3. satir' = [satir EXCEPT ![a].durum = "FINALIZING", ![a].deneme = n]
      BY <1>v DEF SonucAl
    <3>. HIDE DEF n
    <3>. QED BY <3>1, <3>2, <3>3
  <2>3. TypeOK'
    BY <1>v, <2>1, <2>2 DEF SonucAl, istekVars
  <2>4. AlmaTipi'
    BY <1>v DEF AlmaTipi, SonucAl, istekVars
  <2>. QED BY <2>3, <2>4
<1>w. ASSUME NEW a \in Deneme, SonucVazgec(a) PROVE TypeOK' /\ AlmaTipi'
  <2>1. TypeOK'
    BY <1>w, <1>y DEF SonucVazgec, istekVars
  <2>2. AlmaTipi'
    BY <1>w DEF AlmaTipi, SonucVazgec, istekVars
  <2>. QED BY <2>1, <2>2
<1>aa. ASSUME NEW j \in Is, NEW tur, NEW durum, NEW n \in {Uzatma, Uzatmasiz}
       PROVE  IsBitti(kilit, j, tur, durum, n) \in [Anahtar -> KilitSatiri]
  BY ONLY <1>k, KilitTipi, j \in Is, n \in {Uzatma, Uzatmasiz} DEF IsBitti
<1>bb. ASSUME NEW a \in Deneme, SonucKilit(a) PROVE TypeOK' /\ AlmaTipi'
  <2>1. kilit' \in [Anahtar -> KilitSatiri]
    <3>1. IsBitti(kilit, a, bagTuruOf(a), awx[a], IF a \in Kosu THEN Uzatma ELSE Uzatmasiz)
            \in [Anahtar -> KilitSatiri]
      BY ONLY <1>aa, a \in Deneme DEF Is
    <3>. QED BY ONLY <1>bb, <1>k, <3>1 DEF SonucKilit
  <2>2. son' \in [Deneme -> Sonuclandiricilar]
    <3>1. son' = [son EXCEPT ![a].adim = "yaz"] \/ son' = [son EXCEPT ![a].adim = "oto"]
      BY <1>bb DEF SonucKilit, SonGit
    <3>2. son[a] \in Sonuclandiricilar
      OBVIOUS
    <3>3. [son[a] EXCEPT !.adim = "yaz"] \in Sonuclandiricilar /\ [son[a] EXCEPT !.adim = "oto"] \in Sonuclandiricilar
      BY ONLY <1>x, <3>2
    <3>. QED BY <3>1, <3>3
  <2>3. ariza' \in 0 .. EnCokAriza
    BY <1>bb, SinirVarsayimi DEF SonucKilit, Ariza, ArizaYok
  <2>4. TypeOK'
    BY <1>bb, <2>1, <2>2, <2>3 DEF SonucKilit, istekVars
  <2>5. AlmaTipi'
    BY <1>bb DEF AlmaTipi, SonucKilit, istekVars
  <2>. QED BY <2>4, <2>5
<1>cc. ASSUME NEW a \in Deneme, OtoDurdur(a) PROVE TypeOK' /\ AlmaTipi'
  <2>1. kilit' \in [Anahtar -> KilitSatiri]
    <3>1. isinKilitleriniCoz(kilit, a, Uzatma) \in [Anahtar -> KilitSatiri]
      BY ONLY <1>k, KilitTipi, a \in Deneme DEF Is
    <3>. QED BY ONLY <1>cc, <1>k, <3>1 DEF OtoDurdur
  <2>2. son' \in [Deneme -> Sonuclandiricilar]
    <3>1. \A r \in Sonuclandiricilar, d \in Durdurma :
            [r EXCEPT !.adim = "otoYaz", !.is = d] \in Sonuclandiricilar
      BY DEF Sonuclandiricilar
    <3>2. son[a] \in Sonuclandiricilar
      OBVIOUS
    <3>3. \/ \E d \in Durdurma : son' = [son EXCEPT ![a].adim = "otoYaz", ![a].is = d]
          \/ son' = [son EXCEPT ![a].adim = "yaz"]
      BY <1>cc DEF OtoDurdur, SonGit
    <3>4. [son[a] EXCEPT !.adim = "yaz"] \in Sonuclandiricilar
      BY ONLY <1>x, <3>2
    <3>5. ASSUME NEW d \in Durdurma, son' = [son EXCEPT ![a].adim = "otoYaz", ![a].is = d]
          PROVE  son' \in [Deneme -> Sonuclandiricilar]
      <4>1. [son[a] EXCEPT !.adim = "otoYaz", !.is = d] \in Sonuclandiricilar
        BY ONLY <3>1, <3>2, d \in Durdurma
      <4>. QED BY <3>5, <4>1
    <3>6. CASE son' = [son EXCEPT ![a].adim = "yaz"]
      BY <3>4, <3>6
    <3>. QED BY <3>3, <3>5, <3>6
  <2>3. ariza' \in 0 .. EnCokAriza
    BY <1>cc, SinirVarsayimi DEF OtoDurdur, DurdurmaBaslamaz, Ariza, ArizaYok
  <2>4. awx' \in [Is -> AwxDurumlari] /\ sahip' \in [Durdurma -> Deneme \cup {Yok}]
    BY <1>cc DEF OtoDurdur, DurdurIsiBaslar, AwxDurumlari, Is
  <2>5. TypeOK'
    BY <1>cc, <2>1, <2>2, <2>3, <2>4 DEF OtoDurdur, istekVars
  <2>6. AlmaTipi'
    BY <1>cc DEF AlmaTipi, OtoDurdur, istekVars
  <2>. QED BY <2>5, <2>6
<1>dd. ASSUME NEW a \in Deneme, OtoYaz(a) PROVE TypeOK' /\ AlmaTipi'
  <2>1. satir' \in [Deneme -> Satirlar]
    <3>1. \A s \in Satirlar, i \in Durdurma \cup {Yok} : [s EXCEPT !.durdur = i] \in Satirlar
      BY DEF Satirlar
    <3>2. son[a].is \in Durdurma \cup {Yok} /\ satir[a] \in Satirlar
      BY DEF Sonuclandiricilar
    <3>3. [satir[a] EXCEPT !.durdur = son[a].is] \in Satirlar
      BY ONLY <3>1, <3>2
    <3>. QED BY <1>dd, <3>3 DEF OtoYaz
  <2>2. son' \in [Deneme -> Sonuclandiricilar]
    BY <1>dd, <1>x DEF OtoYaz, SonGit
  <2>3. TypeOK'
    BY <1>dd, <2>1, <2>2 DEF OtoYaz, istekVars
  <2>4. AlmaTipi'
    BY <1>dd DEF AlmaTipi, OtoYaz, istekVars
  <2>. QED BY <2>3, <2>4
<1>ee. ASSUME NEW a \in Deneme, OtoBagla(a) PROVE TypeOK' /\ AlmaTipi'
  <2>1. kilit' \in [Anahtar -> KilitSatiri]
    <3>1. son[a].is \in Is \cup {Yok}
      BY DEF Sonuclandiricilar, Is
    <3>2. durdurIsineBagla(kilit, a, son[a].is) \in [Anahtar -> KilitSatiri]
      BY ONLY <1>k, KilitTipi, <3>1
    <3>. QED BY ONLY <1>ee, <3>2 DEF OtoBagla
  <2>2. son' \in [Deneme -> Sonuclandiricilar]
    BY <1>ee, <1>x DEF OtoBagla, SonGit
  <2>3. TypeOK'
    BY <1>ee, <2>1, <2>2 DEF OtoBagla, istekVars
  <2>4. AlmaTipi'
    BY <1>ee DEF AlmaTipi, OtoBagla, istekVars
  <2>. QED BY <2>3, <2>4
<1>ff. ASSUME NEW a \in Deneme, SonYaz(a) PROVE TypeOK' /\ AlmaTipi'
  <2>1. satir' \in [Deneme -> Satirlar]
    <3>1. ASSUME NEW v \in Kararlar(a), NEW o \in OkunamadiOlur(a, v)
          PROVE  v \in SonDurumlar /\ o \in BOOLEAN
      BY <3>1 DEF Kararlar, OkunamadiOlur, SonDurumlar
    <3>2. ASSUME NEW s \in Satirlar, NEW u \in SonDurumlar, NEW o \in BOOLEAN
          PROVE  [s EXCEPT !.durum = u, !.okunamadi = o, !.deneme = 0] \in Satirlar
      BY ONLY <1>z DEF Satirlar
    <3>3. \/ satir' = satir
          \/ \E v \in Kararlar(a) : \E o \in OkunamadiOlur(a, v) :
                satir' = [satir EXCEPT ![a].durum = v, ![a].okunamadi = o, ![a].deneme = 0]
      BY ONLY <1>ff DEF SonYaz
    <3>4. satir \in [Deneme -> Satirlar] /\ satir[a] \in Satirlar
      OBVIOUS
    <3>5. ASSUME NEW v \in Kararlar(a), NEW o \in OkunamadiOlur(a, v),
                 satir' = [satir EXCEPT ![a].durum = v, ![a].okunamadi = o, ![a].deneme = 0]
          PROVE  satir' \in [Deneme -> Satirlar]
      <4>1. [satir[a] EXCEPT !.durum = v, !.okunamadi = o, !.deneme = 0] \in Satirlar
        BY ONLY <3>1, <3>2, <3>4, v \in Kararlar(a), o \in OkunamadiOlur(a, v)
      <4>2. satir' = [satir EXCEPT ![a] = [satir[a] EXCEPT !.durum = v, !.okunamadi = o, !.deneme = 0]]
        BY ONLY <3>5, <3>4
      <4>. QED BY ONLY <3>4, <4>1, <4>2
    <3>. QED BY ONLY <3>3, <3>4, <3>5
  <2>2. ariza' \in 0 .. EnCokAriza
    <3>1. Ariza \/ ArizaYok
      BY ONLY <1>ff DEF SonYaz
    <3>. QED BY <3>1, SinirVarsayimi DEF Ariza, ArizaYok
  <2>3. TypeOK'
    BY <1>ff, <1>y, <2>1, <2>2 DEF SonYaz, istekVars
  <2>4. AlmaTipi'
    BY <1>ff DEF AlmaTipi, SonYaz, istekVars
  <2>. QED BY <2>3, <2>4
<1>gg. ASSUME NEW a \in Deneme, YenidenOku(a) PROVE TypeOK' /\ AlmaTipi'
  <2>1. satir' \in [Deneme -> Satirlar]
    <3>1. \A s \in Satirlar : [s EXCEPT !.durum = "FINALIZING", !.deneme = 0] \in Satirlar
      BY ONLY <1>z DEF Satirlar, AKTIF
    <3>. QED BY <1>gg, <3>1 DEF YenidenOku
  <2>2. basma' \in 0 .. EnCokBasma
    BY <1>gg, SinirVarsayimi DEF YenidenOku, Basma
  <2>3. TypeOK'
    BY <1>gg, <2>1, <2>2 DEF YenidenOku, istekVars
  <2>4. AlmaTipi'
    BY <1>gg DEF AlmaTipi, YenidenOku, istekVars
  <2>. QED BY <2>3, <2>4
<1>hh. ASSUME NEW a \in Deneme, BayatKuyruk(a) PROVE TypeOK' /\ AlmaTipi'
  <2>1. satir' \in [Deneme -> Satirlar]
    <3>1. \A s \in Satirlar : [s EXCEPT !.durum = "FAILED"] \in Satirlar
      BY DEF Satirlar, SonDurumlar
    <3>. QED BY <1>hh, <3>1 DEF BayatKuyruk
  <2>2. TypeOK'
    BY <1>hh, <2>1 DEF BayatKuyruk, istekVars
  <2>3. AlmaTipi'
    BY <1>hh DEF AlmaTipi, BayatKuyruk, istekVars
  <2>. QED BY <2>2, <2>3
<1>ii. ASSUME NEW j \in Is, KilitSupur(j) PROVE TypeOK' /\ AlmaTipi'
  <2>1. kilit' \in [Anahtar -> KilitSatiri]
    <3>1. PICK k \in Anahtar : kilit' = IsBitti(kilit, j, kilit[k].tur, awx[j], Uzatmasiz)
      BY <1>ii DEF KilitSupur
    <3>. QED BY ONLY <1>aa, <3>1, j \in Is
  <2>2. TypeOK'
    BY <1>ii, <2>1 DEF KilitSupur, istekVars
  <2>3. AlmaTipi'
    BY <1>ii DEF AlmaTipi, KilitSupur, istekVars
  <2>. QED BY <2>2, <2>3
<1>jj. ASSUME NEW a \in Deneme, AwxBiter(a) PROVE TypeOK' /\ AlmaTipi'
  <2>1. awx' \in [Is -> AwxDurumlari]
    BY <1>jj DEF AwxBiter, AwxDurumlari, Is
  <2>2. TypeOK'
    BY <1>jj, <2>1, SureVarsayimi DEF AwxBiter, istekVars
  <2>3. AlmaTipi'
    BY <1>jj DEF AlmaTipi, AwxBiter, istekVars
  <2>. QED BY <2>2, <2>3
<1>kk. ASSUME NEW d \in Durdurma, DurdurmaBiter(d) PROVE TypeOK' /\ AlmaTipi'
  <2>1. awx' \in [Is -> AwxDurumlari]
    BY <1>kk DEF DurdurmaBiter, AwxDurumlari, AwxTerminal, Is
  <2>2. TypeOK'
    BY <1>kk, <2>1 DEF DurdurmaBiter, istekVars
  <2>3. AlmaTipi'
    BY <1>kk DEF AlmaTipi, DurdurmaBiter, istekVars
  <2>. QED BY <2>2, <2>3
<1>ll. CASE Tik
  <2>1. kilit' \in [Anahtar -> KilitSatiri]
    BY ONLY <1>ll, <1>k, KilitTipi DEF Tik
  <2>2. sure' \in [Deneme -> 0 .. SablonZamanAsimi]
    BY <1>ll, SureVarsayimi DEF Tik
  <2>3. satir' \in [Deneme -> Satirlar]
    <3>1. ASSUME NEW s \in Satirlar, NEW e \in BOOLEAN PROVE [s EXCEPT !.eski = e] \in Satirlar
      BY DEF Satirlar
    <3>2. ASSUME NEW a \in Deneme
          PROVE  [satir[a] EXCEPT !.eski = satir[a].durum = "QUEUED"] \in Satirlar
      <4>1. satir[a] \in Satirlar /\ (satir[a].durum = "QUEUED") \in BOOLEAN
        OBVIOUS
      <4>. QED BY ONLY <3>1, <4>1
    <3>. QED BY <1>ll, <3>2 DEF Tik
  <2>4. TypeOK'
    BY <1>ll, <2>1, <2>2, <2>3 DEF Tik, istekVars
  <2>5. AlmaTipi'
    BY <1>ll DEF AlmaTipi, Tik, istekVars
  <2>. QED BY <2>4, <2>5
<1>mm. CASE Cokme
  <2>1. ariza' \in 0 .. EnCokAriza
    BY <1>mm, SinirVarsayimi DEF Cokme, Ariza
  <2>2. DurdurBos \in DurdurIsleyicileri
    BY DEF DurdurBos, DurdurIsleyicileri
  <2>3. TypeOK'
    BY <1>mm, <1>y, <2>1, <2>2 DEF Cokme
  <2>4. AlmaTipi'
    BY <1>mm DEF AlmaTipi, Cokme
  <2>. QED BY <2>3, <2>4
<1>nn. CASE UNCHANGED vars
  BY <1>nn DEF AlmaTipi, vars, istekVars
<1>. QED BY <1>a, <1>b, <1>c, <1>d, <1>e, <1>f, <1>h, <1>i, <1>j, <1>l, <1>m, <1>n, <1>o,
         <1>p, <1>q, <1>r, <1>t, <1>u, <1>v, <1>w, <1>bb, <1>cc, <1>dd, <1>ee, <1>ff, <1>gg,
         <1>hh, <1>ii, <1>jj, <1>kk, <1>ll, <1>mm, <1>nn
     DEF Next, IstekAdimi, DurdurAdimi, SonucAdimi

-----------------------------------------------------------------------------
(***************************************************************************)
(* What one step may do to a lock                                          *)
(***************************************************************************)

TazeSatir(a) == [held |-> TRUE, id |-> a, kalan |-> KilitSuresi, is |-> Yok, tur |-> Yok]

\* Taken by a request that is collecting its keys.
Alindi(k, a) ==
    /\ pc[a] \in AlmaAdimlari /\ pc'[a] \in BaslatmaAdimlari
    /\ k = Siradaki(a) /\ alinan'[a] = alinan[a] + 1
    /\ Alinabilir(kilit[k])
    /\ kilit'[k] = TazeSatir(a)

\* Nobody takes a lock away from a request that is starting, nor from a live run.
Cozulur(a) == a \in Deneme /\ ~Once(a) /\ ~Korunur(a)

Birakildi(k) ==
    /\ kilit'[k] = Birakilmis(kilit[k])
    /\ kilit[k].id \in Deneme
    /\ pc[kilit[k].id] = "birak" \/ Cozulur(kilit[k].id)

\* Bound to another job, or to none, and perhaps extended.
Baglandi(k) ==
    LET a == kilit[k].id IN
    /\ a \in Deneme /\ ~Once(a)
    /\ kilit[k].held /\ kilit'[k].held /\ kilit'[k].id = a
    /\ kilit'[k].kalan >= kilit[k].kalan
    /\ \/ kilit'[k].is \in {Yok, a}
       \/ kilit'[k].is \in Durdurma /\ (a \in korDurdur' \/ awx[a] # "surer")

KilitAdimi(k) ==
    \/ kilit'[k] = kilit[k]
    \/ \E a \in Deneme : Alindi(k, a)
    \/ Birakildi(k)
    \/ Baglandi(k)
    \/ Tik

\* A job that holds locks and is over belongs to a run that is over.
LEMMA BitenIs ==
    ASSUME TypeOK, OnceInv, NEW a, NEW j, BagOlur(a, j), awx[j] \in AwxTerminal
    PROVE  Cozulur(a)
<1>1. a \in Deneme /\ (j = a \/ Ayrik(a))
  BY DEF BagOlur
<1>2. CASE j = a
  <2>1. awx[a] \notin {"yok", "surer"}
    BY <1>2 DEF AwxTerminal
  <2>. QED BY <1>1, <2>1 DEF OnceInv, Cozulur, Korunur, Canli
<1>3. CASE Ayrik(a)
  BY <1>1, <1>3 DEF Ayrik, Cozulur, Korunur, Canli
<1>. QED BY <1>1, <1>2, <1>3

\* Freeing or unbinding the locks of a job that is over.
LEMMA BitenIsAdimi ==
    ASSUME TypeOK, OnceInv, BagInv, NEW j \in Is, awx[j] \in AwxTerminal, NEW n \in {Uzatma, Uzatmasiz},
           \/ kilit' = releaseLocksForJob(kilit, j)
           \/ kilit' = isinKilitleriniCoz(kilit, j, n)
    PROVE  \A k \in Anahtar : KilitAdimi(k)
<1>. SUFFICES ASSUME NEW k \in Anahtar PROVE KilitAdimi(k)
  OBVIOUS
<1>1. CASE ~BagliMi(kilit[k], j)
  <2>1. kilit'[k] = kilit[k]
    BY <1>1 DEF releaseLocksForJob, isinKilitleriniCoz
  <2>. QED BY <2>1 DEF KilitAdimi
<1>2. CASE BagliMi(kilit[k], j)
  <2>1. kilit[k].held /\ kilit[k].is = j /\ j # Yok
    BY <1>2, KumeVarsayimi DEF BagliMi
  <2>2. Cozulur(kilit[k].id)
    BY <2>1, BitenIs DEF BagInv
  <2>3. CASE kilit' = releaseLocksForJob(kilit, j)
    <3>1. kilit'[k] = Birakilmis(kilit[k])
      BY <1>2, <2>3 DEF releaseLocksForJob
    <3>. QED BY <2>2, <3>1 DEF KilitAdimi, Birakildi, Cozulur
  <2>4. CASE kilit' = isinKilitleriniCoz(kilit, j, n)
    <3>1. kilit'[k] = [kilit[k] EXCEPT !.is = Yok, !.tur = Yok, !.kalan = EnAz(@, n)]
      BY <1>2, <2>4 DEF isinKilitleriniCoz
    <3>2. kilit[k] \in KilitSatiri
      BY DEF TypeOK
    <3>3. kilit'[k].held = kilit[k].held /\ kilit'[k].id = kilit[k].id /\ kilit'[k].is = Yok
          /\ kilit'[k].kalan = EnAz(kilit[k].kalan, n)
      BY ONLY <3>1, <3>2 DEF KilitSatiri
    <3>4. kilit[k].kalan \in Int /\ n \in Int
      BY ONLY <3>2, n \in {Uzatma, Uzatmasiz}, SureVarsayimi, SureAraligi DEF KilitSatiri, Uzatmasiz
    <3>5. EnAz(kilit[k].kalan, n) >= kilit[k].kalan
      BY ONLY <3>4 DEF EnAz
    <3>. QED BY <2>1, <2>2, <3>3, <3>5 DEF KilitAdimi, Baglandi, Cozulur
  <2>. QED BY <2>3, <2>4
<1>. QED BY <1>1, <1>2

\* Rebinding the locks of a run to a stop job.
LEMMA DurdurmayaBaglama ==
    ASSUME TypeOK, NEW a \in Deneme, ~Once(a), NEW d \in Durdurma,
           a \in korDurdur' \/ awx[a] # "surer",
           kilit' = durdurIsineBagla(kilit, a, d)
    PROVE  \A k \in Anahtar : KilitAdimi(k)
<1>. SUFFICES ASSUME NEW k \in Anahtar PROVE KilitAdimi(k)
  OBVIOUS
<1>1. CASE ~Sahip(a, k)
  <2>1. kilit'[k] = kilit[k]
    BY <1>1 DEF durdurIsineBagla, Sahip
  <2>. QED BY <2>1 DEF KilitAdimi
<1>2. CASE Sahip(a, k)
  <2>1. kilit'[k] = [kilit[k] EXCEPT !.is = d, !.tur = "durdur", !.kalan = EnAz(@, Uzatma)]
    BY <1>2 DEF durdurIsineBagla, Sahip
  <2>2. kilit[k] \in KilitSatiri
    BY DEF TypeOK
  <2>3. kilit'[k].held = kilit[k].held /\ kilit'[k].id = kilit[k].id /\ kilit'[k].is = d
        /\ kilit'[k].kalan = EnAz(kilit[k].kalan, Uzatma)
    BY ONLY <2>1, <2>2 DEF KilitSatiri
  <2>4. kilit[k].kalan \in Int
    BY ONLY <2>2, SureVarsayimi, SureAraligi DEF KilitSatiri
  <2>5. EnAz(kilit[k].kalan, Uzatma) >= kilit[k].kalan
    BY ONLY <2>4, SureVarsayimi DEF EnAz
  <2>. QED BY <1>2, <2>3, <2>5 DEF KilitAdimi, Baglandi, Sahip
<1>. QED BY <1>1, <1>2

\* acquireLocks taking a key.
LEMMA AlmaAdimi ==
    ASSUME TypeOK, NEW a \in Deneme, pc[a] \in AlmaAdimlari,
           Alinabilir(kilit[Siradaki(a)]), AnahtarAlindi(a)
    PROVE  \A k \in Anahtar : KilitAdimi(k)
<1>. SUFFICES ASSUME NEW k \in Anahtar PROVE KilitAdimi(k)
  OBVIOUS
<1>1. kilit' = casLock(kilit, Siradaki(a), a) /\ alinan'[a] = alinan[a] + 1 /\ pc'[a] \in {"al", "satir"}
  BY DEF AnahtarAlindi, Git, TypeOK
<1>2. CASE k = Siradaki(a)
  <2>1. kilit'[k] = TazeSatir(a)
    BY <1>1, <1>2 DEF casLock, TazeSatir, TypeOK
  <2>. QED BY <1>1, <1>2, <2>1 DEF KilitAdimi, Alindi, BaslatmaAdimlari, AlmaAdimlari
<1>3. CASE k # Siradaki(a)
  <2>1. kilit'[k] = kilit[k]
    BY <1>1, <1>3 DEF casLock, TypeOK
  <2>. QED BY <2>1 DEF KilitAdimi
<1>. QED BY <1>2, <1>3

\* A release by lock_id.
LEMMA BirakmaAdimi ==
    ASSUME TypeOK, NEW a \in Deneme, NEW key, kilit' = releaseLockById(kilit, key, a),
           pc[a] = "birak" \/ Cozulur(a)
    PROVE  \A k \in Anahtar : KilitAdimi(k)
<1>. SUFFICES ASSUME NEW k \in Anahtar PROVE KilitAdimi(k)
  OBVIOUS
<1>1. CASE k = key /\ Sahip(a, k)
  <2>1. kilit'[k] = Birakilmis(kilit[k])
    BY <1>1 DEF releaseLockById, Sahip, TypeOK
  <2>. QED BY <1>1, <2>1 DEF KilitAdimi, Birakildi, Sahip
<1>2. CASE ~(k = key /\ Sahip(a, k))
  <2>1. kilit'[k] = kilit[k]
    BY <1>2 DEF releaseLockById, Sahip, TypeOK
  <2>. QED BY <2>1 DEF KilitAdimi
<1>. QED BY <1>1, <1>2

\* What a step may do to one row of the lock table, action by action.
LEMMA KilitAdimlari == IInv /\ [Next]_vars => \A k \in Anahtar : KilitAdimi(k)
<1>. SUFFICES ASSUME IInv, [Next]_vars PROVE \A k \in Anahtar : KilitAdimi(k)
  OBVIOUS
<1>t. TypeOK /\ AlmaTipi /\ OnceInv /\ BagInv
  BY DEF IInv, TipInv
<1>0. ASSUME UNCHANGED kilit PROVE \A k \in Anahtar : KilitAdimi(k)
  BY <1>0 DEF KilitAdimi
<1>1. ASSUME NEW a \in Deneme,
             \/ Istek(a) \/ KilitOku(a) \/ KilitHata(a) \/ SatirYaz(a) \/ BaslatRed(a)
             \/ AwxBaslat(a) \/ SatirGuncelle(a) \/ SatirKontrol(a)
             \/ Durdur(a) \/ DurdurBaslat(a) \/ DurdurYaz(a)
      PROVE  UNCHANGED kilit
  BY <1>1 DEF Istek, KilitOku, KilitHata, SatirYaz, BaslatRed, AwxBaslat, SatirGuncelle,
              SatirKontrol, Durdur, DurdurBaslat, DurdurYaz
<1>2. ASSUME NEW a \in Deneme,
             \/ SonucOku(a) \/ SonucAl(a) \/ SonucVazgec(a) \/ OtoYaz(a) \/ SonYaz(a)
             \/ YenidenOku(a) \/ BayatKuyruk(a) \/ AwxBiter(a)
      PROVE  UNCHANGED kilit
  BY <1>2 DEF SonucOku, SonucAl, SonucVazgec, OtoYaz, SonYaz, YenidenOku, BayatKuyruk, AwxBiter
<1>3. ASSUME NEW a \in Deneme, KilitAl(a) PROVE \A k \in Anahtar : KilitAdimi(k)
  <2>1. pc[a] \in AlmaAdimlari
    BY <1>3 DEF KilitAl, AlmaAdimlari
  <2>2. (Alinabilir(kilit[Siradaki(a)]) /\ AnahtarAlindi(a)) \/ UNCHANGED kilit
    BY <1>3 DEF KilitAl
  <2>. QED BY <1>0, <1>t, <2>1, <2>2, AlmaAdimi
<1>4. ASSUME NEW a \in Deneme, KilitTekrar(a) PROVE \A k \in Anahtar : KilitAdimi(k)
  <2>1. pc[a] \in AlmaAdimlari
    BY <1>4 DEF KilitTekrar, AlmaAdimlari
  <2>2. (Alinabilir(kilit[Siradaki(a)]) /\ AnahtarAlindi(a)) \/ UNCHANGED kilit
    BY <1>4 DEF KilitTekrar
  <2>. QED BY <1>0, <1>t, <2>1, <2>2, AlmaAdimi
<1>5. ASSUME NEW a \in Deneme, KilitSor(a) PROVE \A k \in Anahtar : KilitAdimi(k)
  <2>1. goz[a].is # Yok /\ goz[a].is \in Is
    BY <1>5, <1>t DEF KilitSor, AlmaTipi, TypeOK, Gorulen
  <2>2. BagOlur(goz[a].id, goz[a].is)
    BY <1>t, <2>1 DEF BagInv
  <2>3. \/ awx[goz[a].is] \in AwxTerminal /\ kilit' = releaseLockById(kilit, Siradaki(a), goz[a].id)
        \/ awx[goz[a].is] \in AwxTerminal /\ kilit' = isinKilitleriniCoz(kilit, goz[a].is, Uzatmasiz)
        \/ UNCHANGED kilit
    BY <1>5 DEF KilitSor
  <2>4. CASE awx[goz[a].is] \in AwxTerminal /\ kilit' = releaseLockById(kilit, Siradaki(a), goz[a].id)
    <3>1. Cozulur(goz[a].id) /\ goz[a].id \in Deneme
      BY <1>t, <2>2, <2>4, BitenIs DEF Cozulur
    <3>. QED BY ONLY <1>t, <2>4, <3>1, BirakmaAdimi
  <2>5. CASE awx[goz[a].is] \in AwxTerminal /\ kilit' = isinKilitleriniCoz(kilit, goz[a].is, Uzatmasiz)
    BY ONLY <1>t, <2>1, <2>5, BitenIsAdimi
  <2>. QED BY <1>0, <2>3, <2>4, <2>5
<1>6. ASSUME NEW a \in Deneme, Birak(a) PROVE \A k \in Anahtar : KilitAdimi(k)
  <2>1. pc[a] = "birak" /\ (UNCHANGED kilit \/
            kilit' = releaseLockById(kilit, kilitAnahtarlari(a)[sira[a]], a))
    BY <1>6 DEF Birak
  <2>. QED BY <1>0, <1>t, <2>1, BirakmaAdimi
<1>7. ASSUME NEW a \in Deneme, Bagla(a) PROVE \A k \in Anahtar : KilitAdimi(k)
  <2>. SUFFICES ASSUME NEW k \in Anahtar PROVE KilitAdimi(k)
    OBVIOUS
  <2>. DEFINE key == kilitAnahtarlari(a)[sira[a]]
  <2>1. pc[a] = "bagla" /\ (UNCHANGED kilit \/ kilit' = bindLock(kilit, key, a))
    BY <1>7 DEF Bagla
  <2>2. ~Once(a)
    BY <2>1 DEF Once, BaslatmaAdimlari, AlmaAdimlari
  <2>. HIDE DEF key
  <2>3. CASE kilit' = bindLock(kilit, key, a) /\ k = key /\ Sahip(a, k)
    <3>1. kilit'[k] = [kilit[k] EXCEPT !.is = a, !.tur = bagTuruOf(a)]
      BY <1>t, <2>3 DEF bindLock, Sahip, TypeOK
    <3>2. kilit[k] \in KilitSatiri
      BY <1>t DEF TypeOK
    <3>3. kilit'[k].held = kilit[k].held /\ kilit'[k].id = kilit[k].id /\ kilit'[k].is = a
          /\ kilit'[k].kalan = kilit[k].kalan /\ kilit[k].kalan \in Int
      BY ONLY <3>1, <3>2, SureVarsayimi, SureAraligi DEF KilitSatiri
    <3>. QED BY <2>2, <2>3, <3>3 DEF KilitAdimi, Baglandi, Sahip
  <2>4. CASE kilit' = bindLock(kilit, key, a) /\ ~(k = key /\ Sahip(a, k))
    <3>1. kilit'[k] = kilit[k]
      BY <1>t, <2>4 DEF bindLock, Sahip, TypeOK
    <3>. QED BY <3>1 DEF KilitAdimi
  <2>. QED BY <1>0, <2>1, <2>3, <2>4
<1>8. ASSUME NEW a \in Deneme, DurdurBagla(a) PROVE \A k \in Anahtar : KilitAdimi(k)
  <2>1. drd[a].adim = "bagla" /\ kilit' = durdurIsineBagla(kilit, a, drd[a].is)
        /\ (a \in korDurdur' \/ awx[a] # "surer")
    BY <1>8 DEF DurdurBagla
  <2>2. ~Once(a) /\ drd[a].is \in Durdurma
    BY <1>t, <2>1 DEF OnceInv, OnceSatir, BagInv
  <2>. QED BY <1>t, <2>1, <2>2, DurdurmayaBaglama
<1>9. ASSUME NEW a \in Deneme, son[a].adim \notin {"bos", "okundu"}
      PROVE  ~Once(a) /\ awx[a] \in AwxTerminal /\ awx[a] # "surer"
  BY <1>9, <1>t DEF OnceInv, OnceSatir, BagInv, AwxTerminal
<1>10. ASSUME NEW a \in Deneme, SonucKilit(a) PROVE \A k \in Anahtar : KilitAdimi(k)
  <2>. DEFINE n == IF a \in Kosu THEN Uzatma ELSE Uzatmasiz
  <2>1. son[a].adim = "kilit" /\ (UNCHANGED kilit \/ kilit' = IsBitti(kilit, a, bagTuruOf(a), awx[a], n))
    BY <1>10 DEF SonucKilit
  <2>2. awx[a] \in AwxTerminal /\ n \in {Uzatma, Uzatmasiz} /\ a \in Is
    BY <1>9, <2>1 DEF Is
  <2>3. \/ UNCHANGED kilit
        \/ kilit' = releaseLocksForJob(kilit, a) \/ kilit' = isinKilitleriniCoz(kilit, a, n)
    BY <2>1 DEF IsBitti
  <2>. HIDE DEF n
  <2>. QED BY <1>0, <1>t, <2>2, <2>3, BitenIsAdimi
<1>11. ASSUME NEW a \in Deneme, OtoDurdur(a) PROVE \A k \in Anahtar : KilitAdimi(k)
  <2>1. son[a].adim = "oto" /\ (UNCHANGED kilit \/ kilit' = isinKilitleriniCoz(kilit, a, Uzatma))
    BY <1>11 DEF OtoDurdur
  <2>2. awx[a] \in AwxTerminal /\ a \in Is
    BY <1>9, <2>1 DEF Is
  <2>. QED BY <1>0, <1>t, <2>1, <2>2, BitenIsAdimi
<1>12. ASSUME NEW a \in Deneme, OtoBagla(a) PROVE \A k \in Anahtar : KilitAdimi(k)
  <2>1. son[a].adim = "otoBagla" /\ kilit' = durdurIsineBagla(kilit, a, son[a].is)
    BY <1>12 DEF OtoBagla
  <2>2. ~Once(a) /\ awx[a] # "surer" /\ son[a].is \in Durdurma
    BY <1>9, <1>t, <2>1 DEF BagInv
  <2>. QED BY <1>t, <2>1, <2>2, DurdurmayaBaglama
<1>13. ASSUME NEW j \in Is, KilitSupur(j) PROVE \A k \in Anahtar : KilitAdimi(k)
  <2>1. awx[j] \in AwxTerminal
        /\ (kilit' = releaseLocksForJob(kilit, j) \/ kilit' = isinKilitleriniCoz(kilit, j, Uzatmasiz))
    BY <1>13 DEF KilitSupur, IsBitti
  <2>. QED BY <1>t, <2>1, BitenIsAdimi
<1>14. ASSUME \/ \E d \in Durdurma : DurdurmaBiter(d)
              \/ Cokme \/ UNCHANGED vars
       PROVE  UNCHANGED kilit
  BY <1>14 DEF DurdurmaBiter, Cokme, vars
<1>15. ASSUME Tik PROVE \A k \in Anahtar : KilitAdimi(k)
  BY <1>15 DEF KilitAdimi
<1>. QED BY <1>0, <1>1, <1>2, <1>3, <1>4, <1>5, <1>6, <1>7, <1>8, <1>10, <1>11, <1>12, <1>13,
            <1>14, <1>15
         DEF Next, IstekAdimi, DurdurAdimi, SonucAdimi

-----------------------------------------------------------------------------
(***************************************************************************)
(* What one step may do to a request                                       *)
(***************************************************************************)

\* Nothing returns to the launch; a key counted as taken was just taken; the
\* release loop releases the keys it passes; what ends "ret" has gone through it.
IstekKurali(a) ==
    /\ Once(a)' => Once(a) /\ alinan'[a] >= alinan[a]
    /\ pc'[a] \in BaslatmaAdimlari =>
        \/ alinan'[a] = alinan[a]
        \/ alinan'[a] = alinan[a] + 1 /\ kilit' = casLock(kilit, Siradaki(a), a)
           /\ alinan[a] < AnahtarSayisi(a)
    /\ pc'[a] = "birak" =>
        \/ pc[a] = "birak" /\ alinan'[a] = alinan[a]
           /\ \/ sira'[a] = sira[a]
              \/ sira'[a] = sira[a] + 1
                 /\ kilit' = releaseLockById(kilit, kilitAnahtarlari(a)[sira[a]], a)
        \/ Once(a) /\ sira'[a] = 1 /\ alinan'[a] >= alinan[a]
    /\ pc'[a] = "ret" => pc[a] = "ret" \/ (pc[a] = "birak" /\ sira[a] > alinan[a])

\* Where a step may take the handler of a request and what it counts as taken.
LEMMA IstekAdimlarinda ==
    ASSUME IInv, [Next]_vars, NEW a \in Deneme
    PROVE  IstekKurali(a)
<1>t. TypeOK /\ AlmaTipi
  BY DEF IInv, TipInv
<1>n. /\ AnahtarSayisi(a) \in Nat /\ alinan[a] \in Nat /\ sira[a] \in Nat
      /\ pc[a] \in AlmaAdimlari => alinan[a] < AnahtarSayisi(a)
      /\ pc[a] \in {"satir", "baslat"} => alinan[a] = AnahtarSayisi(a)
  BY <1>t, AnahtarListesi DEF TypeOK, AlmaTipi
<1>p. pc \in [Deneme -> IstekAdimlari] /\ alinan \in [Deneme -> Nat] /\ sira \in [Deneme -> Nat]
  BY <1>t DEF TypeOK
<1>0. ASSUME pc'[a] = pc[a], alinan'[a] = alinan[a], sira'[a] = sira[a] PROVE IstekKurali(a)
  <2>1. Once(a)' <=> Once(a)
    BY <1>0 DEF Once
  <2>. QED BY <1>0, <1>n, <2>1 DEF IstekKurali
<1>1. ASSUME NEW b \in Deneme, Istek(b) PROVE IstekKurali(a)
  <2>1. CASE b # a
    <3>1. pc'[a] = pc[a] /\ alinan'[a] = alinan[a] /\ sira'[a] = sira[a]
      BY ONLY <1>1, <1>p, <2>1, a \in Deneme, b \in Deneme DEF Istek, Git, istekVars
    <3>. QED BY ONLY <1>0, <3>1
  <2>2. CASE b = a
    BY ONLY <1>1, <1>n, <1>p, <2>2, a \in Deneme
       DEF Istek, Git, IstekKurali, Once, BaslatmaAdimlari, AlmaAdimlari
  <2>. QED BY <2>1, <2>2
<1>2. ASSUME NEW b \in Deneme, KilitAl(b) PROVE IstekKurali(a)
  <2>1. CASE b # a
    <3>1. pc'[a] = pc[a] /\ alinan'[a] = alinan[a] /\ sira'[a] = sira[a]
      BY ONLY <1>2, <1>p, <2>1, a \in Deneme, b \in Deneme DEF KilitAl, AnahtarAlindi, Git, istekVars
    <3>. QED BY ONLY <1>0, <3>1
  <2>2. CASE b = a
    BY ONLY <1>2, <1>n, <1>p, <2>2, a \in Deneme
       DEF KilitAl, AnahtarAlindi, Git, IstekKurali, Once, BaslatmaAdimlari, AlmaAdimlari
  <2>. QED BY <2>1, <2>2
<1>3. ASSUME NEW b \in Deneme, KilitOku(b) PROVE IstekKurali(a)
  <2>1. CASE b # a
    <3>1. pc'[a] = pc[a] /\ alinan'[a] = alinan[a] /\ sira'[a] = sira[a]
      BY ONLY <1>3, <1>p, <2>1, a \in Deneme, b \in Deneme DEF KilitOku, Birakmaya, Git, istekVars
    <3>. QED BY ONLY <1>0, <3>1
  <2>2. CASE b = a
    BY ONLY <1>3, <1>n, <1>p, <2>2, a \in Deneme
       DEF KilitOku, Birakmaya, Git, IstekKurali, Once, BaslatmaAdimlari, AlmaAdimlari
  <2>. QED BY <2>1, <2>2
<1>4. ASSUME NEW b \in Deneme, KilitSor(b) PROVE IstekKurali(a)
  <2>1. CASE b # a
    <3>1. pc'[a] = pc[a] /\ alinan'[a] = alinan[a] /\ sira'[a] = sira[a]
      BY ONLY <1>4, <1>p, <2>1, a \in Deneme, b \in Deneme DEF KilitSor, Birakmaya, Git, istekVars
    <3>. QED BY ONLY <1>0, <3>1
  <2>2. CASE b = a
    BY ONLY <1>4, <1>n, <1>p, <2>2, a \in Deneme
       DEF KilitSor, Birakmaya, Git, IstekKurali, Once, BaslatmaAdimlari, AlmaAdimlari
  <2>. QED BY <2>1, <2>2
<1>5. ASSUME NEW b \in Deneme, KilitTekrar(b) PROVE IstekKurali(a)
  <2>1. CASE b # a
    <3>1. pc'[a] = pc[a] /\ alinan'[a] = alinan[a] /\ sira'[a] = sira[a]
      BY ONLY <1>5, <1>p, <2>1, a \in Deneme, b \in Deneme DEF KilitTekrar, AnahtarAlindi, Birakmaya, Git, istekVars
    <3>. QED BY ONLY <1>0, <3>1
  <2>2. CASE b = a
    BY ONLY <1>5, <1>n, <1>p, <2>2, a \in Deneme
       DEF KilitTekrar, AnahtarAlindi, Birakmaya, Git, IstekKurali, Once, BaslatmaAdimlari, AlmaAdimlari
  <2>. QED BY <2>1, <2>2
<1>6. ASSUME NEW b \in Deneme, KilitHata(b) PROVE IstekKurali(a)
  <2>1. CASE b # a
    <3>1. pc'[a] = pc[a] /\ alinan'[a] = alinan[a] /\ sira'[a] = sira[a]
      BY ONLY <1>6, <1>p, <2>1, a \in Deneme, b \in Deneme DEF KilitHata, Birakmaya, Git, istekVars
    <3>. QED BY ONLY <1>0, <3>1
  <2>2. CASE b = a
    BY ONLY <1>6, <1>n, <1>p, <2>2, a \in Deneme
       DEF KilitHata, Birakmaya, Git, IstekKurali, Once, BaslatmaAdimlari, AlmaAdimlari
  <2>. QED BY <2>1, <2>2
<1>7. ASSUME NEW b \in Deneme, Birak(b) PROVE IstekKurali(a)
  <2>1. CASE b # a
    <3>1. pc'[a] = pc[a] /\ alinan'[a] = alinan[a] /\ sira'[a] = sira[a]
      BY ONLY <1>7, <1>p, <2>1, a \in Deneme, b \in Deneme DEF Birak, Biter, Git, istekVars
    <3>. QED BY ONLY <1>0, <3>1
  <2>2. CASE b = a
    BY ONLY <1>7, <1>n, <1>p, <2>2, a \in Deneme
       DEF Birak, Biter, Git, IstekKurali, Once, BaslatmaAdimlari, AlmaAdimlari
  <2>. QED BY <2>1, <2>2
<1>8. ASSUME NEW b \in Deneme, SatirYaz(b) PROVE IstekKurali(a)
  <2>1. CASE b # a
    <3>1. pc'[a] = pc[a] /\ alinan'[a] = alinan[a] /\ sira'[a] = sira[a]
      BY ONLY <1>8, <1>p, <2>1, a \in Deneme, b \in Deneme DEF SatirYaz, Birakmaya, Git, istekVars
    <3>. QED BY ONLY <1>0, <3>1
  <2>2. CASE b = a
    BY ONLY <1>8, <1>n, <1>p, <2>2, a \in Deneme
       DEF SatirYaz, Birakmaya, Git, IstekKurali, Once, BaslatmaAdimlari, AlmaAdimlari
  <2>. QED BY <2>1, <2>2
<1>9. ASSUME NEW b \in Deneme, BaslatRed(b) PROVE IstekKurali(a)
  <2>1. CASE b # a
    <3>1. pc'[a] = pc[a] /\ alinan'[a] = alinan[a] /\ sira'[a] = sira[a]
      BY ONLY <1>9, <1>p, <2>1, a \in Deneme, b \in Deneme DEF BaslatRed, Birakmaya, Git, istekVars
    <3>. QED BY ONLY <1>0, <3>1
  <2>2. CASE b = a
    BY ONLY <1>9, <1>n, <1>p, <2>2, a \in Deneme
       DEF BaslatRed, Birakmaya, Git, IstekKurali, Once, BaslatmaAdimlari, AlmaAdimlari
  <2>. QED BY <2>1, <2>2
<1>10. ASSUME NEW b \in Deneme, AwxBaslat(b) PROVE IstekKurali(a)
  <2>1. CASE b # a
    <3>1. pc'[a] = pc[a] /\ alinan'[a] = alinan[a] /\ sira'[a] = sira[a]
      BY ONLY <1>10, <1>p, <2>1, a \in Deneme, b \in Deneme DEF AwxBaslat, Git, istekVars
    <3>. QED BY ONLY <1>0, <3>1
  <2>2. CASE b = a
    BY ONLY <1>10, <1>n, <1>p, <2>2, a \in Deneme
       DEF AwxBaslat, Git, IstekKurali, Once, BaslatmaAdimlari, AlmaAdimlari
  <2>. QED BY <2>1, <2>2
<1>11. ASSUME NEW b \in Deneme, Bagla(b) PROVE IstekKurali(a)
  <2>1. CASE b # a
    <3>1. pc'[a] = pc[a] /\ alinan'[a] = alinan[a] /\ sira'[a] = sira[a]
      BY ONLY <1>11, <1>p, <2>1, a \in Deneme, b \in Deneme DEF Bagla, Git, istekVars
    <3>. QED BY ONLY <1>0, <3>1
  <2>2. CASE b = a
    BY ONLY <1>11, <1>n, <1>p, <2>2, a \in Deneme
       DEF Bagla, Git, IstekKurali, Once, BaslatmaAdimlari, AlmaAdimlari
  <2>. QED BY <2>1, <2>2
<1>12. ASSUME NEW b \in Deneme, SatirGuncelle(b) PROVE IstekKurali(a)
  <2>1. CASE b # a
    <3>1. pc'[a] = pc[a] /\ alinan'[a] = alinan[a] /\ sira'[a] = sira[a]
      BY ONLY <1>12, <1>p, <2>1, a \in Deneme, b \in Deneme DEF SatirGuncelle, Biter, Git, istekVars
    <3>. QED BY ONLY <1>0, <3>1
  <2>2. CASE b = a
    BY ONLY <1>12, <1>n, <1>p, <2>2, a \in Deneme
       DEF SatirGuncelle, Biter, Git, IstekKurali, Once, BaslatmaAdimlari, AlmaAdimlari
  <2>. QED BY <2>1, <2>2
<1>13. ASSUME NEW b \in Deneme, SatirKontrol(b) PROVE IstekKurali(a)
  <2>1. CASE b # a
    <3>1. pc'[a] = pc[a] /\ alinan'[a] = alinan[a] /\ sira'[a] = sira[a]
      BY ONLY <1>13, <1>p, <2>1, a \in Deneme, b \in Deneme DEF SatirKontrol, Biter, Git, istekVars
    <3>. QED BY ONLY <1>0, <3>1
  <2>2. CASE b = a
    BY ONLY <1>13, <1>n, <1>p, <2>2, a \in Deneme
       DEF SatirKontrol, Biter, Git, IstekKurali, Once, BaslatmaAdimlari, AlmaAdimlari
  <2>. QED BY <2>1, <2>2
<1>14. ASSUME NEW b \in Deneme,
              \/ Durdur(b) \/ DurdurAdimi(b) \/ SonucOku(b) \/ SonucAdimi(b)
              \/ YenidenOku(b) \/ BayatKuyruk(b) \/ AwxBiter(b)
       PROVE  IstekKurali(a)
  <2>1. UNCHANGED istekVars
    BY ONLY <1>14 DEF Durdur, DurdurAdimi, DurdurBaslat, DurdurYaz, DurdurBagla, SonucOku, SonucAdimi,
            SonucAl, SonucVazgec, SonucKilit, OtoDurdur, OtoYaz, OtoBagla, SonYaz, YenidenOku,
            BayatKuyruk, AwxBiter
  <2>. QED BY <1>0, <2>1 DEF istekVars
<1>15. ASSUME \/ \E d \in Durdurma : DurdurmaBiter(d)
              \/ \E j \in Is : KilitSupur(j)
              \/ Tik \/ UNCHANGED vars
       PROVE  IstekKurali(a)
  <2>1. UNCHANGED istekVars
    BY ONLY <1>15 DEF DurdurmaBiter, KilitSupur, Tik, vars, istekVars
  <2>. QED BY <1>0, <2>1 DEF istekVars
<1>16. CASE Cokme
  <2>1. pc'[a] \in {"bitti", pc[a]} /\ (pc'[a] = pc[a] => pc[a] \in {"bos", "bitti", "ret"})
        /\ alinan'[a] = 0
    BY <1>16, <1>p DEF Cokme
  <2>2. pc[a] = "bos" => alinan[a] = 0
    BY <1>t DEF AlmaTipi
  <2>. QED BY ONLY <1>n, <2>1, <2>2 DEF IstekKurali, Once, BaslatmaAdimlari, AlmaAdimlari
<1>. QED BY ONLY [Next]_vars, <1>1, <1>2, <1>3, <1>4, <1>5, <1>6, <1>7, <1>8, <1>9, <1>10, <1>11, <1>12, <1>13, <1>14, <1>15, <1>16
         DEF Next, IstekAdimi

-----------------------------------------------------------------------------
(***************************************************************************)
(* What one step may do to a job, to a row and to the handlers of a run    *)
(***************************************************************************)

\* A job starts at the launch of its request and only there.
IsKurali(a) ==
    /\ korDurdur \subseteq korDurdur'
    /\ \/ awx'[a] = awx[a] /\ (sure'[a] = sure[a] \/ Tik)
       \/ /\ pc[a] = "baslat" /\ pc'[a] \in {"bagla", "yaz"} /\ kilit' = kilit
          /\ awx'[a] \in {"surer", "iptal"} /\ sure'[a] = SablonZamanAsimi
       \/ awx[a] \in {"surer", "iptal"} /\ awx'[a] \in {"iptal"} \cup AwxTerminal

\* Where the other locals that name a job come from.
YanKurali(a) ==
    /\ \/ goz'[a] = goz[a] \/ goz'[a].is = Yok
       \/ \E k \in Anahtar : goz'[a].id = kilit[k].id /\ goz'[a].is = kilit[k].is
    /\ drd'[a].adim = "bagla" => drd'[a].is \in Durdurma
    /\ son'[a].adim \in {"otoYaz", "otoBagla"} => son'[a].is \in Durdurma
    /\ son'[a].adim \notin {"bos", "okundu"} => awx[a] \in AwxTerminal

IsleyiciKurali(a) == IsKurali(a) /\ YanKurali(a) /\ OnceSatir(a)'

\* What a step may do to the jobs, the handlers of Stop and finaliser, and the row of a run.
LEMMA IsleyiciAdimlari ==
    ASSUME IInv, [Next]_vars, NEW a \in Deneme
    PROVE  IsleyiciKurali(a)
<1>t. TypeOK /\ AlmaTipi /\ OnceInv /\ BagInv
  BY DEF IInv, TipInv
<1>p. /\ pc \in [Deneme -> IstekAdimlari] /\ satir \in [Deneme -> Satirlar]
      /\ goz \in [Deneme -> Gorulen] /\ awx \in [Is -> AwxDurumlari]
      /\ drd \in [Deneme -> DurdurIsleyicileri] /\ son \in [Deneme -> Sonuclandiricilar]
      /\ sure \in [Deneme -> 0 .. SablonZamanAsimi]
  BY <1>t DEF TypeOK
<1>d. a \in Is /\ Durdurma \subseteq Is /\ a \notin Durdurma /\ Yok \notin Durdurma
  BY KumeVarsayimi DEF Is
<1>r. /\ satir[a] \in Satirlar /\ goz[a] \in Gorulen
      /\ drd[a] \in DurdurIsleyicileri /\ son[a] \in Sonuclandiricilar
  BY <1>p
<1>o. OnceSatir(a) /\ (Once(a) => awx[a] = "yok")
  BY <1>t DEF OnceInv
<1>b. /\ drd[a].adim = "bagla" => drd[a].is \in Durdurma
      /\ son[a].adim \in {"otoYaz", "otoBagla"} => son[a].is \in Durdurma
      /\ son[a].adim \notin {"bos", "okundu"} => awx[a] \in AwxTerminal
  BY <1>t DEF BagInv
<1>0. ASSUME awx'[a] = awx[a], sure'[a] = sure[a], korDurdur \subseteq korDurdur', goz'[a] = goz[a],
             satir'[a] = satir[a], drd'[a] = drd[a], son'[a] = son[a], pc'[a] = pc[a]
      PROVE  IsleyiciKurali(a)
  BY ONLY <1>0, <1>o, <1>b DEF IsleyiciKurali, IsKurali, YanKurali, OnceSatir, Once
<1>1. ASSUME NEW b \in Deneme, Istek(b) PROVE IsleyiciKurali(a)
  <2>1. CASE b # a
    BY ONLY <1>1, <1>0, <1>p, <1>d, <2>1, a \in Deneme, b \in Deneme
       DEF Istek, Git, awxVars, istekVars
  <2>2. CASE b = a
    BY ONLY <1>1, <1>p, <1>d, <1>r, <1>o, <1>b, <2>2, a \in Deneme
       DEF Istek, Git, IsleyiciKurali, IsKurali, YanKurali, OnceSatir, Once, BaslatmaAdimlari, AlmaAdimlari, awxVars, istekVars
  <2>. QED BY <2>1, <2>2
<1>2. ASSUME NEW b \in Deneme, KilitAl(b) PROVE IsleyiciKurali(a)
  <2>1. CASE b # a
    BY ONLY <1>2, <1>0, <1>p, <1>d, <2>1, a \in Deneme, b \in Deneme
       DEF KilitAl, AnahtarAlindi, Git, GozYok, awxVars, istekVars
  <2>2. CASE b = a
    BY ONLY <1>2, <1>p, <1>d, <1>r, <1>o, <1>b, <2>2, a \in Deneme
       DEF KilitAl, AnahtarAlindi, Git, GozYok, IsleyiciKurali, IsKurali, YanKurali, OnceSatir, Once, BaslatmaAdimlari, AlmaAdimlari, awxVars, istekVars
  <2>. QED BY <2>1, <2>2
<1>3. ASSUME NEW b \in Deneme, KilitOku(b) PROVE IsleyiciKurali(a)
  <2>1. CASE b # a
    BY ONLY <1>3, <1>0, <1>p, <1>d, <2>1, a \in Deneme, b \in Deneme
       DEF KilitOku, Birakmaya, Git, awxVars, istekVars
  <2>2. CASE b = a
    <3>1. Siradaki(a) \in Anahtar
      <4>1. alinan[a] + 1 \in 1 .. AnahtarSayisi(a)
        BY <1>3, <1>t, <2>2, AnahtarListesi DEF AlmaTipi, KilitOku, AlmaAdimlari, TypeOK
      <4>. QED BY ONLY <4>1, AnahtarListesi, a \in Deneme DEF Siradaki
    <3>. QED BY ONLY <1>3, <1>p, <1>d, <1>r, <1>o, <1>b, <2>2, <3>1, a \in Deneme
         DEF KilitOku, Birakmaya, Git, IsleyiciKurali, IsKurali, YanKurali, OnceSatir, Once, BaslatmaAdimlari, AlmaAdimlari, awxVars, istekVars
  <2>. QED BY <2>1, <2>2
<1>4. ASSUME NEW b \in Deneme, KilitSor(b) PROVE IsleyiciKurali(a)
  <2>1. CASE b # a
    BY ONLY <1>4, <1>0, <1>p, <1>d, <2>1, a \in Deneme, b \in Deneme
       DEF KilitSor, Birakmaya, Git, GozYok, awxVars, istekVars
  <2>2. CASE b = a
    BY ONLY <1>4, <1>p, <1>d, <1>r, <1>o, <1>b, <2>2, a \in Deneme
       DEF KilitSor, Birakmaya, Git, GozYok, IsleyiciKurali, IsKurali, YanKurali, OnceSatir, Once, BaslatmaAdimlari, AlmaAdimlari, awxVars, istekVars
  <2>. QED BY <2>1, <2>2
<1>5. ASSUME NEW b \in Deneme, KilitTekrar(b) PROVE IsleyiciKurali(a)
  <2>1. CASE b # a
    BY ONLY <1>5, <1>0, <1>p, <1>d, <2>1, a \in Deneme, b \in Deneme
       DEF KilitTekrar, AnahtarAlindi, Birakmaya, Git, GozYok, awxVars, istekVars
  <2>2. CASE b = a
    BY ONLY <1>5, <1>p, <1>d, <1>r, <1>o, <1>b, <2>2, a \in Deneme
       DEF KilitTekrar, AnahtarAlindi, Birakmaya, Git, GozYok, IsleyiciKurali, IsKurali, YanKurali, OnceSatir, Once, BaslatmaAdimlari, AlmaAdimlari, awxVars, istekVars
  <2>. QED BY <2>1, <2>2
<1>6. ASSUME NEW b \in Deneme, KilitHata(b) PROVE IsleyiciKurali(a)
  <2>1. CASE b # a
    BY ONLY <1>6, <1>0, <1>p, <1>d, <2>1, a \in Deneme, b \in Deneme
       DEF KilitHata, Birakmaya, Git, GozYok, awxVars, istekVars
  <2>2. CASE b = a
    BY ONLY <1>6, <1>p, <1>d, <1>r, <1>o, <1>b, <2>2, a \in Deneme
       DEF KilitHata, Birakmaya, Git, GozYok, IsleyiciKurali, IsKurali, YanKurali, OnceSatir, Once, BaslatmaAdimlari, AlmaAdimlari, awxVars, istekVars
  <2>. QED BY <2>1, <2>2
<1>7. ASSUME NEW b \in Deneme, Birak(b) PROVE IsleyiciKurali(a)
  <2>1. CASE b # a
    BY ONLY <1>7, <1>0, <1>p, <1>d, <2>1, a \in Deneme, b \in Deneme
       DEF Birak, Biter, Git, awxVars, istekVars
  <2>2. CASE b = a
    BY ONLY <1>7, <1>p, <1>d, <1>r, <1>o, <1>b, <2>2, a \in Deneme
       DEF Birak, Biter, Git, IsleyiciKurali, IsKurali, YanKurali, OnceSatir, Once, BaslatmaAdimlari, AlmaAdimlari, awxVars, istekVars
  <2>. QED BY <2>1, <2>2
<1>8. ASSUME NEW b \in Deneme, SatirYaz(b) PROVE IsleyiciKurali(a)
  <2>1. CASE b # a
    BY ONLY <1>8, <1>0, <1>p, <1>d, <2>1, a \in Deneme, b \in Deneme
       DEF SatirYaz, Birakmaya, Git, Satirlar, awxVars, istekVars
  <2>2. CASE b = a
    BY ONLY <1>8, <1>p, <1>d, <1>r, <1>o, <1>b, <2>2, a \in Deneme
       DEF SatirYaz, Birakmaya, Git, Satirlar, IsleyiciKurali, IsKurali, YanKurali, OnceSatir, Once, BaslatmaAdimlari, AlmaAdimlari, awxVars, istekVars
  <2>. QED BY <2>1, <2>2
<1>9. ASSUME NEW b \in Deneme, BaslatRed(b) PROVE IsleyiciKurali(a)
  <2>1. CASE b # a
    BY ONLY <1>9, <1>0, <1>p, <1>d, <2>1, a \in Deneme, b \in Deneme
       DEF BaslatRed, Birakmaya, Git, awxVars, istekVars
  <2>2. CASE b = a
    BY ONLY <1>9, <1>p, <1>d, <1>r, <1>o, <1>b, <2>2, a \in Deneme
       DEF BaslatRed, Birakmaya, Git, IsleyiciKurali, IsKurali, YanKurali, OnceSatir, Once, BaslatmaAdimlari, AlmaAdimlari, awxVars, istekVars
  <2>. QED BY <2>1, <2>2
<1>10. ASSUME NEW b \in Deneme, AwxBaslat(b) PROVE IsleyiciKurali(a)
  <2>1. CASE b # a
    BY ONLY <1>10, <1>0, <1>p, <1>d, <2>1, a \in Deneme, b \in Deneme
       DEF AwxBaslat, IsBaslar, Git, awxVars, istekVars
  <2>2. CASE b = a
    BY ONLY <1>10, <1>p, <1>d, <1>r, <1>o, <1>b, <2>2, a \in Deneme
       DEF AwxBaslat, IsBaslar, Git, IsleyiciKurali, IsKurali, YanKurali, OnceSatir, Once, BaslatmaAdimlari, AlmaAdimlari, awxVars, istekVars
  <2>. QED BY <2>1, <2>2
<1>11. ASSUME NEW b \in Deneme, Bagla(b) PROVE IsleyiciKurali(a)
  <2>1. CASE b # a
    BY ONLY <1>11, <1>0, <1>p, <1>d, <2>1, a \in Deneme, b \in Deneme
       DEF Bagla, Git, awxVars, istekVars
  <2>2. CASE b = a
    BY ONLY <1>11, <1>p, <1>d, <1>r, <1>o, <1>b, <2>2, a \in Deneme
       DEF Bagla, Git, IsleyiciKurali, IsKurali, YanKurali, OnceSatir, Once, BaslatmaAdimlari, AlmaAdimlari, awxVars, istekVars
  <2>. QED BY <2>1, <2>2
<1>12. ASSUME NEW b \in Deneme, SatirGuncelle(b) PROVE IsleyiciKurali(a)
  <2>1. CASE b # a
    BY ONLY <1>12, <1>0, <1>p, <1>d, <2>1, a \in Deneme, b \in Deneme
       DEF SatirGuncelle, Biter, Git, awxVars, istekVars
  <2>2. CASE b = a
    BY ONLY <1>12, <1>p, <1>d, <1>r, <1>o, <1>b, <2>2, a \in Deneme
       DEF SatirGuncelle, Biter, Git, IsleyiciKurali, IsKurali, YanKurali, OnceSatir, Once, BaslatmaAdimlari, AlmaAdimlari, awxVars, istekVars
  <2>. QED BY <2>1, <2>2
<1>13. ASSUME NEW b \in Deneme, SatirKontrol(b) PROVE IsleyiciKurali(a)
  <2>1. CASE b # a
    BY ONLY <1>13, <1>0, <1>p, <1>d, <2>1, a \in Deneme, b \in Deneme
       DEF SatirKontrol, Biter, Git, awxVars, istekVars
  <2>2. CASE b = a
    BY ONLY <1>13, <1>p, <1>d, <1>r, <1>o, <1>b, <2>2, a \in Deneme
       DEF SatirKontrol, Biter, Git, IsleyiciKurali, IsKurali, YanKurali, OnceSatir, Once, BaslatmaAdimlari, AlmaAdimlari, awxVars, istekVars
  <2>. QED BY <2>1, <2>2
<1>14. ASSUME NEW b \in Deneme, Durdur(b) PROVE IsleyiciKurali(a)
  <2>1. CASE b # a
    BY ONLY <1>14, <1>0, <1>p, <1>d, <2>1, a \in Deneme, b \in Deneme
       DEF Durdur, DurdurulurMu, awxVars, istekVars
  <2>2. CASE b = a
    BY ONLY <1>14, <1>p, <1>d, <1>r, <1>o, <1>b, <2>2, a \in Deneme
       DEF Durdur, DurdurulurMu, IsleyiciKurali, IsKurali, YanKurali, OnceSatir, Once, BaslatmaAdimlari, AlmaAdimlari, awxVars, istekVars
  <2>. QED BY <2>1, <2>2
<1>15. ASSUME NEW b \in Deneme, DurdurBaslat(b) PROVE IsleyiciKurali(a)
  <2>1. CASE b # a
    BY ONLY <1>15, <1>0, <1>p, <1>d, <2>1, a \in Deneme, b \in Deneme
       DEF DurdurBaslat, DurdurIsiBaslar, DurdurIsleyicileri, awxVars, istekVars
  <2>2. CASE b = a
    BY ONLY <1>15, <1>p, <1>d, <1>r, <1>o, <1>b, <2>2, a \in Deneme
       DEF DurdurBaslat, DurdurIsiBaslar, DurdurIsleyicileri, IsleyiciKurali, IsKurali, YanKurali, OnceSatir, Once, BaslatmaAdimlari, AlmaAdimlari, awxVars, istekVars
  <2>. QED BY <2>1, <2>2
<1>16. ASSUME NEW b \in Deneme, DurdurYaz(b) PROVE IsleyiciKurali(a)
  <2>1. CASE b # a
    BY ONLY <1>16, <1>0, <1>p, <1>d, <2>1, a \in Deneme, b \in Deneme
       DEF DurdurYaz, DurdurBos, DurdurIsleyicileri, awxVars, istekVars
  <2>2. CASE b = a
    BY ONLY <1>16, <1>p, <1>d, <1>r, <1>o, <1>b, <2>2, a \in Deneme
       DEF DurdurYaz, DurdurBos, DurdurIsleyicileri, IsleyiciKurali, IsKurali, YanKurali, OnceSatir, Once, BaslatmaAdimlari, AlmaAdimlari, awxVars, istekVars
  <2>. QED BY <2>1, <2>2
<1>17. ASSUME NEW b \in Deneme, DurdurBagla(b) PROVE IsleyiciKurali(a)
  <2>1. CASE b # a
    BY ONLY <1>17, <1>0, <1>p, <1>d, <2>1, a \in Deneme, b \in Deneme
       DEF DurdurBagla, DurdurBos, awxVars, istekVars
  <2>2. CASE b = a
    BY ONLY <1>17, <1>p, <1>d, <1>r, <1>o, <1>b, <2>2, a \in Deneme
       DEF DurdurBagla, DurdurBos, IsleyiciKurali, IsKurali, YanKurali, OnceSatir, Once, BaslatmaAdimlari, AlmaAdimlari, awxVars, istekVars
  <2>. QED BY <2>1, <2>2
<1>18. ASSUME NEW b \in Deneme, SonucOku(b) PROVE IsleyiciKurali(a)
  <2>1. CASE b # a
    BY ONLY <1>18, <1>0, <1>p, <1>d, <2>1, a \in Deneme, b \in Deneme
       DEF SonucOku, awxVars, istekVars
  <2>2. CASE b = a
    BY ONLY <1>18, <1>p, <1>d, <1>r, <1>o, <1>b, <2>2, a \in Deneme
       DEF SonucOku, IsleyiciKurali, IsKurali, YanKurali, OnceSatir, Once, BaslatmaAdimlari, AlmaAdimlari, awxVars, istekVars
  <2>. QED BY <2>1, <2>2
<1>19. ASSUME NEW b \in Deneme, SonucAl(b) PROVE IsleyiciKurali(a)
  <2>1. CASE b # a
    BY ONLY <1>19, <1>0, <1>p, <1>d, <2>1, a \in Deneme, b \in Deneme
       DEF SonucAl, SonGit, Sonuclandiricilar, awxVars, istekVars
  <2>2. CASE b = a
    BY ONLY <1>19, <1>p, <1>d, <1>r, <1>o, <1>b, <2>2, a \in Deneme
       DEF SonucAl, SonGit, Sonuclandiricilar, IsleyiciKurali, IsKurali, YanKurali, OnceSatir, Once, BaslatmaAdimlari, AlmaAdimlari, awxVars, istekVars
  <2>. QED BY <2>1, <2>2
<1>20. ASSUME NEW b \in Deneme, SonucVazgec(b) PROVE IsleyiciKurali(a)
  <2>1. CASE b # a
    BY ONLY <1>20, <1>0, <1>p, <1>d, <2>1, a \in Deneme, b \in Deneme
       DEF SonucVazgec, SonBos, awxVars, istekVars
  <2>2. CASE b = a
    BY ONLY <1>20, <1>p, <1>d, <1>r, <1>o, <1>b, <2>2, a \in Deneme
       DEF SonucVazgec, SonBos, IsleyiciKurali, IsKurali, YanKurali, OnceSatir, Once, BaslatmaAdimlari, AlmaAdimlari, awxVars, istekVars
  <2>. QED BY <2>1, <2>2
<1>21. ASSUME NEW b \in Deneme, SonucKilit(b) PROVE IsleyiciKurali(a)
  <2>1. CASE b # a
    BY ONLY <1>21, <1>0, <1>p, <1>d, <2>1, a \in Deneme, b \in Deneme
       DEF SonucKilit, SonGit, Sonuclandiricilar, awxVars, istekVars
  <2>2. CASE b = a
    BY ONLY <1>21, <1>p, <1>d, <1>r, <1>o, <1>b, <2>2, a \in Deneme
       DEF SonucKilit, SonGit, Sonuclandiricilar, IsleyiciKurali, IsKurali, YanKurali, OnceSatir, Once, BaslatmaAdimlari, AlmaAdimlari, awxVars, istekVars
  <2>. QED BY <2>1, <2>2
<1>22. ASSUME NEW b \in Deneme, OtoDurdur(b) PROVE IsleyiciKurali(a)
  <2>1. CASE b # a
    BY ONLY <1>22, <1>0, <1>p, <1>d, <2>1, a \in Deneme, b \in Deneme
       DEF OtoDurdur, SonGit, DurdurIsiBaslar, Sonuclandiricilar, awxVars, istekVars
  <2>2. CASE b = a
    BY ONLY <1>22, <1>p, <1>d, <1>r, <1>o, <1>b, <2>2, a \in Deneme
       DEF OtoDurdur, SonGit, DurdurIsiBaslar, Sonuclandiricilar, IsleyiciKurali, IsKurali, YanKurali, OnceSatir, Once, BaslatmaAdimlari, AlmaAdimlari, awxVars, istekVars
  <2>. QED BY <2>1, <2>2
<1>23. ASSUME NEW b \in Deneme, OtoYaz(b) PROVE IsleyiciKurali(a)
  <2>1. CASE b # a
    BY ONLY <1>23, <1>0, <1>p, <1>d, <2>1, a \in Deneme, b \in Deneme
       DEF OtoYaz, SonGit, Sonuclandiricilar, awxVars, istekVars
  <2>2. CASE b = a
    BY ONLY <1>23, <1>p, <1>d, <1>r, <1>o, <1>b, <2>2, a \in Deneme
       DEF OtoYaz, SonGit, Sonuclandiricilar, IsleyiciKurali, IsKurali, YanKurali, OnceSatir, Once, BaslatmaAdimlari, AlmaAdimlari, awxVars, istekVars
  <2>. QED BY <2>1, <2>2
<1>24. ASSUME NEW b \in Deneme, OtoBagla(b) PROVE IsleyiciKurali(a)
  <2>1. CASE b # a
    BY ONLY <1>24, <1>0, <1>p, <1>d, <2>1, a \in Deneme, b \in Deneme
       DEF OtoBagla, SonGit, Sonuclandiricilar, awxVars, istekVars
  <2>2. CASE b = a
    BY ONLY <1>24, <1>p, <1>d, <1>r, <1>o, <1>b, <2>2, a \in Deneme
       DEF OtoBagla, SonGit, Sonuclandiricilar, IsleyiciKurali, IsKurali, YanKurali, OnceSatir, Once, BaslatmaAdimlari, AlmaAdimlari, awxVars, istekVars
  <2>. QED BY <2>1, <2>2
<1>25. ASSUME NEW b \in Deneme, SonYaz(b) PROVE IsleyiciKurali(a)
  <2>1. CASE b # a
    BY ONLY <1>25, <1>0, <1>p, <1>d, <2>1, a \in Deneme, b \in Deneme
       DEF SonYaz, SonBos, awxVars, istekVars
  <2>2. CASE b = a
    BY ONLY <1>25, <1>p, <1>d, <1>r, <1>o, <1>b, <2>2, a \in Deneme
       DEF SonYaz, SonBos, IsleyiciKurali, IsKurali, YanKurali, OnceSatir, Once, BaslatmaAdimlari, AlmaAdimlari, awxVars, istekVars
  <2>. QED BY <2>1, <2>2
<1>26. ASSUME NEW b \in Deneme, YenidenOku(b) PROVE IsleyiciKurali(a)
  <2>1. CASE b # a
    BY ONLY <1>26, <1>0, <1>p, <1>d, <2>1, a \in Deneme, b \in Deneme
       DEF YenidenOku, awxVars, istekVars
  <2>2. CASE b = a
    BY ONLY <1>26, <1>p, <1>d, <1>r, <1>o, <1>b, <2>2, a \in Deneme
       DEF YenidenOku, IsleyiciKurali, IsKurali, YanKurali, OnceSatir, Once, BaslatmaAdimlari, AlmaAdimlari, awxVars, istekVars
  <2>. QED BY <2>1, <2>2
<1>27. ASSUME NEW b \in Deneme, BayatKuyruk(b) PROVE IsleyiciKurali(a)
  <2>1. CASE b # a
    BY ONLY <1>27, <1>0, <1>p, <1>d, <2>1, a \in Deneme, b \in Deneme
       DEF BayatKuyruk, awxVars, istekVars
  <2>2. CASE b = a
    BY ONLY <1>27, <1>p, <1>d, <1>r, <1>o, <1>b, <2>2, a \in Deneme
       DEF BayatKuyruk, IsleyiciKurali, IsKurali, YanKurali, OnceSatir, Once, BaslatmaAdimlari, AlmaAdimlari, awxVars, istekVars
  <2>. QED BY <2>1, <2>2
<1>28. ASSUME NEW b \in Deneme, AwxBiter(b) PROVE IsleyiciKurali(a)
  <2>1. CASE b # a
    BY ONLY <1>28, <1>0, <1>p, <1>d, <2>1, a \in Deneme, b \in Deneme
       DEF AwxBiter, AwxTerminal, awxVars, istekVars
  <2>2. CASE b = a
    BY ONLY <1>28, <1>p, <1>d, <1>r, <1>o, <1>b, <2>2, a \in Deneme
       DEF AwxBiter, AwxTerminal, IsleyiciKurali, IsKurali, YanKurali, OnceSatir, Once, BaslatmaAdimlari, AlmaAdimlari, awxVars, istekVars
  <2>. QED BY <2>1, <2>2
<1>29. ASSUME NEW d \in Durdurma, DurdurmaBiter(d) PROVE IsleyiciKurali(a)
  BY ONLY <1>29, <1>0, <1>p, <1>d, a \in Deneme DEF DurdurmaBiter, istekVars
<1>30. ASSUME NEW j \in Is, KilitSupur(j) PROVE IsleyiciKurali(a)
  BY ONLY <1>30, <1>0, <1>p, <1>d, a \in Deneme DEF KilitSupur, istekVars, awxVars
<1>31. CASE Tik
  <2>1. satir'[a] = [satir[a] EXCEPT !.eski = satir[a].durum = "QUEUED"]
    BY ONLY <1>31, a \in Deneme DEF Tik
  <2>2. satir'[a].durum = satir[a].durum /\ satir'[a].is = satir[a].is
        /\ (satir[a].durum # "QUEUED" => satir'[a].eski = FALSE)
    BY ONLY <1>r, <2>1 DEF Satirlar
  <2>3. pc'[a] = pc[a] /\ drd' = drd /\ son' = son /\ goz' = goz /\ awx' = awx /\ korDurdur' = korDurdur
        /\ pc[a] \notin BaslatmaAdimlari
    BY ONLY <1>31, a \in Deneme DEF Tik, istekVars
  <2>. QED BY ONLY <1>31, <1>o, <1>b, <2>2, <2>3 DEF IsleyiciKurali, IsKurali, YanKurali, OnceSatir, Once
<1>32. CASE Cokme
  <2>1. pc'[a] = pc[a] \/ pc'[a] = "bitti"
    BY ONLY <1>32, a \in Deneme DEF Cokme
  <2>. QED BY ONLY <1>32, <1>p, <1>o, <1>b, <2>1, a \in Deneme
           DEF Cokme, DurdurBos, SonBos, GozYok, IsleyiciKurali, IsKurali, YanKurali, OnceSatir, Once, BaslatmaAdimlari, AlmaAdimlari, awxVars, istekVars
<1>33. CASE UNCHANGED vars
  BY ONLY <1>33, <1>0 DEF vars
<1>. QED BY ONLY [Next]_vars, <1>1, <1>2, <1>3, <1>4, <1>5, <1>6, <1>7, <1>8, <1>9, <1>10, <1>11, <1>12, <1>13, <1>14, <1>15, <1>16, <1>17, <1>18, <1>19, <1>20, <1>21, <1>22, <1>23, <1>24, <1>25, <1>26, <1>27, <1>28, <1>29, <1>30, <1>31, <1>32, <1>33
         DEF Next, IstekAdimi, DurdurAdimi, SonucAdimi

-----------------------------------------------------------------------------
(***************************************************************************)
(* The invariant is inductive                                              *)
(***************************************************************************)

\* The first state satisfies the inductive invariant.
LEMMA IInvBaslangic == Init => IInv
<1>. SUFFICES ASSUME Init PROVE IInv
  OBVIOUS
<1>1. TipInv
  BY TipBaslangic
<1>2. /\ \A a \in Deneme : pc[a] = "bos" /\ awx[a] = "yok" /\ satir[a] = SatirYok
                           /\ drd[a] = DurdurBos /\ son[a] = SonBos /\ goz[a] = GozYok
      /\ \A k \in Anahtar : ~kilit[k].held /\ kilit[k].is = Yok
  BY DEF Init, Is, BosSatir
<1>3. OnceInv
  <2>. SUFFICES ASSUME NEW a \in Deneme PROVE awx[a] = "yok" /\ OnceSatir(a)
    BY DEF OnceInv
  <2>. QED BY ONLY <1>2, a \in Deneme DEF OnceSatir, SatirYok, DurdurBos, SonBos
<1>4. AlinanInv /\ KorunurInv
  BY ONLY <1>2 DEF AlinanInv, KorunurInv, BaslatmaAdimlari, AlmaAdimlari, Korunur, Canli
<1>5. BagInv
  BY ONLY <1>2 DEF BagInv, DurdurBos, SonBos, GozYok
<1>6. TutulanInv
  BY ONLY <1>2 DEF TutulanInv, Sahip
<1>. QED BY <1>1, <1>3, <1>4, <1>5, <1>6 DEF IInv

\* Every step preserves the inductive invariant.
LEMMA IInvAdim == IInv /\ [Next]_vars => IInv'
<1>. SUFFICES ASSUME IInv, [Next]_vars PROVE IInv'
  OBVIOUS
<1>t. TipInv /\ TypeOK /\ AlmaTipi /\ TipInv' /\ TypeOK'
  BY TipAdim DEF IInv, TipInv
<1>i. OnceInv /\ AlinanInv /\ KorunurInv /\ BagInv /\ TutulanInv
  BY DEF IInv
<1>k. \A k \in Anahtar : KilitAdimi(k)
  BY KilitAdimlari
<1>r. ASSUME NEW a \in Deneme PROVE IstekKurali(a) /\ IsKurali(a) /\ YanKurali(a) /\ OnceSatir(a)'
  BY IstekAdimlarinda, IsleyiciAdimlari DEF IsleyiciKurali
<1>n. ASSUME NEW a \in Deneme
      PROVE  /\ AnahtarSayisi(a) \in Nat \ {0} /\ alinan[a] \in Nat /\ alinan'[a] \in Nat
             /\ sira[a] \in Nat /\ sira'[a] \in Nat
  BY <1>t, AnahtarListesi DEF TypeOK
<1>s. \A k \in Anahtar : /\ kilit[k] \in KilitSatiri /\ kilit[k].kalan \in Int
                         /\ kilit'[k].kalan \in Int
  <2>1. \A s \in KilitSatiri : s.kalan \in Int
    BY SureVarsayimi, SureAraligi DEF KilitSatiri
  <2>. QED BY <1>t, <2>1 DEF TypeOK
<1>f. ASSUME NEW a \in Deneme, NEW k \in Anahtar, Birakildi(k), Sahip(a, k)
      PROVE  ~Once(a) /\ ~Korunur(a)
  <2>1. kilit[k].id = a
    BY <1>f DEF Sahip
  <2>2. CASE pc[a] = "birak"
    BY <1>i, <2>2 DEF OnceInv, Once, BaslatmaAdimlari, AlmaAdimlari, Korunur, Canli
  <2>. QED BY <1>f, <2>1, <2>2 DEF Birakildi, Cozulur
\* A released row keeps its other columns.
<1>h. ASSUME NEW k \in Anahtar, kilit'[k] = Birakilmis(kilit[k])
      PROVE  ~kilit'[k].held /\ kilit'[k].id = kilit[k].id /\ kilit'[k].is = kilit[k].is
  BY ONLY <1>h, <1>s DEF Birakilmis, KilitSatiri
<1>y. ASSUME NEW k \in Anahtar, Tik
      PROVE  /\ kilit'[k].held = kilit[k].held /\ kilit'[k].id = kilit[k].id
             /\ kilit'[k].is = kilit[k].is /\ kilit'[k].kalan >= kilit[k].kalan - 1
  <2>1. kilit'[k] = kilit[k] \/ kilit'[k] = [kilit[k] EXCEPT !.kalan = @ - 1]
    BY <1>y DEF Tik, YaslanKilit
  <2>. QED BY ONLY <1>s, <2>1 DEF KilitSatiri
<1>1. OnceInv'
  <2>. SUFFICES ASSUME NEW a \in Deneme, (Once(a) \/ pc[a] = "birak")' PROVE awx'[a] = "yok"
    BY <1>r DEF OnceInv
  <2>1. Once(a) \/ pc[a] = "birak"
    BY <1>r DEF IstekKurali
  <2>2. awx[a] = "yok"
    BY <1>i, <2>1 DEF OnceInv
  <2>3. pc'[a] \notin {"bagla", "yaz"}
    BY DEF Once, BaslatmaAdimlari, AlmaAdimlari
  <2>. QED BY <1>r, <2>2, <2>3 DEF IsKurali
\* A row of a request that is collecting its keys cannot be taken by anyone.
<1>2. AlinanInv'
  <2>. SUFFICES ASSUME NEW a \in Deneme, pc'[a] \in BaslatmaAdimlari, NEW i \in 1 .. alinan'[a]
                PROVE  LET s == kilit'[kilitAnahtarlari(a)[i]] IN
                       s.held /\ s.id = a /\ s.is = Yok /\ s.kalan = KilitSuresi
    BY DEF AlinanInv
  <2>. DEFINE k == kilitAnahtarlari(a)[i]
  <2>1. Once(a)
    <3>1. Once(a)'
      BY DEF Once
    <3>. QED BY <1>r, <3>1 DEF IstekKurali
  <2>2. \/ alinan'[a] = alinan[a]
        \/ alinan'[a] = alinan[a] + 1 /\ kilit' = casLock(kilit, Siradaki(a), a)
           /\ alinan[a] < AnahtarSayisi(a)
    BY <1>r DEF IstekKurali
  <2>3. CASE i = alinan[a] + 1
    <3>1. kilit' = casLock(kilit, k, a) /\ i \in 1 .. AnahtarSayisi(a)
      BY <1>n, <2>2, <2>3 DEF Siradaki
    <3>2. k \in Anahtar
      BY <3>1, AnahtarListesi
    <3>. HIDE DEF k
    <3>3. kilit'[k] = [held |-> TRUE, id |-> a, kalan |-> KilitSuresi, is |-> Yok, tur |-> Yok]
      BY ONLY <1>t, <3>1, <3>2 DEF casLock, TypeOK
    <3>4. kilit'[k].held /\ kilit'[k].id = a /\ kilit'[k].is = Yok /\ kilit'[k].kalan = KilitSuresi
      BY ONLY <3>3
    <3>. QED BY ONLY <3>4 DEF k
  <2>4. CASE i # alinan[a] + 1
    <3>1. i \in 1 .. alinan[a] /\ pc[a] \in BaslatmaAdimlari
      <4>1. i \in 1 .. alinan[a]
        BY <1>n, <2>2, <2>4
      <4>2. alinan[a] # 0
        BY <1>n, <4>1
      <4>. QED BY <1>t, <2>1, <4>1, <4>2 DEF AlmaTipi, Once
    <3>2. k \in Anahtar
      <4>1. i \in 1 .. AnahtarSayisi(a)
        BY <1>t, <1>n, <3>1 DEF AlmaTipi, BaslatmaAdimlari
      <4>. QED BY <4>1, AnahtarListesi
    <3>3. kilit[k].held /\ kilit[k].id = a /\ kilit[k].is = Yok /\ kilit[k].kalan = KilitSuresi
      BY <1>i, <3>1 DEF AlinanInv
    <3>. HIDE DEF k
    <3>4. ~Alinabilir(kilit[k])
      BY ONLY <3>3, SureVarsayimi DEF Alinabilir
    <3>5. ~Tik
      BY <3>1 DEF Tik
    <3>6. ~Birakildi(k)
      BY <1>f, <2>1, <3>2, <3>3 DEF Sahip
    <3>7. kilit'[k] = kilit[k]
      BY ONLY <1>k, <2>1, <3>2, <3>3, <3>4, <3>5, <3>6 DEF KilitAdimi, Alindi, Baglandi
    <3>8. kilit'[k].held /\ kilit'[k].id = a /\ kilit'[k].is = Yok /\ kilit'[k].kalan = KilitSuresi
      BY ONLY <3>3, <3>7
    <3>. QED BY ONLY <3>8 DEF k
  <2>. QED BY <2>3, <2>4
\* A live job keeps its keys; a job that starts has just taken all of its keys.
<1>3. KorunurInv'
  <2>. SUFFICES ASSUME NEW a \in Deneme, Korunur(a)', NEW k \in Anahtarlari(a)
                PROVE  /\ kilit'[k].held /\ kilit'[k].id = a /\ kilit'[k].is \in {a, Yok}
                       /\ kilit'[k].kalan > sure'[a]
    BY DEF KorunurInv, Sahip, Anahtarlari, AnahtarSayisi
  <2>0. k \in Anahtar
    BY AnahtarListesi
  <2>1. CASE Korunur(a)
    <3>1. kilit[k].held /\ kilit[k].id = a /\ kilit[k].is \in {a, Yok} /\ kilit[k].kalan > sure[a]
      BY <1>i, <2>1 DEF KorunurInv, Sahip
    <3>2. sure[a] \in Nat /\ sure'[a] \in Nat
      BY <1>t, SureVarsayimi DEF TypeOK
    <3>3. ~Once(a) /\ awx[a] = "surer"
      BY <1>i, <2>1 DEF OnceInv, Korunur, Canli
    <3>4. sure'[a] = sure[a] \/ Tik
      <4>1. awx'[a] = "surer" /\ pc[a] # "baslat"
        BY <3>3 DEF Korunur, Canli, Once, BaslatmaAdimlari
      <4>. QED BY <1>r, <4>1 DEF IsKurali, AwxTerminal
    <3>5. CASE Tik
      <4>1. sure[a] > 0 /\ sure'[a] = sure[a] - 1
        BY <3>3, <3>5 DEF Tik
      <4>2. kilit'[k].kalan \in Int
        BY <1>s, <2>0
      <4>. QED BY ONLY <1>s, <1>y, <2>0, <3>1, <3>2, <3>5, <4>1, <4>2
    <3>6. CASE ~Tik
      <4>1. ~Alinabilir(kilit[k])
        BY ONLY <1>s, <2>0, <3>1, <3>2, SureVarsayimi DEF Alinabilir
      <4>2. ~Birakildi(k)
        BY <1>f, <2>0, <2>1, <3>1 DEF Sahip
      <4>3. kilit'[k] = kilit[k] \/ Baglandi(k)
        BY ONLY <1>k, <2>0, <3>6, <4>1, <4>2 DEF KilitAdimi, Alindi
      <4>4. CASE Baglandi(k)
        <5>1. a \notin korDurdur' /\ awx[a] = "surer"
          BY <3>3 DEF Korunur
        <5>2. /\ kilit'[k].held /\ kilit'[k].id = a /\ kilit'[k].is \in {a, Yok}
              /\ kilit'[k].kalan >= kilit[k].kalan
          BY ONLY <3>1, <4>4, <5>1 DEF Baglandi
        <5>. QED BY ONLY <1>s, <2>0, <3>1, <3>2, <3>4, <3>6, <5>2
      <4>. QED BY ONLY <3>1, <3>4, <3>6, <4>3, <4>4
    <3>. QED BY <3>5, <3>6
  <2>2. CASE ~Korunur(a)
    <3>1. awx[a] # "surer" /\ awx'[a] = "surer"
      BY <1>r, <2>2 DEF Korunur, Canli, IsKurali
    <3>2. pc[a] = "baslat" /\ kilit' = kilit /\ sure'[a] = SablonZamanAsimi
      BY <1>r, <3>1 DEF IsKurali, AwxTerminal
    <3>3. PICK i \in 1 .. AnahtarSayisi(a) : k = kilitAnahtarlari(a)[i]
      BY DEF Anahtarlari
    <3>4. kilit[k].held /\ kilit[k].id = a /\ kilit[k].is = Yok /\ kilit[k].kalan = KilitSuresi
      BY <1>i, <1>t, <3>2, <3>3 DEF AlinanInv, AlmaTipi, BaslatmaAdimlari
    <3>. QED BY ONLY <3>2, <3>4, SureVarsayimi
  <2>. QED BY <2>1, <2>2
<1>. DEFINE BagSonra(a, j) ==
            a \in Deneme /\ (j = a \/ (/\ j \in Durdurma /\ pc'[a] \notin {"bos"} \cup BaslatmaAdimlari
                                       /\ (a \in korDurdur' \/ awx'[a] # "surer")))
<1>4. ASSUME NEW a \in Deneme, Ayrik(a)
      PROVE  pc'[a] \notin {"bos"} \cup BaslatmaAdimlari /\ (a \in korDurdur' \/ awx'[a] # "surer")
  <2>1. ~Once(a)'
    BY <1>4, <1>r DEF Ayrik, IstekKurali
  <2>2. pc[a] # "baslat"
    BY <1>4 DEF Ayrik, Once, BaslatmaAdimlari
  <2>3. awx[a] # "surer" => awx'[a] # "surer"
    BY <1>r, <2>2 DEF IsKurali, AwxTerminal
  <2>. QED BY <1>4, <1>r, <2>1, <2>3 DEF Ayrik, IsKurali, Once
<1>g. \A a, j : BagOlur(a, j) => BagSonra(a, j)
  BY <1>4 DEF BagOlur
<1>5. BagInv'
  <2>1. ASSUME NEW k \in Anahtar, kilit'[k].is # Yok PROVE BagSonra(kilit'[k].id, kilit'[k].is)
    <3>1. CASE kilit'[k].id = kilit[k].id /\ kilit'[k].is = kilit[k].is
      <4>1. BagOlur(kilit[k].id, kilit[k].is)
        BY <1>i, <2>1, <3>1 DEF BagInv
      <4>. QED BY ONLY <1>g, <3>1, <4>1
    <3>2. CASE \E a \in Deneme : Alindi(k, a)
      BY <2>1, <3>2 DEF Alindi, TazeSatir
    <3>3. CASE Baglandi(k)
      <4>1. kilit[k].id \in Deneme /\ kilit'[k].id = kilit[k].id /\ ~Once(kilit[k].id)
        BY <3>3 DEF Baglandi
      <4>2. CASE kilit'[k].is = kilit[k].id
        BY <4>1, <4>2
      <4>3. CASE kilit'[k].is \in Durdurma /\ (kilit[k].id \in korDurdur' \/ awx[kilit[k].id] # "surer")
        <5>1. pc[kilit[k].id] # "baslat" /\ ~Once(kilit[k].id)'
          BY <1>r, <4>1 DEF Once, BaslatmaAdimlari, IstekKurali
        <5>2. awx[kilit[k].id] # "surer" => awx'[kilit[k].id] # "surer"
          BY <1>r, <4>1, <5>1 DEF IsKurali, AwxTerminal
        <5>. QED BY <4>1, <4>3, <5>1, <5>2 DEF Once
      <4>. QED BY <2>1, <3>3, <4>2, <4>3 DEF Baglandi
    <3>4. kilit'[k] = kilit[k] \/ Birakildi(k) \/ Tik \/ Baglandi(k) \/ \E a \in Deneme : Alindi(k, a)
      BY <1>k DEF KilitAdimi
    <3>5. kilit'[k] = kilit[k] \/ Birakildi(k) \/ Tik => kilit'[k].id = kilit[k].id /\ kilit'[k].is = kilit[k].is
      BY <1>h, <1>y DEF Birakildi
    <3>. QED BY <3>1, <3>2, <3>3, <3>4, <3>5
  <2>2. ASSUME NEW a \in Deneme, goz'[a].is # Yok PROVE BagSonra(goz'[a].id, goz'[a].is)
    <3>1. BagOlur(goz'[a].id, goz'[a].is)
      BY <1>i, <1>r, <2>2 DEF BagInv, YanKurali
    <3>. QED BY ONLY <1>g, <3>1
  <2>3. ASSUME NEW a \in Deneme, son'[a].adim \notin {"bos", "okundu"} PROVE awx'[a] \in AwxTerminal
    <3>1. awx[a] \in AwxTerminal
      BY <1>r, <2>3 DEF YanKurali
    <3>2. awx[a] \notin {"yok", "surer", "iptal"}
      BY <3>1 DEF AwxTerminal
    <3>3. pc[a] # "baslat"
      BY <1>i, <3>2 DEF OnceInv, Once, BaslatmaAdimlari
    <3>. QED BY <1>r, <3>1, <3>2, <3>3 DEF IsKurali
  <2>4. \A a \in Deneme : /\ drd'[a].adim = "bagla" => drd'[a].is \in Durdurma
                          /\ son'[a].adim \in {"otoYaz", "otoBagla"} => son'[a].is \in Durdurma
    BY <1>r DEF YanKurali
  <2>. QED BY <2>1, <2>2, <2>3, <2>4 DEF BagInv, BagOlur, Ayrik, Once
<1>6. TutulanInv'
  <2>. SUFFICES ASSUME NEW a \in Deneme, NEW k \in Anahtar, kilit'[k].held, kilit'[k].id = a
                PROVE  /\ Once(a)' => \E i \in 1 .. alinan'[a] : k = kilitAnahtarlari(a)[i]
                       /\ pc'[a] = "birak" =>
                            \E i \in sira'[a] .. alinan'[a] : k = kilitAnahtarlari(a)[i]
                       /\ pc'[a] # "ret"
    BY DEF TutulanInv, Sahip
  <2>1. CASE Sahip(a, k)
    <3>1. /\ Once(a) => \E i \in 1 .. alinan[a] : k = kilitAnahtarlari(a)[i]
          /\ pc[a] = "birak" => \E i \in sira[a] .. alinan[a] : k = kilitAnahtarlari(a)[i]
          /\ pc[a] # "ret"
      BY ONLY <1>i, <2>1, a \in Deneme, k \in Anahtar DEF TutulanInv
    <3>2. Once(a)' => \E i \in 1 .. alinan'[a] : k = kilitAnahtarlari(a)[i]
      BY ONLY <1>n, <1>r, <3>1, a \in Deneme DEF IstekKurali
    <3>3. ASSUME pc'[a] = "birak", Once(a), sira'[a] = 1, alinan'[a] >= alinan[a]
          PROVE  \E i \in sira'[a] .. alinan'[a] : k = kilitAnahtarlari(a)[i]
      BY ONLY <1>n, <3>1, <3>3, a \in Deneme
    <3>4. ASSUME pc[a] = "birak", alinan'[a] = alinan[a], sira'[a] = sira[a] + 1,
                 kilit' = releaseLockById(kilit, kilitAnahtarlari(a)[sira[a]], a)
          PROVE  \E i \in sira'[a] .. alinan'[a] : k = kilitAnahtarlari(a)[i]
      <4>1. PICK i \in sira[a] .. alinan[a] : k = kilitAnahtarlari(a)[i]
        BY ONLY <3>1, <3>4
      <4>2. ASSUME i = sira[a] PROVE FALSE
        <5>1. kilit'[k] = Birakilmis(kilit[k])
          BY ONLY <1>t, <2>1, <3>4, <4>1, <4>2, k \in Anahtar DEF releaseLockById, Sahip, TypeOK
        <5>. QED BY <1>h, <5>1
      <4>. QED BY ONLY <1>n, <3>4, <4>1, <4>2, a \in Deneme
    <3>5. pc'[a] = "birak" => \E i \in sira'[a] .. alinan'[a] : k = kilitAnahtarlari(a)[i]
      BY ONLY <1>r, <3>1, <3>3, <3>4, a \in Deneme DEF IstekKurali
    <3>6. pc'[a] # "ret"
      <4>1. pc[a] = "birak" => sira[a] <= alinan[a]
        BY ONLY <1>n, <3>1, a \in Deneme
      <4>. QED BY ONLY <1>n, <1>r, <3>1, <4>1, a \in Deneme DEF IstekKurali
    <3>. QED BY ONLY <3>2, <3>5, <3>6
  <2>2. CASE ~Sahip(a, k)
    <3>1. Alindi(k, a)
      <4>1. ~Birakildi(k)
        BY <1>h DEF Birakildi
      <4>2. ~Tik
        BY <1>y, <2>2 DEF Sahip
      <4>3. PICK b \in Deneme : Alindi(k, b)
        BY ONLY <1>k, <2>2, <4>1, <4>2, k \in Anahtar, kilit'[k].held, kilit'[k].id = a
           DEF KilitAdimi, Baglandi, Sahip
      <4>4. kilit'[k].id = b
        BY ONLY <4>3 DEF Alindi, TazeSatir
      <4>. QED BY <4>3, <4>4
    <3>2. k = kilitAnahtarlari(a)[alinan'[a]] /\ alinan'[a] \in 1 .. alinan'[a]
      BY ONLY <1>n, <3>1, a \in Deneme DEF Alindi, Siradaki
    <3>3. pc'[a] \notin {"birak", "ret"}
      BY ONLY <3>1 DEF Alindi, BaslatmaAdimlari, AlmaAdimlari
    <3>. QED BY ONLY <3>2, <3>3
  <2>. QED BY <2>1, <2>2
<1>. QED BY <1>t, <1>1, <1>2, <1>3, <1>5, <1>6 DEF IInv

\* The inductive invariant holds: what the handlers of index.cjs and poller.cjs keep true
\* of the lock table of kilit.cjs between any two of their statements.
THEOREM IInvDogru == Spec => []IInv
  BY IInvBaslangic, IInvAdim, PTL DEF Spec

-----------------------------------------------------------------------------
(***************************************************************************)
(* The theorems                                                            *)
(***************************************************************************)

\* Every variable keeps its type: in particular no lock lives longer than
\* EnUzunSure, and the tries of a row stay within OKUMA_DENEME_SINIRI + 1.
THEOREM TipDogru == Spec => []TypeOK
<1>1. IInv => TypeOK
  BY DEF IInv, TipInv
<1>. QED BY <1>1, IInvDogru, PTL

\* Live runs that need a common key: both own it, so they are the same run.
LEMMA IInvTekKosu == IInv => TekKosu
<1>. SUFFICES ASSUME IInv, NEW a \in Deneme, NEW b \in Deneme, a # b, Cakisir(a, b),
                     Korunur(a), Korunur(b)
              PROVE  FALSE
  BY DEF TekKosu, Korunur
<1>1. PICK k : k \in Anahtarlari(a) /\ k \in Anahtarlari(b)
  BY DEF Cakisir, Anahtarlar
<1>2. Sahip(a, k) /\ Sahip(b, k)
  BY <1>1 DEF IInv, KorunurInv
<1>. QED BY <1>2 DEF Sahip

\* Whatever the number of requests, faults and presses, two runs that share the
\* global key, a target or a load machine are never alive together, except after
\* a blind stop (korDurdur).
THEOREM TekKosuDogru == Spec => []TekKosu
  BY IInvTekKosu, IInvDogru, PTL

\* A request that acquireLocks turned away holds nothing.
THEOREM HepsiYaDaHicDogru == Spec => []HepsiYaDaHic
<1>1. IInv => HepsiYaDaHic
  BY DEF IInv, TutulanInv, HepsiYaDaHic, Sahip
<1>. QED BY <1>1, IInvDogru, PTL

\* A step changes the job of one run at most, and blindly stops one at most.
TekDegisen(a) ==
    \A b \in Deneme \ {a} : awx'[b] = awx[b] /\ (b \in korDurdur' <=> b \in korDurdur)

\* TekDegisen holds of every step.
LEMMA TekIsDegisir ==
    ASSUME TypeOK, [Next]_vars, Deneme # {}
    PROVE  \E a \in Deneme : TekDegisen(a)
<1>p. awx \in [Is -> AwxDurumlari] /\ Deneme \subseteq Is /\ Deneme \cap Durdurma = {}
  BY KumeVarsayimi DEF TypeOK, Is
<1>0. ASSUME UNCHANGED <<awx, korDurdur>> PROVE \E a \in Deneme : TekDegisen(a)
  BY <1>0 DEF TekDegisen
<1>1. ASSUME NEW a \in Deneme,
             \/ Istek(a) \/ KilitAl(a) \/ KilitOku(a) \/ KilitSor(a) \/ KilitTekrar(a)
             \/ KilitHata(a) \/ Birak(a) \/ SatirYaz(a) \/ BaslatRed(a) \/ Bagla(a)
             \/ SatirGuncelle(a) \/ DurdurYaz(a)
      PROVE  UNCHANGED <<awx, korDurdur>>
  BY ONLY <1>1 DEF Istek, KilitAl, KilitOku, KilitSor, KilitTekrar, KilitHata, Birak, SatirYaz,
          BaslatRed, Bagla, SatirGuncelle, DurdurYaz, awxVars
<1>2. ASSUME NEW a \in Deneme,
             \/ SonucOku(a) \/ SonucAl(a) \/ SonucVazgec(a) \/ SonucKilit(a) \/ OtoYaz(a)
             \/ OtoBagla(a) \/ SonYaz(a) \/ YenidenOku(a) \/ BayatKuyruk(a)
      PROVE  UNCHANGED <<awx, korDurdur>>
  BY ONLY <1>2 DEF SonucOku, SonucAl, SonucVazgec, SonucKilit, OtoYaz, OtoBagla, SonYaz, YenidenOku,
          BayatKuyruk, awxVars
<1>3. ASSUME NEW a \in Deneme, AwxBaslat(a) PROVE TekDegisen(a)
  BY ONLY <1>3, <1>p, a \in Deneme DEF AwxBaslat, IsBaslar, TekDegisen
<1>4. ASSUME NEW a \in Deneme, SatirKontrol(a) \/ AwxBiter(a) PROVE TekDegisen(a)
  BY ONLY <1>4, <1>p, a \in Deneme DEF SatirKontrol, AwxBiter, TekDegisen
<1>5. ASSUME NEW a \in Deneme, Durdur(a) PROVE TekDegisen(a)
  BY ONLY <1>5, <1>p, a \in Deneme DEF Durdur, TekDegisen
<1>6. ASSUME NEW a \in Deneme, DurdurBaslat(a) \/ OtoDurdur(a) PROVE TekDegisen(a)
  BY ONLY <1>6, <1>p, a \in Deneme DEF DurdurBaslat, OtoDurdur, DurdurIsiBaslar, TekDegisen
<1>7. ASSUME NEW a \in Deneme, DurdurBagla(a) PROVE TekDegisen(a)
  BY ONLY <1>7, <1>p, a \in Deneme DEF DurdurBagla, TekDegisen, awxVars
<1>8. ASSUME NEW d \in Durdurma, DurdurmaBiter(d) PROVE \E a \in Deneme : TekDegisen(a)
  BY <1>8, <1>p DEF DurdurmaBiter, TekDegisen
<1>9. ASSUME \/ \E j \in Is : KilitSupur(j)
             \/ Tik \/ Cokme \/ UNCHANGED vars
      PROVE  UNCHANGED <<awx, korDurdur>>
  BY ONLY <1>9 DEF KilitSupur, Tik, Cokme, vars, awxVars
<1>. QED BY ONLY [Next]_vars, <1>0, <1>1, <1>2, <1>3, <1>4, <1>5, <1>6, <1>7, <1>8, <1>9
         DEF Next, IstekAdimi, DurdurAdimi, SonucAdimi

Calisan == {a \in Deneme : Korunur(a)}

\* The launch, with all keys taken one by one before it, is one step of TekYuk;
\* the end, the cancellation and the blind stop of a run are its end there.
THEOREM TekYukDogru == Spec => TekYukuSaglar
<1>1. Init => Yuk!Init
  BY KumeVarsayimi DEF Init, Yuk!Init, Canli, Is
<1>2. ASSUME IInv, IInv', [Next]_vars PROVE [Yuk!Next]_(Calisan)
  <2>. DEFINE C == Calisan
  <2>1. CASE Deneme = {}
    BY <2>1 DEF Calisan
  <2>2. CASE Deneme # {}
    <3>1. PICK a \in Deneme : TekDegisen(a)
      BY <1>2, <2>2, TekIsDegisir DEF IInv, TipInv
    <3>2. \A b \in Deneme \ {a} : b \in C' <=> b \in C
      BY <3>1 DEF TekDegisen, Calisan, Korunur, Canli
    <3>3. C \subseteq Deneme /\ C' \subseteq Deneme
      BY DEF Calisan
    <3>4. CASE a \in C' /\ a \notin C
      <4>1. C' = C \cup {a}
        BY ONLY <3>2, <3>3, <3>4, a \in Deneme
      <4>2. ASSUME NEW b \in C PROVE Anahtarlar[a] \cap Anahtarlar[b] = {}
        <5>1. TekKosu'
          BY <1>2, IInvTekKosu, PTL
        <5>2. b \in C' /\ b # a
          BY <3>4, <4>1, <4>2
        <5>. QED BY <3>3, <3>4, <5>1, <5>2 DEF TekKosu, Cakisir, Calisan, Korunur, Canli
      <4>. QED BY <3>4, <4>1, <4>2 DEF Yuk!Next, Yuk!Basla, Calisan, Korunur
    <3>5. CASE a \in C /\ a \notin C'
      <4>1. C' = C \ {a}
        BY ONLY <3>2, <3>3, <3>5, a \in Deneme
      <4>. QED BY <3>5, <4>1 DEF Yuk!Next, Yuk!Biter, Calisan, Korunur
    <3>6. CASE a \in C' <=> a \in C
      <4>1. C' = C
        BY ONLY <3>2, <3>3, <3>6, a \in Deneme
      <4>. QED BY <4>1
    <3>. QED BY <3>4, <3>5, <3>6
  <2>. QED BY <2>1, <2>2
<1>. QED BY <1>1, <1>2, IInvDogru, PTL DEF TekYukuSaglar, Yuk!Spec, Spec, Calisan, Korunur
=============================================================================
