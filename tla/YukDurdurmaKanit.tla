-------------------------- MODULE YukDurdurmaKanit --------------------------
(***************************************************************************)
(* Proofs about YukTesti, continued: what a step may never do to a closed  *)
(* row (KapaliSatirAcilmaz) and to the locks of a run whose job was        *)
(* cancelled or lost (KilitTutulur).  Both rest on IInv of YukTestiKanit.  *)
(***************************************************************************)
EXTENDS YukTestiKanit

-----------------------------------------------------------------------------
(***************************************************************************)
(* A closed row is not reopened                                            *)
(***************************************************************************)

\* What a step may do to the status of a row that is closed.
SatirKurali(a) ==
    \/ satir'[a].durum = satir[a].durum
    \/ satir[a].durum \notin SonDurumlar
    \/ satir'[a].durum = "FINALIZING" /\ (satir[a].durum = "OKUNAMADI" \/ satir[a].okunamadi)

\* Every write of a row looks at the status it has at that moment, except the INSERT
\* of the request, which comes before the row.
LEMMA SatirAdimlari == IInv /\ [Next]_vars => \A a \in Deneme : SatirKurali(a)
<1>. SUFFICES ASSUME IInv, [Next]_vars, NEW a \in Deneme PROVE SatirKurali(a)
  OBVIOUS
<1>t. TypeOK /\ OnceInv
  BY DEF IInv, TipInv
<1>p. satir \in [Deneme -> Satirlar]
  BY <1>t DEF TypeOK
<1>r. satir[a] \in Satirlar
  BY <1>p
<1>o. Once(a) => satir[a].durum \in {"yok", "QUEUED"}
  BY <1>t DEF OnceInv, OnceSatir
<1>0. ASSUME satir'[a] = satir[a] PROVE SatirKurali(a)
  BY <1>0 DEF SatirKurali
<1>1. ASSUME NEW b \in Deneme,
             \/ Istek(b) \/ KilitAl(b) \/ KilitOku(b) \/ KilitSor(b) \/ KilitTekrar(b)
             \/ KilitHata(b) \/ BaslatRed(b) \/ AwxBaslat(b) \/ Bagla(b) \/ SatirKontrol(b)
             \/ Durdur(b) \/ DurdurBaslat(b) \/ DurdurBagla(b)
      PROVE  UNCHANGED satir
  BY ONLY <1>1 DEF Istek, KilitAl, KilitOku, KilitSor, KilitTekrar, KilitHata, BaslatRed,
          AwxBaslat, Bagla, SatirKontrol, Durdur, DurdurBaslat, DurdurBagla
<1>2. ASSUME NEW b \in Deneme,
             \/ SonucOku(b) \/ SonucVazgec(b) \/ SonucKilit(b) \/ OtoDurdur(b) \/ OtoBagla(b)
             \/ AwxBiter(b)
      PROVE  UNCHANGED satir
  BY ONLY <1>2 DEF SonucOku, SonucVazgec, SonucKilit, OtoDurdur, OtoBagla, AwxBiter
<1>3. ASSUME \/ \E d \in Durdurma : DurdurmaBiter(d)
             \/ \E j \in Is : KilitSupur(j)
             \/ Cokme \/ UNCHANGED vars
      PROVE  UNCHANGED satir
  BY ONLY <1>3 DEF DurdurmaBiter, KilitSupur, Cokme, vars
<1>4. ASSUME NEW b \in Deneme,
             \/ Birak(b) \/ SatirYaz(b) \/ SatirGuncelle(b) \/ DurdurYaz(b) \/ SonucAl(b)
             \/ OtoYaz(b) \/ SonYaz(b) \/ YenidenOku(b) \/ BayatKuyruk(b),
             b # a
      PROVE  satir'[a] = satir[a]
  BY ONLY <1>4, <1>p, a \in Deneme
     DEF Birak, SatirYaz, SatirGuncelle, DurdurYaz, SonucAl, OtoYaz, SonYaz, YenidenOku, BayatKuyruk
<1>5. CASE Birak(a) \/ SatirGuncelle(a) \/ BayatKuyruk(a)
  BY ONLY <1>5, <1>p, <1>r, a \in Deneme
     DEF Birak, SatirGuncelle, BayatKuyruk, kosuBasarisiz, SatirKurali, SonDurumlar, Satirlar
<1>6. CASE SatirYaz(a)
  BY ONLY <1>6, <1>0, <1>o DEF SatirYaz, SatirKurali, SonDurumlar, Once, BaslatmaAdimlari
<1>7. CASE DurdurYaz(a) \/ OtoYaz(a)
  BY ONLY <1>7, <1>p, <1>r, a \in Deneme DEF DurdurYaz, OtoYaz, SatirKurali, SonDurumlar, Satirlar
<1>8. CASE SonucAl(a)
  BY ONLY <1>8 DEF SonucAl, SatirKurali, SonDurumlar, AKTIF
<1>9. CASE SonYaz(a)
  BY ONLY <1>9, <1>0 DEF SonYaz, SatirKurali, SonDurumlar
<1>10. CASE YenidenOku(a)
  BY ONLY <1>10, <1>p, <1>r, a \in Deneme DEF YenidenOku, SatirKurali, Satirlar
<1>11. CASE Tik
  <2>1. satir'[a] = [satir[a] EXCEPT !.eski = satir[a].durum = "QUEUED"]
    BY ONLY <1>11, a \in Deneme DEF Tik
  <2>2. satir'[a].durum = satir[a].durum
    BY ONLY <1>r, <2>1 DEF Satirlar
  <2>. QED BY ONLY <2>2 DEF SatirKurali
<1>. QED BY ONLY [Next]_vars, <1>0, <1>1, <1>2, <1>3, <1>4, <1>5, <1>6, <1>7, <1>8, <1>9, <1>10, <1>11
         DEF Next, IstekAdimi, DurdurAdimi, SonucAdimi

\* Neither a late launch answer, nor Stop, nor the sweep of stale rows, nor a second
\* finaliser reopens a closed row: only POST /kosular/:id/yeniden-oku does.
THEOREM KapaliSatirAcilmazDogru == Spec => KapaliSatirAcilmaz
<1>1. IInv /\ [Next]_vars =>
        [\A a \in Deneme :
            satir[a].durum \in SonDurumlar /\ satir'[a].durum # satir[a].durum
            => satir'[a].durum = "FINALIZING"
               /\ (satir[a].durum = "OKUNAMADI" \/ satir[a].okunamadi)]_vars
  BY SatirAdimlari DEF SatirKurali
<1>. QED BY <1>1, IInvDogru, PTL DEF Spec, KapaliSatirAcilmaz

-----------------------------------------------------------------------------
(***************************************************************************)
(* Whose job is written in a lock                                          *)
(***************************************************************************)

\* Job j, bound as `tur`, is run a's own or a stop job launched for it.
Ait(a, j, tur) ==
    /\ a \in Deneme
    /\ \/ j = a /\ tur = bagTuruOf(a)
       \/ j \in Durdurma /\ sahip[j] = a /\ tur = "durdur"

KilitAit(satr) == satr.is # Yok => Ait(satr.id, satr.is, satr.tur)

\* A job in a lock row, in a row read by a competing request, or in the locals of a Stop
\* handler or of a finaliser belongs to the run the row or the handler is about.
AitInv ==
    /\ \A k \in Anahtar : KilitAit(kilit[k])
    /\ \A a \in Deneme : goz[a].is # Yok => Ait(goz[a].id, goz[a].is, goz[a].tur)
    /\ \A a \in Deneme : drd[a].is # Yok => sahip[drd[a].is] = a
    /\ \A a \in Deneme : son[a].is # Yok => sahip[son[a].is] = a
    /\ \A d \in Durdurma : awx[d] = "yok" => sahip[d] = Yok

\* The owner of a stop job is written once, when AWX gives it its number.
SahipKurali(d) ==
    \/ sahip'[d] = sahip[d] /\ (awx'[d] = "yok" => awx[d] = "yok")
    \/ awx[d] = "yok" /\ awx'[d] # "yok"

\* SahipKurali holds of every step.
LEMMA SahipAdimlari ==
    ASSUME TypeOK, [Next]_vars, NEW d \in Durdurma
    PROVE  SahipKurali(d)
<1>p. /\ awx \in [Is -> AwxDurumlari] /\ sahip \in [Durdurma -> Deneme \cup {Yok}]
      /\ Is = Deneme \cup Durdurma /\ Deneme \cap Durdurma = {}
  BY KumeVarsayimi DEF TypeOK, Is
<1>0. ASSUME sahip'[d] = sahip[d], awx'[d] = awx[d] PROVE SahipKurali(d)
  BY ONLY <1>0 DEF SahipKurali
<1>1. ASSUME NEW b \in Deneme,
             \/ Istek(b) \/ KilitAl(b) \/ KilitOku(b) \/ KilitSor(b) \/ KilitTekrar(b)
             \/ KilitHata(b) \/ Birak(b) \/ SatirYaz(b) \/ BaslatRed(b) \/ Bagla(b)
             \/ SatirGuncelle(b) \/ DurdurYaz(b) \/ DurdurBagla(b)
      PROVE  UNCHANGED <<awx, sahip>>
  BY ONLY <1>1 DEF Istek, KilitAl, KilitOku, KilitSor, KilitTekrar, KilitHata, Birak, SatirYaz,
          BaslatRed, Bagla, SatirGuncelle, DurdurYaz, DurdurBagla, awxVars
<1>2. ASSUME NEW b \in Deneme,
             \/ SonucOku(b) \/ SonucAl(b) \/ SonucVazgec(b) \/ SonucKilit(b) \/ OtoYaz(b)
             \/ OtoBagla(b) \/ SonYaz(b) \/ YenidenOku(b) \/ BayatKuyruk(b)
      PROVE  UNCHANGED <<awx, sahip>>
  BY ONLY <1>2 DEF SonucOku, SonucAl, SonucVazgec, SonucKilit, OtoYaz, OtoBagla, SonYaz,
          YenidenOku, BayatKuyruk, awxVars
<1>3. ASSUME \/ \E j \in Is : KilitSupur(j)
             \/ Tik \/ Cokme \/ UNCHANGED vars
      PROVE  UNCHANGED <<awx, sahip>>
  BY ONLY <1>3 DEF KilitSupur, Tik, Cokme, vars, awxVars
<1>4. ASSUME NEW b \in Deneme, AwxBaslat(b) \/ SatirKontrol(b) \/ Durdur(b) \/ AwxBiter(b)
      PROVE  sahip'[d] = sahip[d] /\ awx'[d] = awx[d]
  BY ONLY <1>4, <1>p, d \in Durdurma DEF AwxBaslat, IsBaslar, SatirKontrol, Durdur, AwxBiter
<1>5. ASSUME NEW b \in Deneme, DurdurBaslat(b) \/ OtoDurdur(b) PROVE SahipKurali(d)
  BY ONLY <1>5, <1>p, d \in Durdurma DEF DurdurBaslat, OtoDurdur, DurdurIsiBaslar, SahipKurali
<1>6. ASSUME NEW e \in Durdurma, DurdurmaBiter(e) PROVE SahipKurali(d)
  BY ONLY <1>6, <1>p, d \in Durdurma DEF DurdurmaBiter, SahipKurali
<1>. QED BY ONLY [Next]_vars, <1>0, <1>1, <1>2, <1>3, <1>4, <1>5, <1>6
         DEF Next, IstekAdimi, DurdurAdimi, SonucAdimi

\* A job stays with its run.
LEMMA AitKalir ==
    ASSUME TypeOK, AitInv, [Next]_vars, NEW a, NEW j, NEW tur, Ait(a, j, tur)
    PROVE  Ait(a, j, tur)'
<1>1. CASE j = a /\ tur = bagTuruOf(a)
  BY <1>1 DEF Ait
<1>2. CASE j \in Durdurma /\ sahip[j] = a /\ tur = "durdur"
  <2>1. a \in Deneme /\ a # Yok
    BY KumeVarsayimi DEF Ait, Is
  <2>2. awx[j] # "yok"
    BY <1>2, <2>1 DEF AitInv
  <2>3. sahip'[j] = a
    BY <1>2, <2>2, SahipAdimlari DEF SahipKurali
  <2>. QED BY <1>2, <2>1, <2>3 DEF Ait
<1>. QED BY <1>1, <1>2 DEF Ait

\* What a step writes about a job into the row of a lock.
KilitBagi(k) ==
    LET s == kilit[k]
        y == kilit'[k] IN
    \/ y.is = Yok
    \/ y.id = s.id /\ y.is = s.is /\ y.tur = s.tur
    \/ y.id \in Deneme /\ y.is = y.id /\ y.tur = bagTuruOf(y.id)
    \/ /\ y.id \in Deneme /\ y.is \in Durdurma /\ y.tur = "durdur"
       /\ sahip[y.is] = y.id /\ sahip' = sahip

\* KilitBagi of the operations of kilit.cjs.
LEMMA BagIslemleri ==
    ASSUME TypeOK, NEW k \in Anahtar,
           \/ UNCHANGED kilit
           \/ \E key : \E a \in Deneme : kilit' = casLock(kilit, key, a)
           \/ \E a, key : kilit' = releaseLockById(kilit, key, a)
           \/ \E key : \E a \in Deneme : kilit' = bindLock(kilit, key, a)
           \/ \E j : kilit' = releaseLocksForJob(kilit, j)
           \/ \E j, n : kilit' = isinKilitleriniCoz(kilit, j, n)
           \/ \E a \in Deneme, d \in Durdurma :
                kilit' = durdurIsineBagla(kilit, a, d) /\ sahip[d] = a /\ sahip' = sahip
           \/ kilit' = YaslanKilit(kilit)
    PROVE  KilitBagi(k)
<1>r. kilit \in [Anahtar -> KilitSatiri] /\ kilit[k] \in KilitSatiri
  BY DEF TypeOK
<1>1. CASE UNCHANGED kilit
  BY <1>1 DEF KilitBagi
<1>2. ASSUME NEW a \in Deneme, NEW key, kilit' = casLock(kilit, key, a) PROVE KilitBagi(k)
  BY ONLY <1>2, <1>r, k \in Anahtar DEF casLock, KilitBagi
<1>3. ASSUME NEW a, NEW key, kilit' = releaseLockById(kilit, key, a) PROVE KilitBagi(k)
  BY ONLY <1>3, <1>r, k \in Anahtar DEF releaseLockById, Birakilmis, KilitBagi, KilitSatiri
<1>4. ASSUME NEW a \in Deneme, NEW key, kilit' = bindLock(kilit, key, a) PROVE KilitBagi(k)
  BY ONLY <1>4, <1>r, k \in Anahtar, a \in Deneme DEF bindLock, KilitBagi, KilitSatiri
<1>5. ASSUME NEW j, kilit' = releaseLocksForJob(kilit, j) PROVE KilitBagi(k)
  BY ONLY <1>5, <1>r, k \in Anahtar DEF releaseLocksForJob, Birakilmis, KilitBagi, KilitSatiri
<1>6. ASSUME NEW j, NEW n, kilit' = isinKilitleriniCoz(kilit, j, n) PROVE KilitBagi(k)
  BY ONLY <1>6, <1>r, k \in Anahtar DEF isinKilitleriniCoz, KilitBagi, KilitSatiri
<1>7. ASSUME NEW a \in Deneme, NEW d \in Durdurma, kilit' = durdurIsineBagla(kilit, a, d),
             sahip[d] = a, sahip' = sahip
      PROVE  KilitBagi(k)
  BY ONLY <1>7, <1>r, k \in Anahtar DEF durdurIsineBagla, KilitBagi, KilitSatiri
<1>8. CASE kilit' = YaslanKilit(kilit)
  BY ONLY <1>8, <1>r, k \in Anahtar DEF YaslanKilit, KilitBagi, KilitSatiri
<1>. QED BY <1>1, <1>2, <1>3, <1>4, <1>5, <1>6, <1>7, <1>8

\* KilitBagi of every step.
LEMMA BagAdimlari ==
    ASSUME IInv, AitInv, [Next]_vars, NEW k \in Anahtar
    PROVE  KilitBagi(k)
<1>t. TypeOK /\ BagInv
  BY DEF IInv, TipInv
<1>0. ASSUME UNCHANGED kilit PROVE KilitBagi(k)
  BY ONLY <1>0, <1>t, k \in Anahtar, BagIslemleri
<1>1. ASSUME NEW b \in Deneme,
             \/ Istek(b) \/ KilitOku(b) \/ KilitHata(b) \/ SatirYaz(b) \/ BaslatRed(b)
             \/ AwxBaslat(b) \/ SatirGuncelle(b) \/ SatirKontrol(b)
             \/ Durdur(b) \/ DurdurBaslat(b) \/ DurdurYaz(b)
      PROVE  UNCHANGED kilit
  BY ONLY <1>1 DEF Istek, KilitOku, KilitHata, SatirYaz, BaslatRed, AwxBaslat, SatirGuncelle,
          SatirKontrol, Durdur, DurdurBaslat, DurdurYaz
<1>2. ASSUME NEW b \in Deneme,
             \/ SonucOku(b) \/ SonucAl(b) \/ SonucVazgec(b) \/ OtoYaz(b) \/ SonYaz(b)
             \/ YenidenOku(b) \/ BayatKuyruk(b) \/ AwxBiter(b)
      PROVE  UNCHANGED kilit
  BY ONLY <1>2 DEF SonucOku, SonucAl, SonucVazgec, OtoYaz, SonYaz, YenidenOku, BayatKuyruk, AwxBiter
<1>3. ASSUME \/ \E d \in Durdurma : DurdurmaBiter(d)
             \/ Cokme \/ UNCHANGED vars
      PROVE  UNCHANGED kilit
  BY ONLY <1>3 DEF DurdurmaBiter, Cokme, vars
<1>4. ASSUME NEW b \in Deneme, KilitAl(b) \/ KilitTekrar(b) PROVE KilitBagi(k)
  <2>1. UNCHANGED kilit \/ kilit' = casLock(kilit, Siradaki(b), b)
    BY ONLY <1>4 DEF KilitAl, KilitTekrar, AnahtarAlindi
  <2>. QED BY ONLY <1>4, <1>t, <2>1, k \in Anahtar, BagIslemleri
<1>5. ASSUME NEW b \in Deneme, KilitSor(b) PROVE KilitBagi(k)
  <2>1. \/ UNCHANGED kilit
        \/ kilit' = releaseLockById(kilit, Siradaki(b), goz[b].id)
        \/ kilit' = isinKilitleriniCoz(kilit, goz[b].is, Uzatmasiz)
    BY ONLY <1>5 DEF KilitSor
  <2>. QED BY ONLY <1>t, <2>1, k \in Anahtar, BagIslemleri
<1>6. ASSUME NEW b \in Deneme, Birak(b) PROVE KilitBagi(k)
  <2>1. UNCHANGED kilit \/ kilit' = releaseLockById(kilit, kilitAnahtarlari(b)[sira[b]], b)
    BY ONLY <1>6 DEF Birak
  <2>. QED BY ONLY <1>t, <2>1, k \in Anahtar, BagIslemleri
<1>7. ASSUME NEW b \in Deneme, Bagla(b) PROVE KilitBagi(k)
  <2>1. UNCHANGED kilit \/ kilit' = bindLock(kilit, kilitAnahtarlari(b)[sira[b]], b)
    BY ONLY <1>7 DEF Bagla
  <2>. QED BY ONLY <1>7, <1>t, <2>1, k \in Anahtar, BagIslemleri
<1>8. ASSUME NEW b \in Deneme, DurdurBagla(b) PROVE KilitBagi(k)
  <2>1. drd[b].adim = "bagla" /\ kilit' = durdurIsineBagla(kilit, b, drd[b].is) /\ sahip' = sahip
    BY ONLY <1>8 DEF DurdurBagla, awxVars
  <2>2. drd[b].is \in Durdurma /\ drd[b].is # Yok
    BY <1>t, <2>1, KumeVarsayimi DEF BagInv, Is
  <2>3. sahip[drd[b].is] = b
    BY <2>2 DEF AitInv
  <2>. QED BY ONLY <1>8, <1>t, <2>1, <2>2, <2>3, k \in Anahtar, BagIslemleri
<1>9. ASSUME NEW b \in Deneme, OtoBagla(b) PROVE KilitBagi(k)
  <2>1. son[b].adim = "otoBagla" /\ kilit' = durdurIsineBagla(kilit, b, son[b].is) /\ sahip' = sahip
    BY ONLY <1>9 DEF OtoBagla, awxVars
  <2>2. son[b].is \in Durdurma /\ son[b].is # Yok
    BY <1>t, <2>1, KumeVarsayimi DEF BagInv, Is
  <2>3. sahip[son[b].is] = b
    BY <2>2 DEF AitInv
  <2>. QED BY ONLY <1>9, <1>t, <2>1, <2>2, <2>3, k \in Anahtar, BagIslemleri
<1>10. ASSUME NEW b \in Deneme, SonucKilit(b) \/ OtoDurdur(b) PROVE KilitBagi(k)
  <2>1. \/ UNCHANGED kilit
        \/ kilit' = releaseLocksForJob(kilit, b)
        \/ \E n : kilit' = isinKilitleriniCoz(kilit, b, n)
    BY ONLY <1>10 DEF SonucKilit, OtoDurdur, IsBitti
  <2>. QED BY ONLY <1>t, <2>1, k \in Anahtar, BagIslemleri
<1>11. ASSUME NEW j \in Is, KilitSupur(j) PROVE KilitBagi(k)
  <2>1. kilit' = releaseLocksForJob(kilit, j) \/ kilit' = isinKilitleriniCoz(kilit, j, Uzatmasiz)
    BY ONLY <1>11 DEF KilitSupur, IsBitti
  <2>. QED BY ONLY <1>t, <2>1, k \in Anahtar, BagIslemleri
<1>12. CASE Tik
  <2>1. kilit' = YaslanKilit(kilit)
    BY ONLY <1>12 DEF Tik
  <2>. QED BY ONLY <1>t, <2>1, k \in Anahtar, BagIslemleri
<1>. QED BY ONLY [Next]_vars, <1>0, <1>1, <1>2, <1>3, <1>4, <1>5, <1>6, <1>7, <1>8, <1>9, <1>10, <1>11, <1>12
         DEF Next, IstekAdimi, DurdurAdimi, SonucAdimi

\* Where the other locals that name a job or its kind come from.
YanAitKurali(a) ==
    /\ \/ goz'[a] = goz[a] \/ goz'[a].is = Yok
       \/ \E k \in Anahtar : goz'[a] = [id |-> kilit[k].id, is |-> kilit[k].is, tur |-> kilit[k].tur]
    /\ \/ drd'[a].is = drd[a].is \/ drd'[a].is = Yok
       \/ drd'[a].is \in Durdurma /\ sahip'[drd'[a].is] = a
    /\ \/ son'[a].is = son[a].is \/ son'[a].is = Yok
       \/ son'[a].is \in Durdurma /\ sahip'[son'[a].is] = a

\* YanAitKurali of every step.
LEMMA YanAitAdimlari ==
    ASSUME IInv, [Next]_vars, NEW a \in Deneme
    PROVE  YanAitKurali(a)
<1>t. TypeOK /\ AlmaTipi
  BY DEF IInv, TipInv
<1>p. /\ goz \in [Deneme -> Gorulen] /\ drd \in [Deneme -> DurdurIsleyicileri]
      /\ son \in [Deneme -> Sonuclandiricilar] /\ sahip \in [Durdurma -> Deneme \cup {Yok}]
      /\ drd[a] \in DurdurIsleyicileri /\ son[a] \in Sonuclandiricilar
  BY <1>t DEF TypeOK
<1>0. ASSUME goz'[a] = goz[a], drd'[a] = drd[a], son'[a] = son[a] PROVE YanAitKurali(a)
  BY ONLY <1>0 DEF YanAitKurali
<1>1. ASSUME NEW b \in Deneme,
             \/ Istek(b) \/ Birak(b) \/ SatirYaz(b) \/ BaslatRed(b) \/ AwxBaslat(b) \/ Bagla(b)
             \/ SatirGuncelle(b) \/ SatirKontrol(b) \/ YenidenOku(b) \/ BayatKuyruk(b) \/ AwxBiter(b)
      PROVE  UNCHANGED <<goz, drd, son>>
  BY ONLY <1>1 DEF Istek, Birak, SatirYaz, BaslatRed, AwxBaslat, Bagla, SatirGuncelle,
          SatirKontrol, YenidenOku, BayatKuyruk, AwxBiter, istekVars
<1>2. ASSUME \/ \E d \in Durdurma : DurdurmaBiter(d)
             \/ \E j \in Is : KilitSupur(j)
             \/ Tik \/ UNCHANGED vars
      PROVE  UNCHANGED <<goz, drd, son>>
  BY ONLY <1>2 DEF DurdurmaBiter, KilitSupur, Tik, vars, istekVars
<1>3. ASSUME NEW b \in Deneme, KilitAl(b) \/ KilitSor(b) \/ KilitTekrar(b) \/ KilitHata(b)
      PROVE  YanAitKurali(a)
  <2>1. (goz'[a] = goz[a] \/ goz'[a].is = Yok) /\ drd' = drd /\ son' = son
    BY ONLY <1>3, <1>p, a \in Deneme
       DEF KilitAl, KilitSor, KilitTekrar, KilitHata, AnahtarAlindi, GozYok
  <2>. QED BY ONLY <2>1 DEF YanAitKurali
<1>4. ASSUME NEW b \in Deneme, KilitOku(b) PROVE YanAitKurali(a)
  <2>1. Siradaki(b) \in Anahtar
    <3>1. alinan[b] + 1 \in 1 .. AnahtarSayisi(b)
      BY <1>4, <1>t, AnahtarListesi DEF AlmaTipi, KilitOku, AlmaAdimlari, TypeOK
    <3>. QED BY ONLY <3>1, AnahtarListesi, b \in Deneme DEF Siradaki
  <2>2. drd' = drd /\ son' = son
        /\ \/ goz' = goz
           \/ goz' = [goz EXCEPT ![b] = [id |-> kilit[Siradaki(b)].id, is |-> kilit[Siradaki(b)].is,
                                         tur |-> kilit[Siradaki(b)].tur]]
    BY ONLY <1>4 DEF KilitOku
  <2>3. \/ goz'[a] = goz[a]
        \/ goz'[a] = [id |-> kilit[Siradaki(b)].id, is |-> kilit[Siradaki(b)].is,
                      tur |-> kilit[Siradaki(b)].tur]
    BY ONLY <1>p, <2>2, a \in Deneme
  <2>. QED BY ONLY <2>1, <2>2, <2>3 DEF YanAitKurali
<1>5. ASSUME NEW b \in Deneme, Durdur(b) \/ DurdurYaz(b) \/ DurdurBagla(b) PROVE YanAitKurali(a)
  <2>1. (drd'[a].is = drd[a].is \/ drd'[a].is = Yok) /\ goz' = goz /\ son' = son
    BY ONLY <1>5, <1>p, a \in Deneme
       DEF Durdur, DurdurYaz, DurdurBagla, DurdurBos, DurdurIsleyicileri, istekVars
  <2>. QED BY ONLY <2>1 DEF YanAitKurali
<1>6. ASSUME NEW b \in Deneme, DurdurBaslat(b) PROVE YanAitKurali(a)
  <2>1. goz' = goz /\ son' = son
    BY ONLY <1>6 DEF DurdurBaslat, istekVars
  <2>2. drd'[a].is = drd[a].is \/ (drd'[a].is \in Durdurma /\ sahip'[drd'[a].is] = a)
    BY ONLY <1>6, <1>p, a \in Deneme DEF DurdurBaslat, DurdurIsiBaslar, DurdurIsleyicileri
  <2>. QED BY ONLY <2>1, <2>2 DEF YanAitKurali
<1>7. ASSUME NEW b \in Deneme,
             \/ SonucOku(b) \/ SonucAl(b) \/ SonucVazgec(b) \/ SonucKilit(b) \/ OtoYaz(b)
             \/ OtoBagla(b) \/ SonYaz(b)
      PROVE  YanAitKurali(a)
  <2>1. goz' = goz /\ drd' = drd
    BY ONLY <1>7 DEF SonucOku, SonucAl, SonucVazgec, SonucKilit, OtoYaz, OtoBagla, SonYaz, istekVars
  <2>2. ASSUME NEW adim, SonGit(b, adim) PROVE son'[a].is = son[a].is
    BY ONLY <2>2, <1>p, a \in Deneme DEF SonGit, Sonuclandiricilar
  <2>3. CASE SonucOku(b) \/ SonucVazgec(b) \/ SonYaz(b)
    <3>1. \E r : son' = [son EXCEPT ![b] = r] /\ r.is = Yok
      <4>1. SonBos.is = Yok
        BY ONLY DEF SonBos
      <4>2. CASE SonucOku(b)
        <5>. DEFINE r == [adim |-> "okundu", is |-> Yok, durdurYok |-> satir[b].durdur = Yok]
        <5>1. son' = [son EXCEPT ![b] = r]
          BY ONLY <4>2, Zenon DEF SonucOku
        <5>2. r.is = Yok
          BY ONLY SMT
        <5>. HIDE DEF r
        <5>. QED BY ONLY <5>1, <5>2
      <4>3. CASE SonucVazgec(b) \/ SonYaz(b)
        BY ONLY <4>1, <4>3 DEF SonucVazgec, SonYaz
      <4>. QED BY ONLY <2>3, <4>2, <4>3
    <3>2. son'[a].is = son[a].is \/ son'[a].is = Yok
      BY ONLY <3>1, <1>p, a \in Deneme
    <3>. QED BY ONLY <2>1, <3>2 DEF YanAitKurali
  <2>4. CASE SonucAl(b) \/ SonucKilit(b) \/ OtoYaz(b) \/ OtoBagla(b)
    <3>1. \E adim : SonGit(b, adim)
      BY ONLY <2>4 DEF SonucAl, SonucKilit, OtoYaz, OtoBagla
    <3>. QED BY ONLY <2>1, <2>2, <3>1 DEF YanAitKurali
  <2>. QED BY ONLY <1>7, <2>3, <2>4
<1>8. ASSUME NEW b \in Deneme, OtoDurdur(b) PROVE YanAitKurali(a)
  <2>1. goz' = goz /\ drd' = drd
    BY ONLY <1>8 DEF OtoDurdur, istekVars
  <2>2. son'[a].is = son[a].is \/ (son'[a].is \in Durdurma /\ sahip'[son'[a].is] = a)
    BY ONLY <1>8, <1>p, a \in Deneme DEF OtoDurdur, DurdurIsiBaslar, SonGit, Sonuclandiricilar
  <2>. QED BY ONLY <2>1, <2>2 DEF YanAitKurali
<1>9. CASE Cokme
  BY ONLY <1>9, a \in Deneme DEF Cokme, GozYok, DurdurBos, SonBos, YanAitKurali
<1>. QED BY ONLY [Next]_vars, <1>0, <1>1, <1>2, <1>3, <1>4, <1>5, <1>6, <1>7, <1>8, <1>9
         DEF Next, IstekAdimi, DurdurAdimi, SonucAdimi

\* Every step keeps the jobs with their runs.
LEMMA AitAdim == IInv /\ AitInv /\ [Next]_vars => AitInv'
<1>. SUFFICES ASSUME IInv, AitInv, [Next]_vars PROVE AitInv'
  OBVIOUS
<1>t. TypeOK
  BY DEF IInv, TipInv
<1>k. Deneme \cap Durdurma = {} /\ Yok \notin Deneme /\ Yok \notin Durdurma
  BY KumeVarsayimi DEF Is
<1>1. ASSUME NEW k \in Anahtar PROVE KilitAit(kilit[k])'
  <2>. SUFFICES ASSUME kilit'[k].is # Yok
                PROVE  Ait(kilit[k].id, kilit[k].is, kilit[k].tur)'
    BY DEF KilitAit
  <2>1. KilitBagi(k)
    BY <1>1, BagAdimlari
  <2>2. CASE kilit'[k].id = kilit[k].id /\ kilit'[k].is = kilit[k].is /\ kilit'[k].tur = kilit[k].tur
    <3>1. Ait(kilit[k].id, kilit[k].is, kilit[k].tur)
      BY <1>1, <2>2 DEF AitInv, KilitAit
    <3>2. \A i, j, tur : Ait(i, j, tur) => Ait(i, j, tur)'
      BY <1>t, AitKalir
    <3>. QED BY ONLY <2>2, <3>1, <3>2 DEF Ait
  <2>3. CASE kilit'[k].id \in Deneme /\ kilit'[k].is = kilit'[k].id /\ kilit'[k].tur = bagTuruOf(kilit'[k].id)
    BY ONLY <2>3 DEF Ait
  <2>4. CASE /\ kilit'[k].id \in Deneme /\ kilit'[k].is \in Durdurma /\ kilit'[k].tur = "durdur"
             /\ sahip[kilit'[k].is] = kilit'[k].id /\ sahip' = sahip
    BY ONLY <2>4 DEF Ait
  <2>. QED BY ONLY <2>1, <2>2, <2>3, <2>4, kilit'[k].is # Yok DEF KilitBagi
<1>2. ASSUME NEW a \in Deneme, goz'[a].is # Yok PROVE Ait(goz[a].id, goz[a].is, goz[a].tur)'
  <2>0. \A i, j, tur : Ait(i, j, tur) => Ait(i, j, tur)'
    BY <1>t, AitKalir
  <2>1. CASE goz'[a] = goz[a]
    <3>1. Ait(goz[a].id, goz[a].is, goz[a].tur)
      BY <1>2, <2>1 DEF AitInv
    <3>. QED BY ONLY <2>0, <2>1, <3>1 DEF Ait
  <2>2. ASSUME NEW k \in Anahtar,
               goz'[a] = [id |-> kilit[k].id, is |-> kilit[k].is, tur |-> kilit[k].tur]
        PROVE  Ait(goz[a].id, goz[a].is, goz[a].tur)'
    <3>1. goz'[a].id = kilit[k].id /\ goz'[a].is = kilit[k].is /\ goz'[a].tur = kilit[k].tur
      BY ONLY <2>2
    <3>2. Ait(kilit[k].id, kilit[k].is, kilit[k].tur)
      BY <1>2, <3>1 DEF AitInv, KilitAit
    <3>. QED BY ONLY <2>0, <3>1, <3>2 DEF Ait
  <2>3. YanAitKurali(a)
    BY YanAitAdimlari
  <2>. QED BY ONLY <1>2, <2>1, <2>2, <2>3 DEF YanAitKurali
<1>3. ASSUME NEW a \in Deneme, NEW d \in Durdurma, sahip[d] = a PROVE sahip'[d] = a
  <2>1. awx[d] # "yok"
    BY <1>3, <1>k DEF AitInv
  <2>2. SahipKurali(d)
    BY <1>t, SahipAdimlari
  <2>. QED BY ONLY <1>3, <2>1, <2>2 DEF SahipKurali
<1>4. ASSUME NEW a \in Deneme
      PROVE  /\ drd[a].is \in Durdurma \cup {Yok} /\ son[a].is \in Durdurma \cup {Yok}
             /\ drd[a].is # Yok => sahip[drd[a].is] = a
             /\ son[a].is # Yok => sahip[son[a].is] = a
             /\ YanAitKurali(a)
  BY <1>t, YanAitAdimlari DEF AitInv, TypeOK, DurdurIsleyicileri, Sonuclandiricilar
<1>5. ASSUME NEW a \in Deneme, drd'[a].is # Yok PROVE sahip'[drd'[a].is] = a
  BY ONLY <1>3, <1>4, <1>5 DEF YanAitKurali
<1>6. ASSUME NEW a \in Deneme, son'[a].is # Yok PROVE sahip'[son'[a].is] = a
  BY ONLY <1>3, <1>4, <1>6 DEF YanAitKurali
<1>7. ASSUME NEW d \in Durdurma, awx'[d] = "yok" PROVE sahip'[d] = Yok
  <2>1. SahipKurali(d)
    BY <1>t, SahipAdimlari
  <2>2. awx[d] = "yok" => sahip[d] = Yok
    BY DEF AitInv
  <2>. QED BY ONLY <1>7, <2>1, <2>2 DEF SahipKurali
<1>. QED BY ONLY <1>1, <1>2, <1>5, <1>6, <1>7 DEF AitInv

\* A job named in a lock, or known to a handler, is the one of its run or was launched
\* to stop it: bindLocks, durdurIsineBagla and acquireLocks never mix up two runs.
THEOREM AitInvDogru == Spec => []AitInv
<1>1. Init => AitInv
  BY DEF Init, AitInv, KilitAit, BosSatir, GozYok, DurdurBos, SonBos
<1>. QED BY <1>1, AitAdim, IInvDogru, PTL DEF Spec

-----------------------------------------------------------------------------
(***************************************************************************)
(* The locks of a run whose job was cancelled or lost                      *)
(***************************************************************************)

\* No job that is bound to the locks of such a run lets them go: neither its own,
\* nor a stop job before one has succeeded.
LEMMA IsBirakmaz ==
    ASSUME NEW a \in Kosu \cup SunucuAyar, awx[a] \in {"canceled", "error"}, ~DurdurmaBasarili(a),
           NEW j, NEW tur, Ait(a, j, tur)
    PROVE  ~birakilir(tur, awx[j])
<1>1. CASE j = a /\ tur = bagTuruOf(a)
  <2>1. tur # "on_kontrol"
    BY <1>1 DEF bagTuruOf
  <2>. QED BY <1>1, <2>1 DEF birakilir
<1>2. CASE j \in Durdurma /\ sahip[j] = a /\ tur = "durdur"
  BY <1>2 DEF birakilir, DurdurmaBasarili
<1>. QED BY <1>1, <1>2 DEF Ait

\* The lock table operations that leave the holder of a lock alone.
LEMMA TutanIslemler ==
    ASSUME TypeOK, NEW k \in Anahtar, kilit[k].held,
           \/ UNCHANGED kilit
           \/ \E a, key : kilit' = bindLock(kilit, key, a)
           \/ \E j, n : kilit' = isinKilitleriniCoz(kilit, j, n)
           \/ \E a, d : kilit' = durdurIsineBagla(kilit, a, d)
           \/ kilit' = YaslanKilit(kilit)
           \/ \E key, a : kilit' = casLock(kilit, key, a) /\ key # k
           \/ \E key, a : kilit' = releaseLockById(kilit, key, a) /\ (key # k \/ kilit[k].id # a)
           \/ \E j : kilit' = releaseLocksForJob(kilit, j) /\ kilit[k].is # j
    PROVE  kilit'[k].held /\ kilit'[k].id = kilit[k].id
<1>r. kilit \in [Anahtar -> KilitSatiri] /\ kilit[k] \in KilitSatiri
  BY DEF TypeOK
<1>1. CASE UNCHANGED kilit
  BY <1>1
<1>2. ASSUME NEW a, NEW key, kilit' = bindLock(kilit, key, a)
      PROVE  kilit'[k].held /\ kilit'[k].id = kilit[k].id
  BY ONLY <1>2, <1>r, k \in Anahtar, kilit[k].held DEF bindLock, KilitSatiri
<1>3. ASSUME NEW j, NEW n, kilit' = isinKilitleriniCoz(kilit, j, n)
      PROVE  kilit'[k].held /\ kilit'[k].id = kilit[k].id
  BY ONLY <1>3, <1>r, k \in Anahtar, kilit[k].held DEF isinKilitleriniCoz, KilitSatiri
<1>4. ASSUME NEW a, NEW d, kilit' = durdurIsineBagla(kilit, a, d)
      PROVE  kilit'[k].held /\ kilit'[k].id = kilit[k].id
  BY ONLY <1>4, <1>r, k \in Anahtar, kilit[k].held DEF durdurIsineBagla, KilitSatiri
<1>5. CASE kilit' = YaslanKilit(kilit)
  BY ONLY <1>5, <1>r, k \in Anahtar, kilit[k].held DEF YaslanKilit, KilitSatiri
<1>6. ASSUME NEW key, NEW a, kilit' = casLock(kilit, key, a), key # k
      PROVE  kilit'[k].held /\ kilit'[k].id = kilit[k].id
  BY ONLY <1>6, <1>r, k \in Anahtar, kilit[k].held DEF casLock
<1>7. ASSUME NEW key, NEW a, kilit' = releaseLockById(kilit, key, a), key # k \/ kilit[k].id # a
      PROVE  kilit'[k].held /\ kilit'[k].id = kilit[k].id
  BY ONLY <1>7, <1>r, k \in Anahtar, kilit[k].held DEF releaseLockById
<1>8. ASSUME NEW j, kilit' = releaseLocksForJob(kilit, j), kilit[k].is # j
      PROVE  kilit'[k].held /\ kilit'[k].id = kilit[k].id
  BY ONLY <1>8, <1>r, k \in Anahtar, kilit[k].held DEF releaseLocksForJob, BagliMi
<1>. QED BY <1>1, <1>2, <1>3, <1>4, <1>5, <1>6, <1>7, <1>8

\* No step takes an unexpired lock from such a run.
LEMMA TutulmaAdimi ==
    ASSUME IInv, AitInv, [Next]_vars, NEW k \in Anahtar, NEW a \in Kosu \cup SunucuAyar,
           kilit[k].held, kilit[k].id = a, kilit[k].kalan > 0,
           awx[a] \in {"canceled", "error"}, ~DurdurmaBasarili(a)
    PROVE  kilit'[k].held /\ kilit'[k].id = a
<1>t. TypeOK /\ AlmaTipi /\ OnceInv /\ BagInv
  BY DEF IInv, TipInv
<1>a. a \in Deneme
  BY KumeVarsayimi
<1>d. Deneme \cap Durdurma = {} /\ Yok \notin Deneme /\ Yok \notin Durdurma /\ Is = Deneme \cup Durdurma
  BY KumeVarsayimi DEF Is
<1>m. ~Alinabilir(kilit[k])
  <2>1. kilit[k].kalan \in Int
    BY <1>t, SureVarsayimi, SureAraligi DEF TypeOK, KilitSatiri
  <2>. QED BY ONLY <2>1, kilit[k].held, kilit[k].kalan > 0, SureVarsayimi DEF Alinabilir
<1>b. ASSUME NEW j, kilit[k].is = j, j # Yok
      PROVE  (j = a \/ (j \in Durdurma /\ sahip[j] = a)) /\ Ait(a, j, kilit[k].tur)
  BY <1>b DEF AitInv, KilitAit, Ait
<1>0. ASSUME UNCHANGED kilit PROVE kilit'[k].held /\ kilit'[k].id = a
  BY ONLY <1>0, kilit[k].held, kilit[k].id = a
<1>1. ASSUME NEW b \in Deneme,
             \/ Istek(b) \/ KilitOku(b) \/ KilitHata(b) \/ SatirYaz(b) \/ BaslatRed(b)
             \/ AwxBaslat(b) \/ SatirGuncelle(b) \/ SatirKontrol(b)
             \/ Durdur(b) \/ DurdurBaslat(b) \/ DurdurYaz(b)
      PROVE  UNCHANGED kilit
  BY ONLY <1>1 DEF Istek, KilitOku, KilitHata, SatirYaz, BaslatRed, AwxBaslat, SatirGuncelle,
          SatirKontrol, Durdur, DurdurBaslat, DurdurYaz
<1>2. ASSUME NEW b \in Deneme,
             \/ SonucOku(b) \/ SonucAl(b) \/ SonucVazgec(b) \/ OtoYaz(b) \/ SonYaz(b)
             \/ YenidenOku(b) \/ BayatKuyruk(b) \/ AwxBiter(b)
      PROVE  UNCHANGED kilit
  BY ONLY <1>2 DEF SonucOku, SonucAl, SonucVazgec, OtoYaz, SonYaz, YenidenOku, BayatKuyruk, AwxBiter
<1>3. ASSUME \/ \E d \in Durdurma : DurdurmaBiter(d)
             \/ Cokme \/ UNCHANGED vars
      PROVE  UNCHANGED kilit
  BY ONLY <1>3 DEF DurdurmaBiter, Cokme, vars
<1>4. ASSUME NEW b \in Deneme, KilitAl(b) \/ KilitTekrar(b) PROVE kilit'[k].held /\ kilit'[k].id = a
  <2>1. UNCHANGED kilit \/ (kilit' = casLock(kilit, Siradaki(b), b) /\ Alinabilir(kilit[Siradaki(b)]))
    BY ONLY <1>4 DEF KilitAl, KilitTekrar, AnahtarAlindi
  <2>2. CASE kilit' = casLock(kilit, Siradaki(b), b) /\ Alinabilir(kilit[Siradaki(b)])
    <3>1. Siradaki(b) # k
      BY ONLY <1>m, <2>2
    <3>. QED BY ONLY <1>t, <2>2, <3>1, k \in Anahtar, kilit[k].held, kilit[k].id = a, TutanIslemler
  <2>. QED BY ONLY <1>0, <2>1, <2>2
<1>5. ASSUME NEW b \in Deneme, KilitSor(b) PROVE kilit'[k].held /\ kilit'[k].id = a
  <2>1. \/ /\ birakilir(goz[b].tur, awx[goz[b].is])
           /\ kilit' = releaseLockById(kilit, Siradaki(b), goz[b].id)
        \/ UNCHANGED kilit
        \/ kilit' = isinKilitleriniCoz(kilit, goz[b].is, Uzatmasiz)
    BY ONLY <1>5 DEF KilitSor
  <2>2. Ait(goz[b].id, goz[b].is, goz[b].tur)
    <3>1. goz[b].is # Yok
      BY <1>5, <1>t DEF KilitSor, AlmaTipi
    <3>. QED BY <3>1 DEF AitInv
  <2>3. CASE /\ birakilir(goz[b].tur, awx[goz[b].is])
             /\ kilit' = releaseLockById(kilit, Siradaki(b), goz[b].id)
    <3>1. goz[b].id # a
      BY <2>2, <2>3, IsBirakmaz
    <3>. QED BY ONLY <1>t, <2>3, <3>1, k \in Anahtar, kilit[k].held, kilit[k].id = a, TutanIslemler
  <2>. QED BY ONLY <1>t, <2>1, <2>3, k \in Anahtar, kilit[k].held, kilit[k].id = a, TutanIslemler
<1>6. ASSUME NEW b \in Deneme, Birak(b) PROVE kilit'[k].held /\ kilit'[k].id = a
  <2>1. pc[b] = "birak"
        /\ (UNCHANGED kilit \/ kilit' = releaseLockById(kilit, kilitAnahtarlari(b)[sira[b]], b))
    BY ONLY <1>6 DEF Birak
  <2>2. b # a
    BY <1>a, <1>t, <2>1 DEF OnceInv
  <2>. QED BY ONLY <1>t, <2>1, <2>2, k \in Anahtar, kilit[k].held, kilit[k].id = a, TutanIslemler
<1>7. ASSUME NEW b \in Deneme, Bagla(b) PROVE kilit'[k].held /\ kilit'[k].id = a
  <2>1. UNCHANGED kilit \/ kilit' = bindLock(kilit, kilitAnahtarlari(b)[sira[b]], b)
    BY ONLY <1>7 DEF Bagla
  <2>. QED BY ONLY <1>t, <2>1, k \in Anahtar, kilit[k].held, kilit[k].id = a, TutanIslemler
<1>8. ASSUME NEW b \in Deneme, DurdurBagla(b) \/ OtoBagla(b) PROVE kilit'[k].held /\ kilit'[k].id = a
  <2>1. \E d : kilit' = durdurIsineBagla(kilit, b, d)
    BY ONLY <1>8 DEF DurdurBagla, OtoBagla
  <2>. QED BY ONLY <1>t, <2>1, k \in Anahtar, kilit[k].held, kilit[k].id = a, TutanIslemler
<1>9. ASSUME NEW b \in Deneme, OtoDurdur(b) PROVE kilit'[k].held /\ kilit'[k].id = a
  <2>1. UNCHANGED kilit \/ kilit' = isinKilitleriniCoz(kilit, b, Uzatma)
    BY ONLY <1>9 DEF OtoDurdur
  <2>. QED BY ONLY <1>t, <2>1, k \in Anahtar, kilit[k].held, kilit[k].id = a, TutanIslemler
<1>10. ASSUME NEW b \in Deneme, SonucKilit(b) PROVE kilit'[k].held /\ kilit'[k].id = a
  <2>1. \/ UNCHANGED kilit
        \/ birakilir(bagTuruOf(b), awx[b]) /\ kilit' = releaseLocksForJob(kilit, b)
        \/ \E n : kilit' = isinKilitleriniCoz(kilit, b, n)
    BY ONLY <1>10 DEF SonucKilit, IsBitti
  <2>2. CASE birakilir(bagTuruOf(b), awx[b]) /\ kilit' = releaseLocksForJob(kilit, b)
    <3>1. b # a
      <4>1. Ait(a, a, bagTuruOf(a))
        BY <1>a DEF Ait
      <4>. QED BY <2>2, <4>1, IsBirakmaz
    <3>2. kilit[k].is # b
      BY <1>b, <1>d, <3>1
    <3>. QED BY ONLY <1>t, <2>2, <3>2, k \in Anahtar, kilit[k].held, kilit[k].id = a, TutanIslemler
  <2>. QED BY ONLY <1>t, <2>1, <2>2, k \in Anahtar, kilit[k].held, kilit[k].id = a, TutanIslemler
<1>11. ASSUME NEW j \in Is, KilitSupur(j) PROVE kilit'[k].held /\ kilit'[k].id = a
  <2>1. PICK l \in Anahtar :
            kilit[l].is = j /\ kilit' = IsBitti(kilit, j, kilit[l].tur, awx[j], Uzatmasiz)
    BY <1>11 DEF KilitSupur, BagliMi
  <2>2. CASE birakilir(kilit[l].tur, awx[j])
    <3>1. kilit' = releaseLocksForJob(kilit, j)
      BY ONLY <2>1, <2>2 DEF IsBitti
    <3>2. ASSUME kilit[k].is = j PROVE FALSE
      <4>1. Ait(kilit[l].id, j, kilit[l].tur)
        BY <1>d, <2>1 DEF AitInv, KilitAit
      <4>2. j = a \/ (j \in Durdurma /\ sahip[j] = a)
        BY <1>b, <1>d, <3>2
      <4>3. kilit[l].id = a
        BY ONLY <1>a, <1>d, <4>1, <4>2 DEF Ait
      <4>. QED BY <2>2, <4>1, <4>3, IsBirakmaz
    <3>. QED BY ONLY <1>t, <3>1, <3>2, k \in Anahtar, kilit[k].held, kilit[k].id = a, TutanIslemler
  <2>3. CASE ~birakilir(kilit[l].tur, awx[j])
    <3>1. kilit' = isinKilitleriniCoz(kilit, j, Uzatmasiz)
      BY ONLY <2>1, <2>3 DEF IsBitti
    <3>. QED BY ONLY <1>t, <3>1, k \in Anahtar, kilit[k].held, kilit[k].id = a, TutanIslemler
  <2>. QED BY ONLY <2>2, <2>3
<1>12. CASE Tik
  <2>1. kilit' = YaslanKilit(kilit)
    BY ONLY <1>12 DEF Tik
  <2>. QED BY ONLY <1>t, <2>1, k \in Anahtar, kilit[k].held, kilit[k].id = a, TutanIslemler
<1>. QED BY ONLY [Next]_vars, <1>0, <1>1, <1>2, <1>3, <1>4, <1>5, <1>6, <1>7, <1>8, <1>9, <1>10, <1>11, <1>12
         DEF Next, IstekAdimi, DurdurAdimi, SonucAdimi

\* IS BITTI != YUK BITTI (kilit.cjs:19), for every number of runs, stop jobs, presses and
\* faults: while a lock of a run whose job was cancelled or lost has time left, nobody gets
\* it before a stop job of that run has succeeded.
THEOREM KilitTutulurDogru == Spec => KilitTutulur
<1>1. IInv /\ AitInv /\ [Next]_vars =>
        [\A k \in Anahtar, a \in Kosu \cup SunucuAyar :
            /\ kilit[k].held /\ kilit[k].id = a /\ kilit[k].kalan > 0
            /\ awx[a] \in {"canceled", "error"} /\ ~DurdurmaBasarili(a)
            => kilit'[k].held /\ kilit'[k].id = a]_vars
  BY TutulmaAdimi
<1>. QED BY <1>1, IInvDogru, AitInvDogru, PTL DEF Spec, KilitTutulur
=============================================================================
