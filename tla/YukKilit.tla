------------------------------ MODULE YukKilit ------------------------------
(***************************************************************************)
(* The lock table of the Nginx load test (nginx_loadtest_kilitleri).       *)
(*                                                                         *)
(* Every operation of server/nginx-loadtest/kilit.cjs is ONE conditional   *)
(* UPDATE, so each is a function from the table to the table here.  The    *)
(* module has no state of its own: YukTesti composes the operations with   *)
(* the handlers that call them.                                            *)
(*                                                                         *)
(* Time.  locked_until is kept as `kalan`, the whole ticks left until it   *)
(* (rounded up): 0 or less means the lock has lapsed, -YarimGun or less    *)
(* that it lapsed twelve hours ago.                                        *)
(***************************************************************************)
EXTENDS Integers, Sequences

CONSTANTS
    Deneme,            \* start requests; each one is its own lock_id
    Durdurma,          \* AWX job numbers of stop jobs
    Kosu,              \* the requests that are load runs (the others: on_kontrol)
    Serbest,           \* the requests whose target is not a managed server
    SunucuAyar,        \* the requests that change the configuration of the target
    Global,            \* the key G|global
    Hedef,             \* Hedef[a]: the T|... key of request a
    YukMakinesi,       \* YukMakinesi[a]: the L|... key of request a
    Yok,               \* SQL NULL
    KilitSuresi,       \* kilitSuresiDk, in ticks
    SablonZamanAsimi,  \* SABLON_ZAMAN_ASIMI_DK, in ticks
    Uzatma,            \* run budget + KILIT_EK_SN, in ticks
    YarimGun           \* the 12 hours of casLock, in ticks

Anahtar == {Global} \cup {Hedef[a] : a \in Deneme} \cup {YukMakinesi[a] : a \in Deneme}

\* A run has exactly one AWX job, named by the request that launched it.
Is == Deneme \cup Durdurma

BagTurleri == {"on_kontrol", "onk_srv", "kosu", "durdur"}

\* The longest time a lock can have left: taken for KilitSuresi, or extended.
EnUzunSure == IF KilitSuresi > Uzatma THEN KilitSuresi ELSE Uzatma

ASSUME KumeVarsayimi ==
    /\ Kosu \subseteq Deneme /\ Serbest \subseteq Deneme /\ SunucuAyar \subseteq Deneme
    /\ Deneme \cap Durdurma = {}
    /\ Yok \notin Is

\* kilitSuresiDk never returns less than SABLON_ZAMAN_ASIMI_DK + 5.
ASSUME SureVarsayimi ==
    /\ SablonZamanAsimi \in Nat /\ KilitSuresi \in Nat
    /\ Uzatma \in Nat /\ YarimGun \in Nat \ {0}
    /\ KilitSuresi > SablonZamanAsimi

-----------------------------------------------------------------------------

\* kilitAnahtarlari: the keys of a request in the order they are taken.
kilitAnahtarlari(a) ==
    IF a \in Kosu \cup Serbest THEN <<Global, Hedef[a], YukMakinesi[a]>>
                               ELSE <<Hedef[a], YukMakinesi[a]>>

AnahtarSayisi(a) == Len(kilitAnahtarlari(a))

Anahtarlari(a) == {kilitAnahtarlari(a)[i] : i \in 1..AnahtarSayisi(a)}

\* A row keeps its columns when it is released (only casLock clears them); its
\* clock is not read before the next casLock and is put to 0.
KilitSatiri ==
    [held  : BOOLEAN,
     id    : Deneme \cup {Yok},
     kalan : (-YarimGun) .. EnUzunSure,
     is    : Is \cup {Yok},
     tur   : BagTurleri \cup {Yok}]

BosSatir == [held |-> FALSE, id |-> Yok, kalan |-> 0, is |-> Yok, tur |-> Yok]

\* bagTuruOf: the kind of job a lock is bound to.
bagTuruOf(a) ==
    IF a \in Kosu THEN "kosu"
    ELSE IF a \in SunucuAyar THEN "onk_srv" ELSE "on_kontrol"

\* MUTANT of birakilir: a failed stop job frees its locks too.
DurdurmaBitinceBirakir(tur, durum) ==
    \/ durum \in {"successful", "failed"}
    \/ durum \in {"canceled", "error"} /\ tur = "on_kontrol"

\* bagliIsKarari: may the locks bound to a finished job be freed?  An AWX job
\* that was cancelled or lost does not stop the load it left on the hosts.
birakilir(tur, durum) ==
    \/ durum = "successful"
    \/ durum = "failed" /\ tur # "durdur"
    \/ durum \in {"canceled", "error"} /\ tur = "on_kontrol"

\* MUTANT of Alinabilir: an unbound lock lapses one tick early.
ErkenAlinir(satir) ==
    \/ ~satir.held
    \/ satir.kalan <= 1 /\ satir.is = Yok
    \/ satir.kalan <= -YarimGun

\* MUTANT of Alinabilir: without the twelve hours, a bound lock never lapses.
BagliHicAlinmaz(satir) == ~satir.held \/ (satir.kalan <= 0 /\ satir.is = Yok)

\* The WHERE clause of casLock.
Alinabilir(satir) ==
    \/ ~satir.held
    \/ satir.kalan <= 0 /\ satir.is = Yok
    \/ satir.kalan <= -YarimGun

casLock(kilit, k, a) ==
    [kilit EXCEPT ![k] =
        [held |-> TRUE, id |-> a, kalan |-> KilitSuresi, is |-> Yok, tur |-> Yok]]

Birakilmis(satir) == [satir EXCEPT !.held = FALSE, !.kalan = 0]

releaseLockById(kilit, k, a) ==
    IF kilit[k].held /\ kilit[k].id = a
    THEN [kilit EXCEPT ![k] = Birakilmis(@)] ELSE kilit

\* One iteration of bindLocks.
bindLock(kilit, k, a) ==
    IF kilit[k].held /\ kilit[k].id = a
    THEN [kilit EXCEPT ![k].is = a, ![k].tur = bagTuruOf(a)]
    ELSE kilit

BagliMi(satir, j) == satir.held /\ satir.is = j

releaseLocksForJob(kilit, j) ==
    [k \in Anahtar |->
        IF BagliMi(kilit[k], j) THEN Birakilmis(kilit[k]) ELSE kilit[k]]

\* MUTANT of EnAz: the extension is added to what is left.
SureToplanir(kalan, n) == kalan + n

\* SURE_UZAT never shortens.
EnAz(kalan, n) == IF kalan < n THEN n ELSE kalan
Uzatmasiz == -YarimGun

isinKilitleriniCoz(kilit, j, n) ==
    [k \in Anahtar |->
        IF BagliMi(kilit[k], j)
        THEN [kilit[k] EXCEPT !.is = Yok, !.tur = Yok, !.kalan = EnAz(@, n)]
        ELSE kilit[k]]

durdurIsineBagla(kilit, a, d) ==
    [k \in Anahtar |->
        IF kilit[k].held /\ kilit[k].id = a
        THEN [kilit[k] EXCEPT !.is = d, !.tur = "durdur", !.kalan = EnAz(@, Uzatma)]
        ELSE kilit[k]]

\* What the sweep, the finaliser and a competing request do to the locks of a
\* finished job: free them, or keep them without the job until they lapse.
IsBitti(kilit, j, tur, durum, n) ==
    IF birakilir(tur, durum) THEN releaseLocksForJob(kilit, j)
                             ELSE isinKilitleriniCoz(kilit, j, n)

\* One tick.
YaslanKilit(kilit) ==
    [k \in Anahtar |->
        IF kilit[k].held /\ kilit[k].kalan > -YarimGun
        THEN [kilit[k] EXCEPT !.kalan = @ - 1] ELSE kilit[k]]
=============================================================================
