------------------------------- MODULE ScaleX -------------------------------
(***************************************************************************)
(* ScaleX: applications are stopped on a cluster and restored by AWX jobs. *)
(* The portal keeps a mirror of what it stopped (scalex_state_mirror),     *)
(* whose `phase` is also the restore lock, and one row per cluster of each *)
(* request (scalex_operations).  POST /run locks, asks the gates, launches *)
(* and writes the rows; finalizeOperation, called by every browser that    *)
(* polls the job and by the reconciler, writes the mirror; the reconciler  *)
(* adopts approved and scheduled jobs and frees orphan locks; a discovery  *)
(* scan removes the mirror rows of applications it saw running.            *)
(*                                                                         *)
(* A target is an application on a cluster, and each target of a request   *)
(* is on a cluster of its own.  A handler is a program counter and one     *)
(* action per awaited statement that reads or writes shared state.         *)
(***************************************************************************)
EXTENDS Integers, Sequences, FiniteSets, Functions

CONSTANTS
    Islem,          \* requests (POST /run with execution mode apply)
    GeriAlma,       \* those that restore; the others stop
    Hedef,          \* targets
    Hedefler,       \* Hedefler[o]: the targets of o in the order of the loops
    Sonuclandiran,  \* callers of finalizeOperation: browsers, the reconciler
    Yok,
    EnCokAriza,     \* bound: faults (restarts, failed statements) in a behaviour
    EnCokIptal,     \* bound: cancellations in a behaviour
    EnCokTarama     \* bound: discovery scans in a behaviour

\* resolveScope makes clusters and applications unique before the loops.
ASSUME IslemVarsayimi ==
    /\ GeriAlma \subseteq Islem
    /\ Hedefler \in [Islem -> Seq(Hedef)]
    /\ \A o \in Islem : Len(Hedefler[o]) > 0 /\ IsInjective(Hedefler[o])
    /\ Yok \notin Islem

ASSUME SinirVarsayimi == EnCokAriza \in Nat /\ EnCokIptal \in Nat /\ EnCokTarama \in Nat

VARIABLES
    ayna,     \* the mirror: phase (and lock) and restore_attempts of a target
    satir,    \* satir[o][t]: status of the row of o for the cluster of t
    awx,      \* the AWX job of a request
    sonuc,    \* what the job published: nothing, or the targets it changed
    bilet,    \* SMART ticket or OCO schedule of a request
    calisir,  \* calisir[t]: does the application run on its cluster?
    istek,    \* where POST /run stands
    fin,      \* where a call of finalizeOperation stands
    supur,    \* where releaseOrphanRestoreLocks stands
    tarama,   \* a discovery scan and its refreshDrift
    sahip,    \* history: the request that locked the target last
    ariza,    \* faults so far
    iptal,    \* cancellations so far
    taranan   \* scans so far

vars == <<ayna, satir, awx, sonuc, bilet, calisir, istek, fin, supur, tarama,
          sahip, ariza, iptal, taranan>>

HedefKumesi(o) == Range(Hedefler[o])

-----------------------------------------------------------------------------
BekleyenDurumlar == {"PENDING_APPROVAL", "SCHEDULED"}
AcikDurumlar == BekleyenDurumlar \cup {"RUNNING"}
SonDurumlar == {"FINISHED", "CANCELLED", "FAILED", "UNKNOWN"}

\* A target without a row has no attempts.
AynaYok == [faz |-> "yok", deneme |-> 0]
AynaSatiri == {AynaYok} \cup [faz : {"scaled_down", "restoring"}, deneme : Nat]
AynaDurdu == [faz |-> "scaled_down", deneme |-> 0]

Istekler ==
    [adim : {"bos", "kilit", "bak", "kapi", "baslat", "yaz", "birak", "ret", "bitti"},
     sira : Nat,
     alinan : Seq(Hedef),          \* acquired
     mesgul : BOOLEAN,             \* busy is not empty
     hata : BOOLEAN,               \* an unlock failed and was only logged
     durum : AcikDurumlar \cup {"yok"}]   \* status of the rows to write
IstekBos == [adim |-> "bos", sira |-> 1, alinan |-> <<>>, mesgul |-> FALSE,
             hata |-> FALSE, durum |-> "yok"]

Finler == [adim : {"bos", "yaz", "ayna"}, is : Islem \cup {Yok}, sira : Nat]
FinBos == [adim |-> "bos", is |-> Yok, sira |-> 1]

\* eski is history: the open restore rows of the listed targets at the listing.
Supurmeler ==
    [adim : {"bos", "islem", "birak"}, kilitli : SUBSET Hedef,
     eski : SUBSET (Islem \X Hedef)]
SupurBos == [adim |-> "bos", kilitli |-> {}, eski |-> {}]

\* canli: the targets the scan saw running; sil: the rows to be removed.
Taramalar == [adim : {"bos", "tarandi", "sil"}, canli : SUBSET Hedef]
TaramaBos == [adim |-> "bos", canli |-> {}]

TypeOK ==
    /\ ayna \in [Hedef -> AynaSatiri]
    /\ satir \in [Islem -> [Hedef -> AcikDurumlar \cup SonDurumlar \cup {"yok"}]]
    /\ awx \in [Islem -> {"yok", "surer", "bitti"}]
    /\ sonuc \in [Islem -> [yayin : BOOLEAN, ok : SUBSET Hedef]]
    /\ bilet \in [Islem -> {"yok", "bekler", "basladi", "kapandi"}]
    /\ calisir \in [Hedef -> BOOLEAN]
    /\ istek \in [Islem -> Istekler]
    /\ fin \in [Sonuclandiran -> Finler]
    /\ supur \in Supurmeler
    /\ tarama \in Taramalar
    /\ sahip \in [Hedef -> Islem \cup {Yok}]
    /\ ariza \in 0 .. EnCokAriza
    /\ iptal \in 0 .. EnCokIptal
    /\ taranan \in 0 .. EnCokTarama

\* An application runs, or was stopped through the portal (it has a mirror row)
\* or by hand (it has none).
Init ==
    /\ calisir \in [Hedef -> BOOLEAN]
    /\ ayna \in [Hedef -> {AynaYok, AynaDurdu}]
    /\ \A t \in Hedef : calisir[t] => ayna[t] = AynaYok
    /\ satir = [o \in Islem |-> [t \in Hedef |-> "yok"]]
    /\ awx = [o \in Islem |-> "yok"]
    /\ sonuc = [o \in Islem |-> [yayin |-> FALSE, ok |-> {}]]
    /\ bilet = [o \in Islem |-> "yok"]
    /\ istek = [o \in Islem |-> IstekBos]
    /\ fin = [f \in Sonuclandiran |-> FinBos]
    /\ supur = SupurBos
    /\ tarama = TaramaBos
    /\ sahip = [t \in Hedef |-> Yok]
    /\ ariza = 0
    /\ iptal = 0
    /\ taranan = 0

-----------------------------------------------------------------------------
\* Mirror statements

Ariza == ariza < EnCokAriza /\ ariza' = ariza + 1
ArizaYok == UNCHANGED ariza

unlockRestore(s) == IF s.faz = "restoring" THEN [s EXCEPT !.faz = "scaled_down"] ELSE s

\* The MERGE leaves restore_attempts of a row that is there.
upsertStopped(s) == [s EXCEPT !.faz = "scaled_down"]

\* MUTANT of recordRestoreFailure: counts for a target without a row.
KayitsizSayilir(s) ==
    [faz |-> IF s.faz = "restoring" THEN "scaled_down" ELSE s.faz, deneme |-> s.deneme + 1]

recordRestoreFailure(s) ==
    IF s.faz = "yok" THEN s ELSE [faz |-> "scaled_down", deneme |-> s.deneme + 1]

-----------------------------------------------------------------------------
\* POST /run

SiradakiHedef(o) == Hedefler[o][istek[o].sira]

IstekVerileri == <<awx, sonuc, bilet, calisir, fin, supur, tarama, iptal, taranan>>

Istek(o) ==
    /\ istek[o].adim = "bos"
    /\ istek' = [istek EXCEPT ![o].adim = IF o \in GeriAlma THEN "kilit" ELSE "kapi"]
    /\ UNCHANGED <<ayna, satir, sahip, ariza, IstekVerileri>>

\* MUTANT of Ilerle: a busy target is skipped and the rest is restored.
MesgulAtlanir(o, i) ==
    istek' = [istek EXCEPT ![o] = [i EXCEPT
        !.sira = IF @ = Len(Hedefler[o]) THEN 1 ELSE @ + 1,
        !.adim = IF i.sira < Len(Hedefler[o]) THEN "kilit"
                 ELSE IF i.mesgul THEN "ret" ELSE "kapi"]]

\* acquireRestoreLocks goes on to the next target with the outcome i of this
\* one, and gives everything back at the end if one was busy.
Ilerle(o, i) ==
    istek' = [istek EXCEPT ![o] = [i EXCEPT
        !.sira = IF @ = Len(Hedefler[o]) THEN 1 ELSE @ + 1,
        !.adim = IF i.sira < Len(Hedefler[o]) THEN "kilit"
                 ELSE IF i.mesgul THEN "birak" ELSE "kapi"]]

\* tryLockRestore, the compare-and-set.
KilitDene(o) ==
    LET t == SiradakiHedef(o) IN
    /\ istek[o].adim = "kilit"
    /\ \/ /\ ayna[t].faz = "scaled_down"
          /\ ayna' = [ayna EXCEPT ![t].faz = "restoring"]
          /\ sahip' = [sahip EXCEPT ![t] = o]
          /\ Ilerle(o, [istek[o] EXCEPT !.alinan = Append(@, t)])
       \/ /\ ayna[t].faz # "scaled_down"
          /\ istek' = [istek EXCEPT ![o].adim = "bak"]
          /\ UNCHANGED <<ayna, sahip>>
    /\ UNCHANGED <<satir, ariza, IstekVerileri>>

\* tryLockRestore, the SELECT: busy, or absent and none of our business.
KilitBak(o) ==
    /\ istek[o].adim = "bak"
    /\ Ilerle(o, [istek[o] EXCEPT !.mesgul = @ \/ ayna[SiradakiHedef(o)].faz # "yok"])
    /\ UNCHANGED <<ayna, satir, sahip, ariza, IstekVerileri>>

\* A database error here leaves the locks taken so far to the sweep.
KilitHata(o) ==
    /\ istek[o].adim \in {"kilit", "bak"}
    /\ istek' = [istek EXCEPT ![o].adim = "bitti"]
    /\ Ariza
    /\ UNCHANGED <<ayna, satir, sahip, IstekVerileri>>

\* releaseRestoreLocks: by target, whoever holds it; an error is only logged.
Birak(o) ==
    /\ istek[o].adim = "birak"
    /\ \/ /\ istek[o].alinan # <<>>
          /\ \/ ayna' = [ayna EXCEPT ![Head(istek[o].alinan)] = unlockRestore(@)]
                /\ istek' = [istek EXCEPT ![o].alinan = Tail(@)] /\ ArizaYok
             \/ istek' = [istek EXCEPT ![o].alinan = Tail(@), ![o].hata = TRUE]
                /\ Ariza /\ UNCHANGED ayna
       \/ /\ istek[o].alinan = <<>>
          /\ istek' = [istek EXCEPT ![o].adim = "ret"]
          /\ UNCHANGED <<ayna, ariza>>
    /\ UNCHANGED <<satir, sahip, IstekVerileri>>

Gider(o, adim, durum) ==
    istek' = [istek EXCEPT ![o].adim = adim, ![o].durum = durum]

\* runScaleXGates: go on, refuse, wait for the SMART ticket (the lock is kept)
\* or, for a stop, schedule the job for the window of the change.
Kapi(o) ==
    /\ istek[o].adim = "kapi"
    /\ \/ Gider(o, "baslat", "yok") /\ UNCHANGED bilet
       \/ Gider(o, "birak", "yok") /\ UNCHANGED bilet
       \/ Gider(o, "yaz", "PENDING_APPROVAL") /\ bilet' = [bilet EXCEPT ![o] = "bekler"]
       \/ /\ o \notin GeriAlma
          /\ Gider(o, "yaz", "SCHEDULED") /\ bilet' = [bilet EXCEPT ![o] = "bekler"]
    /\ UNCHANGED <<ayna, satir, awx, sonuc, calisir, fin, supur, tarama, sahip, ariza, iptal, taranan>>

\* launchOnAwx.  A launch that was not answered counts as refused.
Baslat(o) ==
    /\ istek[o].adim = "baslat"
    /\ \/ Gider(o, "yaz", "RUNNING") /\ awx' = [awx EXCEPT ![o] = "surer"] /\ ArizaYok
       \/ Gider(o, "birak", "yok") /\ UNCHANGED awx /\ ArizaYok
       \/ Gider(o, "birak", "yok") /\ awx' = [awx EXCEPT ![o] = "surer"] /\ Ariza
    /\ UNCHANGED <<ayna, satir, sonuc, bilet, calisir, fin, supur, tarama, sahip, iptal, taranan>>

\* insertOperationRows, one cluster at a time.  An error on the approval path is
\* an error of the gates (the locks are released); after the launch it is not.
SatirYaz(o) ==
    /\ istek[o].adim = "yaz"
    /\ \/ /\ satir' = [satir EXCEPT ![o][SiradakiHedef(o)] = istek[o].durum]
          /\ istek' = IF istek[o].sira < Len(Hedefler[o])
                      THEN [istek EXCEPT ![o].sira = @ + 1]
                      ELSE [istek EXCEPT ![o].adim = "bitti"]
          /\ ArizaYok
       \/ /\ istek' = [istek EXCEPT ![o].adim =
                            IF istek[o].durum = "RUNNING" THEN "bitti" ELSE "birak"]
          /\ Ariza
          /\ UNCHANGED satir
    /\ UNCHANGED <<ayna, sahip, IstekVerileri>>

-----------------------------------------------------------------------------
\* finalizeOperation

FinDegismez == <<awx, sonuc, bilet, calisir, istek, supur, tarama, sahip, iptal, taranan>>

\* The rows are read once and nothing is done unless one of them is RUNNING.
FinOku(f, o) ==
    /\ fin[f].adim = "bos"
    /\ awx[o] = "bitti"
    /\ \E t \in Hedef : satir[o][t] = "RUNNING"
    /\ fin' = [fin EXCEPT ![f] = [adim |-> "yaz", is |-> o, sira |-> 1]]
    /\ UNCHANGED <<ayna, satir, ariza, FinDegismez>>

\* How many rows the UPDATE changed is not looked at.
FinYaz(f) ==
    LET o == fin[f].is IN
    /\ fin[f].adim = "yaz"
    /\ \/ /\ satir' = [satir EXCEPT ![o] =
                [t \in Hedef |-> IF satir[o][t] = "RUNNING" THEN "FINISHED" ELSE satir[o][t]]]
          /\ fin' = IF sonuc[o].yayin THEN [fin EXCEPT ![f].adim = "ayna"]
                                      ELSE [fin EXCEPT ![f] = FinBos]
          /\ ArizaYok
       \/ fin' = [fin EXCEPT ![f] = FinBos] /\ Ariza /\ UNCHANGED satir
    /\ UNCHANGED <<ayna, FinDegismez>>

\* What the finaliser writes for target t of o.
AynayaYazilan(o, t) ==
    IF o \in GeriAlma
    THEN IF t \in sonuc[o].ok THEN AynaYok ELSE recordRestoreFailure(ayna[t])
    ELSE IF t \in sonuc[o].ok THEN upsertStopped(ayna[t]) ELSE ayna[t]

\* The targets one by one.  Only an error of recordRestoreFailure is survived.
FinAyna(f) ==
    LET o == fin[f].is
        t == Hedefler[o][fin[f].sira]
        sonraki == IF fin[f].sira < Len(Hedefler[o])
                   THEN [fin EXCEPT ![f].sira = @ + 1] ELSE [fin EXCEPT ![f] = FinBos]
    IN
    /\ fin[f].adim = "ayna"
    /\ \/ /\ ayna' = [ayna EXCEPT ![t] = AynayaYazilan(o, t)]
          /\ fin' = sonraki
          /\ ArizaYok
       \/ /\ fin' = IF o \in GeriAlma /\ t \notin sonuc[o].ok
                    THEN sonraki ELSE [fin EXCEPT ![f] = FinBos]
          /\ Ariza
          /\ UNCHANGED ayna
    /\ UNCHANGED <<satir, FinDegismez>>

-----------------------------------------------------------------------------
\* The reconciler and POST /cancel

SatirDegismez == <<ayna, awx, sonuc, bilet, calisir, istek, fin, supur, tarama, sahip, taranan>>

\* UPDATE ... SET status = yeni WHERE (rows of o) AND status = eski
Guncelle(o, eski, yeni) ==
    satir' = [satir EXCEPT ![o] =
                [t \in Hedef |-> IF satir[o][t] = eski THEN yeni ELSE satir[o][t]]]

\* MUTANT of Devral: schedules are not looked at.
YalnizBiletler(o) ==
    /\ \E t \in Hedef : satir[o][t] = "PENDING_APPROVAL"
    /\ \/ bilet[o] = "basladi" /\ Guncelle(o, "PENDING_APPROVAL", "RUNNING")
       \/ bilet[o] = "kapandi" /\ Guncelle(o, "PENDING_APPROVAL", "CANCELLED")
    /\ UNCHANGED <<ariza, iptal, SatirDegismez>>

\* adoptApprovedTickets and adoptScheduledLaunches, for one ticket or schedule.
Devral(o) ==
    /\ \E d \in BekleyenDurumlar :
        /\ \E t \in Hedef : satir[o][t] = d
        /\ \/ bilet[o] = "basladi" /\ Guncelle(o, d, "RUNNING")
           \/ bilet[o] = "kapandi" /\ Guncelle(o, d, "CANCELLED")
           \/ bilet[o] = "kapandi" /\ d = "SCHEDULED" /\ Guncelle(o, d, "FAILED")
    /\ UNCHANGED <<ariza, iptal, SatirDegismez>>

\* markStale: the state of the job cannot be read for long, or ever.
Bayat(o) ==
    /\ \E t \in Hedef : satir[o][t] = "RUNNING"
    /\ Guncelle(o, "RUNNING", "UNKNOWN")
    /\ Ariza
    /\ UNCHANGED <<iptal, SatirDegismez>>

\* MUTANT of Iptal: UPDATE without the condition on the status.
KosulsuzIptal(o) ==
    /\ awx[o] # "yok"
    /\ satir' = [satir EXCEPT ![o] =
                    [t \in Hedef |-> IF satir[o][t] = "yok" THEN "yok" ELSE "CANCELLED"]]
    /\ iptal < EnCokIptal /\ iptal' = iptal + 1
    /\ UNCHANGED <<ariza, SatirDegismez>>

\* POST /cancel.  cancelJobOnServer returns for a job that AWX has let go, and
\* for one that had already finished.
Iptal(o) ==
    /\ awx[o] # "yok"
    /\ \E t \in Hedef : satir[o][t] = "RUNNING"
    /\ Guncelle(o, "RUNNING", "CANCELLED")
    /\ iptal < EnCokIptal /\ iptal' = iptal + 1
    /\ UNCHANGED <<ariza, SatirDegismez>>

\* releaseOrphanRestoreLocks: list the locks, list the operations, then unlock.
SurenGeriAlma(o, t) == o \in GeriAlma /\ satir[o][t] \in {"RUNNING", "PENDING_APPROVAL"}

SupurDegismez == <<satir, awx, sonuc, bilet, calisir, istek, fin, tarama, sahip, iptal, taranan>>

SupurListele ==
    LET k == {t \in Hedef : ayna[t].faz = "restoring"} IN
    /\ supur.adim = "bos" /\ k # {}
    /\ supur' = [adim |-> "islem", kilitli |-> k,
                 eski |-> {p \in Islem \X k : SurenGeriAlma(p[1], p[2])}]
    /\ UNCHANGED <<ayna, ariza, SupurDegismez>>

\* MUTANT of Suruyor: a ticket that is not decided yet is not an operation.
YalnizCalisan(t) == \E o \in GeriAlma : satir[o][t] = "RUNNING"

\* MUTANT of Suruyor: finished operations count too.
BitenDeSurer(t) == \E o \in GeriAlma : satir[o][t] # "yok"

Suruyor(t) == \E o \in GeriAlma : SurenGeriAlma(o, t)

SupurIslem ==
    LET yetim == {t \in supur.kilitli : ~Suruyor(t)} IN
    /\ supur.adim = "islem"
    /\ supur' = IF yetim = {} THEN SupurBos
                ELSE [supur EXCEPT !.adim = "birak", !.kilitli = yetim]
    /\ UNCHANGED <<ayna, ariza, SupurDegismez>>

SupurBirak ==
    /\ supur.adim = "birak"
    /\ \/ \E t \in supur.kilitli :
            /\ ayna' = [ayna EXCEPT ![t] = unlockRestore(@)]
            /\ supur' = IF supur.kilitli = {t} THEN SupurBos
                        ELSE [supur EXCEPT !.kilitli = @ \ {t}]
            /\ ArizaYok
       \/ supur' = SupurBos /\ Ariza /\ UNCHANGED ayna
    /\ UNCHANGED SupurDegismez

-----------------------------------------------------------------------------
\* Discovery: a scan job reads the clusters, and refreshDrift later removes the
\* mirror rows of the applications that were running then.

TaramaDegismez == <<satir, awx, sonuc, bilet, calisir, istek, fin, supur, sahip, iptal>>

Tara ==
    /\ tarama.adim = "bos" /\ \E t \in Hedef : calisir[t]
    /\ taranan < EnCokTarama /\ taranan' = taranan + 1
    /\ tarama' = [adim |-> "tarandi", canli |-> {t \in Hedef : calisir[t]}]
    /\ UNCHANGED <<ayna, ariza, TaramaDegismez>>

TaramaListele ==
    /\ tarama.adim = "tarandi"
    /\ tarama' = LET k == {t \in tarama.canli : ayna[t].faz # "yok"} IN
                 IF k = {} THEN TaramaBos ELSE [adim |-> "sil", canli |-> k]
    /\ UNCHANGED <<ayna, ariza, taranan, TaramaDegismez>>

\* An error ends it; the bound on scans bounds these errors.
TaramaSil ==
    /\ tarama.adim = "sil"
    /\ \/ \E t \in tarama.canli :
            /\ ayna' = [ayna EXCEPT ![t] = AynaYok]
            /\ tarama' = IF tarama.canli = {t} THEN TaramaBos
                         ELSE [tarama EXCEPT !.canli = @ \ {t}]
       \/ tarama' = TaramaBos /\ UNCHANGED ayna
    /\ UNCHANGED <<ariza, taranan, TaramaDegismez>>

-----------------------------------------------------------------------------
\* SMART and OCO, AWX, restarts

\* The pollers of SMART and OCO launch the job, or the ticket or the schedule
\* is closed without a job.
BiletCozulur(o) ==
    /\ bilet[o] = "bekler"
    /\ \/ bilet' = [bilet EXCEPT ![o] = "basladi"] /\ awx' = [awx EXCEPT ![o] = "surer"]
       \/ bilet' = [bilet EXCEPT ![o] = "kapandi"] /\ UNCHANGED awx
    /\ UNCHANGED <<ayna, satir, sonuc, calisir, istek, fin, supur, tarama, sahip, ariza, iptal, taranan>>

\* A job ends, with some of its targets changed.  A job that was cancelled or lost
\* publishes nothing; one that publishes tells which targets were changed.
AwxBiter(o) ==
    /\ awx[o] = "surer"
    /\ awx' = [awx EXCEPT ![o] = "bitti"]
    /\ \E degisen \in SUBSET HedefKumesi(o), yayin \in BOOLEAN :
        /\ sonuc' = [sonuc EXCEPT ![o] =
                        [yayin |-> yayin, ok |-> IF yayin THEN degisen ELSE {}]]
        /\ calisir' = [t \in Hedef |-> IF t \in degisen THEN o \in GeriAlma ELSE calisir[t]]
    /\ UNCHANGED <<ayna, satir, bilet, istek, fin, supur, tarama, sahip, ariza, iptal, taranan>>

Cokme ==
    /\ Ariza
    /\ istek' = [o \in Islem |->
            IF istek[o].adim \in {"bos", "ret"} THEN istek[o]
            ELSE [istek[o] EXCEPT !.adim = "bitti"]]
    /\ fin' = [f \in Sonuclandiran |-> FinBos]
    /\ supur' = SupurBos
    /\ tarama' = TaramaBos
    /\ UNCHANGED <<ayna, satir, awx, sonuc, bilet, calisir, sahip, iptal, taranan>>

-----------------------------------------------------------------------------
IstekAdimi(o) ==
    \/ KilitDene(o) \/ KilitBak(o) \/ KilitHata(o) \/ Birak(o)
    \/ Kapi(o) \/ Baslat(o) \/ SatirYaz(o)

FinAdimi(f) == FinYaz(f) \/ FinAyna(f)

Supurme == SupurListele \/ SupurIslem \/ SupurBirak

Next ==
    \/ \E o \in Islem :
        \/ Istek(o) \/ IstekAdimi(o) \/ Devral(o) \/ Bayat(o) \/ Iptal(o)
        \/ BiletCozulur(o) \/ AwxBiter(o)
        \/ \E f \in Sonuclandiran : FinOku(f, o)
    \/ \E f \in Sonuclandiran : FinAdimi(f)
    \/ Supurme
    \/ Tara \/ TaramaListele \/ TaramaSil
    \/ Cokme

Spec == Init /\ [][Next]_vars

\* Handlers run to their end, the reconciler's timer fires for ever and AWX jobs
\* end.  Nobody has to decide a ticket: SMART waits without limit.
Adalet ==
    /\ \A o \in Islem :
        /\ WF_vars(IstekAdimi(o)) /\ WF_vars(Devral(o)) /\ WF_vars(AwxBiter(o))
        /\ WF_vars(\E f \in Sonuclandiran : FinOku(f, o))
    /\ \A f \in Sonuclandiran : WF_vars(FinAdimi(f))
    /\ WF_vars(Supurme)

AdilSpec == Spec /\ Adalet

-----------------------------------------------------------------------------
(***************************************************************************)
(* Safety                                                                  *)
(***************************************************************************)

\* TUMU YA DA HICBIRI (acquireRestoreLocks): a request that was turned away, at
\* the locks, at the gates or at the launch, keeps no target locked, unless an
\* unlock itself failed.
TumuYaDaHicbiri ==
    \A o \in GeriAlma, t \in Hedef :
        istek[o].adim = "ret" /\ ~istek[o].hata
        => ~(ayna[t].faz = "restoring" /\ sahip[t] = o)

\* A closed row is not opened or closed again: cancel, finaliser, stale marking
\* and adoption race for it and only one of them gets it.
SonlananDegismez ==
    [][\A o \in Islem, t \in Hedef :
        satir[o][t] \in SonDurumlar => satir'[o][t] = satir[o][t]]_vars

\* The sweep does not free the lock of a restore whose row was open when the
\* sweep listed the locks and still is, through approval and adoption.
SupurmeCalisaniBirakmaz ==
    \A o \in Islem, t \in Hedef :
        /\ supur.adim = "birak"
        /\ <<o, t>> \in supur.eski
        /\ satir[o][t] \in AcikDurumlar
        => t \notin supur.kilitli

(***************************************************************************)
(* Liveness                                                                *)
(***************************************************************************)

\* No lock is permanent: it is freed by the finaliser or by the sweep, unless a
\* restore of that target waits for a ticket nobody decides.
KilitCozulur ==
    \A t \in Hedef :
        ayna[t].faz = "restoring"
        ~> \/ ayna[t].faz # "restoring"
           \/ \E o \in GeriAlma : satir[o][t] = "PENDING_APPROVAL" /\ bilet[o] = "bekler"

\* The job of an approved, scheduled or directly started request has its rows
\* closed, whoever launched it and whether or not a browser looks.
IslemKapanir ==
    \A o \in Islem, t \in Hedef :
        awx[o] # "yok" /\ satir[o][t] \in AcikDurumlar ~> satir[o][t] \in SonDurumlar

(***************************************************************************)
(* What the documentation says and the code does not keep                  *)
(***************************************************************************)

\* index.cjs:1981: while a restore waits for approval its lock is kept, so that no
\* second restore can be started.
OnayBekleyenKilitli ==
    [][\A o \in GeriAlma, t \in Hedef :
        /\ satir[o][t] = "PENDING_APPROVAL" /\ bilet[o] = "bekler"
        /\ ayna[t].faz = "restoring" /\ sahip[t] = o
        /\ ayna'[t].faz # "yok"
        => ayna'[t].faz = "restoring"]_vars

\* reconciler.cjs:8-20: an application that a job of the portal stopped, and told so,
\* is in the mirror once its operation is closed, with nobody else at work on it.
DurdurulanKayitli ==
    \A o \in Islem \ GeriAlma : \A t \in sonuc[o].ok :
        /\ satir[o][t] \in SonDurumlar /\ ~calisir[t]
        /\ \A p \in Islem \ {o} : awx[p] = "yok"
        /\ \A f \in Sonuclandiran : fin[f].adim = "bos"
        => ayna[t].faz # "yok"
=============================================================================
