------------------------------ MODULE Emeklilik ------------------------------
(***************************************************************************)
(* Retirement of one application on one host (server/retirement): a        *)
(* preflight, the STOP at once or in the window of a change order, the     *)
(* deletion at its date with the list of a preflight of its own, and the   *)
(* way back.                                                               *)
(*                                                                         *)
(* Browser tabs (Sekme) and the poller (Zam) work on the same row of       *)
(* retirement_targets.  A handler stands at a place `yer' in el[a]; an     *)
(* action is one awaited statement or one call of AWX, with what follows   *)
(* up to the next.  Only conditional UPDATEs keep the handlers apart, and  *)
(* several UPDATEs have no condition.  The record may hold other targets:  *)
(* whether one of them is left is open.  The vhosts are left out.          *)
(***************************************************************************)
EXTENDS Naturals, Sequences, FiniteSets

CONSTANTS
    Sekme,        \* requests of browsers that may be under way together
    Zam,          \* the round of poller.cjs; _ticking allows one at a time
    Yok,          \* NULL
    EnCokIs,      \* bound: jobs AWX starts
    EnCokAriza,   \* bound: faults, a failed job counting one and any other two
    EnCokBasma    \* bound: preflights that operators ask for, cancellations and removals

ASSUME EmeklilikVarsayimi ==
    /\ EnCokIs \in Nat /\ EnCokAriza \in Nat /\ EnCokBasma \in Nat
    /\ Zam \notin Sekme /\ Yok \notin Nat
    /\ Yok \notin [durum : {"baslar", "kosar", "ok", "failed"}, is : Nat \cup {Yok}, kul : BOOLEAN, taze : BOOLEAN]

VARIABLES
    hedef,        \* the row of retirement_targets
    kayit,        \* retirement_records.status: "acik" (open, stopping or stopped), "deleted", "cancelled"
    pencere,      \* the window of the change order: "once", "acik", "gecti"
    gun,          \* the day of the deletion has come, or an admin skipped the wait
    isler,        \* the jobs AWX has started, in order
    uygulama,     \* the application: "calisir", "durdu", "silindi"
    el,           \* where each handler is and what it has read
    ariza,        \* faults so far
    basma,        \* requests of operators so far
    iptal,        \* history: the record has been cancelled
    kayip,        \* history: jobs whose number never reached the portal
    kanit,        \* jobs with an event that their number could not be written
    ezilen,       \* history: an unconditional UPDATE met a row that had changed since it was read
    eskiHukum     \* history: a row got its verdict from a job that is not the one it waits for

ortam == <<pencere, gun, uygulama, iptal>>
disari == <<ortam, basma>>
gecmis == <<kayip, kanit, ezilen, eskiHukum>>
satirDisi == <<kayit, disari, isler, ariza, gecmis>>   \* what an UPDATE of the row leaves alone
vars == <<hedef, el, satirDisi>>

----------------------------------------------------------------------------
(* Data.                                                                   *)

El == Sekme \cup {Zam}

Durumlar == {"pending", "planning", "planned", "stop_scheduled", "stopping", "stopped", "failed",
             "deleting", "deleted", "rolling_back", "active", "rollback_failed", "skipped"}

IsNo == 1..Len(isler)

\* A job works on the application; a preflight (plan_only) only writes a list.
Gercek(j) == ~isler[j].plan
Biter(j) == isler[j].durum # "kosar"
Oldu(j) == isler[j].durum = "ok"

\* delete_onkontrol_json and rollback_onkontrol_json.
OnKontrol(durum, j) == [durum |-> durum, is |-> j, kul |-> FALSE, taze |-> TRUE]

\* The same JSON text: its age is read off the clock.
Ayni(a, b) == IF a = Yok \/ b = Yok THEN a = b
              ELSE <<a.durum, a.is, a.kul>> = <<b.durum, b.is, b.kul>>

\* MUTANT of Gecerli: a list that was used is as good as a new one.
TukenmezGecerli(o) == o # Yok /\ o.durum = "ok"

Gecerli(o) == o # Yok /\ o.durum = "ok" /\ ~o.kul

\* The STOP's list counts for the preflight whose number the row carries.
IzinVar == hedef.izin # Yok /\ hedef.izin = hedef.sonIs

Bosta == [yer |-> "bos", durum |-> Yok, is |-> Yok, gor |-> Yok]

\* Places between two statements of the database, a few milliseconds apart.
DbArasi == {"kYaz", "oYaz", "jYaz", "jOn", "tYaz", "gClaim", "gYaz", "gGeri", "gpYaz",
            "spYaz", "dDus", "dClaim", "dYaz", "dGeri", "pClaim", "pYaz", "pGeri", "sClaim", "sYaz",
            "sGeri", "onYaz", "fYaz", "fKayit"}

Basla(a, yer, durum, is, gor) ==
    /\ el[a].yer = "bos"
    /\ el' = [el EXCEPT ![a] = [yer |-> yer, durum |-> durum, is |-> is, gor |-> gor]]

Yerinde(a, yer) == el[a].yer = yer
Bitir(a) == el' = [el EXCEPT ![a] = Bosta]
Bas == basma < EnCokBasma /\ basma' = basma + 1

\* Bounds: a job that fails takes the place of one more, any other fault that of two.
IsSigar == Len(isler) + ariza < EnCokIs
Kusur(n) == ariza + n \leq EnCokAriza /\ Len(isler) + ariza + n \leq EnCokIs /\ ariza' = ariza + n
Ariza == Kusur(2)

\* launch(): AWX starts the job and answers, refuses it, or starts it and the answer is lost.
Baslat(a, tur, plan, liste, yaz, red) ==
    LET yeni == Append(isler, [tur |-> tur, plan |-> plan, liste |-> liste, durum |-> "kosar"])
        geri == IF red = "bos" THEN Bosta ELSE [el[a] EXCEPT !.yer = red]
    IN  /\ UNCHANGED <<hedef, kayit, disari, kanit, ezilen, eskiHukum>>
        /\ \/ /\ IsSigar
              /\ isler' = yeni
              /\ el' = [el EXCEPT ![a].yer = yaz, ![a].is = Len(yeni)]
              /\ UNCHANGED <<ariza, kayip>>
           \/ /\ \/ Ariza
                 \/ ~IsSigar /\ ariza' = ariza
              /\ el' = [el EXCEPT ![a] = geri]
              /\ UNCHANGED <<isler, kayip>>
           \/ /\ IsSigar /\ Ariza
              /\ isler' = yeni
              /\ kayip' = kayip \cup {Len(yeni)}
              /\ el' = [el EXCEPT ![a] = geri]

\* An UPDATE that does not look at the status it met.
Ezer(a) == ezilen' = (ezilen \/ hedef.durum # el[a].durum)

\* The column of the job that a passing status waits for.
Alan(d) == CASE d \in {"planning", "stopping"} -> hedef.sonIs
             [] d = "deleting" -> hedef.silmeIs
             [] d = "rolling_back" -> hedef.geriIs

\* The verdict of job j on a row that waits for another: by now its column has another number, or
\* it is a STOP and j its preflight, or a deletion and j an earlier one.
Hukum(d, j) ==
    eskiHukum' = (eskiHukum \/ (/\ hedef.durum = d
                                /\ \/ Alan(d) # j
                                   \/ d = "stopping" /\ ~Gercek(j)
                                   \/ d = "deleting" /\ hedef.silmeOn.is # isler[j].liste))

----------------------------------------------------------------------------
(* Initial states: the record has just been opened.                        *)

IlkHedef == [durum |-> "pending", sonIs |-> Yok, silmeIs |-> Yok, geriIs |-> Yok, izin |-> Yok,
             silmeOn |-> Yok, geriOn |-> Yok, silindi |-> FALSE]

Init ==
    /\ hedef = IlkHedef /\ kayit = "acik"
    /\ pencere = "once" /\ gun = FALSE /\ isler = <<>> /\ uygulama = "calisir"
    /\ el = [a \in El |-> Bosta]
    /\ ariza = 0 /\ basma = 0
    /\ iptal = FALSE /\ kayip = {} /\ kanit = {} /\ ezilen = FALSE /\ eskiHukum = FALSE

----------------------------------------------------------------------------
(* POST stop, stop-toplu: preflight and approval (stopBaslat).              *)

\* confirmed = false: nothing under way, nothing scheduled, not stopped.
OnKontrolIste(s) ==
    /\ kayit # "cancelled"
    /\ hedef.durum \notin {"stopped", "planning", "stopping", "deleting", "rolling_back", "stop_scheduled"}
    /\ Basla(s, "kBaslat", hedef.durum, Yok, Yok)
    /\ Bas
    /\ UNCHANGED <<hedef, kayit, ortam, isler, ariza, gecmis>>

OnKontrolBaslat(s) == Yerinde(s, "kBaslat") /\ Baslat(s, "stop", TRUE, Yok, "kYaz", "bos")

\* A new preflight takes the old list away.  The row is written whatever its status is now.
OnKontrolYaz(s) ==
    /\ Yerinde(s, "kYaz")
    /\ hedef' = [hedef EXCEPT !.durum = "planning", !.sonIs = el[s].is, !.izin = Yok]
    /\ Ezer(s) /\ Bitir(s)
    /\ UNCHANGED <<kayit, disari, isler, ariza, kayip, kanit, eskiHukum>>

\* confirmed = true: the list of the last preflight; PROD before its window is scheduled,
\* inside it (or test, or an admin's "now") the job is started.
Onayla(s) ==
    /\ kayit # "cancelled" /\ hedef.durum = "planned" /\ IzinVar
    /\ \/ pencere = "once" /\ Basla(s, "zYaz", hedef.durum, Yok, Yok)
       \/ Basla(s, "oBaslat", hedef.durum, Yok, [is |-> hedef.izin, acik |-> kayit = "acik"])
    /\ UNCHANGED <<hedef, satirDisi>>

Zamanla(s) ==
    /\ Yerinde(s, "zYaz")
    /\ hedef' = [hedef EXCEPT !.durum = "stop_scheduled"]
    /\ Ezer(s) /\ Bitir(s)
    /\ UNCHANGED <<kayit, disari, isler, ariza, kayip, kanit, eskiHukum>>

OnayBaslat(s) == Yerinde(s, "oBaslat") /\ Baslat(s, "stop", FALSE, el[s].gor.is, "oYaz", "bos")

\* A record that was read as open becomes stopping, though it may be cancelled or deleted by now.
OnayYaz(s) ==
    /\ Yerinde(s, "oYaz")
    /\ hedef' = [hedef EXCEPT !.durum = "stopping", !.sonIs = el[s].is]
    /\ kayit' \in {kayit} \cup (IF el[s].gor.acik THEN {"acik"} ELSE {})
    /\ Ezer(s) /\ Bitir(s)
    /\ UNCHANGED <<disari, isler, ariza, kayip, kanit, eskiHukum>>

----------------------------------------------------------------------------
(* Way back: POST rollback.                                                 *)

\* Stopped, not deleted; or the way back failed; or the STOP failed with a vhost taken down.
GeriAlinir == ~hedef.silindi /\ hedef.durum \in {"stopped", "rollback_failed", "failed"}

\* confirmed = false; a running preflight keeps the next one out for half an hour, no longer.
GeriOnIste(s) ==
    /\ GeriAlinir
    /\ Basla(s, "gpBaslat", hedef.durum, Yok, Yok)
    /\ Bas
    /\ UNCHANGED <<hedef, kayit, ortam, isler, ariza, gecmis>>

GeriOnBaslat(s) == Yerinde(s, "gpBaslat") /\ Baslat(s, "geri", TRUE, Yok, "gpYaz", "bos")

GeriOnYaz(s) ==
    /\ Yerinde(s, "gpYaz")
    /\ hedef' = IF hedef.durum = el[s].durum
                THEN [hedef EXCEPT !.geriOn = OnKontrol("kosar", el[s].is)] ELSE hedef
    /\ Bitir(s)
    /\ UNCHANGED satirDisi

\* confirmed = true: the list on the screen is ready, and still the one in the row.
GeriOnayla(s) ==
    /\ GeriAlinir /\ Gecerli(hedef.geriOn)
    /\ Basla(s, "gClaim", hedef.durum, Yok, hedef.geriOn)
    /\ UNCHANGED <<hedef, satirDisi>>

\* MUTANT of GeriClaim: the UPDATE does not look at the status.
KosulsuzGeriClaim(s) ==
    /\ Yerinde(s, "gClaim")
    /\ hedef' = [hedef EXCEPT !.durum = "rolling_back", !.geriIs = Yok,
                              !.geriOn = [el[s].gor EXCEPT !.kul = TRUE]]
    /\ el' = [el EXCEPT ![s].yer = "gBaslat"]
    /\ UNCHANGED satirDisi

\* The claim, before the launch: status and list in one conditional UPDATE.
GeriClaim(s) ==
    /\ Yerinde(s, "gClaim")
    /\ IF hedef.durum = el[s].durum /\ Ayni(hedef.geriOn, el[s].gor)
       THEN /\ hedef' = [hedef EXCEPT !.durum = "rolling_back", !.geriIs = Yok, !.geriOn.kul = TRUE]
            /\ el' = [el EXCEPT ![s].yer = "gBaslat"]
       ELSE hedef' = hedef /\ Bitir(s)
    /\ UNCHANGED satirDisi

GeriBaslat(s) == Yerinde(s, "gBaslat") /\ Baslat(s, "geri", FALSE, el[s].gor.is, "gYaz", "gGeri")

\* The launch failed: status and list are given back.
GeriGeri(s) ==
    /\ Yerinde(s, "gGeri")
    /\ hedef' = IF /\ hedef.durum = "rolling_back" /\ hedef.geriIs = Yok
                   /\ Ayni(hedef.geriOn, [el[s].gor EXCEPT !.kul = TRUE])
                THEN [hedef EXCEPT !.durum = el[s].durum, !.geriOn = el[s].gor] ELSE hedef
    /\ Bitir(s)
    /\ UNCHANGED satirDisi

GeriYaz(s) ==
    /\ Yerinde(s, "gYaz")
    /\ hedef' = IF hedef.durum = "rolling_back"
                THEN [hedef EXCEPT !.geriIs = el[s].is, !.geriOn = [el[s].gor EXCEPT !.kul = TRUE]]
                ELSE hedef
    /\ Bitir(s)
    /\ UNCHANGED satirDisi

----------------------------------------------------------------------------
(* The other requests.                                                      *)

\* POST delete-plan: a preflight of the deletion by hand, kept out for half an hour likewise.
SilmeOnIste(s) ==
    /\ kayit = "acik" /\ hedef.durum = "stopped" /\ ~hedef.silindi
    /\ Basla(s, "spBaslat", hedef.durum, Yok, Yok)
    /\ Bas
    /\ UNCHANGED <<hedef, kayit, ortam, isler, ariza, gecmis>>

SilmeOnBaslat(s) == Yerinde(s, "spBaslat") /\ Baslat(s, "sil", TRUE, Yok, "spYaz", "bos")

SilmeOnYaz(s) ==
    /\ Yerinde(s, "spYaz")
    /\ hedef' = IF hedef.durum = "stopped"
                THEN [hedef EXCEPT !.silmeOn = OnKontrol("kosar", el[s].is)] ELSE hedef
    /\ Bitir(s)
    /\ UNCHANGED satirDisi

\* POST cancel.
Iptal ==
    /\ kayit # "cancelled"
    /\ kayit' = "cancelled"
    /\ iptal' = TRUE /\ Bas
    /\ UNCHANGED <<hedef, pencere, gun, uygulama, isler, el, ariza, gecmis>>

\* POST cikar: the target leaves the record, if nothing was done to it.
Cikar ==
    /\ hedef.durum \in {"pending", "planned", "failed", "stop_scheduled", "active"}
    /\ hedef' = [hedef EXCEPT !.durum = "skipped"]
    /\ Bas
    /\ UNCHANGED <<kayit, ortam, isler, el, ariza, gecmis>>

\* GET job-status: the verdict AWX gives about a job that is over.
IsDurumu(s, j) ==
    /\ Biter(j)
    /\ \/ \E alan \in {"silmeOn", "geriOn"} :
            /\ hedef[alan] # Yok /\ hedef[alan].is = j /\ hedef[alan].durum = "kosar"
            /\ Basla(s, "jOn", alan, j, hedef[alan])
       \/ /\ hedef.sonIs = j /\ hedef.durum \in {"planning", "stopping"}
          /\ Basla(s, "jYaz", hedef.durum, j, Yok)
    /\ UNCHANGED <<hedef, satirDisi>>

\* What job j makes of a row as a preflight: without its list, `planned' cannot be approved.
PlanSonucu(j) ==
    \E izin \in IF Oldu(j) /\ ~Gercek(j) THEN {j, Yok} ELSE {Yok} :
        hedef' = [hedef EXCEPT !.durum = IF Oldu(j) THEN "planned" ELSE "failed", !.izin = izin]

\* The job's result says whether it was a preflight; the status that was read does if there is no
\* result.  The UPDATE has no condition, nor has the one of the record when no target is left.
IsDurumuYaz(s) ==
    LET j == el[s].is
    IN  /\ Yerinde(s, "jYaz")
        /\ \/ /\ ~Gercek(j) \/ el[s].durum = "planning"
              /\ PlanSonucu(j)
           \/ /\ Gercek(j)
              /\ hedef' = [hedef EXCEPT !.durum = IF Oldu(j) THEN "stopped" ELSE "failed"]
           \/ /\ el[s].durum = "stopping"
              /\ hedef' = [hedef EXCEPT !.durum = "failed"]
        /\ kayit' \in {kayit} \cup (IF hedef'.durum = "stopped" THEN {"acik"} ELSE {})
        /\ Ezer(s) /\ Hukum(el[s].durum, j) /\ Bitir(s)
        /\ UNCHANGED <<disari, isler, ariza, kayip, kanit>>

\* The result of a preflight of deletion or way back; of the poller's onKontrolTick too.
OnSonuc(a, yer) ==
    LET alan == el[a].durum
    IN  /\ Yerinde(a, yer)
        /\ hedef' = IF Ayni(hedef[alan], el[a].gor)
                    THEN [hedef EXCEPT ![alan] =
                            OnKontrol(IF Oldu(el[a].is) THEN "ok" ELSE "failed", el[a].is)]
                    ELSE hedef
        /\ Bitir(a)
        /\ UNCHANGED satirDisi

OnDurumuYaz(s) == OnSonuc(s, "jOn")

\* MUTANT of Sonuc: the failed status is named after its step.
AdimliSonuc(d, j) ==
    CASE d = "stopping"     -> IF Oldu(j) /\ Gercek(j) THEN "stopped" ELSE "stop_failed"
      [] d = "deleting"     -> IF Oldu(j) THEN "deleted" ELSE "delete_failed"
      [] d = "rolling_back" -> IF Oldu(j) THEN "active" ELSE "rollback_failed"

\* MUTANT of Sonuc: a way back that failed leaves the application as stopped.
DonukSonuc(d, j) ==
    CASE d = "stopping"     -> IF Oldu(j) /\ Gercek(j) THEN "stopped" ELSE "failed"
      [] d = "deleting"     -> IF Oldu(j) THEN "deleted" ELSE "failed"
      [] d = "rolling_back" -> IF Oldu(j) THEN "active" ELSE "stopped"

\* The status that the verdict about job j puts in the place of d.
Sonuc(d, j) ==
    CASE d = "stopping"     -> IF Oldu(j) /\ Gercek(j) THEN "stopped" ELSE "failed"
      [] d = "deleting"     -> IF Oldu(j) THEN "deleted" ELSE "failed"
      [] d = "rolling_back" -> IF Oldu(j) THEN "active" ELSE "rollback_failed"

SonucYaz(d, j) ==
    IF hedef.durum # d THEN hedef
    ELSE [hedef EXCEPT !.durum = Sonuc(d, j), !.silindi = @ \/ Sonuc(d, j) = "deleted"]

\* POST refresh-status: the status, then the number of the job that such a status waits for,
Tazele(s) ==
    /\ hedef.durum \in {"planning", "stopping", "deleting", "rolling_back"}
    /\ Basla(s, "tNo", hedef.durum, Yok, Yok)
    /\ UNCHANGED <<hedef, satirDisi>>

TazeleNo(s) ==
    LET j == Alan(el[s].durum)
    IN  /\ Yerinde(s, "tNo")
        /\ IF j # Yok THEN el' = [el EXCEPT ![s].yer = "tSor", ![s].is = j] ELSE Bitir(s)
        /\ UNCHANGED <<hedef, satirDisi>>

\* what AWX says of it by then,
Sor(a, yer, yaz) ==
    /\ Yerinde(a, yer)
    /\ IF Biter(el[a].is) THEN el' = [el EXCEPT ![a].yer = yaz] ELSE Bitir(a)
    /\ UNCHANGED <<hedef, satirDisi>>

TazeleSor(s) == Sor(s, "tSor", "tYaz")

\* and the verdict, if the status is still the one that was read.  A preflight without a result failed.
TazeleYaz(s) ==
    LET d == el[s].durum
        j == el[s].is
    IN  /\ Yerinde(s, "tYaz")
        /\ IF d = "planning" /\ hedef.durum = d
           THEN PlanSonucu(j) \/ hedef' = [hedef EXCEPT !.durum = "failed", !.izin = Yok]
           ELSE hedef' = SonucYaz(d, j)
        /\ Hukum(d, j) /\ Bitir(s)
        /\ UNCHANGED <<kayit, disari, isler, ariza, kayip, kanit, ezilen>>

\* POST reconcile-job: a job that an event names is bound to a claim without a number.
Uzlastir(j) ==
    /\ j \in kanit /\ Gercek(j)
    /\ <<hedef.durum, isler[j].tur>> \in {<<"stopping", "stop">>, <<"deleting", "sil">>}
    /\ Alan(hedef.durum) = Yok
    /\ hedef' = IF hedef.durum = "stopping" THEN [hedef EXCEPT !.sonIs = j] ELSE [hedef EXCEPT !.silmeIs = j]
    /\ UNCHANGED <<kayit, disari, isler, el, ariza, gecmis>>

----------------------------------------------------------------------------
(* The round of the poller: the STOP whose window is open (stopTick).       *)

StopListele ==
    /\ hedef.durum = "stop_scheduled" /\ kayit # "cancelled" /\ pencere # "once"
    /\ Basla(Zam, IF pencere = "gecti" \/ ~IzinVar THEN "dDus" ELSE "dClaim", hedef.durum, Yok, hedef.izin)
    /\ UNCHANGED <<hedef, satirDisi>>

\* The window was missed, or there is no list.
StopDus ==
    /\ Yerinde(Zam, "dDus")
    /\ hedef' = IF hedef.durum = "stop_scheduled" THEN [hedef EXCEPT !.durum = "failed"] ELSE hedef
    /\ Bitir(Zam)
    /\ UNCHANGED satirDisi

StopClaim ==
    /\ Yerinde(Zam, "dClaim")
    /\ IF hedef.durum = "stop_scheduled"
       THEN /\ hedef' = [hedef EXCEPT !.durum = "stopping"]
            /\ el' = [el EXCEPT ![Zam].yer = "dBaslat"]
       ELSE hedef' = hedef /\ Bitir(Zam)
    /\ UNCHANGED satirDisi

StopBaslat == Yerinde(Zam, "dBaslat") /\ Baslat(Zam, "stop", FALSE, el[Zam].gor, "dYaz", "dGeri")

\* The launch failed: the claim is given back if the row carries no job.
StopGeri ==
    /\ Yerinde(Zam, "dGeri")
    /\ hedef' = IF hedef.durum = "stopping" /\ hedef.sonIs = Yok
                THEN [hedef EXCEPT !.durum = "stop_scheduled"] ELSE hedef
    /\ Bitir(Zam)
    /\ UNCHANGED satirDisi

StopYaz ==
    /\ Yerinde(Zam, "dYaz")
    /\ hedef' = [hedef EXCEPT !.sonIs = el[Zam].is]
    /\ Bitir(Zam)
    /\ UNCHANGED satirDisi

----------------------------------------------------------------------------
(* The deletion that is due (deleteTick) and its preflight.                 *)

\* MUTANT of SilmeListele: a preflight is started where there has been none.
BirKezListele ==
    LET plan == hedef.silmeOn
    IN  /\ hedef.durum = "stopped" /\ ~hedef.silindi /\ kayit = "acik" /\ gun
        /\ IF Gecerli(plan) /\ plan.taze THEN Basla(Zam, "sClaim", hedef.durum, Yok, plan)
           ELSE plan = Yok /\ Basla(Zam, "pClaim", hedef.durum, Yok, plan)
        /\ UNCHANGED <<hedef, satirDisi>>

\* A stopped target of an open record whose day has come: the deletion with a good list, or a
\* preflight, unless a fresh one is under way or has failed.
SilmeListele ==
    LET plan == hedef.silmeOn
    IN  /\ hedef.durum = "stopped" /\ ~hedef.silindi /\ kayit = "acik" /\ gun
        /\ IF Gecerli(plan) /\ plan.taze THEN Basla(Zam, "sClaim", hedef.durum, Yok, plan)
           ELSE /\ plan # Yok => ~plan.taze \/ plan.kul
                /\ Basla(Zam, "pClaim", hedef.durum, Yok, plan)
        /\ UNCHANGED <<hedef, satirDisi>>

\* silmeOnKontrolBaslat: claimed by the text of the old record.
PlanClaim ==
    /\ Yerinde(Zam, "pClaim")
    /\ IF hedef.durum = "stopped" /\ Ayni(hedef.silmeOn, el[Zam].gor)
       THEN /\ hedef' = [hedef EXCEPT !.silmeOn = OnKontrol("baslar", Yok)]
            /\ el' = [el EXCEPT ![Zam].yer = "pBaslat"]
       ELSE hedef' = hedef /\ Bitir(Zam)
    /\ UNCHANGED satirDisi

PlanBaslat == Yerinde(Zam, "pBaslat") /\ Baslat(Zam, "sil", TRUE, Yok, "pYaz", "pGeri")

PlanGeri ==
    /\ Yerinde(Zam, "pGeri")
    /\ hedef' = IF Ayni(hedef.silmeOn, OnKontrol("baslar", Yok))
                THEN [hedef EXCEPT !.silmeOn = el[Zam].gor] ELSE hedef
    /\ Bitir(Zam)
    /\ UNCHANGED satirDisi

PlanYaz ==
    /\ Yerinde(Zam, "pYaz")
    /\ hedef' = IF Ayni(hedef.silmeOn, OnKontrol("baslar", Yok))
                THEN [hedef EXCEPT !.silmeOn = OnKontrol("kosar", el[Zam].is)] ELSE hedef
    /\ Bitir(Zam)
    /\ UNCHANGED satirDisi

\* MUTANT of SilmeClaim: the UPDATE does not look at the status.
KosulsuzSilmeClaim ==
    /\ Yerinde(Zam, "sClaim")
    /\ hedef' = [hedef EXCEPT !.durum = "deleting"]
    /\ el' = [el EXCEPT ![Zam].yer = "sBaslat"]
    /\ UNCHANGED satirDisi

\* The claim, before the launch: the status, not the record.
SilmeClaim ==
    /\ Yerinde(Zam, "sClaim")
    /\ IF hedef.durum = "stopped"
       THEN /\ hedef' = [hedef EXCEPT !.durum = "deleting"]
            /\ el' = [el EXCEPT ![Zam].yer = "sBaslat"]
       ELSE hedef' = hedef /\ Bitir(Zam)
    /\ UNCHANGED satirDisi

SilmeBaslat == Yerinde(Zam, "sBaslat") /\ Baslat(Zam, "sil", FALSE, el[Zam].gor.is, "sYaz", "sGeri")

SilmeGeri ==
    /\ Yerinde(Zam, "sGeri")
    /\ hedef' = IF hedef.durum = "deleting" /\ hedef.silmeIs = Yok
                THEN [hedef EXCEPT !.durum = "stopped"] ELSE hedef
    /\ Bitir(Zam)
    /\ UNCHANGED satirDisi

\* The number of the job, and the list is used up.
SilmeYaz ==
    /\ Yerinde(Zam, "sYaz")
    /\ hedef' = [hedef EXCEPT !.silmeIs = el[Zam].is, !.silmeOn = [el[Zam].gor EXCEPT !.kul = TRUE]]
    /\ Bitir(Zam)
    /\ UNCHANGED satirDisi

----------------------------------------------------------------------------
(* Results that the poller writes (onKontrolTick, finalizeAdim).            *)

OnKontrolTick ==
    \E alan \in {"silmeOn", "geriOn"} :
        /\ hedef[alan] # Yok /\ hedef[alan].durum = "kosar" /\ Biter(hedef[alan].is)
        /\ Basla(Zam, "onYaz", alan, hedef[alan].is, hedef[alan])
        /\ UNCHANGED <<hedef, satirDisi>>

OnKontrolTickYaz == OnSonuc(Zam, "onYaz")

\* MUTANT of Finalize: the way back is no step of the list.
IkiAdimliFinalize ==
    /\ hedef.durum \in {"stopping", "deleting"}
    /\ Alan(hedef.durum) # Yok
    /\ Basla(Zam, "fSor", hedef.durum, Alan(hedef.durum), Yok)
    /\ UNCHANGED <<hedef, satirDisi>>

\* The row and the number of the job it waits for, what AWX says of that job, the verdict.
Finalize ==
    /\ hedef.durum \in {"stopping", "deleting", "rolling_back"}
    /\ Alan(hedef.durum) # Yok
    /\ Basla(Zam, "fSor", hedef.durum, Alan(hedef.durum), Yok)
    /\ UNCHANGED <<hedef, satirDisi>>

FinalizeSor == Sor(Zam, "fSor", "fYaz")

FinalizeYaz ==
    LET d == el[Zam].durum
        j == el[Zam].is
    IN  /\ Yerinde(Zam, "fYaz")
        /\ hedef' = SonucYaz(d, j)
        /\ Hukum(d, j)
        /\ IF d = "deleting" /\ Oldu(j) THEN el' = [el EXCEPT ![Zam].yer = "fKayit"] ELSE Bitir(Zam)
        /\ UNCHANGED <<kayit, disari, isler, ariza, kayip, kanit, ezilen>>

\* The record is deleted when all of its targets are.
FinalizeKayit ==
    /\ Yerinde(Zam, "fKayit")
    /\ kayit' \in {kayit} \cup (IF hedef.durum \in {"deleted", "skipped"} THEN {"deleted"} ELSE {})
    /\ Bitir(Zam)
    /\ UNCHANGED <<hedef, disari, isler, ariza, gecmis>>

----------------------------------------------------------------------------
(* AWX, time, faults.                                                       *)

\* A job takes longer than two statements of the database are apart.
AwxBiter(j) ==
    LET etki == CASE isler[j].tur = "stop" -> "durdu"
                  [] isler[j].tur = "sil" -> "silindi"
                  [] isler[j].tur = "geri" -> "calisir"
        olur == uygulama # "silindi" \/ isler[j].tur = "sil"
    IN  /\ ~Biter(j)
        /\ \A a \in El : el[a].yer \notin DbArasi
        /\ \E d \in {"ok", "hata"} :
             /\ d = "ok" => olur
             /\ IF d = "hata" /\ olur THEN Kusur(1) ELSE ariza' = ariza
             /\ isler' = [isler EXCEPT ![j].durum = d]
             /\ uygulama' \in IF isler[j].plan \/ ~olur THEN {uygulama}
                              ELSE IF d = "ok" THEN {etki} ELSE {uygulama, etki}
        /\ UNCHANGED <<hedef, kayit, pencere, gun, el, basma, iptal, gecmis>>

\* The window, the day and the age of a list move on where something looks at them.
PencereIlerler ==
    /\ hedef.durum = "stop_scheduled"
    /\ \/ pencere = "once" /\ pencere' = "acik"
       \/ pencere = "acik" /\ pencere' = "gecti"
    /\ UNCHANGED <<hedef, kayit, gun, isler, uygulama, el, ariza, basma, iptal, gecmis>>

\* The date, or POST delete-now.
SilmeGunu ==
    /\ hedef.durum = "stopped" /\ ~gun /\ gun' = TRUE
    /\ UNCHANGED <<hedef, kayit, pencere, isler, uygulama, el, ariza, basma, iptal, gecmis>>

\* The list of the deletion is older than silmePlanTazeDk.
Bayatla ==
    /\ hedef.durum = "stopped" /\ hedef.silmeOn # Yok /\ hedef.silmeOn.taze
    /\ \A a \in El : el[a].yer \notin DbArasi
    /\ hedef' = [hedef EXCEPT !.silmeOn.taze = FALSE]
    /\ UNCHANGED <<kayit, disari, isler, el, ariza, gecmis>>

\* Jobs of handlers that end here before they have written the number.
Yazilmamis(E) == {el[a].is : a \in {b \in E : el[b].yer \in {"kYaz", "oYaz", "gpYaz", "gYaz", "spYaz",
                                                             "dYaz", "pYaz", "sYaz"}}}

\* A statement or a question to AWX fails and the handler ends; the poller notes a job it could not write.
DbHata(a) ==
    /\ Ariza /\ el[a].yer \in DbArasi \cup {"zYaz", "tNo", "tSor", "fSor"}
    /\ Bitir(a)
    /\ kayip' = kayip \cup Yazilmamis({a})
    /\ kanit' = kanit \cup (IF el[a].yer \in {"dYaz", "sYaz"} THEN {el[a].is} ELSE {})
    /\ UNCHANGED <<hedef, kayit, disari, isler, ezilen, eskiHukum>>

\* The portal restarts.
Cokme ==
    /\ Ariza /\ \E a \in El : el[a].yer # "bos"
    /\ el' = [a \in El |-> Bosta]
    /\ kayip' = kayip \cup Yazilmamis(El)
    /\ UNCHANGED <<hedef, kayit, disari, isler, kanit, ezilen, eskiHukum>>

----------------------------------------------------------------------------
SekmeAdimi(s) ==
    \/ OnKontrolBaslat(s) \/ OnKontrolYaz(s) \/ Zamanla(s) \/ OnayBaslat(s) \/ OnayYaz(s)
    \/ GeriOnBaslat(s) \/ GeriOnYaz(s) \/ GeriClaim(s) \/ GeriBaslat(s) \/ GeriGeri(s)
    \/ GeriYaz(s) \/ SilmeOnBaslat(s) \/ SilmeOnYaz(s) \/ IsDurumuYaz(s) \/ OnDurumuYaz(s)
    \/ TazeleNo(s) \/ TazeleSor(s) \/ TazeleYaz(s)

Istek(s) ==
    \/ OnKontrolIste(s) \/ Onayla(s) \/ GeriOnIste(s) \/ GeriOnayla(s) \/ SilmeOnIste(s) \/ Tazele(s)
    \/ \E j \in IsNo : IsDurumu(s, j)

ZamBasla == StopListele \/ SilmeListele \/ OnKontrolTick \/ Finalize

ZamAdimi ==
    \/ StopDus \/ StopClaim \/ StopBaslat \/ StopGeri \/ StopYaz
    \/ PlanClaim \/ PlanBaslat \/ PlanGeri \/ PlanYaz
    \/ SilmeClaim \/ SilmeBaslat \/ SilmeGeri \/ SilmeYaz
    \/ OnKontrolTickYaz \/ FinalizeSor \/ FinalizeYaz \/ FinalizeKayit

Next ==
    \/ \E s \in Sekme : Istek(s) \/ SekmeAdimi(s)
    \/ ZamBasla \/ ZamAdimi
    \/ Iptal \/ Cikar \/ \E j \in IsNo : Uzlastir(j) \/ AwxBiter(j)
    \/ PencereIlerler \/ SilmeGunu \/ Bayatla
    \/ Cokme \/ \E a \in El : DbHata(a)

Spec == Init /\ [][Next]_vars

\* A handler goes on, the poller's timer fires and its round looks at everything, AWX ends its
\* jobs, time passes.  Operators need not do anything, nor need a window open.
Adil ==
    /\ \A s \in Sekme : WF_vars(SekmeAdimi(s))
    /\ WF_vars(ZamAdimi)
    /\ WF_vars(StopListele) /\ WF_vars(SilmeListele) /\ WF_vars(OnKontrolTick) /\ WF_vars(Finalize)
    /\ \A j \in 1..EnCokIs : WF_vars(j \in IsNo /\ AwxBiter(j))
    /\ WF_vars(Bayatla)

AdilSpec == Spec /\ Adil

----------------------------------------------------------------------------
(* Properties.                                                              *)

IsVeyaYok == IsNo \cup {Yok}
OnKontroller == [durum : {"baslar", "kosar", "ok", "failed"}, is : IsVeyaYok, kul : BOOLEAN, taze : BOOLEAN]

\* Types: every number in the row, in a list and in a handler is that of a job AWX has started.
TypeOK ==
    /\ hedef.durum \in Durumlar /\ hedef.silindi \in BOOLEAN
    /\ {hedef.sonIs, hedef.silmeIs, hedef.geriIs, hedef.izin} \subseteq IsVeyaYok
    /\ {hedef.silmeOn, hedef.geriOn} \subseteq OnKontroller \cup {Yok}
    /\ kayit \in {"acik", "deleted", "cancelled"}
    /\ pencere \in {"once", "acik", "gecti"} /\ gun \in BOOLEAN /\ iptal \in BOOLEAN
    /\ uygulama \in {"calisir", "durdu", "silindi"}
    /\ \A j \in IsNo : isler[j] \in [tur : {"stop", "sil", "geri"}, plan : BOOLEAN, liste : IsVeyaYok,
                                      durum : {"kosar", "ok", "hata"}]
    /\ \A a \in El : el[a].is \in IsVeyaYok
    /\ Len(isler) \leq EnCokIs /\ ariza \leq EnCokAriza /\ basma \leq EnCokBasma
    /\ kayip \subseteq IsNo /\ kanit \subseteq kayip
    /\ ezilen \in BOOLEAN /\ eskiHukum \in BOOLEAN

\* The portal knows of every job, no UPDATE went over a change and no row has a foreign verdict:
\* the three ways, reported in the README, in which the row may be wrong about the application.
Duzgun == kayip = {} /\ ~ezilen /\ ~eskiHukum

Canli(tur) == {j \in IsNo : isler[j].tur = tur /\ Gercek(j) /\ ~Biter(j)}

\* A deletion and a way back never work on the application together: the two claims, the
\* poller's on status alone and the request's on status and list, exclude one another.
TekYon == Duzgun => Canli("sil") = {} \/ Canli("geri") = {}

\* A deletion starts only on an application that is down, with no way back under way: what
\* failed half-way in either direction never comes back as `stopped'.
SilmeDurmustan ==
    [][\A j \in 1..Len(isler') : j > Len(isler) /\ isler'[j].tur = "sil" /\ ~isler'[j].plan /\ Duzgun
         => uygulama = "durdu" /\ Canli("geri") = {}]_vars

\* The list of one preflight is given to one deletion or one way back, whatever is refused,
\* given back, retried or restarted in between; only a job the portal lost may share it.
ListeBirKez ==
    \A i, j \in IsNo :
        i # j /\ Gercek(i) /\ Gercek(j) /\ isler[i].tur # "stop" /\ isler[i].liste = isler[j].liste
            => {i, j} \cap kayip # {}

\* While no job is under way the status tells what the application is: stopped, deleted or back.
DurumGercek ==
    Duzgun /\ (\A j \in IsNo : Gercek(j) => Biter(j)) =>
        /\ hedef.durum = "stopped" => uygulama = "durdu"
        /\ hedef.durum = "deleted" => uygulama = "silindi"
        /\ hedef.durum = "active" => uygulama = "calisir"

IsBekler == hedef.durum \in {"stopping", "deleting", "rolling_back"} /\ Alan(hedef.durum) # Yok

\* A row that waits for a job gets its verdict with no browser watching; a preflight of the STOP
\* (planning) is not among them, and a claim without a number waits for an operator.
GecisBiter == IsBekler ~> ~IsBekler

\* A stopped application whose day has come is taken up, whatever became of earlier preflights;
\* unless the record is closed or no further job fits the bound.
SilmeGelir ==
    (hedef.durum = "stopped" /\ gun /\ kayit = "acik")
        ~> (hedef.durum # "stopped" \/ kayit # "acik" \/ ~IsSigar)

\* What delete-plan tells the operator: in a cancelled record nothing is going to be deleted.
\* The round takes no deletion up once the record has been cancelled.
IptalEdilenSilinmez ==
    [][iptal /\ el[Zam].yer # "sClaim" => el'[Zam].yer # "sClaim"]_vars
=============================================================================
