-------------------------------- MODULE Onay --------------------------------
(***************************************************************************)
(* Approval tickets (SMART) and change windows (OCO).  A job of a user may *)
(* need the approval of SMART, an OCO window, or both; it is then started  *)
(* later, by AWX's own schedule or by one of two pollers of the Portal,    *)
(* while its owner and the administrator may cancel it.                    *)
(*                                                                         *)
(* A poller works on the list it read at the start of its round; every     *)
(* write is one conditional UPDATE on the row as it is.  A read of the     *)
(* clock or of SMART's answer is merged with the write that follows it     *)
(* when it cannot change in between (time and a decision never go back).   *)
(*                                                                         *)
(* All windows are the same window.  What a job does after its start, and  *)
(* the change of a window by its owner, are left out.                      *)
(***************************************************************************)
EXTENDS Naturals, FiniteSets

CONSTANTS
    SmartSurec,  \* Portal processes whose SMART poller runs
    OcoSurec,    \* Portal processes whose OCO poller runs
    Kayit,       \* rows of oco_scheduled_launches
    Dogrudan,    \* requests that open a ticket without a record
    Yok,
    EnCokAriza,  \* bound: faults in a behaviour
    EnCokBasma,  \* bound: cancellations in a behaviour
    EnCokOlay,   \* bound: both together
    EnCokTalep   \* bound: requests in a behaviour

VARIABLES
    tur,     \* tur[t]: what kind of request t is; it never changes
    saat,    \* "once" the window, "acik", "son": its grace, then "kapali"
    kayit,   \* kayit[k]: the row of record k
    bilet,   \* bilet[b]: the status of ticket b
    karar,   \* karar[b]: what SMART decided about ticket b
    is,      \* is[x]: jobs AWX started on a launch call for x
    zaman,   \* zaman[x]: the AWX schedule made for x
    istek,   \* istek[k]: how far the request that creates record k is
    smart,   \* smart[p]: the round of the SMART poller of process p
    oco,     \* oco[p]: the round of the OCO poller of process p
    yon,     \* the administrator's cancellation under way
    geriCekilen,  \* history: whether its owner cancelled record k, without or with a ticket
    gec,     \* history: records whose window opened while their request ran
    ariza,   \* faults so far
    basma    \* cancellations so far

satirlar == <<kayit, bilet>>
awx == <<is, zaman>>
tarih == <<geriCekilen, gec>>
vars == <<tur, saat, kayit, bilet, karar, is, zaman, istek, smart, oco, yon,
          geriCekilen, gec, ariza, basma>>

\* A ticket is named by what opened it.  A record gets one with its request and one
\* from the OCO poller, which claims a record once; a larger number is a newer ticket.
Bilet == (Kayit \X {1, 2}) \cup (Dogrudan \X {1})
Kaynak == Bilet \cup Kayit    \* what a job or a schedule is made for

ASSUME OnayVarsayimi ==
    /\ Kayit \cap Dogrudan = {} /\ Kayit \cap Bilet = {} /\ Yok \notin Kaynak
    /\ EnCokAriza \in Nat /\ EnCokBasma \in Nat /\ EnCokOlay \in Nat

-----------------------------------------------------------------------------
KayitNo(b) == IF b[1] \in Kayit THEN b[1] ELSE Yok      \* ocoRecordId
BiletleriOf(k) == {k} \X {1, 2}
Kaynaklar(k) == {k} \cup BiletleriOf(k)

SAATLER == {"once", "acik", "son", "kapali"}
KAYIT_DURUMLARI == {"yok", "SCHEDULED", "AWX_SCHEDULED", "LAUNCHING", "PENDING_APPROVAL",
                    "LAUNCHED", "FAILED", "EXPIRED", "CANCELLED"}
BILET_DURUMLARI == {"yok", "PENDING", "LAUNCHING", "LAUNCHED", "SCHEDULED", "REJECTED",
                    "TIMEOUT", "ERROR", "CANCELLED"}

\* A job or a schedule was really obtained from AWX for x, whether still there or not.
Tetiklendi(x) == is[x] > 0 \/ zaman[x] = "atesledi"
BiletiYok(k) == \A b \in BiletleriOf(k) : bilet[b] = "yok"

SmartBos == [adim |-> "bos", liste |-> {}, b |-> Yok, sonuc |-> "yok"]
BagliYok == [b |-> Yok, durum |-> "yok"]
OcoBos == [adim |-> "bos", liste |-> {}, bagli |-> [k \in Kayit |-> BagliYok],
           simdi |-> "once", k |-> Yok]
YonBos == [adim |-> "bos", k |-> Yok]

\* Of a record: whether its job needs approval (isSmartRequired).  Of a request without
\* a record: made inside its OCO window, made by Crypto Hub (launchOncesi, with
\* pencereBekle), or of a service without OCO.
KAYIT_TURLERI == {"onayli", "onaysiz"}
DOGRUDAN_TURLERI == {"oco", "kripto", "serbest"}
Turler == [Kayit \cup Dogrudan -> KAYIT_TURLERI \cup DOGRUDAN_TURLERI \cup {"yok"}]
Onayli(k) == tur[k] = "onayli"
Turu(b) == tur[b[1]]

Init ==
    /\ tur \in Turler
    /\ \A k \in Kayit : tur[k] \in KAYIT_TURLERI \cup {"yok"}
    /\ \A y \in Dogrudan : tur[y] \in DOGRUDAN_TURLERI \cup {"yok"}
    /\ Cardinality({t \in Kayit \cup Dogrudan : tur[t] # "yok"}) = EnCokTalep
    /\ saat = "once"
    /\ kayit = [k \in Kayit |-> [durum |-> "yok", no |-> Yok]]
    /\ bilet = [b \in Bilet |-> "yok"]
    /\ karar = [b \in Bilet |-> "yok"]
    /\ is = [x \in Kaynak |-> 0]
    /\ zaman = [x \in Kaynak |-> "yok"]
    /\ istek = [k \in Kayit |-> "yok"]
    /\ smart = [p \in SmartSurec |-> SmartBos]
    /\ oco = [p \in OcoSurec |-> OcoBos]
    /\ yon = YonBos
    /\ geriCekilen = [k \in Kayit |-> "-"] /\ gec = {}
    /\ ariza = 0 /\ basma = 0

Ariza == ariza < EnCokAriza /\ ariza + basma < EnCokOlay /\ ariza' = ariza + 1
Basma == basma < EnCokBasma /\ ariza + basma < EnCokOlay /\ basma' = basma + 1

\* A fault, or the regular course of an action.
Arizasiz(kosul) == IF kosul THEN UNCHANGED ariza ELSE Ariza

-----------------------------------------------------------------------------
\* The statements on the two tables: UPDATE ... WHERE id = x AND status IN (...)

BiletYaz(b, beklenen, yeni) ==
    bilet' = IF bilet[b] \in beklenen THEN [bilet EXCEPT ![b] = yeni] ELSE bilet

KayitYaz(k, beklenen, yeni) ==
    kayit' = IF kayit[k].durum \in beklenen THEN [kayit EXCEPT ![k] = yeni] ELSE kayit

Durumlu(k, durum) == [kayit[k] EXCEPT !.durum = durum]

\* The UPDATE, or its failure.
BiletDene(b, beklenen, yeni) ==
    \/ BiletYaz(b, beklenen, yeni) /\ UNCHANGED ariza
    \/ UNCHANGED bilet /\ Ariza

KayitDene(k, beklenen, yeni) ==
    \/ KayitYaz(k, beklenen, yeni) /\ UNCHANGED ariza
    \/ UNCHANGED kayit /\ Ariza

\* AWX makes a one-off schedule for the start of the window; one that is made after
\* that moment has no run left.
Zamanla(x) == zaman' = [zaman EXCEPT ![x] = IF saat = "once" THEN "kurulu" ELSE "gecmis"]

Baslat(x) == is' = [is EXCEPT ![x] = @ + 1]

BiletAc(b) == bilet[b] = "yok" /\ bilet' = [bilet EXCEPT ![b] = "PENDING"]

-----------------------------------------------------------------------------
\* Requests.  The window lies ahead: the job is scheduled.

\* No approval is needed: AWX keeps the schedule.  Its row is written afterwards.
TalepAwx(k) ==
    /\ istek[k] = "yok" /\ saat = "once" /\ tur[k] = "onaysiz"
    /\ Zamanla(k)
    /\ istek' = [istek EXCEPT ![k] = "kuruldu"]
    /\ UNCHANGED <<tur, saat, satirlar, karar, is, smart, oco, yon, tarih, ariza, basma>>

CreateAwxScheduled(k) ==
    /\ istek[k] = "kuruldu"
    /\ kayit' = [kayit EXCEPT ![k] = [durum |-> "AWX_SCHEDULED", no |-> k]]
    /\ istek' = [istek EXCEPT ![k] = "bitti"]
    /\ UNCHANGED <<tur, saat, bilet, karar, awx, smart, oco, yon, tarih, ariza, basma>>

\* Approval is needed, or the caller prefers the Portal's scheduler.
TalepPortal(k) ==
    /\ istek[k] = "yok" /\ saat = "once" /\ tur[k] # "yok"
    /\ kayit' = [kayit EXCEPT ![k].durum = "SCHEDULED"]
    /\ istek' = [istek EXCEPT ![k] = IF Onayli(k) THEN "kayit" ELSE "bitti"]
    /\ UNCHANGED <<tur, saat, bilet, karar, awx, smart, oco, yon, tarih, ariza, basma>>

\* openSmartTicket.  SMART may refuse: the record stays as it is.  The row of the ticket
\* may be there although the request does not know it (the answer of the INSERT is lost).
TalepBilet(k) ==
    /\ istek[k] = "kayit"
    /\ \/ BiletAc(<<k, 1>>) /\ istek' = [istek EXCEPT ![k] = "bilet"] /\ UNCHANGED ariza
       \/ UNCHANGED <<bilet, ariza>> /\ istek' = [istek EXCEPT ![k] = "bitti"]
       \/ BiletAc(<<k, 1>>) /\ istek' = [istek EXCEPT ![k] = "bitti"] /\ Ariza
    /\ UNCHANGED <<tur, saat, kayit, karar, awx, smart, oco, yon, tarih, basma>>

MarkPendingApprovalAtRequest(k) ==
    /\ istek[k] = "bilet"
    /\ KayitDene(k, {"SCHEDULED"}, Durumlu(k, "PENDING_APPROVAL"))
    /\ istek' = [istek EXCEPT ![k] = "bitti"]
    /\ UNCHANGED <<tur, saat, bilet, karar, awx, smart, oco, yon, tarih, basma>>

\* A ticket without a record: inside the window, of Crypto Hub (which may also open it
\* before the window), or of a service without OCO.
TalepDogrudan(y) ==
    /\ \/ tur[y] = "serbest"
       \/ tur[y] \in {"oco", "kripto"} /\ saat = "acik"
       \/ tur[y] = "kripto" /\ saat = "once"
    /\ BiletAc(<<y, 1>>)
    /\ UNCHANGED <<tur, saat, kayit, karar, awx, istek, smart, oco, yon, tarih, ariza, basma>>

-----------------------------------------------------------------------------
\* The SMART poller.  A round handles the tickets of its list one after the other.

SmartGit(p, adim) == smart' = [smart EXCEPT ![p].adim = adim]
SmartSonuc(p, adim, sonuc) == smart' = [smart EXCEPT ![p].adim = adim, ![p].sonuc = sonuc]

\* The next ticket, or the end of the round.
SmartDevam(p) ==
    smart' = [smart EXCEPT ![p] =
                 [SmartBos EXCEPT !.adim = IF smart[p].liste = {} THEN "bos" ELSE "sira",
                                  !.liste = smart[p].liste]]

\* syncOcoRecord follows, if the ticket has a record.
Esitle(p, sonuc) ==
    IF KayitNo(smart[p].b) = Yok THEN SmartDevam(p) ELSE SmartSonuc(p, "esitle", sonuc)

\* A ticket is open whose number is not yet in the row of its record.
Yazilacak(k) ==
    istek[k] = "bilet" \/ \E p \in OcoSurec : oco[p].adim = "bilet" /\ oco[p].k = k

Bekleyenler == {b \in Bilet : bilet[b] = "PENDING"}

\* That the list is read between the two statements of a handler that opens a ticket
\* counts as a fault.
SmartOku(p) ==
    /\ smart[p].adim = "bos" /\ Bekleyenler # {}
    /\ Arizasiz(\A b \in Bekleyenler : KayitNo(b) = Yok \/ ~Yazilacak(KayitNo(b)))
    /\ smart' = [smart EXCEPT ![p].adim = "sira", ![p].liste = Bekleyenler]
    /\ UNCHANGED <<tur, saat, satirlar, karar, awx, istek, oco, yon, tarih, basma>>

\* MUTANT of SonGecti: a ticket opened inside the window carries no window.
YalnizKayitSonGecti(b) == KayitNo(b) # Yok /\ saat \in {"son", "kapali"}

\* talepSonTarihi: the end of the window; without one, no deadline.  Of a Crypto Hub
\* ticket, "son" begins at its sonBaslamaIso.
SonGecti(b) == Turu(b) # "serbest" /\ saat \in {"son", "kapali"}

SmartSira(p, b) ==
    /\ smart[p].adim = "sira" /\ b \in smart[p].liste
    /\ smart' = [smart EXCEPT ![p].adim = IF SonGecti(b) THEN "son" ELSE "sor",
                              ![p].b = b, ![p].liste = @ \ {b}]
    /\ UNCHANGED <<tur, saat, satirlar, karar, awx, istek, oco, yon, tarih, ariza, basma>>

\* MUTANT of SmartSon: the record is not told about the timeout.
SonSessiz(p) ==
    /\ smart[p].adim = "son"
    /\ BiletDene(smart[p].b, {"PENDING"}, "TIMEOUT")
    /\ SmartDevam(p)
    /\ UNCHANGED <<tur, saat, kayit, karar, awx, istek, oco, yon, tarih, basma>>

SmartSon(p) ==
    /\ smart[p].adim = "son"
    /\ BiletDene(smart[p].b, {"PENDING"}, "TIMEOUT")
    /\ Esitle(p, "FAILED")
    /\ UNCHANGED <<tur, saat, kayit, karar, awx, istek, oco, yon, tarih, basma>>

\* SMART does not answer, or has not decided, or the ticket waits for its window
\* (pencereBekliyorMu; markApproved leaves the status).
SmartBekler(p) ==
    /\ smart[p].adim = "sor"
    /\ SmartDevam(p)
    /\ UNCHANGED <<tur, saat, satirlar, karar, awx, istek, oco, yon, tarih, ariza, basma>>

SmartRet(p) ==
    /\ smart[p].adim = "sor" /\ karar[smart[p].b] = "ret"
    /\ BiletDene(smart[p].b, {"PENDING"}, "REJECTED")
    /\ Esitle(p, "FAILED")
    /\ UNCHANGED <<tur, saat, kayit, karar, awx, istek, oco, yon, tarih, basma>>

PencereBekliyor(b) == Turu(b) = "kripto" /\ saat = "once"

\* MUTANT of Sahiplenilir: the UPDATE has no condition on the status.
KosulsuzSahiplenilir(b) == bilet[b] \in BILET_DURUMLARI

\* claimForLaunch: the one whose UPDATE matches acts on the ticket.
Sahiplenilir(b) == bilet[b] = "PENDING"

SmartSahiplen(p) ==
    LET b == smart[p].b IN
    /\ smart[p].adim = "sor" /\ karar[b] = "onay" /\ ~PencereBekliyor(b)
    /\ \/ /\ Sahiplenilir(b)
          /\ bilet' = [bilet EXCEPT ![b] = "LAUNCHING"]
          /\ SmartGit(p, "karar") /\ UNCHANGED ariza
       \/ /\ Arizasiz(~Sahiplenilir(b))
          /\ UNCHANGED bilet /\ Esitle(p, "CANCELLED")
    /\ UNCHANGED <<tur, saat, kayit, karar, awx, istek, oco, yon, tarih, basma>>

\* MUTANT of OnaySonrasi: an approval starts the job at once.
HemenBaslar(b) == IF saat = "kapali" THEN "hata" ELSE "baslat"

\* nextRunAt and launchPenceresiDenetle: what the approved ticket leads to now.
OnaySonrasi(b) ==
    IF Turu(b) = "serbest" THEN "baslat"
    ELSE IF Turu(b) = "kripto" THEN IF saat = "acik" THEN "baslat" ELSE "hata"
    ELSE CASE saat = "once" -> "kur"
           [] saat \in {"acik", "son"} -> "baslat"
           [] saat = "kapali" -> "hata"

SmartKarar(p) ==
    /\ smart[p].adim = "karar"
    /\ SmartGit(p, OnaySonrasi(smart[p].b))
    /\ UNCHANGED <<tur, saat, satirlar, karar, awx, istek, oco, yon, tarih, ariza, basma>>

\* createOcoAwxSchedule, for a ticket of a record: no other waits for a window here.
\* AWX may refuse; or the call takes effect and its answer is lost.
SmartKur(p) ==
    /\ smart[p].adim = "kur"
    /\ \/ /\ Zamanla(smart[p].b) /\ UNCHANGED ariza
          /\ SmartSonuc(p, "kayda", "SCHEDULED")
       \/ UNCHANGED <<zaman, ariza>> /\ SmartGit(p, "hata")
       \/ Zamanla(smart[p].b) /\ SmartGit(p, "hata") /\ Ariza
    /\ UNCHANGED <<tur, saat, satirlar, karar, is, istek, oco, yon, tarih, basma>>

\* markAwxScheduledAfterApproval
SmartKayda(p) ==
    /\ smart[p].adim = "kayda"
    /\ KayitDene(KayitNo(smart[p].b), {"PENDING_APPROVAL"},
                 [durum |-> "AWX_SCHEDULED", no |-> smart[p].b])
    /\ SmartGit(p, "bitir")
    /\ UNCHANGED <<tur, saat, bilet, karar, awx, istek, oco, yon, tarih, basma>>

\* performSsLaunch
SmartBaslat(p) ==
    /\ smart[p].adim = "baslat"
    /\ \/ Baslat(smart[p].b) /\ SmartSonuc(p, "bitir", "LAUNCHED") /\ UNCHANGED ariza
       \/ UNCHANGED <<is, ariza>> /\ SmartGit(p, "hata")
       \/ Baslat(smart[p].b) /\ SmartGit(p, "hata") /\ Ariza
    /\ UNCHANGED <<tur, saat, satirlar, karar, zaman, istek, oco, yon, tarih, basma>>

\* The outcome is written to the ticket; when that fails, the ticket ends as an error.
\* A scheduled one leaves its record alone.
SmartBitir(p) ==
    LET b == smart[p].b  sonuc == smart[p].sonuc IN
    /\ smart[p].adim = "bitir"
    /\ \/ /\ BiletYaz(b, {"LAUNCHING"}, sonuc) /\ UNCHANGED ariza
          /\ IF sonuc = "SCHEDULED" THEN SmartDevam(p) ELSE Esitle(p, "LAUNCHED")
       \/ UNCHANGED bilet /\ Ariza /\ SmartGit(p, "hata")
    /\ UNCHANGED <<tur, saat, kayit, karar, awx, istek, oco, yon, tarih, basma>>

SmartHata(p) ==
    /\ smart[p].adim = "hata"
    /\ BiletDene(smart[p].b, {"LAUNCHING"}, "ERROR")
    /\ Esitle(p, "FAILED")
    /\ UNCHANGED <<tur, saat, kayit, karar, awx, istek, oco, yon, tarih, basma>>

\* syncOcoRecord: markApprovedLaunched or markApprovalResolved
SmartEsitle(p) ==
    LET b == smart[p].b IN
    /\ smart[p].adim = "esitle"
    /\ KayitDene(KayitNo(b), {"PENDING_APPROVAL"},
                 [durum |-> smart[p].sonuc,
                  no |-> IF smart[p].sonuc = "LAUNCHED" THEN b ELSE kayit[KayitNo(b)].no])
    /\ SmartDevam(p)
    /\ UNCHANGED <<tur, saat, bilet, karar, awx, istek, oco, yon, tarih, basma>>

SmartAdimi(p) ==
    \/ SmartOku(p) \/ (\E b \in Bilet : SmartSira(p, b))
    \/ SmartSon(p) \/ SmartBekler(p) \/ SmartRet(p) \/ SmartSahiplen(p) \/ SmartKarar(p)
    \/ SmartKur(p) \/ SmartKayda(p) \/ SmartBaslat(p) \/ SmartBitir(p) \/ SmartHata(p)
    \/ SmartEsitle(p)

-----------------------------------------------------------------------------
\* The OCO poller.  A round first adopts the tickets it finds, then starts what is due.

OcoGit(p, adim) == oco' = [oco EXCEPT ![p].adim = adim]

OcoDevam(p, liste) ==
    oco' = [oco EXCEPT ![p] = IF liste = {} THEN OcoBos
                              ELSE [@ EXCEPT !.adim = "sira", !.liste = liste, !.k = Yok]]

Zamanlanmislar == {k \in Kayit : kayit[k].durum = "SCHEDULED"}

OcoOku(p) ==
    /\ oco[p].adim = "bos" /\ Zamanlanmislar # {}
    /\ oco' = [oco EXCEPT ![p] = [OcoBos EXCEPT !.adim = "bak", !.liste = Zamanlanmislar,
                                                !.simdi = saat]]
    /\ UNCHANGED <<tur, saat, satirlar, karar, awx, istek, smart, yon, tarih, ariza, basma>>

\* MUTANT of EnYeniBilet: only a ticket that is still pending is found.
BekleyenBilet(k) ==
    LET acilan == {b \in BiletleriOf(k) : bilet[b] = "PENDING"} IN
    IF acilan = {} THEN BagliYok ELSE [b |-> CHOOSE x \in acilan : TRUE, durum |-> "PENDING"]

\* findByOcoRecordIds: the newest ticket of a record, with its status as it is now.
EnYeniBilet(k) ==
    LET acilan == {b \in BiletleriOf(k) : bilet[b] # "yok"}
        b == CHOOSE x \in acilan : \A y \in acilan : y[2] <= x[2]
    IN IF acilan = {} THEN BagliYok ELSE [b |-> b, durum |-> bilet[b]]

OcoBak(p) ==
    /\ oco[p].adim = "bak"
    /\ oco' = [oco EXCEPT ![p].adim = "sira",
                          ![p].bagli = [k \in Kayit |-> IF k \in oco[p].liste THEN EnYeniBilet(k)
                                                        ELSE BagliYok]]
    /\ UNCHANGED <<tur, saat, satirlar, karar, awx, istek, smart, yon, tarih, ariza, basma>>

\* The tickets cannot be read: nothing is started in this round.
OcoBakHata(p) ==
    /\ oco[p].adim = "bak" /\ Ariza
    /\ oco' = [oco EXCEPT ![p] = OcoBos]
    /\ UNCHANGED <<tur, saat, satirlar, karar, awx, istek, smart, yon, tarih, basma>>

Benimsenecek(p) == {k \in oco[p].liste : oco[p].bagli[k].b # Yok}

\* BILET_KAYIT
BiletKayit(durum) ==
    CASE durum \in {"PENDING", "LAUNCHING"}  -> "PENDING_APPROVAL"
      [] durum = "SCHEDULED"                 -> "AWX_SCHEDULED"
      [] durum = "LAUNCHED"                  -> "LAUNCHED"
      [] durum \in {"REJECTED", "CANCELLED"} -> "CANCELLED"
      [] durum \in {"TIMEOUT", "ERROR"}      -> "FAILED"

\* MUTANT of Benimsenmis: the status of the ticket is taken as it is.
AynenBenimsenmis(t) == [durum |-> t.durum, no |-> IF t.durum = "LAUNCHED" THEN t.b ELSE Yok]

\* The row it adopts: a ticket carries the number of its job, never that of its schedule
\* (no statement writes smart_tickets.awx_schedule_id).
Benimsenmis(t) == [durum |-> BiletKayit(t.durum), no |-> IF t.durum = "LAUNCHED" THEN t.b ELSE Yok]

AdoptTicket(p, k) ==
    /\ oco[p].adim = "sira" /\ k \in Benimsenecek(p)
    /\ KayitDene(k, {"SCHEDULED"}, Benimsenmis(oco[p].bagli[k]))
    /\ OcoDevam(p, oco[p].liste \ {k})
    /\ UNCHANGED <<tur, saat, bilet, karar, awx, istek, smart, yon, tarih, basma>>

\* The clock of a round is the one of its start.
PencereKapandi(p) == oco[p].simdi \in {"son", "kapali"}
SaatiGeldi(p) == oco[p].simdi # "once"

OcoExpired(p, k) ==
    /\ oco[p].adim = "sira" /\ Benimsenecek(p) = {} /\ k \in oco[p].liste
    /\ PencereKapandi(p)
    /\ KayitDene(k, {"SCHEDULED"}, Durumlu(k, "EXPIRED"))
    /\ OcoDevam(p, oco[p].liste \ {k})
    /\ UNCHANGED <<tur, saat, bilet, karar, awx, istek, smart, yon, tarih, basma>>

OcoAtla(p, k) ==
    /\ oco[p].adim = "sira" /\ Benimsenecek(p) = {} /\ k \in oco[p].liste
    /\ ~PencereKapandi(p) /\ ~SaatiGeldi(p)
    /\ OcoDevam(p, oco[p].liste \ {k})
    /\ UNCHANGED <<tur, saat, satirlar, karar, awx, istek, smart, yon, tarih, ariza, basma>>

\* MUTANT of OcoSahiplenilir: the UPDATE has no condition on the status.
OcoKosulsuzSahiplenilir(k) == kayit[k].durum \in KAYIT_DURUMLARI

OcoSahiplenilir(k) == kayit[k].durum = "SCHEDULED"

OcoSahiplen(p, k) ==
    /\ oco[p].adim = "sira" /\ Benimsenecek(p) = {} /\ k \in oco[p].liste
    /\ ~PencereKapandi(p) /\ SaatiGeldi(p)
    /\ \/ /\ OcoSahiplenilir(k)
          /\ kayit' = [kayit EXCEPT ![k].durum = "LAUNCHING"]
          /\ oco' = [oco EXCEPT ![p].adim = "baslat", ![p].k = k, ![p].liste = @ \ {k}]
          /\ UNCHANGED ariza
       \/ /\ Arizasiz(~OcoSahiplenilir(k))
          /\ UNCHANGED kayit /\ OcoDevam(p, oco[p].liste \ {k})
    /\ UNCHANGED <<tur, saat, bilet, karar, awx, istek, smart, yon, tarih, basma>>

\* launchOrRequestApproval: a ticket is opened, or the job is started.
OcoBilet(p) ==
    /\ oco[p].adim = "baslat" /\ Onayli(oco[p].k)
    /\ \/ BiletAc(<<oco[p].k, 2>>) /\ OcoGit(p, "bilet") /\ UNCHANGED ariza
       \/ UNCHANGED <<bilet, ariza>> /\ OcoGit(p, "hata")
       \/ BiletAc(<<oco[p].k, 2>>) /\ OcoGit(p, "hata") /\ Ariza
    /\ UNCHANGED <<tur, saat, kayit, karar, awx, istek, smart, yon, tarih, basma>>

OcoBaslat(p) ==
    /\ oco[p].adim = "baslat" /\ ~Onayli(oco[p].k)
    /\ \/ Baslat(oco[p].k) /\ OcoGit(p, "yaz") /\ UNCHANGED ariza
       \/ UNCHANGED <<is, ariza>> /\ OcoGit(p, "hata")
       \/ Baslat(oco[p].k) /\ OcoGit(p, "hata") /\ Ariza
    /\ UNCHANGED <<tur, saat, satirlar, karar, zaman, istek, smart, yon, tarih, basma>>

\* MUTANT of OcoSonucu: an answer without a job number is written as a launch.
HepTetiklendi(p) == [durum |-> "LAUNCHED", no |-> oco[p].k]

\* The answer of _launch is written: markPendingApproval or markLaunched.
OcoSonucu(p) ==
    LET k == oco[p].k IN
    IF oco[p].adim = "bilet" THEN Durumlu(k, "PENDING_APPROVAL")
    ELSE [durum |-> "LAUNCHED", no |-> k]

OcoYaz(p) ==
    /\ oco[p].adim \in {"bilet", "yaz"}
    /\ \/ /\ KayitYaz(oco[p].k, {"LAUNCHING"}, OcoSonucu(p)) /\ UNCHANGED ariza
          /\ OcoDevam(p, oco[p].liste)
       \/ UNCHANGED kayit /\ Ariza /\ OcoGit(p, "hata")
    /\ UNCHANGED <<tur, saat, bilet, karar, awx, istek, smart, yon, tarih, basma>>

\* markFailed
OcoHata(p) ==
    /\ oco[p].adim = "hata"
    /\ KayitDene(oco[p].k, {"SCHEDULED", "LAUNCHING", "PENDING_APPROVAL"},
                 Durumlu(oco[p].k, "FAILED"))
    /\ OcoDevam(p, oco[p].liste)
    /\ UNCHANGED <<tur, saat, bilet, karar, awx, istek, smart, yon, tarih, basma>>

OcoAdimi(p) ==
    \/ OcoOku(p) \/ OcoBak(p) \/ OcoBakHata(p)
    \/ \E k \in Kayit : AdoptTicket(p, k) \/ OcoExpired(p, k) \/ OcoAtla(p, k) \/ OcoSahiplen(p, k)
    \/ OcoBilet(p) \/ OcoBaslat(p) \/ OcoYaz(p) \/ OcoHata(p)

-----------------------------------------------------------------------------
\* Cancellations

\* The owner cancels a ticket.  The record it belongs to is not told.
CancelTicket(b) ==
    /\ Basma /\ bilet[b] = "PENDING"
    /\ bilet' = [bilet EXCEPT ![b] = "CANCELLED"]
    /\ UNCHANGED <<tur, saat, kayit, karar, awx, istek, smart, oco, yon, tarih, ariza>>

\* The owner cancels a record.  Its ticket is not told.
Cancel(k) ==
    /\ Basma /\ kayit[k].durum \in {"SCHEDULED", "PENDING_APPROVAL"}
    /\ kayit' = [kayit EXCEPT ![k].durum = "CANCELLED"]
    /\ geriCekilen' = [geriCekilen EXCEPT
                          ![k] = IF BiletiYok(k) /\ istek[k] = "bitti" THEN "biletsiz" ELSE "biletli"]
    /\ UNCHANGED <<tur, saat, bilet, karar, awx, istek, smart, oco, yon, gec, ariza>>

\* The administrator reads the record, has its AWX schedule deleted, and closes the
\* record.
AdminOku(k) ==
    /\ yon.adim = "bos" /\ Basma
    /\ kayit[k].durum \in {"SCHEDULED", "AWX_SCHEDULED", "LAUNCHED"}
    /\ yon' = [adim |-> IF kayit[k].durum = "AWX_SCHEDULED" /\ kayit[k].no # Yok THEN "sil"
                        ELSE "yaz",
               k |-> k]
    /\ UNCHANGED <<tur, saat, satirlar, karar, awx, istek, smart, oco, tarih, ariza>>

AdminSil ==
    LET x == kayit[yon.k].no IN
    /\ yon.adim = "sil"
    /\ zaman' = [zaman EXCEPT ![x] = IF @ = "kurulu" THEN "silindi" ELSE @]
    /\ yon' = [yon EXCEPT !.adim = "yaz"]
    /\ UNCHANGED <<tur, saat, satirlar, karar, is, istek, smart, oco, tarih, ariza, basma>>

AdminCancel ==
    /\ yon.adim = "yaz"
    /\ KayitYaz(yon.k, {"SCHEDULED", "AWX_SCHEDULED", "LAUNCHING", "PENDING_APPROVAL", "LAUNCHED"},
                Durumlu(yon.k, "CANCELLED"))
    /\ yon' = YonBos
    /\ UNCHANGED <<tur, saat, bilet, karar, awx, istek, smart, oco, tarih, ariza, basma>>

-----------------------------------------------------------------------------
\* The surroundings

\* SMART decides once.  A decision about a closed ticket is not read.
SmartKarari(b, k) ==
    /\ bilet[b] = "PENDING" /\ karar[b] = "yok"
    /\ karar' = [karar EXCEPT ![b] = k]
    /\ UNCHANGED <<tur, saat, satirlar, awx, istek, smart, oco, yon, tarih, ariza, basma>>

\* Time goes on.  That the window opens while a request waits for SMART to open its
\* ticket counts as a fault.
SaatIlerler ==
    LET gecilen == {k \in Kayit : istek[k] = "kayit"} IN
    /\ saat # "kapali"
    /\ saat' = CASE saat = "once" -> "acik" [] saat = "acik" -> "son" [] saat = "son" -> "kapali"
    /\ gec' = gec \cup gecilen
    /\ Arizasiz(gecilen = {})
    /\ UNCHANGED <<tur, satirlar, karar, awx, istek, smart, oco, yon, geriCekilen, basma>>

\* AWX starts the job of a schedule.
ZamanAtesler(x) ==
    /\ zaman[x] = "kurulu" /\ saat # "once"
    /\ zaman' = [zaman EXCEPT ![x] = "atesledi"]
    /\ UNCHANGED <<tur, saat, satirlar, karar, is, istek, smart, oco, yon, tarih, ariza, basma>>

\* A process restarts: its rounds are gone.
Cokme(p) ==
    /\ Ariza
    /\ \/ p \in SmartSurec /\ smart[p].adim # "bos"
       \/ p \in OcoSurec /\ oco[p].adim # "bos"
    /\ smart' = [q \in SmartSurec |-> IF q = p THEN SmartBos ELSE smart[q]]
    /\ oco' = [q \in OcoSurec |-> IF q = p THEN OcoBos ELSE oco[q]]
    /\ UNCHANGED <<tur, saat, satirlar, karar, awx, istek, yon, tarih, basma>>

\* A request ends early: its process restarts, or a call of it fails.
IstekKesilir(k) ==
    /\ Ariza /\ istek[k] \notin {"yok", "bitti"}
    /\ istek' = [istek EXCEPT ![k] = "bitti"]
    /\ UNCHANGED <<tur, saat, satirlar, karar, awx, smart, oco, yon, tarih, basma>>

\* The cancellation ends early: AWX refuses to delete the schedule or to cancel the job.
AdminKesilir ==
    /\ yon.adim # "bos"
    /\ yon' = YonBos
    /\ UNCHANGED <<tur, saat, satirlar, karar, awx, istek, smart, oco, tarih, ariza, basma>>

-----------------------------------------------------------------------------
IstekAdimi(k) == CreateAwxScheduled(k) \/ TalepBilet(k) \/ MarkPendingApprovalAtRequest(k)

Next ==
    \/ \E k \in Kayit : TalepAwx(k) \/ TalepPortal(k) \/ IstekAdimi(k) \/ Cancel(k)
                           \/ AdminOku(k) \/ IstekKesilir(k)
    \/ \E y \in Dogrudan : TalepDogrudan(y)
    \/ \E p \in SmartSurec : SmartAdimi(p)
    \/ \E p \in OcoSurec : OcoAdimi(p)
    \/ \E p \in SmartSurec \cup OcoSurec : Cokme(p)
    \/ \E b \in Bilet : CancelTicket(b) \/ \E k \in {"onay", "ret"} : SmartKarari(b, k)
    \/ AdminSil \/ AdminCancel \/ AdminKesilir \/ SaatIlerler
    \/ \E x \in Kaynak : ZamanAtesler(x)

Spec == Init /\ [][Next]_vars

\* The timers of both pollers keep running, a request under way goes on, and time
\* passes.  SMART need not decide.
AdilSpec ==
    /\ Spec
    /\ \A p \in SmartSurec : WF_vars(SmartAdimi(p))
    /\ \A p \in OcoSurec : WF_vars(OcoAdimi(p))
    /\ \A k \in Kayit : WF_vars(IstekAdimi(k))
    /\ WF_vars(SaatIlerler)

-----------------------------------------------------------------------------
\* Properties

SmartTuru ==
    [adim : {"bos", "sira", "son", "sor", "karar", "kur", "kayda", "baslat", "bitir", "hata",
             "esitle"},
     liste : SUBSET Bilet, b : Bilet \cup {Yok},
     sonuc : {"yok", "FAILED", "CANCELLED", "SCHEDULED", "LAUNCHED"}]

BagliTuru == [b : Bilet \cup {Yok}, durum : BILET_DURUMLARI]

OcoTuru ==
    [adim : {"bos", "bak", "sira", "baslat", "bilet", "yaz", "hata"},
     liste : SUBSET Kayit, bagli : [Kayit -> BagliTuru], simdi : SAATLER, k : Kayit \cup {Yok}]

\* The variables hold what the columns and the handlers can hold.
TypeOK ==
    /\ tur \in Turler
    /\ saat \in SAATLER
    /\ kayit \in [Kayit -> [durum : KAYIT_DURUMLARI, no : Kaynak \cup {Yok}]]
    /\ bilet \in [Bilet -> BILET_DURUMLARI]
    /\ karar \in [Bilet -> {"yok", "onay", "ret"}]
    /\ is \in [Kaynak -> Nat]
    /\ zaman \in [Kaynak -> {"yok", "kurulu", "gecmis", "atesledi", "silindi"}]
    /\ istek \in [Kayit -> {"yok", "kuruldu", "kayit", "bilet", "bitti"}]
    /\ smart \in [SmartSurec -> SmartTuru]
    /\ oco \in [OcoSurec -> OcoTuru]
    /\ yon \in [adim : {"bos", "sil", "yaz"}, k : Kayit \cup {Yok}]
    /\ geriCekilen \in [Kayit -> {"-", "biletsiz", "biletli"}] /\ gec \subseteq Kayit
    /\ ariza \in Nat /\ basma \in Nat

\* A ticket seen from outside: who may act on it, and how often the Portal had AWX do
\* something for it.
Hal(d) == CASE d = "yok" -> "yok" [] d = "PENDING" -> "acik" [] d = "LAUNCHING" -> "sahipli"
            [] OTHER -> "kapandi"
Etki(x) == is[x] + IF zaman[x] = "yok" THEN 0 ELSE 1
BiletHali == [b \in Bilet |-> Hal(bilet[b])]
BiletEtkisi == [b \in Bilet |-> Etki(b)]

Karar == INSTANCE TekKarar WITH Talep <- Bilet, durum <- BiletHali, etki <- BiletEtkisi

\* A ticket leads to one call of AWX at most, made by the process that claimed it; a
\* ticket that was cancelled, rejected or timed out leads to none, whatever the rounds
\* of the processes, the cancellation and a late decision overtake.  This is what the
\* claim before the call is for (smart/store.cjs, claimForLaunch).
TekKarar == Karar!Spec

\* How many jobs the record k got.
IsSayisi(k) ==
    Cardinality({x \in Kaynaklar(k) : zaman[x] = "atesledi"})
        + is[k] + is[<<k, 1>>] + is[<<k, 2>>]

\* A record gets one job at most, through its own launch, its schedule and all its
\* tickets together, unless its window opened while its request was waiting for SMART.
TekIs == \A k \in Kayit \ gec : IsSayisi(k) <= 1

\* A record has one ticket at most, with the same exception: the OCO poller does not
\* open a second one for a record whose ticket it has not noticed.
TekBilet == \A k \in Kayit \ gec : Cardinality({b \in BiletleriOf(k) : bilet[b] # "yok"}) <= 1

\* Nothing that belongs to a window starts before it: an approval that comes early
\* leads to a schedule, or waits.
ErkenBaslamaz ==
    saat = "once" => \A x \in Kaynak : (x \in Bilet => Turu(x) # "serbest") => ~Tetiklendi(x)

\* A record says LAUNCHED, or AWX_SCHEDULED, only when AWX really started a job, or
\* made a schedule, for it: for the record or for one of its tickets.
TetiklendiDogru ==
    \A k \in Kayit :
        /\ kayit[k].durum = "LAUNCHED" => \E x \in Kaynaklar(k) : x = kayit[k].no /\ is[x] > 0
        /\ kayit[k].durum = "AWX_SCHEDULED" => \E x \in Kaynaklar(k) : zaman[x] # "yok"

\* What the owner withdrew before a ticket was opened for it stays without a job and
\* without a ticket, also when a round is under way that listed the record.
SahipIptaliKesin ==
    \A k \in Kayit : geriCekilen[k] = "biletsiz" => BiletiYok(k) /\ IsSayisi(k) = 0

\* A pending ticket with a window does not stay pending, whether SMART answers or not.
BiletSonuclanir ==
    \A b \in Bilet : Turu(b) # "serbest" => (bilet[b] = "PENDING" ~> bilet[b] # "PENDING")

\* A record that waits for approval is resolved, unless its owner cancels the ticket or
\* something fails on the way (syncOcoRecord is tried once).
KayitSonuclanir ==
    \A k \in Kayit :
        kayit[k].durum = "PENDING_APPROVAL" ~>
            \/ kayit[k].durum # "PENDING_APPROVAL"
            \/ \E b \in BiletleriOf(k) : bilet[b] = "CANCELLED"
            \/ ariza > 0

\* No job is started for a record its owner has cancelled.
IptalEdilenTetiklenmez ==
    [][\A k \in Kayit : geriCekilen[k] # "-" =>
          \A x \in Kaynaklar(k) : ~Tetiklendi(x) => ~Tetiklendi(x)']_vars
=============================================================================
