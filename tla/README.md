# Verification of PORTAL-BMW

TLA+ models of the operations portal in this repository, TLC runs that check
them on small instances, and TLAPS proofs of the most important results for
every instance.  Names in the modules are the names of the source where there is
one (`casLock`, `kilitSupur`, `finalizeOperation`); the rest is Turkish, like the
code.

Contents

1. The system
2. The modules
3. The runs
4. Fairness
5. The proofs
6. Where the code and its documentation differ
7. What is abstracted, and what is not modelled
8. The plan

## 1. The system

The portal is one Node/Express process (`server/`, CommonJS) with a React front
end, a MSSQL database and an AWX controller that runs Ansible jobs.  SMART
(approval tickets) and OCO (change orders with a time window) are outside
services that the portal polls.  The browser also polls: most long operations are
finalised *either* by a request of a browser *or* by a timer of the server.

The process is single threaded, but every `await` of the database, of AWX or of
SMART is a point where another handler runs, and several operators work on the
same targets.  The process may restart at any time; the database and AWX go on.
There is no transaction around a handler: a statement is atomic, a handler is not.
That is why nearly every hard property of this code is about conditional
`UPDATE`s, locks stored in rows, and what a handler that read something before an
`await` does with it afterwards.

| Component | State | Operations | Talks to | Hard part |
|---|---|---|---|---|
| Load test lock table `nginx-loadtest/kilit.cjs` | one row per key `G\|global`, `T\|target`, `L\|machine`: held, lock_id, locked_until, bound job and its kind | casLock, readLock, acquireLocks, bindLocks, releaseLocks, durdurIsineBagla, releaseLocksForJob, isinKilitleriniCoz | database; AWX for the status of a bound job | all keys or none, take-over of lapsed locks, locks that must outlive their AWX job |
| Load test runs `nginx-loadtest/index.cjs`, `baslat.cjs`, `poller.cjs` | run rows (`QUEUED … FINALIZING … DONE`), job numbers, stop jobs | start, Stop, finalise, read the result again, stale rows, sweep of locks, automatic stop | lock table, AWX | unanswered launches, Stop during a launch, restart in any place, cancelled jobs that leave load on the hosts |
| Load test night queue `nginx-loadtest/kuyruk.cjs` | queue row with a lease, items, rests | executor round, claim, cancel, pause, edit | start and finaliser of runs | lease moves to another process between claim and launch; every turn works with copies of rows |
| ScaleX `scalex/` | `scalex_state_mirror` (what the portal stopped; its phase is the restore lock), `scalex_operations` (one row per cluster) | run (stop, restore), finalise, cancel, adopt approved and scheduled jobs, sweep of orphan locks, discovery scan | AWX, SMART, OCO, browser, reconciler | four writers of one row, lock taken long before the row, mirror written by several callers |
| SMART `smart/` | tickets PENDING, LAUNCHING, LAUNCHED, CANCELLED, … | poll, claim, launch or schedule, cancel, deadline, tell the OCO record | SMART, AWX | claim races cancel and timeout; crash after the claim; the record is told once |
| OCO `oco/` | records with a window, with AWX's own schedule or a ticket behind them | poll, adopt a ticket, claim, launch in the window, expire, cancel | OCO, AWX, SMART | the same, plus the window and a record that does not know its ticket |
| AWX runner and gates `ansible/runner.cjs`, `change-gates.cjs` | none that is durable | launch, status, output, cancel | AWX | a launch without an answer, a cancel that is not carried out |
| Long job watcher `ansible/long-job-*.cjs` | notices, tokens | warn, cancel | AWX, mail | a cancel token used twice or too late |
| Retirement `retirement/` | records with targets: a status, three job numbers, the lists of preflights | preflight, STOP now or in a window, deletion at a date, way back, cancel, results by browser and poller | AWX, OCO | deletion against way back, a list that may be used once, failures half-way, writes without a condition |
| Sessions and login `auth/` | session rows, failure counters | get, set, touch, prune; backoff | database | a touch that revives a session, a counter at its limit |
| Audit `audit/` | hash chain, disk spool | append, spool, replay | database, disk | order of the chain when the spool is replayed |
| LogX `logx/` | jobs, OpenShift cache | collect, cancel, cache | OpenShift, AWX | a cache that is refilled by two requests |
| OpsX `opsx/` | WebSphere state, approvals | start and stop servers | AWX | an older form of the load test's lock |
| Server Hub, Nginx Hub, Self Service, Crypto Hub, FileX, Telnet, Inventory, Dynatrace, AI | catalogues and collected data | CRUD, parsing, reports | AWX, files | little: one job per request |
| Database layer `db/` | connection, schema | query, migrate, housekeeping | MSSQL | none that the modules rely on but the atomicity of a statement |

What makes each modelled component correct:

* **Load test.**  Two runs that need the same key never put load on at the same
  time.  A refused request leaves no key behind.  The lock of a run that was
  cancelled or lost stays until a stop job has cleaned the hosts.  A closed row is
  not reopened by something late.  No lock and no row hangs for ever.
* **Night queue.**  No item's load starts twice and no job of the queue runs
  unwatched, whichever process died where.  An item runs with the body its owner
  sees.  The rest between two loads begins when the locks are free.  The queue ends.
* **ScaleX.**  A restore locks all of its targets or none.  A closed row has one
  closer.  The sweep frees only locks of restores that are over.  No lock hangs for
  ever, and every job that was started has its rows closed.
* **Approvals and windows.**  One ticket and one job per request at most; none after
  a cancellation, a rejection or the deadline; none before the window; a record
  says that something was started only if it was; nothing waits for ever.
* **Retirement.**  Deletion and way back exclude one another.  Only what is down is
  deleted, with a list that is used once.  The status is true once no job is under way.
  A result is written and a due deletion taken up with nobody watching.

## 2. The modules

| Module | What it is |
|---|---|
| `YukKilit` | the lock table: each conditional `UPDATE` of `kilit.cjs` as a function from table to table |
| `YukTesti` | the load test: start, Stop, finaliser, sweep, AWX jobs, restart and time over `YukKilit` |
| `TekYuk` | what the lock table promises: a run owns all its resources from its start to its end |
| `YukTestiKanit` | the proofs about `YukTesti`: who holds a key, and the refinement |
| `YukDurdurmaKanit` | further proofs about `YukTesti`: closed rows, and locks that wait for a stop job |
| `MCYukTesti` | small instances of `YukTesti` |
| `ScaleX` | ScaleX: POST /run, finaliser, reconciler, cancel, discovery, AWX jobs, tickets, restart |
| `ScaleXKanit` | the proofs about `ScaleX` |
| `MCScaleX` | small instances of `ScaleX` |
| `YukKuyruk` | the night queue: processes under a lease, items, and runs as coarse as the queue sees them |
| `KuyrukKanit` | the proofs about `YukKuyruk` |
| `KuyrukDenemeKanit` | the proof about the attempts of an item of `YukKuyruk` |
| `MCYukKuyruk` | small instances of `YukKuyruk` |
| `Onay` | SMART tickets and OCO records: the gates of a request, both pollers, cancellation by owner and administrator, AWX schedules |
| `TekKarar` | what a ticket promises: one owner, one effect at most, none once it is closed |
| `OnayKanit` | the proofs about `Onay` |
| `MCOnay` | small instances of `Onay` |
| `Emeklilik` | retirement of one application: every request, the poller's round, AWX jobs, the application itself |
| `EmeklilikKanit` | the proofs about `Emeklilik` |
| `MCEmeklilik` | small instances of `Emeklilik` |

The components meet where their code meets.  `YukTesti` calls the operators of
`YukKilit`; `YukKuyruk` sees of a run what the queue's code reads of it (row, job,
lock), and the protocol of the run is `YukTesti`; `Onay` is what ScaleX's
`BiletCozulur` stands for; `TekYuk` and `TekKarar` are the abstract specifications
that `YukTesti` and `Onay` implement.

The state machines are written in the same way.  A handler is a program counter
(`pc`, `drd`, `son`; `istek`, `fin`, `supur`, `tarama`; `surec`; `smart`, `oco`,
`yon`; `el`) and one action per awaited
statement that reads or writes shared state; what happens between two such
statements, early returns and `catch` blocks included, is part of the action.  A
failed statement, an unanswered call and a restart are counted in `ariza`; the
bound `EnCokAriza` limits them.

### YukTesti over YukKilit

| Code | Actions |
|---|---|
| `acquireLocks` (kilit.cjs:176) | `KilitAl` (casLock), `KilitOku` (readLock), `KilitSor` (AWX status of the holder, then free or unbind), `KilitTekrar` (second casLock), `KilitHata` |
| `kosuyuBaslat` (index.cjs:435) | `Istek`, then the above, `SatirYaz`, `BaslatRed`, `AwxBaslat` (started, refused, swallowed, unanswered), `Bagla` (bindLocks key by key), `SatirGuncelle`, `SatirKontrol`, `Birak` (releaseLocks key by key) |
| `kosuyuDurdur` (index.cjs:702) | `Durdur`, `DurdurBaslat`, `DurdurYaz`, `DurdurBagla` |
| `kosuyuSonuclandir` (poller.cjs:414) | `SonucOku`, `SonucAl`, `SonucVazgec`, `SonucKilit`, `OtoDurdur`, `OtoYaz`, `OtoBagla`, `SonYaz` |
| `bayatKuyruk`, `kilitSupur` (poller.cjs:550, 564) | `BayatKuyruk`, `KilitSupur` |
| POST `/kosular/:id/yeniden-oku` | `YenidenOku` |
| AWX, time, restart | `AwxBiter`, `DurdurmaBiter`, `Tik`, `Cokme` |

**Time.**  `kalan` of a lock is the number of whole ticks, rounded up, until
`locked_until`; a tick stands for about 25 minutes (in the instances the template
timeout is one tick and the lock lifetime two, except in `yuk_kosular`, because `kilitSuresiDk` is never less
than `SABLON_ZAMAN_ASIMI_DK + 5`).  `Tik` is disabled while a live job is at its
template timeout (AWX ends it) and while a request is between its first lock and
the answer of AWX to its launch or its refusal: the timeouts of those calls are
seconds.  The twelve hours after which casLock takes a bound lock are `YarimGun`.

**History.**  `korDurdur` names the runs whose locks were bound to a stop job
while their own job was alive and not cancelled.  The code does that on purpose for
a run whose job number it does not know (section 6), and `TekKosu` excepts exactly
these runs.

### ScaleX

A *target* is an application on a cluster; each target of a request is on a cluster
of its own, so that `satir[o][t]` is the row of request `o` for that cluster.
`ayna[t]` is the mirror row of the target: its phase and its `restore_attempts`.

| Code | Actions |
|---|---|
| POST `/run` (index.cjs:1960) | `Istek`, `KilitDene` and `KilitBak` (tryLockRestore), `KilitHata`, `Birak` (releaseRestoreLocks), `Kapi` (runScaleXGates), `Baslat` (launchOnAwx), `SatirYaz` (insertOperationRows) |
| `finalizeOperation` (index.cjs:3150) | `FinOku`, `FinYaz`, `FinAyna` for each caller in `Sonuclandiran` |
| reconciler: adoption, stale rows | `Devral` (adoptApprovedTickets, adoptScheduledLaunches), `Bayat` (markStale) |
| reconciler: `releaseOrphanRestoreLocks` | `SupurListele`, `SupurIslem`, `SupurBirak` |
| POST `/cancel` | `Iptal` |
| discovery scan and `refreshDrift` | `Tara`, `TaramaListele`, `TaramaSil` |
| SMART and OCO pollers, AWX, restart | `BiletCozulur`, `AwxBiter`, `Cokme` |

`sahip[t]` is history: the request that locked the target last.  `supur.eski` is
history too: the open restores of the locked targets at the moment of the listing.

### YukKuyruk

`surec[p]` is one turn of process `p`: its place, its copies of the queue row (`k`) and
of the item row (`goz`), the number of the run it has written.  Every write is a
conditional `UPDATE` on the rows as they are.

| Code | Actions |
|---|---|
| `tick`, `kuyrukIsle`, `kuyrukAdimi` (kuyruk.cjs:436-472, 743-790) | `KiraAl`, `KuyrukOku`, `KuyrukBasla`, `CalisanOge`, `SiradakiOge`, `TurBiter`, `TurHatasi`, `HataliOgeler` |
| `ogeBaslat`, `geciciHata` (506-582) | `KapiHata`, `OgeAtla`, `OgeSahiplen`, `Al`, `Alinamaz`, `Kanca` (the number hook), `Baslar`, `Baslamaz`, `Belirsiz`, `GeriAl`, `OgeErtele`, `KapatVe` |
| `ogeIlerlet`, `sonrasi`, `dinlenme` (600-740) | `IlerletNumarasiz`, `IlerletKosu`, `IlerletDurdurulan`, `IlerletOnKontrol`, `KosuAsamasi`, `Dinlen`, `DinlenmeBaslat`, `DinlenmeBitti` |
| the owner's endpoints (index.cjs:1950-2134) | `Iptal` then `OgelerIptal`, `Duraklat`, `DevamOku` then `KuyrukDevam`, `OgeGuncelle`, `OgeCikar`, `Durdur`, `KosuSil` |
| runs, time, restart | `AwxBiter`, `KosuKapanir`, `BayatKuyruk`, `KilitBirakilir`, `GeriCekilmeBiter`, `DinlenmeDolar`, `KiraDuser`, `Cokme` |

The attempt identifier of an item is the process that made it: a process has one attempt
at a time and never uses an old identifier again.  The order of waiting items is open,
because the owner may change it at any time.  `deneme`, the count of attempts in the item's
row, has no bound, as in the SQL.  `yorgun`, `bayat` and `yarim` are history: a load job started
and the queue has not rested since; a turn counted the pause of a run the queue did not
rest for any more; a turn that had lost the lease counted an attempt, or the close after the
last attempt did not happen, or not before the lease had passed on (section 6 on the last two).

### Onay

A ticket is named by what opened it: a record `k` may get `<<k, 1>>` with its request and
`<<k, 2>>` from the OCO poller, a request without a record `<<y, 1>>`.  `tur` is drawn once:
scheduled at AWX or by the portal, with or without approval, inside its window, of Crypto
Hub, or free of windows.

| Code | Actions |
|---|---|
| `runChangeGates`, `evaluateOcoGate`, `openSmartTicket` (change-gates.cjs) | `TalepAwx`, `TalepPortal`, `TalepDogrudan`, `CreateAwxScheduled`, `TalepBilet`, `MarkPendingApprovalAtRequest`, `IstekKesilir` |
| SMART poller (smart/poller.cjs) and the callback of runner.cjs:3516-3608 | `SmartOku`, `SmartSon`, `SmartBekler`, `SmartRet`, `SmartSahiplen`, `SmartKarar`, `SmartKur`, `SmartKayda`, `SmartBaslat`, `SmartBitir`, `SmartHata`, `SmartEsitle` |
| OCO poller (oco/poller.cjs) and `launchOrRequestApproval` | `OcoOku`, `OcoBak`, `OcoBakHata`, `AdoptTicket`, `OcoExpired`, `OcoAtla`, `OcoSahiplen`, `OcoBilet`, `OcoBaslat`, `OcoYaz`, `OcoHata` |
| cancellation by the owner and by an administrator | `CancelTicket`, `Cancel`, `AdminOku`, `AdminSil`, `AdminCancel`, `AdminKesilir` |
| SMART, AWX, time, restart | `SmartKarari`, `ZamanAtesler`, `SaatIlerler`, `Cokme` |

`geriCekilen` and `gec` are history: what the owner withdrew, and the records whose window
opened while their request was still waiting for SMART.

### Emeklilik

`hedef` is the row of `retirement_targets`, `uygulama` what the jobs made of the
application, `el[a]` the place of a browser's request or of the poller's round.

| Code | Actions |
|---|---|
| `stopBaslat` (index.cjs:673) | `OnKontrolIste`, `OnKontrolBaslat`, `OnKontrolYaz`; `Onayla`, `Zamanla` or `OnayBaslat` and `OnayYaz` |
| POST `/rollback` (1231) | `GeriOnIste`, `GeriOnBaslat`, `GeriOnYaz`; `GeriOnayla`, `GeriClaim`, `GeriBaslat`, `GeriGeri`, `GeriYaz` |
| POST `/delete-plan`, `/cancel`, `/cikar`, `/delete-now`, `/reconcile-job` | `SilmeOnIste`, `SilmeOnBaslat`, `SilmeOnYaz`; `Iptal`; `Cikar`; `SilmeGunu`; `Uzlastir` |
| GET `/job-status`, POST `/refresh-status` | `IsDurumu`, `IsDurumuYaz`, `OnDurumuYaz`; `Tazele`, `TazeleNo`, `TazeleSor`, `TazeleYaz` |
| `stopTick`, `deleteTick`, `silmeOnKontrolBaslat` (poller.cjs) | `StopListele`, `StopDus`, `StopClaim`, `StopBaslat`, `StopGeri`, `StopYaz`; `SilmeListele`, `PlanClaim` to `PlanYaz`, `SilmeClaim` to `SilmeYaz` |
| `onKontrolTick`, `finalizeAdim` | `OnKontrolTick`, `OnKontrolTickYaz`; `Finalize`, `FinalizeSor`, `FinalizeYaz`, `FinalizeKayit` |
| AWX, time, faults | `AwxBiter`, `PencereIlerler`, `Bayatla`, `DbHata`, `Cokme` |

Four history variables name the ways in which the row may be wrong about the application,
each a behaviour of the code that section 6 reports: `kayip` (a job whose number never
reached the portal, because a launch was not answered or the write after it failed),
`ezilen` (an `UPDATE` without a condition met a row that had changed since it was read)
and `eskiHukum` (a row was judged by a job that was not its own); `kanit` are the lost jobs
an error event still names, which is what `/reconcile-job` needs.  `Duzgun` says that none
of the three has happened.  The properties that speak of the application are stated under
`Duzgun`; the others are not.

## 3. The runs

| Run | Instance | States | What it shows |
|---|---|---|---|
| `yuk_kosular` | a load run and a check with the same keys, one fault | 1.9 M | `TekKosu`: no two live runs; `HepsiYaDaHic`: a refused request holds no key; `TekYukuSaglar`: the lock table with its handlers implements `TekYuk` |
| `yuk_durdurma` | one run that changes its target, one stop job, one press, one fault | 0.4 M | `TypeOK`; `KilitTutulur`: the locks of a cancelled or lost run stay until its stop job succeeds; `KapaliSatirAcilmaz` |
| `yuk_canlilik` | the same without a press, fair | 21 k | `KilitAcilir`, `SatirKapanir` |
| `scalex_guvenlik` | two restores that share a target (one has two targets, the shared one last), one scan; every application was stopped through the portal before (`DurmusSpec`) | 3.1 M | `TumuYaDaHicbiri`: a refused restore keeps no lock; `SupurmeCalisaniBirakmaz`: the sweep, which lists, reads and unlocks in three steps, does not free a restore that was open at its first step and still is |
| `scalex_canlilik` | a stop and a restore of one target, one fault, one cancellation, fair | 0.2 M | `TypeOK`, `SonlananDegismez`, `KilitCozulur`, `IslemKapanir` |
| `kuyruk_guvenlik` | two processes, one item with up to three runs, two events (at most one a fault, the rest requests of the owner), processes symmetric | 1.7 M | `CiftBaslatmaYok`: an item's load starts once; `IsIzlenir`: no job without an item; `GovdeAyni`; `DinlenmeKilitsiz`; `IzlenenSilinmez`; `DenemeSiniri`: no more attempts than the limit, and the item that had the last is closed; `TypeOK` |
| `kuyruk_canlilik` | the same with up to two runs, two rounds of a turn and one event, fair | 0.2 M | `KuyrukBiter`, `OgeYetimKalmaz` |
| `onay_kapilar` | one request of every kind beside one round of each poller, one fault and one cancellation, fair | 54 k | `TekKarar` (refinement), `TekIs`, `TekBilet`, `ErkenBaslamaz`, `TetiklendiDogru`, `SahipIptaliKesin`, `BiletSonuclanir`, `KayitSonuclanir`, `TypeOK` |
| `emeklilik` | one application, one browser and the poller, up to six jobs, one fault or two failed jobs, two requests that begin something, fair | 1.0 M | `TekYon`, `SilmeDurmustan`, `ListeBirKez`, `DurumGercek`, `GecisBiter`, `SilmeGelir`, `TypeOK` |
| `scalex_onay_kilidi`, `onay_iptal`, `emeklilik_iptal` | the smallest that fails | | section 6 |

**Why the bounds are enough to be of interest.**  A race for a lock needs two
requests; a third adds no new pair.  In `scalex_guvenlik` the first restore needs two
targets, or there is nothing to give back.  One fault is a restart in any state, or
any one statement that fails, or one unanswered launch; the faults that matter here
are single (a restart *between* two statements), and two faults only multiply the
places.  A lock lifetime of two ticks over a template timeout of one is the
smallest that keeps their order and lets time pass under a live job.  `yuk_kosular` has
two requests and must be smaller: there the lifetime is one and the timeout none, so a
job ends before the next tick; that time may pass under a live job while another request
waits for its keys is left to the proof of `TekKosu`.  `Uzatma` of two (one in
`yuk_kosular`) and `YarimGun` of one make an
extension visible and let a bound lock lapse inside the run.
`OKUMA_DENEME_SINIRI` is 0 where the number of reads does not matter and 1 where it
does.

In `YukKuyruk` two processes are what a lease is for, and the second one only ever meets
what the first has left behind.  Three runs are an attempt that failed, its retry and the
preflight of either.  `EnCokOlay` counts faults and requests together: two of them make
every pair "a fault after a request" and "a request after a fault", and pause with resume.
In `Onay` the two pollers of one process are independent handlers, and what keeps two
rounds of one poller apart is the conditional `UPDATE` that keeps a round and a cancellation
apart; the proofs cover any number of processes.  `Emeklilik` needs six jobs: preflight
and STOP, preflight and deletion, and two for a second attempt or the way back.  A fault
takes the place of two jobs and of two failed jobs, as the model would not fit otherwise.

Every action and every alternative of the next-state relations is taken in some passing
run.

The runs of ScaleX, `Onay` and `Emeklilik` do not check for deadlock: requests are made
once each, so the system comes to rest; nor do those of the queue, which stops when it is
done, paused or cancelled.  The runs of the load test do check it; there time always passes
or somebody moves.

Each property of each passing run was also checked against a *mutant*: a variant of one
definition that a plausible mistake in the code would produce (marked `MUTANT of` in
the modules, listed in `PROJECT.json`).  Each property is violated by its mutant.

## 4. Fairness

`Adalet` of **YukTesti**: a handler that was called runs to its end (the process is
single threaded and every call has a timeout); the timer of the poller keeps firing
(`SonucOku`, `BayatKuyruk`); AWX may fail to answer a read any number of times but
not for ever (`SF` of `SonucAl`); an AWX job ends (the templates have a timeout); time
passes.  Nobody is obliged to press a button, and `KilitSupur` is not assumed to be
fair: locks lapse without it.

`Adalet` of **ScaleX**: handlers run to their end, the reconciler's timer fires for
ever (adoption, finaliser, sweep), AWX jobs end.  Nothing is assumed of
`BiletCozulur`, `Bayat`, `Iptal` and the scans: SMART waits for a decision without
limit, which is why `KilitCozulur` excepts a restore that waits for an undecided
ticket.

`Adalet` of **YukKuyruk**: the timer of every process that is alive fires and its turn goes
on, AWX jobs end, the load test's poller closes their rows and frees their locks
(`yuk_canlilik` is about exactly that), rests and leases run out.  A process that died does
not come back by fairness; its lease ends and the other one goes on.

`AdilSpec` of **Onay**: the timers of both pollers fire, a request under way goes on, time
passes.  SMART need not decide, which is what the deadline is for; AWX need not fire.
`KayitSonuclanir` holds only if nothing failed and nobody cancelled the ticket: the record
is told once, after the ticket is closed (`syncOcoRecord`).

`Adil` of **Emeklilik**: a handler goes on, each round of the poller comes to look at every
target, AWX jobs end, a list grows old.  Operators need not do anything and no window need
open.

## 5. The proofs

`YukTestiKanit` proves, for any sets of requests and stop jobs, any assignment of
targets and machines, any lifetime longer than the template timeout and any bounds:

| Theorem | States |
|---|---|
| `IInvDogru` | `Spec => []IInv` |
| `TipDogru` | `Spec => []TypeOK` |
| `TekKosuDogru` | `Spec => []TekKosu` |
| `HepsiYaDaHicDogru` | `Spec => []HepsiYaDaHic` |
| `TekYukDogru` | `Spec => TekYukuSaglar` (refinement of `TekYuk`) |

The assumptions are those of the modules: `KumeVarsayimi` (kinds of requests are
sets of requests, job numbers are not NULL), `SureVarsayimi` (the lock lives longer
than the template timeout) and `SinirVarsayimi`.

`TekKosu` is far from inductive: that two live runs never share a key depends on
every handler that may touch the lock row in between.  The inductive invariant is

    IInv == TipInv /\ OnceInv /\ AlinanInv /\ KorunurInv /\ BagInv /\ TutulanInv

* `TipInv`: the types, with the loop indices inside the key lists (`AlmaTipi`).
* `OnceInv`: before its launch is answered a request has no job, nor a row that Stop or
  the stale-row sweep would touch; a request launches at most once.
* `AlinanInv`: the keys a request has taken so far are its own, unbound, and have the
  whole lifetime left.
* `KorunurInv`: the heart.  A live run that is not in `korDurdur` holds all of its keys;
  each is bound to the run's own job or not bound at all, and has more ticks left than
  AWX lets the job live, so neither a competing request nor the sweep may take it.
* `BagInv`: the job in a lock row, as any handler has read it, is the run's own, or a stop
  job of a run that is over or in `korDurdur`.  That makes it safe to free "the locks
  of job j" later on.
* `TutulanInv`: what a request may hold while it takes or gives back keys, and that it
  holds nothing once it is refused.

The proof that a step preserves it has one lemma per action.  `TekKosu` follows
because two live runs that share a key would both hold it; `HepsiYaDaHic` from
`TutulanInv`; the refinement because the launch is the one step at which a run
appears among the owners, and it holds all of its keys then.

`YukDurdurmaKanit` goes on from there, under the same assumptions:

| Theorem | States |
|---|---|
| `KapaliSatirAcilmazDogru` | `Spec => KapaliSatirAcilmaz` |
| `AitInvDogru` | `Spec => []AitInv` |
| `KilitTutulurDogru` | `Spec => KilitTutulur` |

The first rests on `SatirAdimlari`: whatever a handler has read, the statement that writes
a run row names the statuses it may meet, and none of them but that of
`/kosular/:id/yeniden-oku` meets a closed one.  The second is the invariant that the third needs: a job that
is named in a lock row, in a row a competing request has read, or in the variables of a
Stop or of the finaliser, is that run's own or a stop job launched for it.  A stop job
belongs to one run from the moment AWX numbers it (`SahipAdimlari`), so it cannot free the
locks of another one, and `KilitTutulur` follows (`TutulmaAdimi`): the cancelled or lost
run's job is not live, its locks name that job, a stop job of the run that has not
succeeded, or none, and no place that frees locks accepts any of these while there is time
left (`IsBirakmaz`).

`KuyrukKanit` proves, for any sets of processes, items and runs and any bounds:

| Theorem | States |
|---|---|
| `IInvDogru` | `Spec => []IInv` |
| `TipDogru` | `Spec => []TypeOK` |
| `CiftBaslatmaYokDogru` | `Spec => []CiftBaslatmaYok` |
| `IsIzlenirDogru` | `Spec => []IsIzlenir` |
| `GovdeAyniDogru` | `Spec => []GovdeAyni` |
| `DinlenmeKilitsizDogru` | `Spec => []DinlenmeKilitsiz` |
| `IzlenenSilinmezDogru` | `Spec => IzlenenSilinmez` |

The assumptions are `KuyrukSinirlari` (bounds are numbers) and `YokAyri` (NULL is no name).
The invariant is

    IInv == TipInv /\ (rows) KosuKurali /\ (items) OgeKurali /\ (turns) SurecKurali
                   /\ AyriKosu /\ TakipInv /\ DinlenmeInv

* `KosuKurali`, `OgeKurali`: which fields of a run row, and of an item row, go together.
* `SurecKurali(p)`: what a turn may still rely on of the copies it made, at each of its
  places.  It says nothing about the lease: a turn that has lost its lease goes on, and is
  held off by the attempt identifier in the item row only.
* `AyriKosu`: two turns never start the same run.
* `TakipInv`: a run that is alive, or whose load was put on, is one its item or the turn
  that is starting it follows, or one that was stopped; and an item has one such run.
* `DinlenmeInv`: `DinlenmeKilitsiz`, and the queue rests for a run there has been.

The actions of the queue are many, but what they may do to the state is not.  `Etki(p)` says it in
five parts (to items, to runs, to the turn of `p`, to the queue row, to the counters);
every action is shown to have such an effect for some `p` or for none, and `EtkiKorur` shows that
an effect preserves `IInv`.  TLC checked `IInv`, and the `SinirInv` below, on the whole of
`kuyruk_guvenlik`.

`KuyrukDenemeKanit` adds, under the same assumptions:

| Theorem | States |
|---|---|
| `DenemeSiniriDogru` | `Spec => []DenemeSiniri` |

A turn raises the count in the row by an `UPDATE` but decides by its copy whether this was the
last attempt, and closes the item in a statement of its own.  So a copy that is behind its row
would let the count pass the limit unseen.  The invariant is

    SinirInv == DenemeSiniri /\ (~yarim => \A p \in Surec : KopyaGeride(p))

* `KopyaGeride(p)`: where the holder of the lease may still count, the count in its copy is
  at least that of the row.  An owner's edit only puts the row to 0, and another turn
  counts only without the lease, which is `yarim`.

Steps that count nothing (`SayilmazSinir`) and steps that count (`SayanSinir`) are shown to keep
it separately, and taking the lease on its own (`KiraAlSinir`).  `TypeOK` says nothing about
the limit: `deneme` is any number there.

`ScaleXKanit` proves, for any sets of requests and targets, any finite target lists, any
callers of the finaliser and any bounds:

| Theorem | States |
|---|---|
| `IInvDogru` | `Spec => []IInv` |
| `TipDogru` | `Spec => []TypeOK` |
| `SonlananDegismezDogru` | `Spec => SonlananDegismez` |
| `SupurmeDogru` | `Spec => []SupurmeCalisaniBirakmaz` |
| `TumuYaDaHicbiriDogru` | `Spec => []TumuYaDaHicbiri` |

It assumes `SinirVarsayimi` and `IslemVarsayimi`: a request has at least one target and names each once
(`resolveScope` makes clusters and applications unique).  The invariant is

    IInv == TipInv /\ SatirInv /\ SupurInv /\ KilitInv

* `TipInv`: the types, and `SiraTipi`: the loop indices stay inside the target lists.
* `SatirInv`: a request that has not come to its rows has none, and one that is writing
  them has not yet written the rest.
* `SupurInv`: what the sweep saw open is now open or closed, and what it is about to free is
  not the lock of an open one.
* `KilitInv`: a lock that a request under way took last is in its list of locks to give
  back, unless an unlock failed; a refused request has an empty list.

`SatirAdim` is the lemma the rest turns on: a step does nothing to a row but write it
once from the handler, start it, or close it.  So a closed row never moves, which is
`SonlananDegismez` whatever the order of handler, finaliser, adoption, ageing and
cancellation.  `SupurmeCalisaniBirakmaz` is true for one reason: what was open when the
locks were listed is still open, or closed for good, when the operations are read.  (A
restore that opens its row *after* the reading is the case of `scalex_onay_kilidi`.)

`OnayKanit` proves, for any sets of processes, records and requests and any bounds:

| Theorem | States |
|---|---|
| `IInvDogru` | `Spec => []IInv` |
| `TipDogru` | `Spec => []TypeOK` |
| `TekKararDogru` | `Spec => TekKarar` (refinement of `TekKarar`) |
| `ErkenBaslamazDogru` | `Spec => []ErkenBaslamaz` |
| `TetiklendiDogruDogru` | `Spec => []TetiklendiDogru` |
| `TekBiletDogru`, `TekIsDogru` | `Spec => []TekBilet`, `Spec => []TekIs` |
| `SahipIptaliDogru` | `Spec => []SahipIptaliKesin` |

Its only assumption is `OnayVarsayimi` (records, requests, tickets and NULL are different
things, bounds are numbers).  The invariant is

    IInv == TipInv /\ SahiplikInv /\ KayitInv /\ SaatInv /\ SonucInv

* `TipInv`: the types, and that a round that works on a ticket or a record has one.
* `SahiplikInv`: a ticket that a round has claimed is LAUNCHING and no other round has it;
  before the call of AWX nothing was done for it; nothing was done for a ticket that is not
  yet claimed or was closed unclaimed; never more than one thing.  This alone gives the
  refinement of `TekKarar`: `KararAdimi` shows that each action is a step of it or a stutter.
* `KayitInv`: what a record, its request, its two tickets and its jobs may be together
  (`KayitKurali`, with the exception of `gec`), and what a round of the OCO poller that has
  listed or claimed a record may still rely on (`TurKurali`).  It is needed because "one
  job" is spread over the record's own launch, its schedule and both tickets: each of them
  must know that the others have none.
* `SaatInv`: `ErkenBaslamaz`, and no round is about to start a job of a window before it.
* `SonucInv`: an outcome that is written somewhere, in a ticket, a record or a round, has
  its job or its schedule.

`EmeklilikKanit` proves, for any number of browser tabs, jobs, faults and requests:

| Theorem | States |
|---|---|
| `IInvDogru` | `Spec => []IInv` |
| `TipDogru` | `Spec => []TypeOK` |
| `ListeBirKezDogru` | `Spec => []ListeBirKez` |
| `TekYonDogru` | `Spec => []TekYon` |
| `DurumGercekDogru` | `Spec => []DurumGercek` |
| `SilmeDurmustanDogru` | `Spec => SilmeDurmustan` |

The assumption is `EmeklilikVarsayimi` (bounds are numbers; NULL is neither a tab, nor a
job number, nor the list of a preflight).  The invariant has three layers,

    IInv == TipInv /\ ListeInv /\ DurumInv

* `TipInv`: the types.
* `ListeInv`: a list that is in the row and not marked as used, or that a handler has claimed
  or is about to write, was given to no job but a lost one (`Temiz`), and two handlers that
  could use a list do not have the same one.  It holds without `Duzgun`, whatever the writes
  without a condition did to the row.
* `DurumInv`: under `Duzgun`, the row, the jobs, the application and the places of all handlers fit
  together.  A real job that runs is the job of the row's status or of a handler that is
  about to write it (`Bagli`); what the status says about the lists and the application
  (`SatirKurali`); what a handler claimed is still so (`ElKurali`); one way back at a time
  (`Bir`).  It says nothing of a verdict of AWX that a handler carries: whether it is the
  verdict of the row's own job shows when it is written (`HukumUyar`), and if it is not, the
  step sets `eskiHukum`.

A step is first shown to keep the row's part, then that of the handler that moved, then
that of the others.  `Duzgun` is a premise because the writes without a condition
do break the rest (section 6); a step that breaks it leaves nothing to show, and a step from a
state without it ends in one without it.  TLC checked `ListeInv` and `DurumInv` on the instance of `emeklilik`
too, and with two browser tabs on the first 13 million states of a search that was too large
to finish; neither found a violation.

Every invariant and every action property that a run checks, and both refinements, are
thus proved.  Only model-checked: all liveness (`KilitAcilir`, `SatirKapanir`,
`KilitCozulur`, `IslemKapanir`, `KuyrukBiter`, `OgeYetimKalmaz`, `BiletSonuclanir`,
`KayitSonuclanir`, `GecisBiter`, `SilmeGelir`), which needs fairness and `ENABLED` and is out
of the reach of the prover.

## 6. Where the code and its documentation differ

Three of them are runs that must find their property violated.

* `scalex_onay_kilidi`: the lock of a restore that waits for approval must be kept
  (index.cjs:1981).  The sweep lists locks, reads the operations and unlocks; a restore
  that locked before the listing and writes its approval row after the reading loses
  its lock.
* `onay_iptal`: the owner cancels a record that waits for approval (oco/store.cjs:345).  The
  ticket is not told; SMART approves it and the job starts.  A test of the poller says
  that a cancelled record is not triggered, and ScaleX refuses this very cancellation
  because it would not stop the job.
* `emeklilik_iptal`: a cancelled retirement record is reopened by an `UPDATE` without a
  condition, after the launch of a STOP (retirement/index.cjs:820) or with its result
  (index.cjs:1435, for which no race is needed: cancel while the STOP runs and watch it
  end), and the poller deletes the application on its day.

The others are stated in the modules or follow from their traces, and have no run:

* `TekKosuKesin` (`YukTesti`): kilit.cjs:6 says that at most one load run is under way.  Stop
  on a run without a job number binds its locks to a stop job (index.cjs:759), which
  frees them when it succeeds, although an unanswered launch may have started the run.
* `GeriAlmaBekleyenKilitli` (`YukTesti`): poller.cjs:31-32 says that after a job that did not
  undo its change the lock is bound to a stop job or kept.  `kilitSupur` and `acquireLocks`
  decide by the AWX status alone and free it when they come before the finaliser.
* `DinlenmedenYukYok` (`YukKuyruk`): the item is closed and the rest is written by two
  statements (kuyruk.cjs:626); when the second one fails the next load starts without a rest.
* Night queue, the rest: kuyruk.cjs:11-12 and 731 say that the pause is counted once the
  locks are free.  The `UPDATE` that starts it (`dinlenmeBaslat`, kuyruk.cjs:301-302) does not name the run
  it was read for.  A turn that read the queue while it rested for one run, and then stalled
  past its lease, starts the pause of the next run while that one's locks are held; TLC
  shows it with two processes, two items and one fault.  `DinlenmeKilitsiz` excepts it
  (`bayat`); the search for an inductive invariant led to it.
* Night queue, attempts: kuyruk.cjs:30-31 says that an item is closed as failed at the sixth attempt.
  The `UPDATE` that counts it has no cap and the close is a second statement
  (kuyruk.cjs:513-516): when the process restarts, the statement fails or the lease passes on
  between the two, the item goes on with the full count and is tried again.  A turn that has lost its
  lease counts too, unseen by the holder's copy.  `DenemeSiniri` excepts both (`yarim`).
* `DuzenlenenKapanmaz` (`YukKuyruk`): an edit by the owner puts the count back to 0, but one that
  comes between the counting and that close does not stop it: `ogeKapat` asks only for the
  status, not for the body as `ogeAtla` does (kuyruk.cjs:256-258), so the item with its new
  body is closed as failed, untried.
* Night queue, launches: kuyruk.cjs:31 says that an item whose job may have started at AWX is
  closed as failed and the queue rests.  A job that was started and whose row could not be updated
  afterwards (index.cjs:567) passes for a transient error all the same (`Baslar`).  What is taken
  back then is an item without a number, which this one is not, and that keeps it from a second launch.
* `DurdurulanKayitli` (`ScaleX`): the reconciler exists so that a stopped application is in
  the mirror (reconciler.cjs:8-20).  A cancellation that comes after the end of the job closes
  the rows as CANCELLED, and no finaliser writes the mirror any more.  The mirror is not
  written either when the process restarts between closing the rows and writing it.
* ScaleX, restore attempts: reconciler.cjs:25-27 says the second of two finalisers does
  nothing.  Both may read the row before either closes it and the number of rows the
  `UPDATE` changed is not looked at, so one failure counts twice.
* Retirement, `stopTick`: a claim is given back only `AND last_job_id IS NULL`
  (poller.cjs:157), but a scheduled target always carries the number of its preflight.  After
  a refused launch or a restart the row stays `stopping` and the finaliser judges it by the
  preflight, so it fails; `/reconcile-job` cannot repair it either.  The test of the line
  (poller.test.cjs:99) uses a database that ignores the condition.  A second deletion has
  the same trouble with the `delete_job_id` of the first.  (`eskiHukum`)
* Retirement: a status is written after a launch, and by job-status, whatever it is by then
  (index.cjs:813-819, 1430-1437): a way back or a deletion that was claimed in between is
  lost from the row.  (`ezilen`)
* Retirement: `finalizeAdim` and `/refresh-status` read the row, ask AWX about its job and write
  the verdict on a row of the same status (poller.cjs:404, index.cjs:1164).  By then the row
  may wait for another job of that kind, which is still running.  (`eskiHukum`)
* Retirement: job-status may write `planned` with no list of what may be stopped
  (index.cjs:1428-1430), when the result of the preflight does not carry one; such a plan cannot be approved.
* Retirement: a restart between the claim of a way back and the write of its number leaves
  `rolling_back` without a job, which neither the poller nor `/reconcile-job` ends; a
  preflight of a STOP (`planning`) whose browser is closed waits for a refresh by hand;
  `deleteTick` does not look at the record again when it claims the target.
* OCO: a window that opens while the request waits for SMART to open its ticket makes the
  poller open a second one (`gec`); a record that was adopted as scheduled carries no schedule
  number, so that an administrator's cancellation deletes no schedule.

## 7. What is abstracted, and what is not modelled

In the load test: reports, analyses, presets and plan checks (no shared state); the
tools jobs and their key `A|araclar`; a job that AWX answers 404 for; the time stamp
`last_op_finished_at`; the unsuccessful ends of a stop job are one (`failed`), which
nothing in the code tells apart.  A run has one Stop handler at a time, although nothing in
`kosuyuDurdur` (index.cjs:702) keeps two presses apart; what an unfinished Stop meets is covered by
the automatic stop of the finaliser and by the sweep, not by a second press.  The clock of a released row is put to 0, the counter
of result reads is put to 0 when the row closes; neither is read before it is set.

In ScaleX: dry runs and the `scale` action (no mirror), `/adopt`, catalogue and drift
columns; restore-all, which takes the same steps for each group; the ageing rule for
tickets and schedules that have disappeared; a second sweep that overlaps the first
because a round took longer than the interval.  A launch that AWX answered but whose
variables it ignored is cancelled by the code and counts as not answered.  A job that
publishes tells the truth about each target.

In the night queue: the schedule shown on the screen and the creation of a queue
(`hazir` is written last, so a queue appears complete).  Runs are as coarse as the queue
sees them: Stop is one step, the checks of a start are one refusal.

In `Onay`: all windows are one window, whose grace period is `son`; a ticket of Crypto Hub is
over after the latest start time; time limits that are a ticket's age (the general one
and the fifteen minutes of OpsX) and a Crypto Hub ticket without a record are left out.  A
job whose variables AWX dropped is cancelled by the code and counts as refused.  The answer
of SMART or of the clock is merged with the write after it when it cannot change in between.
Refusals by AWX or SMART are free; lost answers, failed statements and restarts are faults,
and so is an opening of the window while a request waits for SMART and a round of the SMART
poller between the two statements that open a ticket.  Changing a record's window and
ScaleX's `cancelBy` are left out.

In `Emeklilik`: one target of a record, which may hold others (whether one of them is left
is open); the vhosts with their web jobs and retries, jobs for several targets, discovery,
notes and mail are left out.  The record's open, stopping and stopped are one.  The hour
between the preflight of a deletion and the deletion is part of `gun`.  A job does not end
between two statements of one handler with no call of AWX in between, and the window, the
day and the age of a list move only where something looks at them; neither hides an
order of the code's own steps.

Everything else in the table of section 1 is not modelled yet or out of scope;
`PROJECT.json` gives the reason for each component and lists all hazards, those that no
property covers included.

## 8. The plan

In this order:

1. **Done**: `YukKilit`, `YukTesti`, `TekYuk`, `ScaleX`, `YukKuyruk`, `Onay`, `TekKarar` and
   `Emeklilik`, each with its runs and with the proofs of all of its safety properties.
2. A discovery scan beside a stop in `ScaleX` (state.cjs:344), with an abstract notion of
   a correct mirror; the vhost layer of `Emeklilik`.
3. Sessions and login backoff; long job cancellation; then the EAR inventory poller, LogX,
   the audit spool and OpsX.
