------------------------------ MODULE YukTesti ------------------------------
(***************************************************************************)
(* Load runs of the Nginx load test: the requests that start them          *)
(* (kosuyuBaslat), the Stop handler (kosuyuDurdur), the finaliser and the  *)
(* sweeps of the poller, the AWX jobs, a Portal restart and time, all over *)
(* the lock table of YukKilit.                                             *)
(*                                                                         *)
(* Between two awaits of the code another handler may run, so a handler is *)
(* a program counter and one action per awaited statement that reads or    *)
(* writes shared state.  A read of AWX may fail at any time: the action    *)
(* that needs it is then not taken, or the handler gives up.               *)
(***************************************************************************)
EXTENDS YukKilit, FiniteSets

CONSTANTS
    OKUMA_DENEME_SINIRI,   \* read attempts of a result before OKUNAMADI
    EnCokAriza,            \* bound: faults (restarts, failed calls) in a behaviour
    EnCokBasma             \* bound: presses of Stop and of Re-read in a behaviour

VARIABLES
    kilit,      \* the lock table
    awx,        \* awx[j]: status of AWX job j
    sure,       \* sure[a]: ticks before AWX kills the job of run a (template timeout)
    sahip,      \* sahip[d]: the run that stop job d was launched for
    yayin,      \* yayin[a]: what the job published about undoing its changes
    pc,         \* where the start request stands
    alinan,     \* number of keys taken (acquireLocks) or to go through
    sira,       \* loop index of the release and bind loops
    goz,        \* the row readLock returned
    sonuc,      \* outcome of isBaslat
    satir,      \* the row of the run in nginx_loadtest_kosular
    drd,        \* the Stop handler of the run
    son,        \* the finaliser of the run (the _suren guard: at most one)
    korDurdur,  \* history: the locks went to a stop job while the run's own
                \* job was alive and not cancelled
    ariza,      \* faults so far
    basma       \* presses so far

vars == <<kilit, awx, sure, sahip, yayin, pc, alinan, sira, goz, sonuc,
          satir, drd, son, korDurdur, ariza, basma>>

istekVars == <<pc, alinan, sira, goz, sonuc>>
awxVars   == <<awx, sure, sahip, yayin>>

ASSUME SinirVarsayimi == OKUMA_DENEME_SINIRI \in Nat /\ EnCokAriza \in Nat /\ EnCokBasma \in Nat

-----------------------------------------------------------------------------
\* AWX statuses; "surer" stands for every non-terminal status, "iptal" for a
\* job whose cancellation AWX has accepted but not carried out yet.
AwxTerminal == {"successful", "failed", "canceled", "error"}
AwxDurumlari == {"yok", "surer", "iptal"} \cup AwxTerminal

AKTIF == {"QUEUED", "RUNNING", "FINALIZING"}
SonDurumlar == {"DONE", "FAILED", "CANCELED", "OKUNAMADI"}

\* From the first casLock to the answer of AWX to the launch.
AlmaAdimlari == {"al", "oku", "sor", "tekrar"}
BaslatmaAdimlari == AlmaAdimlari \cup {"satir", "baslat"}
IstekAdimlari == BaslatmaAdimlari \cup
    {"bos", "birak", "bagla", "yaz", "kontrol", "bitti", "ret"}

SatirYok == [durum |-> "yok", is |-> FALSE, durdur |-> Yok, eski |-> FALSE,
             deneme |-> 0, okunamadi |-> FALSE]
DurdurBos == [adim |-> "bos", is |-> Yok, kor |-> FALSE, iptal |-> FALSE]
GozYok == [id |-> Yok, is |-> Yok, tur |-> Yok]
SonBos == [adim |-> "bos", durdurYok |-> FALSE, is |-> Yok]

Satirlar ==
    [durum  : {"yok"} \cup AKTIF \cup SonDurumlar,
     is     : BOOLEAN,               \* is the AWX job number written?
     durdur : Durdurma \cup {Yok},   \* durdur_awx_job_id
     eski   : BOOLEAN,               \* QUEUED without a number for a tick or more
     deneme : 0 .. OKUMA_DENEME_SINIRI + 1,
     okunamadi : BOOLEAN]            \* gecerlilik = OKUNAMADI

DurdurIsleyicileri ==
    [adim : {"bos", "baslat", "yaz", "bagla"}, is : Durdurma \cup {Yok},
     kor : BOOLEAN, iptal : BOOLEAN]

Sonuclandiricilar ==
    [adim : {"bos", "okundu", "kilit", "oto", "otoYaz", "otoBagla", "yaz"},
     durdurYok : BOOLEAN, is : Durdurma \cup {Yok}]

Gorulen ==
    [id : Deneme \cup {Yok}, is : Is \cup {Yok}, tur : BagTurleri \cup {Yok}]

TypeOK ==
    /\ kilit \in [Anahtar -> KilitSatiri]
    /\ awx \in [Is -> AwxDurumlari]
    /\ sure \in [Deneme -> 0 .. SablonZamanAsimi]
    /\ sahip \in [Durdurma -> Deneme \cup {Yok}]
    /\ yayin \in [Deneme -> {"yok", "ok", "hata"}]
    /\ pc \in [Deneme -> IstekAdimlari]
    /\ alinan \in [Deneme -> Nat]
    /\ sira \in [Deneme -> Nat]
    /\ goz \in [Deneme -> Gorulen]
    /\ sonuc \in [Deneme -> {"yok", "tamam", "yutuldu", "belirsiz"}]
    /\ satir \in [Deneme -> Satirlar]
    /\ drd \in [Deneme -> DurdurIsleyicileri]
    /\ son \in [Deneme -> Sonuclandiricilar]
    /\ korDurdur \in SUBSET Deneme
    /\ ariza \in 0 .. EnCokAriza
    /\ basma \in 0 .. EnCokBasma

Init ==
    /\ kilit = [k \in Anahtar |-> BosSatir]
    /\ awx = [j \in Is |-> "yok"]
    /\ sure = [a \in Deneme |-> 0]
    /\ sahip = [d \in Durdurma |-> Yok]
    /\ yayin = [a \in Deneme |-> "yok"]
    /\ pc = [a \in Deneme |-> "bos"]
    /\ alinan = [a \in Deneme |-> 0]
    /\ sira = [a \in Deneme |-> 0]
    /\ goz = [a \in Deneme |-> GozYok]
    /\ sonuc = [a \in Deneme |-> "yok"]
    /\ satir = [a \in Deneme |-> SatirYok]
    /\ drd = [a \in Deneme |-> DurdurBos]
    /\ son = [a \in Deneme |-> SonBos]
    /\ korDurdur = {}
    /\ ariza = 0
    /\ basma = 0

-----------------------------------------------------------------------------
\* kosuyuBaslat: acquireLocks

\* One of the bounded number of faults, or none.
Ariza == ariza < EnCokAriza /\ ariza' = ariza + 1
ArizaYok == UNCHANGED ariza

Basma == basma < EnCokBasma /\ basma' = basma + 1

Git(a, adim) == pc' = [pc EXCEPT ![a] = adim]

\* MUTANT of Birakmaya: the release loop starts at the second key.
IkincidenBirakir(a, n) ==
    /\ Git(a, "birak")
    /\ alinan' = [alinan EXCEPT ![a] = n]
    /\ sira' = [sira EXCEPT ![a] = 2]

\* Release the first n keys of the list, then end the request.
Birakmaya(a, n) ==
    /\ Git(a, "birak")
    /\ alinan' = [alinan EXCEPT ![a] = n]
    /\ sira' = [sira EXCEPT ![a] = 1]

\* The request ends; nothing reads its locals any more.
Biter(a, adim) ==
    /\ Git(a, adim)
    /\ alinan' = [alinan EXCEPT ![a] = 0]
    /\ sira' = [sira EXCEPT ![a] = 0]
    /\ sonuc' = [sonuc EXCEPT ![a] = "yok"]

\* The key acquireLocks is at.
Siradaki(a) == kilitAnahtarlari(a)[alinan[a] + 1]

Istek(a) ==
    /\ pc[a] = "bos"
    /\ Git(a, "al")
    /\ UNCHANGED <<kilit, awxVars, alinan, sira, goz, sonuc, satir, drd, son,
                   korDurdur, ariza, basma>>

AnahtarAlindi(a) ==
    /\ kilit' = casLock(kilit, Siradaki(a), a)
    /\ alinan' = [alinan EXCEPT ![a] = @ + 1]
    /\ Git(a, IF alinan[a] + 1 = AnahtarSayisi(a) THEN "satir" ELSE "al")
    /\ goz' = [goz EXCEPT ![a] = GozYok]
    /\ UNCHANGED sira

KilitAl(a) ==
    /\ pc[a] = "al"
    /\ \/ Alinabilir(kilit[Siradaki(a)]) /\ AnahtarAlindi(a)
       \/ /\ ~Alinabilir(kilit[Siradaki(a)])
          /\ Git(a, "oku")
          /\ UNCHANGED <<kilit, alinan, sira, goz>>
    /\ UNCHANGED <<awxVars, sonuc, satir, drd, son, korDurdur, ariza, basma>>

\* readLock does not look at `held`.
KilitOku(a) ==
    LET s == kilit[Siradaki(a)] IN
    /\ pc[a] = "oku"
    /\ \/ /\ s.is # Yok
          /\ goz' = [goz EXCEPT ![a] = [id |-> s.id, is |-> s.is, tur |-> s.tur]]
          /\ Git(a, "sor")
          /\ UNCHANGED <<alinan, sira>>
       \/ /\ s.is = Yok
          /\ Birakmaya(a, alinan[a])
          /\ UNCHANGED goz
    /\ UNCHANGED <<kilit, awxVars, sonuc, satir, drd, son, korDurdur, ariza, basma>>

\* AWX is asked about the job seen in the row.  Its answer is applied to the
\* row as it is NOW: by job when the locks are kept, by lock_id when they are
\* released.
KilitSor(a) ==
    LET g == goz[a] IN
    /\ pc[a] = "sor"
    /\ \/ /\ awx[g.is] \in AwxTerminal
          /\ birakilir(g.tur, awx[g.is])
          /\ kilit' = releaseLockById(kilit, Siradaki(a), g.id)
          /\ Git(a, "tekrar")
          /\ UNCHANGED <<alinan, sira, goz>>
       \/ /\ awx[g.is] \in AwxTerminal
          /\ ~birakilir(g.tur, awx[g.is])
          /\ kilit' = isinKilitleriniCoz(kilit, g.is, Uzatmasiz)
          /\ Birakmaya(a, alinan[a])
          /\ goz' = [goz EXCEPT ![a] = GozYok]
       \/ /\ Birakmaya(a, alinan[a])      \* still running, or AWX unreadable
          /\ goz' = [goz EXCEPT ![a] = GozYok]
          /\ UNCHANGED kilit
    /\ UNCHANGED <<awxVars, sonuc, satir, drd, son, korDurdur, ariza, basma>>

KilitTekrar(a) ==
    /\ pc[a] = "tekrar"
    /\ \/ Alinabilir(kilit[Siradaki(a)]) /\ AnahtarAlindi(a)
       \/ /\ ~Alinabilir(kilit[Siradaki(a)])
          /\ Birakmaya(a, alinan[a])
          /\ goz' = [goz EXCEPT ![a] = GozYok]
          /\ UNCHANGED kilit
    /\ UNCHANGED <<awxVars, sonuc, satir, drd, son, korDurdur, ariza, basma>>

\* A database error inside acquireLocks: the caller releases every key.
KilitHata(a) ==
    /\ pc[a] \in AlmaAdimlari
    /\ Birakmaya(a, AnahtarSayisi(a))
    /\ goz' = [goz EXCEPT ![a] = GozYok]
    /\ Ariza
    /\ UNCHANGED <<kilit, awxVars, sonuc, satir, drd, son, korDurdur, basma>>

\* MUTANT of kosuBasarisiz: the row is written whatever its status is.
HerSatirBasarisiz(s) == [s EXCEPT !.durum = "FAILED", !.is = FALSE]

\* kosuBasarisiz, without a job number.
kosuBasarisiz(s) ==
    IF s.durum = "QUEUED" THEN [s EXCEPT !.durum = "FAILED", !.is = FALSE] ELSE s

\* One releaseLockById of the loop; after the last one the row, if there is
\* one, is closed.  A database error leaves the rest to the lock's lifetime.
Birak(a) ==
    /\ pc[a] = "birak"
    /\ \/ /\ sira[a] <= alinan[a]
          /\ kilit' = releaseLockById(kilit, kilitAnahtarlari(a)[sira[a]], a)
          /\ sira' = [sira EXCEPT ![a] = @ + 1]
          /\ ArizaYok
          /\ UNCHANGED <<pc, alinan, sonuc, satir>>
       \/ /\ \/ sira[a] > alinan[a] /\ Biter(a, "ret") /\ ArizaYok
             \/ sira[a] <= alinan[a] /\ Biter(a, "bitti") /\ Ariza
          /\ satir' = [satir EXCEPT ![a] = kosuBasarisiz(@)]
          /\ UNCHANGED kilit
    /\ UNCHANGED <<awxVars, goz, drd, son, korDurdur, basma>>

-----------------------------------------------------------------------------
\* kosuyuBaslat: row, launch, binding

SatirYaz(a) ==
    /\ pc[a] = "satir"
    /\ \/ /\ satir' = [satir EXCEPT ![a].durum = "QUEUED"]
          /\ Git(a, "baslat") /\ ArizaYok
          /\ UNCHANGED <<alinan, sira>>
       \/ /\ Birakmaya(a, AnahtarSayisi(a)) /\ Ariza    \* INSERT failed
          /\ UNCHANGED satir
    /\ UNCHANGED <<kilit, awxVars, goz, sonuc, drd, son, korDurdur, basma>>

\* The job surely did not start: the queue hook, the last gate, the template
\* check or AWX (4xx) refused.
BaslatRed(a) ==
    /\ pc[a] = "baslat"
    /\ Birakmaya(a, AnahtarSayisi(a))
    /\ UNCHANGED <<kilit, awxVars, goz, sonuc, satir, drd, son, korDurdur, ariza, basma>>

IsBaslar(j, durum) ==
    /\ awx' = [awx EXCEPT ![j] = durum]
    /\ sure' = [sure EXCEPT ![j] = SablonZamanAsimi]

\* isBaslat.  "belirsiz": no answer, the job may have started all the same.
\* "yutuldu": AWX ignored the variables; the job was started and its
\* cancellation was tried.
AwxBaslat(a) ==
    /\ pc[a] = "baslat"
    /\ \/ /\ IsBaslar(a, "surer")
          /\ sonuc' = [sonuc EXCEPT ![a] = "tamam"]
          /\ Git(a, "bagla") /\ ArizaYok
       \/ /\ \E d \in {"surer", "iptal"} : IsBaslar(a, d)
          /\ sonuc' = [sonuc EXCEPT ![a] = "yutuldu"]
          /\ Git(a, "bagla") /\ Ariza
       \/ /\ IsBaslar(a, "surer") \/ UNCHANGED <<awx, sure>>
          /\ sonuc' = [sonuc EXCEPT ![a] = "belirsiz"]
          /\ Git(a, "yaz") /\ Ariza
    /\ sira' = [sira EXCEPT ![a] = 1]
    /\ UNCHANGED <<kilit, sahip, yayin, alinan, goz, satir, drd, son, korDurdur, basma>>

\* bindLocks, one key at a time; an error leaves the rest unbound.
Bagla(a) ==
    /\ pc[a] = "bagla"
    /\ \/ /\ kilit' = bindLock(kilit, kilitAnahtarlari(a)[sira[a]], a)
          /\ sira' = [sira EXCEPT ![a] = @ + 1]
          /\ Git(a, IF sira[a] = AnahtarSayisi(a) THEN "yaz" ELSE "bagla")
          /\ ArizaYok
       \/ Git(a, "yaz") /\ Ariza /\ UNCHANGED <<kilit, sira>>
    /\ UNCHANGED <<awxVars, alinan, goz, sonuc, satir, drd, son, korDurdur, basma>>

\* MUTANT of SatirGuncelle: a launch without an answer is taken for a refusal.
BelirsizBirakir(a) ==
    /\ pc[a] = "yaz"
    /\ Birakmaya(a, AnahtarSayisi(a))
    /\ UNCHANGED <<kilit, awxVars, goz, sonuc, satir, drd, son, korDurdur, ariza, basma>>

\* The row after the launch.  Both tries may fail: it is then left as it is.
SatirGuncelle(a) ==
    LET s == satir[a] IN
    /\ pc[a] = "yaz"
    /\ \/ /\ sonuc[a] = "tamam"
          /\ satir' = [satir EXCEPT ![a].is = TRUE,
                           ![a].durum = IF @ = "QUEUED" THEN "RUNNING" ELSE @]
          /\ ArizaYok
       \/ /\ sonuc[a] = "belirsiz"
          /\ satir' = [satir EXCEPT ![a] = kosuBasarisiz(@)]
          /\ ArizaYok
       \/ /\ sonuc[a] = "yutuldu"      \* kosuBasarisiz, with the job number
          /\ satir' = IF s.durum = "QUEUED"
                      THEN [satir EXCEPT ![a].durum = "FAILED", ![a].is = TRUE] ELSE satir
          /\ ArizaYok
       \/ Ariza /\ UNCHANGED satir
    /\ \/ sonuc[a] = "tamam" /\ Git(a, "kontrol") /\ UNCHANGED <<alinan, sira, sonuc>>
       \/ sonuc[a] # "tamam" /\ Biter(a, "bitti")
    /\ UNCHANGED <<kilit, awxVars, goz, drd, son, korDurdur, basma>>

\* The row was closed while the launch was under way: cancel the job (which
\* may fail); the locks stay bound to it.
SatirKontrol(a) ==
    /\ pc[a] = "kontrol"
    /\ \/ /\ satir[a].durum \in {"CANCELED", "FAILED"} /\ awx[a] = "surer"
          /\ \/ awx' = [awx EXCEPT ![a] = "iptal"] /\ ArizaYok
             \/ Ariza /\ UNCHANGED awx
       \/ /\ satir[a].durum \notin {"CANCELED", "FAILED"} \/ awx[a] # "surer"
          /\ UNCHANGED <<awx, ariza>>
    /\ Biter(a, "bitti")
    /\ UNCHANGED <<kilit, sure, sahip, yayin, goz, satir, drd, son, korDurdur, basma>>

-----------------------------------------------------------------------------
\* kosuyuDurdur

\* A stop job is launched for a run of load or of changed configuration.
DurdurIsiGerekir(a) == a \in Kosu \cup SunucuAyar

DurdurulurMu(a) ==
    /\ satir[a].durum # "yok"
    /\ satir[a].durum = "DONE" => yayin[a] = "hata"
    /\ satir[a].durum = "QUEUED" /\ ~satir[a].is => satir[a].eski

\* Read the row, cancel its job if it has a number.  iptalOldu is also set when
\* AWX refuses the cancellation (405/409) and its state cannot be read.
Durdur(a) ==
    /\ drd[a].adim = "bos" /\ DurdurulurMu(a)
    /\ Basma
    /\ \E iptal \in BOOLEAN :
        /\ \/ satir[a].is /\ iptal /\ awx[a] = "surer"
                /\ awx' = [awx EXCEPT ![a] = "iptal"] /\ ArizaYok
           \/ satir[a].is /\ iptal /\ awx[a] # "surer" /\ UNCHANGED <<awx, ariza>>
           \/ satir[a].is /\ (iptal => awx[a] = "surer") /\ Ariza /\ UNCHANGED awx
           \/ ~satir[a].is /\ ~iptal /\ UNCHANGED <<awx, ariza>>
        /\ drd' = [drd EXCEPT ![a] =
                     [adim |-> IF DurdurIsiGerekir(a) THEN "baslat" ELSE "yaz",
                      is |-> Yok, kor |-> ~satir[a].is, iptal |-> iptal]]
    /\ UNCHANGED <<kilit, sure, sahip, yayin, istekVars, satir, son, korDurdur>>

\* Launching a stop job fails when it does: one of the faults, or one more job
\* than the bound Durdurma has.
DurdurmaBaslamaz == Ariza \/ ((\A d \in Durdurma : awx[d] # "yok") /\ ArizaYok)

\* A new stop job d for run a.
DurdurIsiBaslar(a, d) ==
    /\ awx[d] = "yok"
    /\ awx' = [awx EXCEPT ![d] = "surer"]
    /\ sahip' = [sahip EXCEPT ![d] = a]

\* durdurIsiBaslat: launched, launched without an answer, or refused.
DurdurBaslat(a) ==
    /\ drd[a].adim = "baslat"
    /\ \/ \E d \in Durdurma :
            /\ DurdurIsiBaslar(a, d)
            /\ \/ drd' = [drd EXCEPT ![a].adim = "yaz", ![a].is = d] /\ ArizaYok
               \/ drd' = [drd EXCEPT ![a].adim = "yaz"] /\ Ariza
       \/ /\ drd' = [drd EXCEPT ![a].adim = "yaz"]
          /\ DurdurmaBaslamaz
          /\ UNCHANGED <<awx, sahip>>
    /\ UNCHANGED <<kilit, sure, yayin, istekVars, satir, son, korDurdur, basma>>

\* The stop job's number and, on a row that never had a job, CANCELED.  A
\* database error ends the handler.
DurdurYaz(a) ==
    LET d == drd[a] IN
    /\ drd[a].adim = "yaz"
    /\ \/ /\ satir' = [satir EXCEPT
                ![a].durdur = IF d.is # Yok THEN d.is ELSE @,
                ![a].durum = IF d.kor /\ @ = "QUEUED" /\ ~satir[a].is
                             THEN "CANCELED" ELSE @]
          /\ drd' = [drd EXCEPT ![a] =
                IF d.is # Yok /\ (d.iptal \/ d.kor) THEN [d EXCEPT !.adim = "bagla"]
                ELSE DurdurBos]
          /\ ArizaYok
       \/ drd' = [drd EXCEPT ![a] = DurdurBos] /\ Ariza /\ UNCHANGED satir
    /\ UNCHANGED <<kilit, awxVars, istekVars, son, korDurdur, basma>>

DurdurBagla(a) ==
    /\ drd[a].adim = "bagla"
    /\ kilit' = durdurIsineBagla(kilit, a, drd[a].is)
    /\ korDurdur' = IF awx[a] = "surer" THEN korDurdur \cup {a} ELSE korDurdur
    /\ drd' = [drd EXCEPT ![a] = DurdurBos]
    /\ UNCHANGED <<awxVars, istekVars, satir, son, ariza, basma>>

-----------------------------------------------------------------------------
\* The poller: kosuyuSonuclandir (also started by the status endpoint)

GeriAlmaBilinmiyor(a) == a \in SunucuAyar /\ yayin[a] = "yok"

SonGit(a, adim) == son' = [son EXCEPT ![a].adim = adim]

\* MUTANT of SonucOku: a row left FINALIZING by a restart is not picked up.
YalnizKosanOkunur(a) ==
    /\ son[a].adim = "bos"
    /\ satir[a].durum = "RUNNING" /\ satir[a].is
    /\ son' = [son EXCEPT ![a] = [adim |-> "okundu", is |-> Yok,
                                  durdurYok |-> satir[a].durdur = Yok]]
    /\ UNCHANGED <<kilit, awxVars, istekVars, satir, drd, korDurdur, ariza, basma>>

SonucOku(a) ==
    /\ son[a].adim = "bos"
    /\ satir[a].durum \in AKTIF /\ satir[a].is
    /\ son' = [son EXCEPT ![a] = [adim |-> "okundu", is |-> Yok,
                                  durdurYok |-> satir[a].durdur = Yok]]
    /\ UNCHANGED <<kilit, awxVars, istekVars, satir, drd, korDurdur, ariza, basma>>

\* The job is terminal: take the row with a compare-and-set and count the try.
SonucAl(a) ==
    /\ son[a].adim = "okundu"
    /\ awx[a] \in AwxTerminal /\ satir[a].durum \in AKTIF
    /\ satir' = [satir EXCEPT ![a].durum = "FINALIZING",
                    ![a].deneme = IF @ > OKUMA_DENEME_SINIRI THEN @ ELSE @ + 1]
    /\ SonGit(a, "kilit")
    /\ UNCHANGED <<kilit, awxVars, istekVars, drd, korDurdur, ariza, basma>>

\* Still running, AWX unreadable, or the row was closed meanwhile: next round.
SonucVazgec(a) ==
    /\ son[a].adim = "okundu"
    /\ son' = [son EXCEPT ![a] = SonBos]
    /\ UNCHANGED <<kilit, awxVars, istekVars, satir, drd, korDurdur, ariza, basma>>

\* The locks of the finished job.  An error is left to the sweep.
SonucKilit(a) ==
    /\ son[a].adim = "kilit"
    /\ \/ /\ ~GeriAlmaBilinmiyor(a)
          /\ kilit' = IsBitti(kilit, a, bagTuruOf(a), awx[a],
                              IF a \in Kosu THEN Uzatma ELSE Uzatmasiz)
          /\ SonGit(a, "yaz") /\ ArizaYok
       \/ /\ ~GeriAlmaBilinmiyor(a)
          /\ SonGit(a, "yaz") /\ Ariza /\ UNCHANGED kilit
       \/ /\ GeriAlmaBilinmiyor(a)
          /\ SonGit(a, IF son[a].durdurYok THEN "oto" ELSE "yaz")
          /\ UNCHANGED <<kilit, ariza>>
    /\ UNCHANGED <<awxVars, istekVars, satir, drd, korDurdur, basma>>

\* geriAlmaTemizligi: a stop job undoes the change on the target, unless one
\* exists or is being launched, or the launch fails.
OtoDurdur(a) ==
    /\ son[a].adim = "oto"
    /\ \/ /\ drd[a].adim = "bos" /\ satir[a].durdur = Yok
          /\ \E d \in Durdurma :
                /\ DurdurIsiBaslar(a, d)
                /\ son' = [son EXCEPT ![a].adim = "otoYaz", ![a].is = d]
          /\ UNCHANGED <<kilit, ariza>>
       \/ /\ \/ drd[a].adim = "bos" /\ satir[a].durdur = Yok /\ DurdurmaBaslamaz
             \/ (drd[a].adim # "bos" \/ satir[a].durdur # Yok) /\ ArizaYok
          /\ kilit' = isinKilitleriniCoz(kilit, a, Uzatma)
          /\ SonGit(a, "yaz")
          /\ UNCHANGED <<awx, sahip>>
    /\ UNCHANGED <<sure, yayin, istekVars, satir, drd, korDurdur, basma>>

OtoYaz(a) ==
    /\ son[a].adim = "otoYaz"
    /\ satir' = [satir EXCEPT ![a].durdur = son[a].is]
    /\ SonGit(a, "otoBagla")
    /\ UNCHANGED <<kilit, awxVars, istekVars, drd, korDurdur, ariza, basma>>

OtoBagla(a) ==
    /\ son[a].adim = "otoBagla"
    /\ kilit' = durdurIsineBagla(kilit, a, son[a].is)
    /\ SonGit(a, "yaz")
    /\ UNCHANGED <<awxVars, istekVars, satir, drd, korDurdur, ariza, basma>>

\* The verdicts of onKontrolKarari and kosuKarari.  A failed job may still be DONE
\* (a run that stopped early).
Kararlar(a) ==
    IF satir[a].deneme > OKUMA_DENEME_SINIRI THEN {"OKUNAMADI"}
    ELSE IF awx[a] = "canceled" THEN {"CANCELED"}
    ELSE IF awx[a] = "successful" \/ (awx[a] = "failed" /\ a \in Kosu)
         THEN {"DONE", "FAILED", "OKUNAMADI"}
    ELSE {"FAILED"}

\* The gecerlilik = OKUNAMADI a verdict may carry: a run whose result is unreadable.
OkunamadiOlur(a, karar) ==
    IF a \notin Kosu \/ karar \in {"DONE", "CANCELED"} THEN {FALSE}
    ELSE IF karar = "OKUNAMADI" THEN {TRUE} ELSE BOOLEAN

\* sonYaz.  The counter of tries is not read again before yeniden-oku clears it
\* and is put to 0 here.  A result directory that cannot be read leaves the row FINALIZING
\* for the next round, while there are tries left.
SonYaz(a) ==
    /\ son[a].adim = "yaz"
    /\ \/ /\ \E karar \in Kararlar(a) : \E o \in OkunamadiOlur(a, karar) :
                satir' = IF satir[a].durum = "FINALIZING"
                         THEN [satir EXCEPT ![a].durum = karar, ![a].okunamadi = o,
                                            ![a].deneme = 0]
                         ELSE satir
          /\ ArizaYok
       \/ /\ a \in Kosu /\ awx[a] # "canceled" /\ satir[a].deneme < OKUMA_DENEME_SINIRI
          /\ Ariza
          /\ UNCHANGED satir
    /\ son' = [son EXCEPT ![a] = SonBos]
    /\ UNCHANGED <<kilit, awxVars, istekVars, drd, korDurdur, basma>>

\* POST /kosular/:id/yeniden-oku
YenidenOku(a) ==
    /\ a \in Kosu /\ satir[a].is
    /\ satir[a].durum = "OKUNAMADI" \/ satir[a].okunamadi
    /\ Basma
    /\ satir' = [satir EXCEPT ![a].durum = "FINALIZING", ![a].deneme = 0]
    /\ UNCHANGED <<kilit, awxVars, istekVars, drd, son, korDurdur, ariza>>

BayatKuyruk(a) ==
    /\ satir[a].durum = "QUEUED" /\ ~satir[a].is /\ satir[a].eski
    /\ satir' = [satir EXCEPT ![a].durum = "FAILED"]
    /\ UNCHANGED <<kilit, awxVars, istekVars, drd, son, korDurdur, ariza, basma>>

\* kilitSupur, for one job that holds locks.
KilitSupur(j) ==
    /\ awx[j] \in AwxTerminal
    /\ \E k \in Anahtar :
        /\ BagliMi(kilit[k], j)
        /\ kilit' = IsBitti(kilit, j, kilit[k].tur, awx[j], Uzatmasiz)
    /\ UNCHANGED <<awxVars, istekVars, satir, drd, son, korDurdur, ariza, basma>>

-----------------------------------------------------------------------------
\* AWX, time and restarts

\* A job ends.  Only the job of a run that changed the target publishes
\* whether the change was undone: always when it succeeds, never when it is
\* cancelled or lost, and a job killed by the template timeout also "failed".
AwxBiter(a) ==
    /\ awx[a] \in {"surer", "iptal"}
    /\ \E d \in AwxTerminal :
        /\ awx' = [awx EXCEPT ![a] = d]
        /\ \E y \in {"yok", "ok", "hata"} :
            /\ y # "yok" => a \in SunucuAyar /\ d \in {"successful", "failed"}
            /\ a \in SunucuAyar /\ d = "successful" => y # "yok"
            /\ yayin' = [yayin EXCEPT ![a] = y]
    /\ sure' = [sure EXCEPT ![a] = 0]
    /\ UNCHANGED <<kilit, sahip, istekVars, satir, drd, son, korDurdur, ariza, basma>>

\* A stop job ends: with success, which means that no process of the run is left
\* on the hosts, or in any other way, which nothing in the code tells apart.
DurdurmaBiter(d) ==
    /\ awx[d] = "surer"
    /\ \E y \in {"successful", "failed"} : awx' = [awx EXCEPT ![d] = y]
    /\ UNCHANGED <<kilit, sure, sahip, yayin, istekVars, satir, drd, son, korDurdur, ariza, basma>>

\* Time does not pass a job's template timeout, nor the launch or the refusal of
\* a run: the calls of a request between its first lock and AWX's answer have
\* timeouts far below a tick.
Tik ==
    /\ \A a \in Deneme :
        /\ awx[a] \in {"surer", "iptal"} => sure[a] > 0
        /\ pc[a] \notin BaslatmaAdimlari \cup {"birak"}
    /\ kilit' = YaslanKilit(kilit)
    /\ sure' = [a \in Deneme |-> IF sure[a] > 0 THEN sure[a] - 1 ELSE 0]
    /\ satir' = [a \in Deneme |->
            [satir[a] EXCEPT !.eski = satir[a].durum = "QUEUED"]]
    /\ UNCHANGED <<awx, sahip, yayin, istekVars, drd, son, korDurdur, ariza, basma>>

\* A restart loses every handler; the database and AWX keep theirs.
Cokme ==
    /\ Ariza
    /\ pc' = [a \in Deneme |->
            IF pc[a] \in {"bos", "bitti", "ret"} THEN pc[a] ELSE "bitti"]
    /\ alinan' = [a \in Deneme |-> 0]
    /\ sira' = [a \in Deneme |-> 0]
    /\ sonuc' = [a \in Deneme |-> "yok"]
    /\ goz' = [a \in Deneme |-> GozYok]
    /\ drd' = [a \in Deneme |-> DurdurBos]
    /\ son' = [a \in Deneme |-> SonBos]
    /\ UNCHANGED <<kilit, awxVars, satir, korDurdur, basma>>

-----------------------------------------------------------------------------
IstekAdimi(a) ==
    \/ KilitAl(a) \/ KilitOku(a) \/ KilitSor(a) \/ KilitTekrar(a)
    \/ KilitHata(a) \/ Birak(a) \/ SatirYaz(a) \/ BaslatRed(a)
    \/ AwxBaslat(a) \/ Bagla(a) \/ SatirGuncelle(a) \/ SatirKontrol(a)

DurdurAdimi(a) == DurdurBaslat(a) \/ DurdurYaz(a) \/ DurdurBagla(a)

SonucAdimi(a) ==
    \/ SonucAl(a) \/ SonucVazgec(a) \/ SonucKilit(a)
    \/ OtoDurdur(a) \/ OtoYaz(a) \/ OtoBagla(a) \/ SonYaz(a)

Next ==
    \/ \E a \in Deneme :
        \/ Istek(a) \/ IstekAdimi(a)
        \/ Durdur(a) \/ DurdurAdimi(a)
        \/ SonucOku(a) \/ SonucAdimi(a)
        \/ YenidenOku(a) \/ BayatKuyruk(a)
    \/ \E a \in Deneme : AwxBiter(a)
    \/ \E d \in Durdurma : DurdurmaBiter(d)
    \/ \E j \in Is : KilitSupur(j)
    \/ Tik \/ Cokme

Spec == Init /\ [][Next]_vars

\* Handlers run to their end, the poller's timer keeps firing, AWX answers it now
\* and then (strong fairness of SonucAl), AWX jobs end and time passes.  Nobody is
\* obliged to start a run or to press Stop, and the sweep is not relied on.
Adalet ==
    /\ \A a \in Deneme :
        /\ WF_vars(IstekAdimi(a)) /\ WF_vars(DurdurAdimi(a)) /\ WF_vars(BayatKuyruk(a))
        /\ WF_vars(SonucOku(a)) /\ WF_vars(SonucAdimi(a)) /\ SF_vars(SonucAl(a))
        /\ WF_vars(AwxBiter(a))
    /\ WF_vars(Tik)

AdilSpec == Spec /\ Adalet

-----------------------------------------------------------------------------
(***************************************************************************)
(* Safety                                                                  *)
(***************************************************************************)

\* The run's own job is alive and nobody has cancelled it.
Canli(a) == awx[a] = "surer"

Anahtarlar == [a \in Deneme |-> Anahtarlari(a)]

Cakisir(a, b) == Anahtarlar[a] \cap Anahtarlar[b] # {}

\* Two runs that need the same key - the global one, the target or the load
\* machine - never have live AWX jobs at the same time, whatever the restarts,
\* failed binds, sweeps, stale-lock takeovers and unanswered launches; except a
\* run whose locks went to a stop job while its own job was alive (see TekKosuKesin).
TekKosu ==
    \A a, b \in Deneme :
        a # b /\ Cakisir(a, b) /\ Canli(a) /\ Canli(b) => a \in korDurdur \/ b \in korDurdur

\* The lock table implements TekYuk: a run gets all of its keys at once, at its
\* launch, from runs that are over.
Yuk == INSTANCE TekYuk WITH
    Kosucu <- Deneme,
    Kaynak <- Anahtarlar,
    calisan <- {a \in Deneme : Canli(a) /\ a \notin korDurdur}

TekYukuSaglar == Yuk!Spec

\* acquireLocks takes all keys or none: a request that was turned away and has
\* released what it took holds no key.
HepsiYaDaHic ==
    \A a \in Deneme, k \in Anahtar : pc[a] = "ret" => ~(kilit[k].held /\ kilit[k].id = a)

\* IS BITTI != YUK BITTI (kilit.cjs:19): once the job of a load run, or of a check
\* that changed the target, was cancelled or lost, its unexpired locks stay its
\* own until a stop job of that run succeeds.
DurdurmaBasarili(a) == \E d \in Durdurma : sahip[d] = a /\ awx[d] = "successful"

KilitTutulur ==
    [][\A k \in Anahtar, a \in Kosu \cup SunucuAyar :
        /\ kilit[k].held /\ kilit[k].id = a /\ kilit[k].kalan > 0
        /\ awx[a] \in {"canceled", "error"} /\ ~DurdurmaBasarili(a)
        => kilit'[k].held /\ kilit'[k].id = a]_vars

\* A closed row stays closed: neither a late launch answer, nor Stop, nor a
\* second finaliser reopens it; only an explicit re-read of a result does.
KapaliSatirAcilmaz ==
    [][\A a \in Deneme :
        satir[a].durum \in SonDurumlar /\ satir'[a].durum # satir[a].durum
        => satir'[a].durum = "FINALIZING" /\ (satir[a].durum = "OKUNAMADI" \/ satir[a].okunamadi)]_vars

(***************************************************************************)
(* Liveness                                                                *)
(***************************************************************************)

\* A lock is always obtainable again at some time, even if AWX can never be read
\* by the sweep: the lifetime, or the twelve hours after it, frees it.
KilitAcilir == \A k \in Anahtar : kilit[k].held ~> Alinabilir(kilit[k])

\* Every row is closed at some time: by the finaliser when it knows the job, as a
\* stale row when it never got a number, within OKUMA_DENEME_SINIRI reads.
SatirKapanir == \A a \in Deneme : satir[a].durum \in AKTIF ~> satir[a].durum \in SonDurumlar

(***************************************************************************)
(* What the documentation says and the code does not keep                  *)
(***************************************************************************)

\* kilit.cjs:6: "G|global - ayni anda tek yuk KOSUSU".
TekKosuKesin ==
    \A a, b \in Deneme : a # b /\ Cakisir(a, b) => ~(Canli(a) /\ Canli(b))

\* poller.cjs:30-32: a job that ended without undoing its change of the target
\* has its locks bound to a stop job or kept, never freed.
GeriAlmaBekleyenKilitli ==
    [][\A k \in Anahtar, a \in SunucuAyar :
        /\ kilit[k].held /\ kilit[k].id = a /\ kilit[k].kalan > 0
        /\ awx[a] \in AwxTerminal /\ yayin[a] = "yok" /\ ~DurdurmaBasarili(a)
        => kilit'[k].held /\ kilit'[k].id = a]_vars
=============================================================================
