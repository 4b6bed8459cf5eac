------------------------------ MODULE YukKuyruk ------------------------------
(***************************************************************************)
(* The night queue of the load test: one queue with its items, the Portal  *)
(* processes that work on it under a lease, the load and check runs they   *)
(* start, and the requests of its owner.                                   *)
(*                                                                         *)
(* A handler is one turn of tick over the queue.  It works with COPIES of  *)
(* the queue row and of the item row, read some steps ago; every write is  *)
(* one conditional UPDATE on the rows as they are.  Reads that cannot      *)
(* change any more (a closed run) are merged with the write after them.    *)
(*                                                                         *)
(* Runs are kept as coarse as the queue sees them: their own protocol is   *)
(* YukTesti.  The order of waiting items is left open, since its owner can *)
(* change it at any time.                                                  *)
(***************************************************************************)
EXTENDS Naturals, FiniteSets

CONSTANTS
    Surec,                 \* Portal processes (SUREC_ID)
    Oge,                   \* items of the queue
    EnCokKosu,             \* bound: run numbers; when none is left, the INSERT fails
    Yok,
    GECICI_DENEME_SINIRI,  \* transient errors before an item is HATALI
    ADIM_SINIRI,           \* rounds of one turn
    KUYRUK_HATA_SINIRI,    \* failed turns in a row before the queue is HATALI
    EnCokAriza,            \* bound: faults in a behaviour
    EnCokBasma,            \* bound: requests of the owner in a behaviour
    EnCokOlay              \* bound: faults and requests together

VARIABLES
    kuyruk,   \* the row of the queue
    oge,      \* oge[o]: the row of item o
    kosu,     \* kosu[r]: run r: its row, its AWX job and its lock
    surec,    \* surec[p]: the handler of process p
    istek,    \* the owner's request that is between its two statements
    yorgun,   \* history: a load job started and the queue has not rested since
    bayat,    \* history: a turn counted the pause of a run that the queue no longer rested for
    yarim,    \* history: a turn without the lease counted an attempt, or the close after the
              \* last attempt did not happen, or not before the lease had passed on
    ariza,    \* faults so far
    basma     \* requests so far

gecmis == <<yorgun, bayat, yarim>>
vars == <<kuyruk, oge, kosu, surec, istek, gecmis, ariza, basma>>

ASSUME KuyrukSinirlari ==
    /\ GECICI_DENEME_SINIRI \in Nat \ {0} /\ KUYRUK_HATA_SINIRI \in Nat \ {0}
    /\ ADIM_SINIRI \in Nat \ {0}
    /\ EnCokKosu \in Nat /\ EnCokAriza \in Nat /\ EnCokBasma \in Nat /\ EnCokOlay \in Nat

Kosu == 1 .. EnCokKosu

ASSUME YokAyri == Yok \notin Surec \cup Oge \cup Kosu

-----------------------------------------------------------------------------
AKTIF_KUYRUK == {"BEKLIYOR", "CALISIYOR", "DINLENME"}
KUYRUK_DURUMLARI == AKTIF_KUYRUK \cup {"BITTI", "IPTAL", "HATALI"}
KapaliOge == {"BITTI", "ATLANDI", "HATALI", "IPTAL"}
OGE_DURUMLARI == {"BEKLIYOR", "CALISIYOR"} \cup KapaliOge
AKTIF_KOSU == {"QUEUED", "RUNNING"}    \* FINALIZING counts as RUNNING

\* What a turn keeps of the queue row (kuyrukOku); dinlenme_bitis is not set,
\* in the future, or past.
Bitisler == {"yok", "bekler", "doldu"}
KuyrukGozu == [durum : KUYRUK_DURUMLARI, duraklat : BOOLEAN,
               dinlenKosu : Kosu \cup {Yok}, bitis : Bitisler]

\* deneme_id is the process: one process has one attempt at a time, and an old
\* identifier of its own is never used again.
OgeSatirlari ==
    [durum : OGE_DURUMLARI, asama : {"-", "on_kontrol", "kosu"},
     token : Surec \cup {Yok}, ok : Kosu \cup {Yok}, kosu : Kosu \cup {Yok},
     deneme : Nat, geri : BOOLEAN, govde : 0 .. EnCokBasma]

YeniOge == [durum |-> "BEKLIYOR", asama |-> "-", token |-> Yok, ok |-> Yok,
            kosu |-> Yok, deneme |-> 0, geri |-> FALSE, govde |-> 0]

KosuSatirlari ==
    [durum : {"yok", "silindi"} \cup AKTIF_KOSU \cup {"DONE", "FAILED", "CANCELED"},
     islem : {"on_kontrol", "kosu"}, oge : Oge \cup {Yok}, govde : 0 .. EnCokBasma,
     awx : {"yok", "calisiyor", "bitti"}, kilit : BOOLEAN, iptal : BOOLEAN]

KosuYok == [durum |-> "yok", islem |-> "kosu", oge |-> Yok, govde |-> 0,
            awx |-> "yok", kilit |-> FALSE, iptal |-> FALSE]

Adimlar == {"oldu", "bos", "oku", "oge", "siradaki", "kapi", "al", "kanca", "baslat",
            "geriAl", "ertele", "kapatGecici", "kapatAtla", "kapatHatali", "ilerlet",
            "dinlen", "dinlenme", "sirala", "son", "hataliOgeler"}

SurecBos == [adim |-> "bos", o |-> Yok, goz |-> YeniOge, r |-> Yok, sayilir |-> FALSE, tur |-> 0,
             k |-> [durum |-> "BEKLIYOR", duraklat |-> FALSE, dinlenKosu |-> Yok,
                    bitis |-> "yok"]]

Init ==
    /\ kuyruk = [durum |-> "BEKLIYOR", duraklat |-> FALSE, dinlenKosu |-> Yok,
                 bitis |-> "yok", kira |-> Yok, gecerli |-> FALSE, hata |-> 0]
    /\ oge = [o \in Oge |-> YeniOge]
    /\ kosu = [r \in Kosu |-> KosuYok]
    /\ surec = [p \in Surec |-> SurecBos]
    /\ istek = "yok"
    /\ yorgun = FALSE /\ bayat = FALSE /\ yarim = FALSE
    /\ ariza = 0
    /\ basma = 0

Ariza == ariza < EnCokAriza /\ ariza + basma < EnCokOlay /\ ariza' = ariza + 1
Basma == basma < EnCokBasma /\ ariza + basma < EnCokOlay /\ basma' = basma + 1

-----------------------------------------------------------------------------
\* Where a step of a turn leads

Git(p, adim) == surec' = [surec EXCEPT ![p].adim = adim]

\* 'dur': the turn ends without an error; hataSifirla is left, if it has to do
\* something.
Dur(p) ==
    surec' = [surec EXCEPT ![p] = [SurecBos EXCEPT !.adim = IF kuyruk.hata = 0 THEN "bos" ELSE "son"]]

\* MUTANT of Devam: one round too many.
FazladanDevam(p) ==
    LET tur == surec[p].tur + 1 IN
    IF tur > ADIM_SINIRI THEN Dur(p)
    ELSE surec' = [surec EXCEPT ![p] = [SurecBos EXCEPT !.adim = "oku", !.tur = tur]]

\* 'devam': the loop of kuyrukIsle reads the queue again, up to ADIM_SINIRI rounds.
Devam(p) ==
    LET tur == surec[p].tur + 1 IN
    IF tur = ADIM_SINIRI THEN Dur(p)
    ELSE surec' = [surec EXCEPT ![p] = [SurecBos EXCEPT !.adim = "oku", !.tur = tur]]

\* What a turn keeps of an item.
Kopya(x) == [x EXCEPT !.token = Yok]

\* A conditional UPDATE of the item decides: it matches, and the loop goes on, or
\* the turn ends.
Yazar(p, kosul, yeni) ==
    \/ kosul /\ oge' = [oge EXCEPT ![surec[p].o] = yeni] /\ Devam(p)
    \/ ~kosul /\ UNCHANGED oge /\ Dur(p)

\* KUYRUK_BIZDE, the condition of the statements that start work.
KuyrukBizde(p) == kuyruk.durum = "CALISIYOR" /\ ~kuyruk.duraklat /\ kuyruk.kira = p

CalisanYok == \A o \in Oge : oge[o].durum # "CALISIYOR"

\* kosuKilitliMi: a run that is gone counts as unlocked.
KosuKilitliMi(r) == r # Yok /\ (kosu[r].durum \in AKTIF_KOSU \/ kosu[r].kilit)

\* kosuDurduruldu
KosuDurduruldu(x) == x.durum = "CANCELED" \/ (x.iptal /\ x.durum # "DONE")

\* A row that is not closed yet is closed as FAILED (kosuBasarisiz).
Basarisiz(x) == [x EXCEPT !.durum = IF @ = "QUEUED" THEN "FAILED" ELSE @]

\* ogeKapat, from the state that is expected
Kapanmis(x, beklenen, yeni) ==
    IF x.durum = beklenen THEN [x EXCEPT !.durum = yeni, !.token = Yok] ELSE x

\* deneme = deneme + 1: the statements know no limit.
Artir(n) == n + 1

\* For the history only: the count or the close of an attempt went astray.
Yarim(b) == yarim' = (yarim \/ b) /\ UNCHANGED <<yorgun, bayat>>

-----------------------------------------------------------------------------
\* The turn: lease, queue row, running item, next item

\* MUTANT of IslenirMi: a closed queue is not looked at any more.
AktifIslenir == kuyruk.durum \in AKTIF_KUYRUK

\* aktifKuyruklar
IslenirMi ==
    \/ kuyruk.durum \in AKTIF_KUYRUK
    \/ kuyruk.durum \in {"IPTAL", "HATALI"} /\ ~CalisanYok

\* MUTANT of KiraAl: the lease of another process never runs out.
KiraDevralinmaz(p) ==
    /\ surec[p].adim = "bos"
    /\ IslenirMi
    /\ kuyruk.kira \in {Yok, p}
    /\ kuyruk' = [kuyruk EXCEPT !.kira = p, !.gecerli = TRUE]
    /\ Git(p, "oku")
    /\ UNCHANGED <<oge, kosu, istek, gecmis, ariza, basma>>

KiraAl(p) ==
    /\ surec[p].adim = "bos"
    /\ IslenirMi
    /\ kuyruk.kira \in {Yok, p} \/ ~kuyruk.gecerli
    /\ kuyruk' = [kuyruk EXCEPT !.kira = p, !.gecerli = TRUE]
    /\ Git(p, "oku")
    /\ Yarim(\E q \in Surec \ {p} : surec[q].adim = "kapatGecici")
    /\ UNCHANGED <<oge, kosu, istek, ariza, basma>>

KuyrukOku(p) ==
    /\ surec[p].adim = "oku"
    /\ surec' = [surec EXCEPT ![p].adim = "oge",
                    ![p].k = [f \in {"durum", "duraklat", "dinlenKosu", "bitis"} |-> kuyruk[f]]]
    /\ UNCHANGED <<kuyruk, oge, kosu, istek, gecmis, ariza, basma>>

KuyrukBasla(p) ==
    /\ surec[p].adim = "oge" /\ surec[p].k.durum = "BEKLIYOR"
    /\ LET basla == kuyruk.durum = "BEKLIYOR" /\ kuyruk.kira = p /\ ~kuyruk.duraklat IN
       \/ basla /\ kuyruk' = [kuyruk EXCEPT !.durum = "CALISIYOR"] /\ Devam(p)
       \/ ~basla /\ UNCHANGED kuyruk /\ Dur(p)
    /\ UNCHANGED <<oge, kosu, istek, gecmis, ariza, basma>>

\* calisanOge; the unique index keeps it at most one.
CalisanOge(p) ==
    /\ surec[p].adim = "oge" /\ surec[p].k.durum # "BEKLIYOR"
    /\ \/ \E o \in Oge :
            /\ oge[o].durum = "CALISIYOR"
            /\ surec' = [surec EXCEPT ![p].adim = "ilerlet", ![p].o = o, ![p].goz = Kopya(oge[o])]
       \/ CalisanYok /\ surec[p].k.durum = "CALISIYOR" /\ Git(p, "siradaki")
       \/ CalisanYok /\ surec[p].k.durum = "DINLENME" /\ Git(p, "dinlenme")
       \/ CalisanYok /\ surec[p].k.durum \notin AKTIF_KUYRUK /\ Dur(p)
    /\ UNCHANGED <<kuyruk, oge, kosu, istek, gecmis, ariza, basma>>

\* siradakiOge, kuyrukBitti
SiradakiOge(p) ==
    /\ surec[p].adim = "siradaki"
    /\ \/ /\ \E o \in Oge :
                /\ oge[o].durum = "BEKLIYOR"
                /\ IF surec[p].k.duraklat \/ oge[o].geri THEN Dur(p)
                   ELSE surec' = [surec EXCEPT ![p].adim = "kapi", ![p].o = o, ![p].goz = Kopya(oge[o])]
          /\ UNCHANGED kuyruk
       \/ /\ \A o \in Oge : oge[o].durum # "BEKLIYOR"
          /\ kuyruk' = [kuyruk EXCEPT !.durum =
                IF @ = "CALISIYOR" /\ kuyruk.kira = p /\ CalisanYok THEN "BITTI" ELSE @]
          /\ Dur(p)
    /\ UNCHANGED <<oge, kosu, istek, gecmis, ariza, basma>>

-----------------------------------------------------------------------------
\* ogeBaslat: the gates (permission, latest end, plan), then the claim

\* MUTANT of GeciciSonu: one attempt too many.
FazladanDeneme(p, beklenen) ==
    surec' = [surec EXCEPT ![p].goz.durum = beklenen, ![p].adim =
        IF surec[p].goz.deneme + 1 > GECICI_DENEME_SINIRI THEN "kapatGecici" ELSE "ertele"]

\* geciciHata after its first statement: HATALI at the limit, else a pause.  It counts
\* from the copy.
GeciciSonu(p, beklenen) ==
    surec' = [surec EXCEPT ![p].goz.durum = beklenen, ![p].adim =
        IF surec[p].goz.deneme + 1 >= GECICI_DENEME_SINIRI THEN "kapatGecici" ELSE "ertele"]

\* ogeNeden
NedenYaz(o, beklenen) ==
    oge' = [oge EXCEPT ![o].deneme = IF oge[o].durum = beklenen THEN Artir(@) ELSE @]

KapiHata(p) ==
    /\ surec[p].adim = "kapi"
    /\ NedenYaz(surec[p].o, "BEKLIYOR")
    /\ GeciciSonu(p, "BEKLIYOR")
    /\ Yarim(kuyruk.kira # p)
    /\ UNCHANGED <<kuyruk, kosu, istek, ariza, basma>>

\* ogeAtla: the gate decided on the body that was read.
OgeAtla(p) ==
    LET x == oge[surec[p].o] IN
    /\ surec[p].adim = "kapi"
    /\ Yazar(p, x.durum = "BEKLIYOR" /\ x.govde = surec[p].goz.govde,
             [x EXCEPT !.durum = "ATLANDI", !.token = Yok])
    /\ UNCHANGED <<kuyruk, kosu, istek, gecmis, ariza, basma>>

\* MUTANT of Sahiplenilir: the claim does not look at the body.
GovdesizSahiplenilir(p) ==
    LET x == oge[surec[p].o] IN
    x.durum = "BEKLIYOR" /\ x.ok = Yok /\ x.kosu = Yok /\ KuyrukBizde(p) /\ CalisanYok

Sahiplenilir(p) ==
    LET x == oge[surec[p].o] IN
    /\ x.durum = "BEKLIYOR" /\ x.ok = Yok /\ x.kosu = Yok /\ KuyrukBizde(p) /\ CalisanYok
    /\ x.govde = surec[p].goz.govde

OgeSahiplen(p) ==
    /\ surec[p].adim = "kapi"
    /\ \/ /\ Sahiplenilir(p)
          /\ oge' = [oge EXCEPT ![surec[p].o] =
                [@ EXCEPT !.durum = "CALISIYOR", !.asama = "on_kontrol", !.token = p]]
          /\ surec' = [surec EXCEPT ![p].adim = "al", ![p].goz.asama = "on_kontrol"]
       \/ ~Sahiplenilir(p) /\ UNCHANGED oge /\ Dur(p)
    /\ UNCHANGED <<kuyruk, kosu, istek, gecmis, ariza, basma>>

-----------------------------------------------------------------------------
\* kosuyuBaslat as the queue calls it: lock and row, number, launch

\* Locks taken and row written.  A load run needs the row of its check.
Al(p) ==
    LET s == surec[p] IN
    /\ s.adim = "al"
    /\ \A q \in Kosu : ~kosu[q].kilit
    /\ s.goz.asama = "kosu" => kosu[s.goz.ok].durum # "silindi"
    /\ \E r \in Kosu :
        /\ kosu[r].durum = "yok" /\ \A q \in 1 .. r - 1 : kosu[q].durum # "yok"
        /\ kosu' = [kosu EXCEPT ![r] = [KosuYok EXCEPT
                !.durum = "QUEUED", !.islem = s.goz.asama, !.oge = s.o,
                !.govde = s.goz.govde, !.kilit = TRUE]]
        /\ surec' = [surec EXCEPT ![p].adim = "kanca", ![p].r = r]
    /\ UNCHANGED <<kuyruk, oge, istek, gecmis, ariza, basma>>

\* Neither: the lock is busy (with a run of this queue, or, as a fault, of somebody
\* else), which does not count as an attempt; or a short failure; or a refusal.
Alinamaz(p) ==
    /\ surec[p].adim = "al"
    /\ \/ (\E r \in Kosu : kosu[r].kilit) /\ Git(p, "geriAl") /\ UNCHANGED ariza
       \/ Ariza /\ Git(p, "geriAl")
       \/ surec' = [surec EXCEPT ![p].adim = "geriAl", ![p].sayilir = TRUE] /\ UNCHANGED ariza
       \/ Git(p, "kapatAtla") /\ UNCHANGED ariza
    /\ UNCHANGED <<kuyruk, oge, kosu, istek, gecmis, basma>>

\* okKaydet and kosuKaydet
NumaraYazilir(p) ==
    LET x == oge[surec[p].o] IN
    /\ x.token = p /\ x.durum = "CALISIYOR" /\ x.asama = surec[p].goz.asama
    /\ IF x.asama = "kosu" THEN x.kosu = Yok ELSE x.ok = Yok
    /\ KuyrukBizde(p)

Numarali(x, r) == IF x.asama = "kosu" THEN [x EXCEPT !.kosu = r] ELSE [x EXCEPT !.ok = r]

\* MUTANT of Kanca: a write that does not match does not stop the launch.
KancaYutulur(p) ==
    /\ surec[p].adim = "kanca"
    /\ oge' = IF NumaraYazilir(p)
              THEN [oge EXCEPT ![surec[p].o] = Numarali(@, surec[p].r)] ELSE oge
    /\ Git(p, "baslat")
    /\ UNCHANGED <<kuyruk, kosu, istek, gecmis, ariza, basma>>

\* The number goes into the item before AWX is asked.  If it does not, the lock
\* is released, the row closed, and the turn ends ('birak').
Kanca(p) ==
    LET o == surec[p].o   r == surec[p].r IN
    /\ surec[p].adim = "kanca"
    /\ \/ /\ NumaraYazilir(p)
          /\ oge' = [oge EXCEPT ![o] = Numarali(@, r)]
          /\ Git(p, "baslat")
          /\ UNCHANGED <<kosu, ariza>>
       \/ /\ (~NumaraYazilir(p) /\ UNCHANGED ariza) \/ Ariza
          /\ kosu' = [kosu EXCEPT ![r] = [Basarisiz(@) EXCEPT !.kilit = FALSE]]
          /\ Dur(p)
          /\ UNCHANGED oge
    /\ UNCHANGED <<kuyruk, istek, gecmis, basma>>

Yorulur(r) == yorgun' = (yorgun \/ kosu[r].islem = "kosu") /\ UNCHANGED <<bayat, yarim>>

\* AWX starts the job.  A row that was closed meanwhile stays closed.  When the row cannot be
\* written, the error has no run number: it passes for a transient one, but what is taken
\* back is an item without a number, which this one is not.
Baslar(p) ==
    LET r == surec[p].r IN
    /\ surec[p].adim = "baslat"
    /\ \/ /\ kosu' = [kosu EXCEPT ![r].awx = "calisiyor",
                                   ![r].durum = IF @ = "QUEUED" THEN "RUNNING" ELSE @]
          /\ Dur(p)
          /\ UNCHANGED ariza
       \/ /\ Ariza
          /\ kosu' = [kosu EXCEPT ![r].awx = "calisiyor"]
          /\ surec' = [surec EXCEPT ![p].adim = "geriAl", ![p].sayilir = TRUE, ![p].r = Yok]
    /\ Yorulur(r)
    /\ UNCHANGED <<kuyruk, oge, istek, basma>>

\* The job certainly did not start: the lock is released; a lasting refusal
\* (400, 403, 409) closes the item, anything else is tried again.
Baslamaz(p) ==
    /\ surec[p].adim = "baslat"
    /\ kosu' = [kosu EXCEPT ![surec[p].r] = [Basarisiz(@) EXCEPT !.kilit = FALSE]]
    /\ \/ surec' = [surec EXCEPT ![p].adim = "geriAl", ![p].sayilir = TRUE]
       \/ Git(p, "kapatAtla")
    /\ UNCHANGED <<kuyruk, oge, istek, gecmis, ariza, basma>>

\* MUTANT of Belirsiz: an answer that does not come counts as "did not start".
BelirsizYenidenDenenir(p) ==
    LET r == surec[p].r IN
    /\ surec[p].adim = "baslat"
    /\ Ariza
    /\ kosu' = [kosu EXCEPT ![r] = [Basarisiz(@) EXCEPT !.awx = "calisiyor", !.kilit = FALSE]]
    /\ Yorulur(r)
    /\ surec' = [surec EXCEPT ![p].adim = "geriAl", ![p].sayilir = TRUE]
    /\ UNCHANGED <<kuyruk, oge, istek, basma>>

\* No answer, or a job AWX started with other variables: it may be running.
Belirsiz(p) ==
    /\ surec[p].adim = "baslat"
    /\ Ariza
    /\ \/ kosu' = [kosu EXCEPT ![surec[p].r] = Basarisiz(@)] /\ UNCHANGED gecmis
       \/ /\ kosu' = [kosu EXCEPT ![surec[p].r] = [Basarisiz(@) EXCEPT !.awx = "calisiyor"]]
          /\ Yorulur(surec[p].r)
    /\ Git(p, "kapatHatali")
    /\ UNCHANGED <<kuyruk, oge, istek, basma>>

-----------------------------------------------------------------------------
\* What follows an attempt that failed

\* ogeGeriAl, kosuGeriAl (no number), okSifirla, kosuSifirla (with the number of
\* this attempt)
GeriAlinir(x, asama, r, tokenlar) ==
    /\ x.durum = "CALISIYOR" /\ x.asama = asama /\ x.token \in tokenlar
    /\ IF asama = "kosu" THEN x.kosu = r ELSE x.ok = r /\ x.kosu = Yok
    /\ kuyruk.durum = "CALISIYOR"

GeriAlinmis(x, sayilir) ==
    LET y == [x EXCEPT !.token = Yok, !.deneme = IF sayilir THEN Artir(@) ELSE @] IN
    IF x.asama = "kosu" THEN [y EXCEPT !.asama = "on_kontrol", !.kosu = Yok]
    ELSE [y EXCEPT !.durum = "BEKLIYOR", !.asama = "-", !.ok = Yok]

GeriAl(p) ==
    LET s == surec[p] IN
    /\ s.adim = "geriAl"
    /\ oge' = IF GeriAlinir(oge[s.o], s.goz.asama, s.r, {p})
              THEN [oge EXCEPT ![s.o] = GeriAlinmis(@, s.sayilir)] ELSE oge
    /\ IF s.sayilir THEN GeciciSonu(p, IF s.goz.asama = "kosu" THEN "CALISIYOR" ELSE "BEKLIYOR")
       ELSE Dur(p)
    /\ Yarim(s.sayilir /\ kuyruk.kira # p)
    /\ UNCHANGED <<kuyruk, kosu, istek, ariza, basma>>

OgeErtele(p) ==
    /\ surec[p].adim = "ertele"
    /\ oge' = [oge EXCEPT ![surec[p].o].geri = @ \/ oge[surec[p].o].durum \notin KapaliOge]
    /\ Dur(p)
    /\ UNCHANGED <<kuyruk, kosu, istek, gecmis, ariza, basma>>

Kapat(p) ==
    LET s == surec[p]   acik == oge[s.o].durum \notin KapaliOge IN
    /\ \/ /\ s.adim = "kapatGecici"
          /\ oge' = [oge EXCEPT ![s.o] = Kapanmis(@, s.goz.durum, "HATALI")] /\ Devam(p)
       \/ /\ s.adim = "kapatAtla"
          /\ oge' = [oge EXCEPT ![s.o] = Kapanmis(@, "CALISIYOR", "ATLANDI")] /\ Devam(p)
       \/ /\ s.adim = "kapatHatali"
          /\ oge' = [oge EXCEPT ![s.o] = Kapanmis(@, "CALISIYOR", "HATALI")]
          /\ IF s.goz.asama = "kosu" THEN Git(p, "dinlen") ELSE Devam(p)
    /\ Yarim(s.adim = "kapatGecici" /\ acik /\ oge[s.o].durum # s.goz.durum)
    /\ UNCHANGED <<kuyruk, kosu, istek, ariza, basma>>

-----------------------------------------------------------------------------
\* ogeIlerlet: the running item, from its copy

\* Closes the item if it still is CALISIYOR, and goes on.
KapatVe(p, yeni) ==
    LET x == oge[surec[p].o] IN
    Yazar(p, x.durum = "CALISIYOR", Kapanmis(x, "CALISIYOR", yeni))

\* No number: the job never went to AWX.
IlerletNumarasiz(p) ==
    LET s == surec[p]   x == oge[s.o] IN
    /\ s.adim = "ilerlet"
    /\ IF s.goz.asama = "kosu" THEN s.goz.kosu = Yok ELSE s.goz.ok = Yok
    /\ \/ s.k.durum # "CALISIYOR" /\ KapatVe(p, "IPTAL")
       \/ /\ s.k.durum = "CALISIYOR"
          /\ Yazar(p, GeriAlinir(x, s.goz.asama, Yok, Surec \cup {Yok}), GeriAlinmis(x, FALSE))
    /\ UNCHANGED <<kuyruk, kosu, istek, gecmis, ariza, basma>>

\* A load run that has ended, or is gone, closes its item; the rest is a statement
\* of its own (sonrasi).
IlerletKosu(p) ==
    LET s == surec[p]   r == s.goz.kosu   x == oge[s.o]
        basa == s.k.duraklat /\ s.k.durum \in AKTIF_KUYRUK /\ KosuDurduruldu(kosu[r]) IN
    /\ s.adim = "ilerlet" /\ s.goz.asama = "kosu" /\ r # Yok
    /\ \/ kosu[r].durum \in AKTIF_KOSU /\ UNCHANGED oge /\ Dur(p)
       \/ /\ kosu[r].durum \notin AKTIF_KOSU
          /\ kosu[r].durum = "silindi" \/ ~basa
          /\ \/ /\ x.durum = "CALISIYOR"
                /\ oge' = [oge EXCEPT ![s.o] =
                        Kapanmis(@, "CALISIYOR", IF kosu[r].durum = "DONE" THEN "BITTI" ELSE "HATALI")]
                /\ surec' = [surec EXCEPT ![p].adim = "dinlen", ![p].r = r]
             \/ x.durum # "CALISIYOR" /\ UNCHANGED oge /\ Dur(p)
    /\ UNCHANGED <<kuyruk, kosu, istek, gecmis, ariza, basma>>

\* A load run that was stopped while the queue is paused is run again: first the
\* rest, then the item ("sirala").
IlerletDurdurulan(p) ==
    LET s == surec[p]   r == s.goz.kosu IN
    /\ s.adim = "ilerlet" /\ s.goz.asama = "kosu" /\ r # Yok
    /\ kosu[r].durum \notin AKTIF_KOSU \cup {"silindi"} /\ KosuDurduruldu(kosu[r])
    /\ s.k.duraklat /\ s.k.durum \in AKTIF_KUYRUK
    /\ \/ s.k.durum = "DINLENME" /\ UNCHANGED kuyruk /\ Git(p, "sirala")
       \/ /\ s.k.durum = "CALISIYOR" /\ kuyruk.durum = "CALISIYOR"
          /\ kuyruk' = [kuyruk EXCEPT !.durum = "DINLENME", !.dinlenKosu = r, !.bitis = "yok"]
          /\ Git(p, "sirala")
       \/ s.k.durum = "CALISIYOR" /\ kuyruk.durum # "CALISIYOR" /\ UNCHANGED kuyruk /\ Dur(p)
    /\ UNCHANGED <<oge, kosu, istek, gecmis, ariza, basma>>

\* kosuYenidenSirala
KosuYenidenSirala(p) ==
    LET s == surec[p]   x == oge[s.o] IN
    /\ s.adim = "sirala"
    /\ Yazar(p, /\ x.durum = "CALISIYOR" /\ x.asama = "kosu" /\ x.kosu = s.goz.kosu
                /\ kuyruk.durum \in {"CALISIYOR", "DINLENME"},
             [x EXCEPT !.durum = "BEKLIYOR", !.asama = "-", !.token = Yok, !.kosu = Yok, !.ok = Yok])
    /\ UNCHANGED <<kuyruk, kosu, istek, gecmis, ariza, basma>>

\* onKontrolYenile
OnKontrolYenile(p) ==
    LET x == oge[surec[p].o] IN
    Yazar(p, /\ x.durum = "CALISIYOR" /\ x.asama = "on_kontrol" /\ x.ok = surec[p].goz.ok
             /\ x.kosu = Yok /\ kuyruk.durum = "CALISIYOR",
          [x EXCEPT !.durum = "BEKLIYOR", !.asama = "-", !.token = Yok, !.ok = Yok])

\* A check whose result is not used: it runs, is gone or failed, or the queue was
\* paused or closed.
IlerletOnKontrol(p) ==
    LET s == surec[p]   r == s.goz.ok   d == kosu[r].durum
        bitti == d \in {"DONE", "FAILED", "CANCELED"}
        duraklatildi == s.k.durum = "CALISIYOR" /\ s.k.duraklat IN
    /\ s.adim = "ilerlet" /\ s.goz.asama = "on_kontrol" /\ r # Yok
    /\ \/ d = "silindi" /\ KapatVe(p, "ATLANDI")
       \/ d \in AKTIF_KOSU /\ UNCHANGED oge /\ Dur(p)
       \/ bitti /\ duraklatildi /\ KosuKilitliMi(r) /\ UNCHANGED oge /\ Dur(p)
       \/ bitti /\ duraklatildi /\ ~KosuKilitliMi(r) /\ OnKontrolYenile(p)
       \/ bitti /\ ~duraklatildi /\ d # "DONE" /\ KapatVe(p, "ATLANDI")
       \/ d = "DONE" /\ s.k.durum # "CALISIYOR" /\ KapatVe(p, "IPTAL")
    /\ UNCHANGED <<kuyruk, kosu, istek, gecmis, ariza, basma>>

\* A check that is done: the gates again (a failure, a refusal, or too old), then
\* the load run is claimed (kosuAsamasi).
KosuAsamasi(p) ==
    LET s == surec[p]   r == s.goz.ok   x == oge[s.o]
        alinir == /\ x.durum = "CALISIYOR" /\ x.asama = "on_kontrol" /\ x.ok = r
                  /\ x.kosu = Yok /\ KuyrukBizde(p) IN
    /\ s.adim = "ilerlet" /\ s.goz.asama = "on_kontrol" /\ r # Yok
    /\ kosu[r].durum = "DONE" /\ s.k.durum = "CALISIYOR" /\ ~s.k.duraklat
    /\ \/ s.goz.geri /\ UNCHANGED <<oge, gecmis>> /\ Dur(p)
       \/ /\ ~s.goz.geri
          /\ NedenYaz(s.o, "CALISIYOR") /\ GeciciSonu(p, "CALISIYOR") /\ Yarim(kuyruk.kira # p)
       \/ ~s.goz.geri /\ KapatVe(p, "ATLANDI") /\ UNCHANGED gecmis
       \/ ~s.goz.geri /\ OnKontrolYenile(p) /\ UNCHANGED gecmis
       \/ /\ ~s.goz.geri /\ alinir
          /\ oge' = [oge EXCEPT ![s.o].asama = "kosu", ![s.o].token = p]
          /\ surec' = [surec EXCEPT ![p].adim = "al", ![p].goz.asama = "kosu"]
          /\ UNCHANGED gecmis
       \/ ~s.goz.geri /\ ~alinir /\ UNCHANGED <<oge, gecmis>> /\ Dur(p)
    /\ UNCHANGED <<kuyruk, kosu, istek, ariza, basma>>

-----------------------------------------------------------------------------
\* The rest after a load run

\* sonrasi: dinlenmeyeGec
Dinlen(p) ==
    LET s == surec[p] IN
    /\ s.adim = "dinlen"
    /\ \/ s.k.durum # "CALISIYOR" /\ UNCHANGED kuyruk /\ Devam(p)
       \/ /\ s.k.durum = "CALISIYOR" /\ kuyruk.durum = "CALISIYOR"
          /\ kuyruk' = [kuyruk EXCEPT !.durum = "DINLENME", !.dinlenKosu = s.r, !.bitis = "yok"]
          /\ Devam(p)
       \/ s.k.durum = "CALISIYOR" /\ kuyruk.durum # "CALISIYOR" /\ UNCHANGED kuyruk /\ Dur(p)
    /\ UNCHANGED <<oge, kosu, istek, gecmis, ariza, basma>>

\* MUTANT of DinlenmeBaslat: the pause is counted from the end of the run.
KilitliykenDinlenir(p) ==
    LET baslar == kuyruk.durum = "DINLENME" /\ kuyruk.bitis = "yok" IN
    /\ surec[p].adim = "dinlenme" /\ surec[p].k.bitis = "yok"
    /\ \/ baslar /\ kuyruk' = [kuyruk EXCEPT !.bitis = "bekler"] /\ Devam(p)
       \/ ~baslar /\ UNCHANGED kuyruk /\ Dur(p)
    /\ UNCHANGED <<oge, kosu, istek, gecmis, ariza, basma>>

\* dinlenme, first half: the pause is counted once the locks of the run are free.  The
\* statement does not look at the run.
DinlenmeBaslat(p) ==
    LET k == surec[p].k
        baslar == /\ ~KosuKilitliMi(k.dinlenKosu)
                  /\ kuyruk.durum = "DINLENME" /\ kuyruk.bitis = "yok" IN
    /\ surec[p].adim = "dinlenme" /\ k.bitis = "yok"
    /\ \/ baslar /\ kuyruk' = [kuyruk EXCEPT !.bitis = "bekler"] /\ Devam(p)
       \/ ~baslar /\ UNCHANGED kuyruk /\ Dur(p)
    /\ bayat' = (bayat \/ (baslar /\ k.dinlenKosu # kuyruk.dinlenKosu))
    /\ UNCHANGED <<oge, kosu, istek, yorgun, yarim, ariza, basma>>

DinlenmeBitti(p) ==
    LET biter == /\ surec[p].k.bitis = "doldu"
                 /\ kuyruk.durum = "DINLENME" /\ kuyruk.bitis = "doldu" IN
    /\ surec[p].adim = "dinlenme" /\ surec[p].k.bitis # "yok"
    /\ \/ /\ biter
          /\ kuyruk' = [kuyruk EXCEPT !.durum = "CALISIYOR", !.dinlenKosu = Yok, !.bitis = "yok"]
          /\ yorgun' = FALSE
          /\ Devam(p)
       \/ ~biter /\ UNCHANGED <<kuyruk, yorgun>> /\ Dur(p)
    /\ UNCHANGED <<oge, kosu, istek, bayat, yarim, ariza, basma>>

-----------------------------------------------------------------------------
\* The end of a turn, and a turn that fails

\* hataSifirla
TurBiter(p) ==
    /\ surec[p].adim = "son"
    /\ kuyruk' = [kuyruk EXCEPT !.hata = 0]
    /\ surec' = [surec EXCEPT ![p] = SurecBos]
    /\ UNCHANGED <<oge, kosu, istek, gecmis, ariza, basma>>

DbAdimlari == Adimlar \ {"oldu", "bos", "al", "kanca", "baslat", "hataliOgeler"}

\* The database fails at any statement of a turn: hataSay and kuyrukHatali, which
\* may fail as well.
TurHatasi(p) ==
    LET hatali == kuyruk.hata + 1 >= KUYRUK_HATA_SINIRI /\ kuyruk.durum \in AKTIF_KUYRUK IN
    /\ surec[p].adim \in DbAdimlari
    /\ Ariza
    /\ \/ /\ kuyruk' = [kuyruk EXCEPT !.hata = @ + 1, !.durum = IF hatali THEN "HATALI" ELSE @]
          /\ surec' = [surec EXCEPT ![p] =
                [SurecBos EXCEPT !.adim = IF hatali THEN "hataliOgeler" ELSE "bos"]]
       \/ UNCHANGED kuyruk /\ surec' = [surec EXCEPT ![p] = SurecBos]
    /\ Yarim(surec[p].adim = "kapatGecici")
    /\ UNCHANGED <<oge, kosu, istek, basma>>

\* hataliOgeler and ogelerIptal: the waiting items
BekleyenKapat(yeni) ==
    oge' = [o \in Oge |-> Kapanmis(oge[o], "BEKLIYOR", yeni)]

HataliOgeler(p) ==
    /\ surec[p].adim = "hataliOgeler"
    /\ BekleyenKapat("ATLANDI")
    /\ surec' = [surec EXCEPT ![p] = SurecBos]
    /\ UNCHANGED <<kuyruk, kosu, istek, gecmis, ariza, basma>>

-----------------------------------------------------------------------------
\* The owner's requests

\* POST /kuyruklar/:id/iptal: the queue, then its waiting items.
Iptal ==
    /\ istek = "yok" /\ Basma
    /\ kuyruk.durum \in AKTIF_KUYRUK
    /\ kuyruk' = [kuyruk EXCEPT !.durum = "IPTAL"]
    /\ istek' = "iptal"
    /\ UNCHANGED <<oge, kosu, surec, gecmis, ariza>>

OgelerIptal ==
    /\ istek = "iptal"
    /\ BekleyenKapat("IPTAL")
    /\ istek' = "yok"
    /\ UNCHANGED <<kuyruk, kosu, surec, gecmis, ariza, basma>>

Duraklat ==
    /\ Basma
    /\ kuyruk.durum \in AKTIF_KUYRUK /\ ~kuyruk.duraklat
    /\ kuyruk' = [kuyruk EXCEPT !.duraklat = TRUE]
    /\ UNCHANGED <<oge, kosu, surec, istek, gecmis, ariza>>

\* POST /kuyruklar/:id/devam: refused while a stopped run, or a check that has
\* ended, is not yet settled; then the flag is cleared.
DevamOku ==
    /\ istek = "yok" /\ Basma
    /\ kuyruk.durum \in AKTIF_KUYRUK /\ kuyruk.duraklat
    /\ \A o \in Oge : oge[o].durum = "CALISIYOR" =>
        LET r == IF oge[o].kosu # Yok THEN oge[o].kosu ELSE oge[o].ok IN
        r # Yok /\ kosu[r].durum # "silindi" =>
            /\ oge[o].kosu = Yok => kosu[r].durum \in AKTIF_KOSU
            /\ ~KosuDurduruldu(kosu[r])
    /\ istek' = "devam"
    /\ UNCHANGED <<kuyruk, oge, kosu, surec, gecmis, ariza>>

KuyrukDevam ==
    /\ istek = "devam"
    /\ kuyruk' = [kuyruk EXCEPT !.duraklat = @ /\ kuyruk.durum \notin AKTIF_KUYRUK]
    /\ istek' = "yok"
    /\ UNCHANGED <<oge, kosu, surec, gecmis, ariza, basma>>

\* PUT /kuyruklar/:id/ogeler/:ogeId (ogeGuncelle)
OgeGuncelle(o) ==
    /\ Basma
    /\ kuyruk.durum \in AKTIF_KUYRUK
    /\ oge[o].durum = "BEKLIYOR" /\ oge[o].ok = Yok /\ oge[o].kosu = Yok
    /\ oge' = [oge EXCEPT ![o].govde = @ + 1, ![o].deneme = 0, ![o].geri = FALSE]
    /\ UNCHANGED <<kuyruk, kosu, surec, istek, gecmis, ariza>>

OgeCikar(o) ==
    /\ Basma
    /\ oge[o].durum = "BEKLIYOR"
    /\ oge' = [oge EXCEPT ![o].durum = "IPTAL"]
    /\ UNCHANGED <<kuyruk, kosu, surec, istek, gecmis, ariza>>

\* Some turn holds the number r and has not had AWX's answer.
Baslatiliyor(r) == \E p \in Surec : surec[p].adim \in {"kanca", "baslat"} /\ surec[p].r = r

\* Stop (kosuyuDurdur): the job of a running row ends sooner or later; a row without
\* a job is closed once its launch is over.
Durdur(r) ==
    /\ Basma
    /\ \/ /\ kosu[r].durum = "RUNNING"
          /\ kosu' = [kosu EXCEPT ![r].iptal = TRUE]
       \/ /\ kosu[r].durum = "QUEUED" /\ ~Baslatiliyor(r)
          /\ kosu' = [kosu EXCEPT ![r].iptal = TRUE, ![r].durum = "CANCELED"]
    /\ UNCHANGED <<kuyruk, oge, surec, istek, gecmis, ariza>>

\* The row is gone; iptal keeps for the properties whether the run had been stopped.
Silinmis(x) == [x EXCEPT !.durum = "silindi", !.iptal = KosuDurduruldu(x)]

\* MUTANT of KosuSil: the statement does not look at the queue's items.
IzlenenSilinir(r) ==
    /\ Basma
    /\ kosu[r].durum \in {"DONE", "FAILED", "CANCELED"} /\ ~kosu[r].kilit
    /\ ~(kuyruk.durum = "DINLENME" /\ kuyruk.dinlenKosu = r)
    /\ kosu' = [kosu EXCEPT ![r] = Silinmis(@)]
    /\ UNCHANGED <<kuyruk, oge, surec, istek, gecmis, ariza>>

\* Deleting a result (silmeSql)
KosuSil(r) ==
    /\ Basma
    /\ kosu[r].durum \in {"DONE", "FAILED", "CANCELED"} /\ ~kosu[r].kilit
    /\ \A o \in Oge : r \in {oge[o].ok, oge[o].kosu} => oge[o].durum \in KapaliOge
    /\ ~(kuyruk.durum = "DINLENME" /\ kuyruk.dinlenKosu = r)
    /\ kosu' = [kosu EXCEPT ![r] = Silinmis(@)]
    /\ UNCHANGED <<kuyruk, oge, surec, istek, gecmis, ariza>>

-----------------------------------------------------------------------------
\* Runs, time and processes

\* The job of a running row ends and the poller closes the row; the lock may stay
\* (KilitTutulur of YukTesti).
KosuKapanir(r) ==
    /\ kosu[r].durum = "RUNNING"
    /\ \E d \in {"DONE", "FAILED", "CANCELED"}, tut \in BOOLEAN :
        /\ d = "DONE" => ~tut
        /\ kosu' = [kosu EXCEPT ![r].durum = d, ![r].awx = "bitti", ![r].kilit = tut]
    /\ UNCHANGED <<kuyruk, oge, surec, istek, gecmis, ariza, basma>>

\* A job whose row was closed before it.
AwxBiter(r) ==
    /\ kosu[r].awx = "calisiyor" /\ kosu[r].durum # "RUNNING"
    /\ kosu' = [kosu EXCEPT ![r].awx = "bitti"]
    /\ UNCHANGED <<kuyruk, oge, surec, istek, gecmis, ariza, basma>>

\* bayatKuyruk: a row without a job number for 15 minutes.  A launch that takes
\* that long counts as a fault.
BayatKuyruk(r) ==
    /\ kosu[r].durum = "QUEUED"
    /\ (~Baslatiliyor(r) /\ UNCHANGED ariza) \/ Ariza
    /\ kosu' = [kosu EXCEPT ![r].durum = "FAILED"]
    /\ UNCHANGED <<kuyruk, oge, surec, istek, gecmis, basma>>

\* A kept lock ends: its stop job succeeds (that of a row without a job number gets
\* the locks whatever a launch nobody heard of has started), or its lifetime, which
\* outlives the job and the launch, is over.
KilitBirakilir(r) ==
    /\ kosu[r].kilit /\ kosu[r].durum \notin AKTIF_KOSU
    /\ kosu[r].awx # "calisiyor" \/ kosu[r].iptal
    /\ ~Baslatiliyor(r)
    /\ kosu' = [kosu EXCEPT ![r].kilit = FALSE]
    /\ UNCHANGED <<kuyruk, oge, surec, istek, gecmis, ariza, basma>>

GeriCekilmeBiter(o) ==
    /\ oge[o].geri
    /\ oge' = [oge EXCEPT ![o].geri = FALSE]
    /\ UNCHANGED <<kuyruk, kosu, surec, istek, gecmis, ariza, basma>>

DinlenmeDolar ==
    /\ kuyruk.bitis = "bekler"
    /\ kuyruk' = [kuyruk EXCEPT !.bitis = "doldu"]
    /\ UNCHANGED <<oge, kosu, surec, istek, gecmis, ariza, basma>>

\* The lease runs out: its holder is dead, or, as a fault, stalled for KIRA_SN
\* in the middle of a turn.
KiraDuser ==
    /\ kuyruk.gecerli
    /\ \/ surec[kuyruk.kira].adim = "oldu" /\ UNCHANGED ariza
       \/ surec[kuyruk.kira].adim \notin {"oldu", "bos"} /\ Ariza
    /\ kuyruk' = [kuyruk EXCEPT !.gecerli = FALSE]
    /\ UNCHANGED <<oge, kosu, surec, istek, gecmis, basma>>

\* A restart: the process is gone for good and another one carries on.  A launch
\* under way may have reached AWX.
Cokme(p) ==
    /\ surec[p].adim # "oldu"
    /\ \E q \in Surec \ {p} : surec[q].adim # "oldu"
    /\ Ariza
    /\ \/ UNCHANGED kosu /\ Yarim(surec[p].adim = "kapatGecici")
       \/ /\ surec[p].adim = "baslat"
          /\ kosu' = [kosu EXCEPT ![surec[p].r].awx = "calisiyor"]
          /\ Yorulur(surec[p].r)
    /\ surec' = [surec EXCEPT ![p] = [SurecBos EXCEPT !.adim = "oldu"]]
    /\ UNCHANGED <<kuyruk, oge, istek, basma>>

-----------------------------------------------------------------------------
Adim(p) ==
    \/ KiraAl(p) \/ KuyrukOku(p) \/ KuyrukBasla(p) \/ CalisanOge(p) \/ SiradakiOge(p)
    \/ KapiHata(p) \/ OgeAtla(p) \/ OgeSahiplen(p)
    \/ Al(p) \/ Alinamaz(p) \/ Kanca(p) \/ Baslar(p) \/ Baslamaz(p) \/ Belirsiz(p)
    \/ GeriAl(p) \/ OgeErtele(p) \/ Kapat(p)
    \/ IlerletNumarasiz(p) \/ IlerletKosu(p) \/ IlerletDurdurulan(p) \/ KosuYenidenSirala(p)
    \/ IlerletOnKontrol(p) \/ KosuAsamasi(p)
    \/ Dinlen(p) \/ DinlenmeBaslat(p) \/ DinlenmeBitti(p) \/ TurBiter(p) \/ HataliOgeler(p)

Sahip ==
    \/ Iptal \/ OgelerIptal \/ Duraklat \/ DevamOku \/ KuyrukDevam
    \/ \E o \in Oge : OgeGuncelle(o) \/ OgeCikar(o)
    \/ \E r \in Kosu : Durdur(r) \/ KosuSil(r)

Next ==
    \/ \E p \in Surec : Adim(p) \/ TurHatasi(p) \/ Cokme(p)
    \/ Sahip
    \/ \E r \in Kosu : AwxBiter(r) \/ KosuKapanir(r) \/ BayatKuyruk(r) \/ KilitBirakilir(r)
    \/ \E o \in Oge : GeriCekilmeBiter(o)
    \/ DinlenmeDolar \/ KiraDuser

Spec == Init /\ [][Next]_vars

\* The timer of every live process keeps firing and its statements end; jobs end,
\* the poller closes rows and locks, and time passes.
Adalet ==
    /\ \A p \in Surec : WF_vars(Adim(p))
    /\ \A r \in Kosu : /\ WF_vars(AwxBiter(r)) /\ WF_vars(KosuKapanir(r))
                       /\ WF_vars(BayatKuyruk(r)) /\ WF_vars(KilitBirakilir(r))
    /\ \A o \in Oge : WF_vars(GeriCekilmeBiter(o))
    /\ WF_vars(DinlenmeDolar) /\ WF_vars(KiraDuser)

AdilSpec == Spec /\ Adalet

-----------------------------------------------------------------------------
TypeOK ==
    /\ kuyruk \in [durum : KUYRUK_DURUMLARI, duraklat : BOOLEAN,
                   dinlenKosu : Kosu \cup {Yok}, bitis : Bitisler,
                   kira : Surec \cup {Yok}, gecerli : BOOLEAN, hata : 0 .. EnCokAriza]
    /\ oge \in [Oge -> OgeSatirlari]
    /\ kosu \in [Kosu -> KosuSatirlari]
    /\ surec \in [Surec -> [adim : Adimlar, o : Oge \cup {Yok}, goz : OgeSatirlari,
                            r : Kosu \cup {Yok}, sayilir : BOOLEAN, tur : 0 .. ADIM_SINIRI - 1,
                            k : KuyrukGozu]]
    /\ istek \in {"yok", "iptal", "devam"}
    /\ yorgun \in BOOLEAN /\ bayat \in BOOLEAN /\ yarim \in BOOLEAN
    /\ ariza \in 0 .. EnCokAriza
    /\ basma \in 0 .. EnCokBasma

\* "cift baslatma yok" (kuyruk.cjs:19-23): the load of an item is started in AWX at
\* most once, but for runs its owner stopped; whichever process, however late.
CiftBaslatmaYok ==
    \A o \in Oge :
        Cardinality({r \in Kosu : /\ kosu[r].oge = o /\ kosu[r].islem = "kosu"
                                  /\ kosu[r].awx # "yok" /\ ~KosuDurduruldu(kosu[r])}) <= 1

\* No job without an item: a job that the queue started and that runs is the one
\* its item follows, or the item is closed; unless its owner stopped the run, which for
\* a row without a job number closes the row whatever AWX is doing.
IsIzlenir ==
    \A r \in Kosu : kosu[r].awx = "calisiyor" =>
        LET x == oge[kosu[r].oge] IN
        \/ x.durum \in KapaliOge
        \/ x.durum = "CALISIYOR" /\ r \in {x.ok, x.kosu}
        \/ kosu[r].durum \notin AKTIF_KOSU /\ KosuDurduruldu(kosu[r])

\* The item runs with the body its owner sees.
GovdeAyni ==
    \A o \in Oge, r \in Kosu :
        oge[o].durum = "CALISIYOR" /\ r \in {oge[o].ok, oge[o].kosu} => kosu[r].govde = oge[o].govde

\* The pause is counted only once the locks of the run before it are free
\* (kuyruk.cjs:12-13), and they are not taken again for it; but for the one way around,
\* reported in the README: a turn stalled past its lease counts the pause of the next run.
DinlenmeKilitsiz == kuyruk.bitis # "yok" /\ ~bayat => ~KosuKilitliMi(kuyruk.dinlenKosu)

\* A result that a running item still follows is not deleted (sil.cjs:38-40), in
\* whichever order the queue writes numbers and the user deletes.
IzlenenSilinmez ==
    \A o \in Oge : oge[o].durum = "CALISIYOR" =>
        \A r \in {oge[o].ok, oge[o].kosu} \ {Yok} : kosu[r].durum # "silindi"

\* kuyruk.cjs:30-31: after GECICI_DENEME_SINIRI attempts the item is HATALI.  Count and close are
\* two statements, the count is in the row and the decision from a copy, which the owner's edits
\* make old: still no item has more attempts, and one that had the last is closed or being closed
\* by the holder of the lease; unless a turn without the lease counted, or a close was lost.
DenemeSiniri ==
    ~yarim => \A o \in Oge :
        /\ oge[o].deneme <= GECICI_DENEME_SINIRI
        /\ oge[o].deneme = GECICI_DENEME_SINIRI =>
            \/ oge[o].durum \in KapaliOge
            \/ \E p \in Surec : kuyruk.kira = p /\ surec[p].adim = "kapatGecici" /\ surec[p].o = o

\* An item that its owner edits begins its attempts anew: it is not closed on the count of
\* those before.  The code does not keep this (README, section 6); no run lists it.
DuzenlenenKapanmaz ==
    [][\A p \in Surec : LET o == surec[p].o IN
        surec[p].adim = "kapatGecici" /\ oge[o].durum \notin KapaliOge /\ oge'[o].durum = "HATALI"
            => oge[o].deneme >= GECICI_DENEME_SINIRI]_vars

\* kuyruk.cjs:8-10: after a load run the queue rests before the next load starts.
DinlenmedenYukYok ==
    [][\A r \in Kosu : kosu[r].islem = "kosu" /\ kosu[r].awx = "yok" /\ kosu'[r].awx = "calisiyor"
                       => ~yorgun]_vars

\* "oge yetim kalmaz" (kuyruk.cjs:24-26): the running item of a cancelled or failed
\* queue is closed at some time.
OgeYetimKalmaz ==
    \A o \in Oge :
        kuyruk.durum \in {"IPTAL", "HATALI"} /\ oge[o].durum = "CALISIYOR" ~> oge[o].durum \in KapaliOge

\* "hepsi arka arkaya sabaha kadar bitsin": a queue that is not paused comes to an
\* end, whatever process died in the middle.
KuyrukBiter == kuyruk.durum \in AKTIF_KUYRUK ~> kuyruk.durum \notin AKTIF_KUYRUK \/ kuyruk.duraklat
=============================================================================
