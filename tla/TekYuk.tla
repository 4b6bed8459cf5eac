------------------------------- MODULE TekYuk -------------------------------
(***************************************************************************)
(* What the lock table promises: a run owns all the resources it needs     *)
(* from its start to its end, and no resource is owned twice.              *)
(***************************************************************************)
CONSTANTS Kosucu, Kaynak   \* Kaynak[a]: the resources of run a

VARIABLE calisan           \* the runs under way

Init == calisan = {}

Basla(a) ==
    /\ a \notin calisan
    /\ \A b \in calisan : Kaynak[a] \cap Kaynak[b] = {}
    /\ calisan' = calisan \cup {a}

Biter(a) ==
    /\ a \in calisan
    /\ calisan' = calisan \ {a}

Next == \E a \in Kosucu : Basla(a) \/ Biter(a)

Spec == Init /\ [][Next]_calisan
=============================================================================
