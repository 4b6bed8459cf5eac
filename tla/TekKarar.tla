------------------------------ MODULE TekKarar ------------------------------
(***************************************************************************)
(* What the approval tickets promise: an open ticket is either owned by    *)
(* the one who will act on it or closed without effect; its owner acts at  *)
(* most once and then closes it; a closed ticket stays closed and without  *)
(* any further effect.                                                     *)
(***************************************************************************)
EXTENDS Naturals

CONSTANT Talep

VARIABLES
    durum,   \* durum[b]: "yok", "acik", "sahipli" or "kapandi"
    etki     \* etki[b]: effects outside the Portal caused for b

Init == durum = [b \in Talep |-> "yok"] /\ etki = [b \in Talep |-> 0]

Gecer(b, eski, yeni) == durum[b] = eski /\ durum' = [durum EXCEPT ![b] = yeni]

Ac(b)        == Gecer(b, "yok", "acik") /\ UNCHANGED etki
Sahiplen(b)  == Gecer(b, "acik", "sahipli") /\ UNCHANGED etki
Vazgec(b)    == Gecer(b, "acik", "kapandi") /\ UNCHANGED etki
Sonuclan(b)  == Gecer(b, "sahipli", "kapandi") /\ UNCHANGED etki

EtkiYap(b) ==
    /\ durum[b] = "sahipli" /\ etki[b] = 0
    /\ etki' = [etki EXCEPT ![b] = 1]
    /\ UNCHANGED durum

Next == \E b \in Talep : Ac(b) \/ Sahiplen(b) \/ Vazgec(b) \/ Sonuclan(b) \/ EtkiYap(b)

Spec == Init /\ [][Next]_<<durum, etki>>
=============================================================================
