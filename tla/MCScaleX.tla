------------------------------ MODULE MCScaleX ------------------------------
(***************************************************************************)
(* Small instances of ScaleX.  s1 is a stop, g1 and g2 are restores, f1    *)
(* and f2 a browser and the reconciler.                                    *)
(***************************************************************************)
EXTENDS ScaleX

CONSTANTS s1, g1, g2, t1, t2, f1, f2

\* g1 restores two targets, everyone else works on the second of them.
IkiHedef == [o \in Islem |-> IF o = g1 THEN <<t2, t1>> ELSE <<t1>>]
TekHedef == [o \in Islem |-> <<t1>>]

\* Every application was stopped through the portal.
DurmusInit == Init /\ \A t \in Hedef : ayna[t] = AynaDurdu

DurmusSpec == DurmusInit /\ [][Next]_vars
=============================================================================
