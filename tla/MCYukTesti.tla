----------------------------- MODULE MCYukTesti -----------------------------
(***************************************************************************)
(* Small instances of YukTesti.  r1, r2 are requests, d1 a stop job.       *)
(***************************************************************************)
EXTENDS YukTesti

CONSTANTS r1, r2, t1, m1, d1, G

\* One target and one load machine for everyone.
TekHedef == [a \in Deneme |-> t1]
TekMakine == [a \in Deneme |-> m1]
=============================================================================
