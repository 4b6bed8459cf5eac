---------------------------- MODULE MCYukKuyruk ----------------------------
(***************************************************************************)
(* Small instances of YukKuyruk: processes p1, p2, items o1, o2.           *)
(***************************************************************************)
EXTENDS YukKuyruk, TLC

CONSTANTS p1, p2, o1, o2

\* Processes are alike, and so are items: safety only.
Simetri == Permutations(Surec) \cup Permutations(Oge)
=============================================================================
