------------------------------- MODULE MCOnay -------------------------------
(***************************************************************************)
(* Small instances of Onay: one record k1 or one request y1 without a      *)
(* record, of every kind.                                                  *)
(***************************************************************************)
EXTENDS Onay

CONSTANTS p1, p2, k1, y1
=============================================================================
