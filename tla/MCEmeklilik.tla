----------------------------- MODULE MCEmeklilik -----------------------------
(***************************************************************************)
(* Small instances of Emeklilik: one browser tab and the poller.           *)
(***************************************************************************)
EXTENDS Emeklilik

CONSTANTS s1
=============================================================================
