----------------------------- MODULE MCBackend -----------------------------
(***************************************************************************)
(* Instance of the back end for TLC: the counters cannot grow without a    *)
(* bound, because every operation is counted against an accepted e-block,  *)
(* so no bound beyond the constants is needed.                             *)
(***************************************************************************)
EXTENDS Backend

=============================================================================
