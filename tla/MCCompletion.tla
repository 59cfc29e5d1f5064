---------------------------- MODULE MCCompletion ----------------------------
(***************************************************************************)
(* Values for TLC.                                                         *)
(***************************************************************************)
EXTENDS Completion

TwoValues == 0 .. 1
=============================================================================
