----------------------------- MODULE MCHostLink -----------------------------
(***************************************************************************)
(* Instances for TLC.                                                      *)
(***************************************************************************)
EXTENDS HostLink

\* The bursts are longer than the FIFO for their beats, as in the chip.
ShortBursts == [mfetch |-> 2, bsfetch |-> 3, dfetch |-> 1]

Words == 0 .. 3
=============================================================================
