---------------------------- MODULE CtaSequence ----------------------------
(***************************************************************************)
(* What the chip promises its host: the CTAs run one after the other, each *)
(* is launched once, and the host learns of the end of each, unless it     *)
(* resets the core, after which it is promised nothing more.               *)
(***************************************************************************)
EXTENDS Naturals

CONSTANT NumCtas  \* CTAs the host runs

VARIABLES
  launched,  \* CTAs launched
  done,      \* CTAs that have completed
  seen,      \* CTAs whose completion the host knows of
  abandoned  \* the host has decided to reset the core

counts == <<launched, done, seen>>
sequence_vars == <<counts, abandoned>>

SequenceInit == launched = 0 /\ done = 0 /\ seen = 0 /\ abandoned = FALSE

LaunchCta ==
  /\ launched = seen /\ launched < NumCtas
  /\ launched' = launched + 1
  /\ UNCHANGED <<done, seen>>

CompleteCta ==
  /\ done < launched
  /\ done' = done + 1
  /\ UNCHANGED <<launched, seen>>

SeeCompletion ==
  /\ seen < done
  /\ seen' = seen + 1
  /\ UNCHANGED <<launched, done>>

Abandon == abandoned' /\ UNCHANGED counts

\* The host may abandon the CTAs in any step, and for good.
SequenceNext ==
  /\ abandoned' \in BOOLEAN /\ (abandoned => abandoned')
  /\ LaunchCta \/ CompleteCta \/ SeeCompletion \/ Abandon

SequenceSafe == SequenceInit /\ [][SequenceNext]_sequence_vars

SequenceSpec ==
  /\ SequenceSafe
  /\ WF_counts(~abandoned /\ LaunchCta)
  /\ WF_counts(~abandoned /\ CompleteCta)
  /\ WF_counts(~abandoned /\ SeeCompletion)
=============================================================================
