----------------------------- MODULE Scoreboard -----------------------------
(***************************************************************************)
(* The scoreboard of the dispatcher: one bit for every register of every   *)
(* thread, set while a load of that register is outstanding.  The loads of *)
(* an e-block are reserved for all its threads in the clock in which the   *)
(* back end accepts it, released one response at a time, and all cleared   *)
(* when the accepted e-block belongs to another CTA.  The scoreboard of    *)
(* the constants (constant_scoreboard) is never reserved, so it stays      *)
(* empty and is left out.                                                  *)
(***************************************************************************)
EXTENDS Naturals

CONSTANTS
  NumThreads,  \* DICE_NUM_MAX_THREADS_PER_CORE
  Reg          \* registers, one bank of the register file each

ASSUME NumThreadsAssumption == NumThreads \in Nat \ {0}

Thread == 0 .. NumThreads - 1

VARIABLE entry  \* scoreboard_data: the reserved registers of each thread

ScoreboardTypeOK == entry \in [Thread -> SUBSET Reg]

ScoreboardInit == entry = [t \in Thread |-> {}]

\* A response carries the value of one register of one thread: rsp holds that pair,
\* or nothing.
WbRegs(rsp, t) == {r \in Reg : <<t, r>> \in rsp}

Collision_TopOfEntry(t, inputs, rsp) == entry[t] \cap inputs = inputs /\ inputs # {}

\* A thread collides if a register it reads is reserved, and in the clock of any
\* response for it.
Collision(t, inputs, rsp) == entry[t] \cap inputs # {} \/ WbRegs(rsp, t) # {}

Reserved(accepted, t) == UNION {b.dests : b \in {c \in accepted : t \in c.mask}}

ScoreboardUpdate_ReleasesThread(accepted, rsp, clear) ==
  entry' = [t \in Thread |->
              IF clear THEN {}
              ELSE (IF WbRegs(rsp, t) # {} THEN {} ELSE entry[t]) \cup Reserved(accepted, t)]

\* Reservation wins over the release of the same bit, clear over both.
ScoreboardUpdate(accepted, rsp, clear) ==
  entry' = [t \in Thread |->
              IF clear THEN {} ELSE (entry[t] \ WbRegs(rsp, t)) \cup Reserved(accepted, t)]
=============================================================================
