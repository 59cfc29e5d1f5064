----------------------------- MODULE SimtStack -----------------------------
(***************************************************************************)
(* The SIMT stack: simt_stack, a stack in a RAM whose top is read with one *)
(* clock of latency, and simt_stack_controller, the state machine that     *)
(* carries out one update of the branch handler, or the first push of a    *)
(* CTA, over several clocks.  The operators give the register updates of   *)
(* one clock edge; SimtKernel and Frontend supply the requests.            *)
(***************************************************************************)
EXTENDS Naturals, Sequences, SequencesExt

CONSTANTS
  NumThreads,  \* DICE_NUM_MAX_THREADS_PER_CORE
  NumBlocks,   \* p-graphs of a kernel: program counters in units of one metadata word
  Depth        \* SIMT_STACK_DEPTH

ASSUME NumThreadsAssumption == NumThreads \in Nat \ {0}
ASSUME NumBlocksAssumption == NumBlocks \in Nat \ {0}
ASSUME DepthAssumption == Depth \in Nat \ {0}

Thread == 0 .. NumThreads - 1
EndPC == NumBlocks + 1   \* the all-ones PC, below every entry of a CTA
PC == 1 .. EndPC

\* A thread mask is the set of its threads.
Entry == [pc : PC, reconv : PC, mask : SUBSET Thread]

\* simt_stack_update_t.
Update == [diverges : BOOLEAN, next : PC, taken : SUBSET Thread,
           not_taken_pc : PC, reconv : PC]

\* Which entries an update writes: modify and push hold at most one and two.
Plan == [pop : BOOLEAN, modify : BOOLEAN, top : Entry, push : Seq(Entry)]

VARIABLES
  state,      \* current_state_q
  stack,      \* the RAM below stack_ptr_q, top last
  top,        \* ram_rd_data, the entry last read
  out_valid,  \* out_valid_q
  update,     \* the update being carried out
  init_q,     \* the CTA being pushed
  plan        \* need_*_q and the entries to write

simt_vars == <<state, stack, top, out_valid, update, init_q, plan>>

NoEntry == [pc |-> EndPC, reconv |-> EndPC, mask |-> {}]
NoUpdate == [diverges |-> FALSE, next |-> EndPC, taken |-> {},
             not_taken_pc |-> EndPC, reconv |-> EndPC]
NoPlan == [pop |-> FALSE, modify |-> FALSE, top |-> NoEntry, push |-> <<>>]

SimtTypeOK ==
  /\ state \in {"Idle", "ReadTop", "ModifyTop", "PushFirst", "PushSecond",
                "PopStack", "InitPush", "FinalRead"}
  /\ stack \in Seq(Entry) /\ Len(stack) <= Depth
  /\ top \in Entry
  /\ out_valid \in BOOLEAN
  /\ update \in Update
  /\ init_q \in [pc : PC, threads : 0 .. NumThreads]
  /\ plan \in Plan /\ Len(plan.push) <= 2

SimtInit ==
  /\ state = "Idle"
  /\ stack = <<>>
  /\ top = NoEntry
  /\ out_valid = FALSE
  /\ update = NoUpdate
  /\ init_q = [pc |-> 1, threads |-> 0]
  /\ plan = NoPlan

-----------------------------------------------------------------------------
(* What the other units see. *)

\* stack_top_valid_o
TopValid == out_valid /\ stack # <<>>

\* update_ready_o and init_ready_o.
UpdateReady(init) == state = "Idle" /\ init = {}
InitReady == state = "Idle"

-----------------------------------------------------------------------------
(* The decision table. *)

Taken == top.mask \cap update.taken
NotTaken_Unmasked == Thread \ update.taken
NotTaken == top.mask \ update.taken

AllTaken == top.mask # {} /\ NotTaken = {}
AllNotTaken == top.mask # {} /\ Taken = {}
Diverged == Taken # {} /\ NotTaken # {}

\* compute_new_top_pc where the path is uniform
NextPC == IF update.diverges /\ ~AllTaken THEN update.not_taken_pc ELSE update.next

\* The path that has not reached the reconvergence point stays on its own entry.
PathEntry(pc, mask) == [pc |-> pc, reconv |-> update.reconv, mask |-> mask]

PushesDivergent_TakenOnly ==
  IF update.next # update.reconv THEN <<PathEntry(update.next, Taken)>>
  ELSE <<PathEntry(update.not_taken_pc, NotTaken)>>

\* DIV_PUSH_TWO, or DIV_PUSH_ONE when one of the paths is at the join already.
PushesDivergent ==
  IF update.next # update.reconv /\ update.not_taken_pc # update.reconv
  THEN <<PathEntry(update.next, Taken), PathEntry(update.not_taken_pc, NotTaken)>>
  ELSE IF update.next = update.reconv
  THEN <<PathEntry(update.not_taken_pc, NotTaken)>>
  ELSE <<PathEntry(update.next, Taken)>>

Decide_PopsAtReturn ==
  IF update.diverges /\ Diverged
  THEN [pop |-> FALSE, modify |-> TRUE,
        top |-> [top EXCEPT !.pc = update.reconv], push |-> PushesDivergent]
  ELSE IF NextPC = EndPC THEN [NoPlan EXCEPT !.pop = TRUE]
  ELSE [NoPlan EXCEPT !.modify = TRUE, !.top = [top EXCEPT !.pc = NextPC]]

Decide ==
  IF update.diverges /\ Diverged
  THEN [pop |-> FALSE, modify |-> TRUE,
        top |-> [top EXCEPT !.pc = update.reconv], push |-> PushesDivergent]
  ELSE IF update.diverges /\ top.mask = {} THEN NoPlan
  ELSE IF NextPC = top.reconv THEN [NoPlan EXCEPT !.pop = TRUE]
  ELSE [NoPlan EXCEPT !.modify = TRUE, !.top = [top EXCEPT !.pc = NextPC]]

-----------------------------------------------------------------------------
(* One clock edge; init and update_in hold the request of this cycle, if any. *)

InitFire(init) == state = "Idle" /\ init # {}
UpdateFire(init, update_in) == UpdateReady(init) /\ update_in # {}

NextState_WaitsForTop(init, update_in) ==
  CASE state = "Idle" ->
         IF InitFire(init) THEN "InitPush"
         ELSE IF UpdateFire(init, update_in) THEN "ReadTop" ELSE "Idle"
    [] state = "ReadTop" ->
         IF ~out_valid THEN "ReadTop"
         ELSE IF Decide.pop THEN "PopStack"
         ELSE IF Decide.modify THEN "ModifyTop" ELSE "Idle"
    [] state = "ModifyTop" -> IF plan.push # <<>> THEN "PushFirst" ELSE "FinalRead"
    [] state = "PushFirst" -> IF Len(plan.push) = 2 THEN "PushSecond" ELSE "FinalRead"
    [] state = "FinalRead" -> IF out_valid THEN "Idle" ELSE "FinalRead"
    [] OTHER -> "FinalRead"

NextState(init, update_in) ==
  CASE state = "Idle" ->
         IF InitFire(init) THEN "InitPush"
         ELSE IF UpdateFire(init, update_in) THEN "ReadTop" ELSE "Idle"
    [] state = "ReadTop" ->
         IF ~out_valid THEN "ReadTop"
         ELSE IF Decide.pop THEN "PopStack"
         ELSE IF Decide.modify THEN "ModifyTop" ELSE "Idle"
    [] state = "ModifyTop" -> IF plan.push # <<>> THEN "PushFirst" ELSE "FinalRead"
    [] state = "PushFirst" -> IF Len(plan.push) = 2 THEN "PushSecond" ELSE "FinalRead"
    [] state = "FinalRead" -> IF out_valid \/ stack = <<>> THEN "Idle" ELSE "FinalRead"
    [] OTHER -> "FinalRead"

Full == Len(stack) = Depth

PushOn(e) == IF Full THEN stack ELSE Append(stack, e)

FirstEntry_OneThreadMore ==
  [pc |-> init_q.pc, reconv |-> EndPC, mask |-> 0 .. init_q.threads]

\* The entry a CTA starts with: its first threads, at its first block.
FirstEntry == [pc |-> init_q.pc, reconv |-> EndPC, mask |-> 0 .. init_q.threads - 1]

StackUpdate ==
  stack' = CASE state = "ModifyTop" /\ ~Full /\ stack # <<>> ->
                  [stack EXCEPT ![Len(stack)] = plan.top]
             [] state = "PushFirst" -> PushOn(plan.push[1])
             [] state = "PushSecond" -> PushOn(plan.push[2])
             [] state = "InitPush" -> PushOn(FirstEntry)
             [] state = "PopStack" /\ stack # <<>> -> Front(stack)
             [] OTHER -> stack

\* read_top_i: the RAM answers in the next cycle.
Reading == state \in {"Idle", "ReadTop", "FinalRead"} /\ stack # <<>>

SimtCycle(init, update_in) ==
  /\ state' = NextState(init, update_in)
  /\ StackUpdate
  /\ out_valid' = Reading
  /\ top' = IF Reading THEN Last(stack) ELSE top
  /\ init_q' \in IF InitFire(init) THEN init ELSE {init_q}
  /\ update' \in IF UpdateFire(init, update_in) THEN update_in ELSE {update}
  /\ plan' = IF state = "ReadTop" /\ out_valid THEN Decide ELSE plan

=============================================================================
