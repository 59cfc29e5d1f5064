--------------------------- MODULE BranchHandler ---------------------------
(***************************************************************************)
(* branch_handler: a table of two entries, one for the e-block whose       *)
(* metadata is being fetched or waits to be fired and one that remembers   *)
(* the branch before it.  A prefetched entry first resolves that branch    *)
(* (phase 1) and checks that its own PC is the one on the stack; then the  *)
(* stack update or the status write of the entry itself follows (phase 2). *)
(***************************************************************************)
EXTENDS CtaSchedule

CONSTANT PredReg  \* branch_pred_reg of the block at each program counter

ASSUME PredRegAssumption == PredReg \in [1 .. NumBlocks -> 0 .. 1]

EntryStatus == {"Empty", "Stored", "WaitExec", "PrevSubmit", "PrevWait", "PcCheck",
                "CurrSubmit", "CurrWait", "StatusWrite", "Done"}

\* A table entry; metadata is named by the program counter it was fetched from.
TableEntry == [status : EntryStatus, meta : PC, pc : PC, prefetch : BOOLEAN]

VARIABLES
  code,      \* the kernel in memory
  table,     \* meta_table_q, entry_pc_q, entry_is_prefetch_q, entry_status_q
  rd,        \* meta_rd_ptr_q
  wr,        \* meta_wr_ptr_q
  meta_seen, \* the register of the edge detector
  sched,     \* schedule_data_q of fdr_top
  preds      \* pred_regs_i: the threads whose bit is set, for each predicate register

branch_vars == <<code, table, rd, wr, meta_seen, sched, preds>>

BranchTypeOK ==
  /\ code \in [1 .. NumBlocks -> Block]
  /\ table \in [0 .. 1 -> TableEntry]
  /\ rd \in 0 .. 1 /\ wr \in 0 .. 1
  /\ meta_seen \in BOOLEAN
  /\ sched \in Schedule
  /\ preds \in [0 .. 1 -> SUBSET Thread]

BranchInit ==
  /\ table = [i \in 0 .. 1 |->
                [status |-> "Empty", meta |-> 1, pc |-> 1, prefetch |-> FALSE]]
  /\ rd = 0 /\ wr = 0
  /\ meta_seen = FALSE
  /\ sched = [id |-> 0, pc |-> 1, mask |-> {}, prefetch |-> FALSE]
  /\ preds = [r \in 0 .. 1 |-> {}]

-----------------------------------------------------------------------------

Current == table[rd]
Previous == table[1 - rd]

\* branch_ena and not branch_uni
Diverges(e) == code[e.meta].kind = "branch"

\* branch_taken_mask
TakenBy(e) == preds[PredReg[e.meta]] \cap sched.mask

\* The update on the stack port, if any: of the previous branch or of the entry itself.
StackRequest ==
  CASE Current.status = "PrevSubmit" ->
         {StackUpdateFor(code[Previous.meta], Previous.pc, sched.mask, TakenBy(Previous))}
    [] Current.status = "CurrSubmit" ->
         {StackUpdateFor(code[Current.meta], Current.pc, sched.mask, {})}
    [] OTHER -> {}

PredictMiss == Current.status = "PcCheck" /\ Current.pc # top.pc

\* branch_predict_info_o
StatusEdit ==
  [ucd |-> IF Current.status = "PcCheck" THEN {FALSE}
           ELSE IF Current.status = "StatusWrite" /\ Diverges(Current) THEN {TRUE} ELSE {},
   predict_pc |-> IF Current.status = "StatusWrite" /\ Diverges(Current)
                  THEN {code[Current.meta].target} ELSE {},
   is_return |-> IF Current.status = "StatusWrite" /\ code[Current.meta].kind = "return"
                 THEN {TRUE} ELSE {}]

\* real_active_thread_mask_o: a prefetched branch is masked by its own predicate.
RealActiveMask ==
  IF Current.prefetch /\ ~status.has_pending_eblock /\ Diverges(Current)
  THEN TakenBy(Current) ELSE sched.mask

BhDone == Current.status = "Done"

-----------------------------------------------------------------------------

\* Phase 2 of an entry: a stack update unless the branch may diverge.
Resolve(e) == IF Diverges(e) THEN "StatusWrite" ELSE "CurrSubmit"

BranchExecuted_Assumed == TRUE

\* A prefetched entry waits until the branch before it has committed.
BranchExecuted == ~status.has_pending_eblock

\* update_ready_i
StackReady == UpdateReady(InitRequest(1))

NextEntryStatus(fire) ==
  CASE Current.status = "Stored" ->
         IF Current.prefetch THEN "WaitExec" ELSE Resolve(Current)
    [] Current.status = "WaitExec" ->
         IF BranchExecuted THEN "PrevSubmit" ELSE "WaitExec"
    [] Current.status = "PrevSubmit" -> IF StackReady THEN "PrevWait" ELSE "PrevSubmit"
    [] Current.status = "PrevWait" -> IF StackReady THEN "PcCheck" ELSE "PrevWait"
    [] Current.status = "PcCheck" -> IF PredictMiss THEN "Empty" ELSE Resolve(Current)
    [] Current.status = "CurrSubmit" -> IF StackReady THEN "CurrWait" ELSE "CurrSubmit"
    [] Current.status = "CurrWait" -> IF StackReady THEN "StatusWrite" ELSE "CurrWait"
    [] Current.status = "StatusWrite" -> "Done"
    [] Current.status = "Done" -> IF fire THEN "Empty" ELSE "Done"
    [] OTHER -> "Empty"

Leaves_KeepsFlushed(fire) == BhDone /\ fire

\* The entry leaves: it is fired or flushed.
Leaves(fire) == PredictMiss \/ (BhDone /\ fire)

\* One clock; arrives: the metadata (of these blocks, one at most) that became valid.
\* The write of new metadata comes after the step of the current entry.
BranchCycle(arrives, fire, scheduled, meta_valid) ==
  /\ LET stepped == [table EXCEPT ![rd].status = NextEntryStatus(fire)]
     IN  table' = IF arrives = {} THEN stepped
                  ELSE [stepped EXCEPT ![wr] =
                          [status |-> "Stored", meta |-> Edited(1, arrives),
                           pc |-> sched.pc, prefetch |-> sched.prefetch]]
  /\ rd' = IF Leaves(fire) THEN 1 - rd ELSE rd
  /\ wr' = IF arrives = {} THEN wr ELSE 1 - wr
  /\ meta_seen' = meta_valid
  /\ sched' = IF scheduled THEN Scheduled ELSE sched
  /\ UNCHANGED code

=============================================================================
