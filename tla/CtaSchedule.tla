---------------------------- MODULE CtaSchedule ----------------------------
(***************************************************************************)
(* The CTA schedule stage: cta_controller (launch and retire),             *)
(* active_cta_table, cta_status_table and cta_scheduler, beside the SIMT   *)
(* stack of the CTA.  One CTA is active at a time.                         *)
(***************************************************************************)
EXTENDS Kernel

CONSTANTS
  NumIds,           \* MAX_EBLOCK
  PrefetchEnabled   \* ~disable_ucd_prefetch_sched_i, the chicken bit

ASSUME NumIdsAssumption == NumIds \in Nat \ {0}
ASSUME PrefetchEnabledAssumption == PrefetchEnabled \in BOOLEAN

Id == 0 .. NumIds - 1

\* cta_status_q; ucd is unresolved_control_divergence.
Status == [ucd : BOOLEAN, predict_pc : PC, is_return : BOOLEAN,
           has_pending_eblock : BOOLEAN, eblock_in_flight : BOOLEAN]

\* schedule_eblock_t.
Schedule == [id : Id, pc : PC, mask : SUBSET Thread, prefetch : BOOLEAN]

VARIABLES
  add_fire,   \* add_cta_fire_q: a CTA was handed over in the last clock
  cta_valid,  \* cta_entry_q.cta_valid
  cta_out,    \* output_buffer_valid_q: the completion is being told
  status,     \* cta_status_q
  live,       \* eblock_live_q
  ptr         \* eblock_ptr_q

schedule_vars == <<add_fire, cta_valid, cta_out, status, live, ptr>>

ScheduleTypeOK ==
  /\ add_fire \in BOOLEAN /\ cta_valid \in BOOLEAN /\ cta_out \in BOOLEAN
  /\ status \in Status
  /\ live \subseteq Id /\ ptr \in Id

NoStatus == [ucd |-> FALSE, predict_pc |-> EndPC, is_return |-> FALSE,
             has_pending_eblock |-> FALSE, eblock_in_flight |-> FALSE]

ScheduleInit ==
  /\ add_fire = FALSE /\ cta_valid = FALSE /\ cta_out = FALSE
  /\ status = NoStatus
  /\ live = {} /\ ptr = 0

-----------------------------------------------------------------------------
(* cta_controller *)

DispatchReady == ~cta_valid /\ InitReady

\* The CTA is added, and the first entry pushed, in the clock after the handshake;
\* the thread count is read then.
InitRequest(threads) == IF add_fire THEN {[pc |-> 1, threads |-> threads]} ELSE {}

PopCta_IgnoresLive == cta_valid /\ status.is_return /\ ~cta_out

PopCta == cta_valid /\ ~status.eblock_in_flight /\ status.is_return /\ ~cta_out

-----------------------------------------------------------------------------
(* cta_scheduler *)

ScheduleValid ==
  /\ cta_valid /\ TopValid
  /\ PrefetchEnabled \/ ~status.ucd
  /\ ptr \notin live

Scheduled ==
  [id |-> ptr, pc |-> IF status.ucd THEN status.predict_pc ELSE top.pc,
   mask |-> top.mask, prefetch |-> status.ucd]

LiveUpdate_KeepsFlushed(scheduled, commit, flush) ==
  live' = (live \ commit) \cup (IF scheduled THEN {ptr} ELSE {})

\* A schedule is the last of the assignments.
LiveUpdate(scheduled, commit, flush) ==
  live' = (live \ (commit \cup flush)) \cup (IF scheduled THEN {ptr} ELSE {})

-----------------------------------------------------------------------------
(* cta_status_table; an edit writes a field where its set is not empty. *)

Edited(old, edit) == IF edit = {} THEN old ELSE CHOOSE x \in edit : TRUE

StatusUpdate(edit, brt_pending) ==
  status' =
    [ucd |-> IF PopCta THEN FALSE ELSE Edited(status.ucd, edit.ucd),
     predict_pc |-> IF PopCta THEN EndPC ELSE Edited(status.predict_pc, edit.predict_pc),
     is_return |-> IF PopCta THEN FALSE ELSE Edited(status.is_return, edit.is_return),
     has_pending_eblock |-> brt_pending,
     eblock_in_flight |-> live # {}]

-----------------------------------------------------------------------------

\* One clock; start: a CTA is offered, scheduled: the e-block is taken by the fetch.
CtaCycle(start, scheduled, commit, flush, edit, brt_pending) ==
  /\ add_fire' = (start /\ DispatchReady /\ ~add_fire)
  /\ cta_valid' = ((cta_valid /\ ~PopCta) \/ add_fire)
  /\ cta_out' = PopCta
  /\ LiveUpdate(scheduled, commit, flush)
  /\ ptr' = IF scheduled THEN (ptr + 1) % NumIds ELSE ptr
  /\ StatusUpdate(edit, brt_pending)

=============================================================================
