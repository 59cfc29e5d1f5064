---------------------------- MODULE ThreadIssue ----------------------------
(***************************************************************************)
(* What the dispatcher promises the back end: the state machine of         *)
(* dispatcher_control with the counters of dispatcher_dataflow, over a     *)
(* number of threads still to dispatch.  Which thread is offered and when  *)
(* is left open (avail), as is the cycle in which the threads have run out *)
(* of the thread FIFO (chunk_done).  Backend is built on this module, and  *)
(* Operands implements it with the thread pipeline and the scoreboard.     *)
(***************************************************************************)
EXTENDS Naturals

CONSTANTS
  MaxThreads,     \* DICE_NUM_MAX_THREADS_PER_CORE
  DispatchMod     \* 2**$clog2(MaxThreads + 1), where dispatched_count wraps

ASSUME MaxThreadsAssumption == MaxThreads \in Nat \ {0}
ASSUME DispatchModAssumption == DispatchMod \in Nat \ {0, 1}

VARIABLES
  ps,                  \* dispatcher state
  todo,                \* threads of the e-block not yet dispatched
  dispatched_count,    \* cycles in which a thread was offered: it wraps
  last_chunk_done

issue_vars == <<ps, todo, dispatched_count, last_chunk_done>>

IssueTypeOK ==
  /\ ps \in {"IDLE", "DISPATCHING", "DONE"}
  /\ todo \in 0 .. MaxThreads
  /\ dispatched_count \in 0 .. DispatchMod - 1
  /\ last_chunk_done \in BOOLEAN

IssueInit ==
  /\ ps = "IDLE"
  /\ todo = 0
  /\ dispatched_count = 0
  /\ last_chunk_done = FALSE

Busy == ps = "DISPATCHING"

DispatcherDone == Busy /\ last_chunk_done /\ todo = 0

\* An input that can be high only where possible holds.
When(possible) == IF possible THEN BOOLEAN ELSE {FALSE}

\* The last thread leaves the thread FIFO before it is offered.
ChunkDone(avail) == IF todo = 0 \/ (todo = 1 /\ avail) THEN {TRUE} ELSE BOOLEAN

\* dispatcher_control and dispatcher_dataflow, with one chunk.  chunk_done says that
\* the thread FIFO has run empty: the last threads may still wait for their operands.
DispatcherUpdate_DoneEarly(accepted, avail, pop, chunk_done) ==
  /\ ps' = IF accepted # {} THEN "DISPATCHING"
           ELSE IF Busy /\ last_chunk_done THEN "DONE" ELSE ps
  /\ todo' \in IF accepted # {} THEN {p.threads : p \in accepted}
               ELSE {IF pop THEN todo - 1 ELSE todo}
  /\ dispatched_count' =
       IF accepted # {} THEN 0
       ELSE IF Busy /\ avail THEN (dispatched_count + 1) % DispatchMod
       ELSE dispatched_count
  /\ last_chunk_done' = /\ accepted = {}
                        /\ last_chunk_done \/ (Busy /\ chunk_done /\ dispatched_count # 0)

DispatcherUpdate(accepted, avail, pop, chunk_done) ==
  /\ ps' = IF accepted # {} THEN "DISPATCHING"
           ELSE IF DispatcherDone THEN "DONE" ELSE ps
  /\ todo' \in IF accepted # {} THEN {p.threads : p \in accepted}
               ELSE {IF pop THEN todo - 1 ELSE todo}
  /\ dispatched_count' =
       IF accepted # {} THEN 0
       ELSE IF Busy /\ avail THEN (dispatched_count + 1) % DispatchMod
       ELSE dispatched_count
  /\ last_chunk_done' = /\ accepted = {}
                        /\ last_chunk_done \/ (Busy /\ chunk_done /\ dispatched_count # 0)

\* The promise by itself: an e-block is started only when the dispatcher is not busy.
IssueNext ==
  \E accepted \in {{}} \cup {{[threads |-> n]} : n \in 1 .. MaxThreads},
     avail \in When(Busy /\ todo > 0) :
    \E pop \in When(avail), chunk_done \in ChunkDone(avail) :
      /\ accepted # {} => ~Busy
      /\ DispatcherUpdate(accepted, avail, pop, chunk_done)

IssueSpec == IssueInit /\ [][IssueNext]_issue_vars
=============================================================================
