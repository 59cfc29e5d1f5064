----------------------------- MODULE Dispatcher -----------------------------
(***************************************************************************)
(* The dispatcher of the back end at clock level.  The active threads of   *)
(* an e-block are found one a clock by a priority encoder and go through   *)
(* three FIFOs (the lane's, the reroute FIFO and the thread FIFO), an      *)
(* output register, the register in which a thread waits for its operands, *)
(* and the FIFO of ready threads.  dispatcher_control watches only some of *)
(* these stages to find out that the e-block is done.                      *)
(* Every operator is the update of a few registers in one clock;           *)
(* DispatcherCycle is the clock of the whole dispatcher.                   *)
(***************************************************************************)
EXTENDS Scoreboard, Sequences, SequencesExt

CONSTANTS
  LaneDepth,      \* FIFO of next_active_thread_logic (2)
  RerouteDepth,   \* FIFO of thread_lane_reroute (2)
  ThreadDepth,    \* FIFO of thread_filter (4)
  ReadyDepth,     \* FIFO of ready threads (4)
  DispatchMod     \* 2**$clog2(NumThreads + 1), where dispatched_count wraps

ASSUME DepthAssumption ==
  {LaneDepth, RerouteDepth, ThreadDepth, ReadyDepth} \subseteq Nat \ {0} /\ LaneDepth > 1
ASSUME DispatchModAssumption == DispatchMod \in Nat \ {0, 1}

VARIABLES
  block,               \* e-block being dispatched (latched_active_mask, fdr_active_li)
  ps, dispatched_count, last_chunk_done, restart,
  start_pos,           \* thread from which the priority encoder searches
  calculate_done_reg,  \* it has found the last active thread
  lane_fifo, reroute_fifo, thread_fifo,
  thread_out,          \* output register of the thread FIFO, empty unless valid
  thread_pop_pending,  \* a thread has left the thread FIFO and not arrived
  pending_check,       \* thread waiting for its operands, empty unless valid
  ready_fifo,
  dispatched           \* threads of block that have been dispatched

disp_vars == <<entry, block, ps, dispatched_count, last_chunk_done, restart, start_pos,
               calculate_done_reg, lane_fifo, reroute_fifo, thread_fifo, thread_out,
               thread_pop_pending, pending_check, ready_fifo, dispatched>>

IsFifo(fifo, depth) == fifo \in Seq(Thread) /\ Len(fifo) <= depth

NoBlock == [mask |-> {}, inputs |-> {}, dests |-> {}, outs |-> {}, cta |-> 0]

DispTypeOK ==
  /\ ScoreboardTypeOK
  /\ block \in [mask : SUBSET Thread, inputs : SUBSET Reg, dests : SUBSET Reg,
                outs : SUBSET Reg, cta : Nat]
  /\ ps \in {"IDLE", "DISPATCHING", "DONE"}
  /\ dispatched_count \in 0 .. DispatchMod - 1
  /\ {last_chunk_done, restart, calculate_done_reg, thread_pop_pending} \subseteq BOOLEAN
  /\ start_pos \in Thread
  /\ IsFifo(lane_fifo, LaneDepth)
  /\ IsFifo(reroute_fifo, RerouteDepth)
  /\ IsFifo(thread_fifo, ThreadDepth)
  /\ IsFifo(ready_fifo, ReadyDepth)
  /\ IsFifo(thread_out, 1)
  /\ IsFifo(pending_check, 1)
  /\ dispatched \subseteq block.mask

DispInit ==
  /\ ScoreboardInit
  /\ block = NoBlock
  /\ ps = "IDLE"
  /\ dispatched_count = 0
  /\ last_chunk_done = FALSE
  /\ restart = FALSE
  /\ start_pos = 0
  /\ calculate_done_reg = FALSE
  /\ lane_fifo = <<>> /\ reroute_fifo = <<>> /\ thread_fifo = <<>>
  /\ thread_out = <<>> /\ pending_check = <<>> /\ ready_fifo = <<>>
  /\ thread_pop_pending = FALSE
  /\ dispatched = {}

-----------------------------------------------------------------------------
(* Combinational signals. *)

Busy == ps = "DISPATCHING"

\* The next active thread, by the priority encoder.
Remaining == {t \in block.mask : t >= start_pos}

LanePush == ~calculate_done_reg /\ Remaining # {} /\ Len(lane_fifo) < LaneDepth

CalculateDone ==
  calculate_done_reg \/ block.mask = {} \/ (LanePush /\ Min(Remaining) = Max(block.mask))

ReroutePush_IgnoresFull == lane_fifo # <<>>

ReroutePush == lane_fifo # <<>> /\ Len(reroute_fifo) < RerouteDepth

ThreadPush == reroute_fifo # <<>> /\ Len(thread_fifo) < ThreadDepth

ChunkDone == CalculateDone /\ lane_fifo = <<>> /\ thread_fifo = <<>>

ReadyNotFull == Len(ready_fifo) < ReadyDepth

ThreadPop ==
  thread_fifo # <<>> /\ pending_check = <<>> /\ ~thread_pop_pending /\ ReadyNotFull

ReadyPush(rsp) ==
  /\ pending_check # <<>> /\ ReadyNotFull
  /\ ~Collision(Head(pending_check), block.inputs, rsp)

PipelineIdle(rsp) ==
  /\ ~ThreadPop /\ thread_fifo = <<>> /\ thread_out = <<>> /\ pending_check = <<>>
  /\ ~thread_pop_pending /\ ~ReadyPush(rsp) /\ ready_fifo = <<>>

DispatchValid == ready_fifo # <<>>

LastChunkFin_StaleDone == Busy /\ ChunkDone

LastChunkFin == Busy /\ ChunkDone /\ dispatched_count # 0

-----------------------------------------------------------------------------
(* Register updates.  accepted holds the e-block accepted in this clock. *)

\* A FIFO after this clock, popped before it takes the pushed thread at its end.
Moved(fifo, pushed, popped) == (IF popped THEN Tail(fifo) ELSE fifo) \o pushed

Item(seq, valid) == IF valid THEN <<Head(seq)>> ELSE <<>>

ControlUpdate(accepted, rsp) ==
  /\ ps' = IF accepted # {} THEN "DISPATCHING"
           ELSE IF Busy /\ last_chunk_done /\ PipelineIdle(rsp) THEN "DONE" ELSE ps
  /\ block' \in IF accepted = {} THEN {block} ELSE accepted
  /\ dispatched_count' =
       IF accepted # {} THEN 0
       ELSE IF Busy /\ DispatchValid THEN (dispatched_count + 1) % DispatchMod
       ELSE dispatched_count
  /\ last_chunk_done' = (accepted = {} /\ (last_chunk_done \/ LastChunkFin))
  /\ restart' = (accepted # {})

LaneUpdate_KeepsPosition ==
  /\ start_pos' = IF LanePush /\ ~CalculateDone THEN Min(Remaining) + 1 ELSE start_pos
  /\ calculate_done_reg' = (~restart /\ CalculateDone)
  /\ lane_fifo' = Moved(lane_fifo, IF LanePush THEN <<Min(Remaining)>> ELSE <<>>, ReroutePush)

\* next_active_thread_logic.
LaneUpdate ==
  /\ start_pos' = IF restart THEN 0
                  ELSE IF LanePush /\ ~CalculateDone THEN Min(Remaining) + 1
                  ELSE start_pos
  /\ calculate_done_reg' = (~restart /\ CalculateDone)
  /\ lane_fifo' = Moved(lane_fifo, IF LanePush THEN <<Min(Remaining)>> ELSE <<>>, ReroutePush)

FifoUpdate ==
  /\ reroute_fifo' = Moved(reroute_fifo, Item(lane_fifo, ReroutePush), ThreadPush)
  /\ thread_fifo' = Moved(thread_fifo, Item(reroute_fifo, ThreadPush), ThreadPop)
  /\ thread_out' = Item(thread_fifo, ThreadPop)

PendingUpdate_KeepsWaiting(rsp) ==
  LET arrives == pending_check = <<>> /\ thread_out # <<>>
  IN  /\ pending_check' = IF restart \/ ReadyPush(rsp) THEN <<>>
                          ELSE IF arrives THEN thread_out ELSE pending_check
      /\ thread_pop_pending' = (~restart /\ (ThreadPop \/ thread_pop_pending))

\* The thread FIFO answers a clock after its pop, for one clock: the thread is held
\* in pending_check until its operands are there.
PendingUpdate(rsp) ==
  LET arrives == pending_check = <<>> /\ thread_out # <<>>
  IN  /\ pending_check' = IF restart \/ ReadyPush(rsp) THEN <<>>
                          ELSE IF arrives THEN thread_out ELSE pending_check
      /\ thread_pop_pending' = (~restart /\ ~arrives /\ (ThreadPop \/ thread_pop_pending))

ReadyUpdate(accepted, pop, rsp) ==
  /\ ready_fifo' = Moved(ready_fifo, Item(pending_check, ReadyPush(rsp)), pop)
  /\ dispatched' = IF accepted # {} THEN {}
                   ELSE IF pop THEN dispatched \cup {Head(ready_fifo)} ELSE dispatched

\* scoreboard_clear_li: the accepted e-block belongs to another CTA.
Clears(accepted) == ps # "IDLE" /\ \E b \in accepted : b.cta # block.cta

DispatcherCycle(accepted, pop, rsp) ==
  /\ ControlUpdate(accepted, rsp)
  /\ LaneUpdate
  /\ FifoUpdate
  /\ PendingUpdate(rsp)
  /\ ReadyUpdate(accepted, pop, rsp)
  /\ ScoreboardUpdate(accepted, rsp, Clears(accepted))

-----------------------------------------------------------------------------

\* Threads the priority encoder has still to find: after an accept, until the restart
\* has cleared calculate_done_reg, that is all of them.
ToFind == IF restart THEN block.mask
          ELSE IF calculate_done_reg THEN {} ELSE Remaining

\* Threads on their way, the first to be dispatched first.
OnTheWay ==
  ready_fifo \o pending_check \o thread_out \o thread_fifo \o reroute_fifo \o lane_fifo

\* Every active thread of the e-block is dispatched once, in the order of the thread
\* ids, whatever stalls and wherever the FIFOs run full: it is either dispatched, or
\* in exactly one stage, or still to be found (dispatcher test 1, "Dispatched exactly").
ThreadsConserved ==
  /\ \A i, j \in DOMAIN OnTheWay : i < j => OnTheWay[i] < OnTheWay[j]
  /\ \A s \in ToSet(OnTheWay) :
       (\A t \in dispatched : t < s) /\ (\A t \in ToFind : s < t)
  /\ \A t \in dispatched, s \in ToFind : t < s
  /\ block.mask = dispatched \cup ToSet(OnTheWay) \cup ToFind
=============================================================================
