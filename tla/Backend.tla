------------------------------ MODULE Backend ------------------------------
(***************************************************************************)
(* The issue and retire path of dice_backend: it accepts an e-block from   *)
(* the front end, has the CGRA programmed, lets the dispatcher issue the   *)
(* e-block's threads into the CGRA pipeline, returns one execution token   *)
(* when the pipeline has drained, and leaves loads and stores outstanding  *)
(* in the memory system while the next e-block is accepted.  One step is   *)
(* one clock cycle: every register takes its next value from the values    *)
(* before the edge and from this cycle's inputs.                           *)
(*                                                                         *)
(* Abstracted: thread ids (a count of threads), the thread selection and   *)
(* scoreboard of the dispatcher (avail says whether a thread is ready),    *)
(* the memory port credits (credit), the CGRA latency (exit says whether a *)
(* thread leaves the pipeline), the serializer's length (prog_done), and   *)
(* the memory system, which holds counts of outstanding operations.        *)
(***************************************************************************)
EXTENDS BlockCommit, ThreadIssue, FiniteSets

CONSTANTS
  MaxPorts,       \* NUM_MEM_PORTS: loads and stores of one thread share them
  MaxReadRetire   \* loads that can retire in one cycle: one a bank, one special

ASSUME MaxPortsAssumption == MaxPorts \in Nat
ASSUME MaxReadRetireAssumption == MaxReadRetire \in Nat \ {0}
\* PENDING_MEM_COUNT_WIDTH is $clog2(NUM_CREDITS + 1): 7 bits for a count of up to 65.
ASSUME CountFitsAssumption == MaxThreads * MaxPorts + 1 < CountMod

VARIABLES
  fdr_active,          \* fdr_active_q: the e-block being executed
  fdr_active_valid,
  exec_pop_sent,       \* its execution token has been returned
  exec_dispatch_done,  \* its last thread has been dispatched
  prog_pending,        \* programming of its configuration not yet requested
  handshake,           \* register of the edge detector on prog_handshake
  prog_busy,           \* the serializer is shifting a configuration
  pipe,                \* cgra_pipeline_count_q
  launch,              \* metadata registered with the last launched thread
  loads,               \* per e-block, loads issued and not yet retired
  stores,              \* per e-block, stores issued and not yet retired
  in_use               \* e-block ids accepted and not yet committed

vars == <<brt_vars, issue_vars, fdr_active, fdr_active_valid, exec_pop_sent,
          exec_dispatch_done, prog_pending, handshake, prog_busy, pipe, launch,
          loads, stores, in_use>>

\* What the front end hands over.  An e-block has at least one active thread.
Packet == {p \in [e : EBlock, threads : 1 .. MaxThreads,
                  loads : 0 .. MaxPorts, stores : 0 .. MaxPorts] :
             p.loads + p.stores <= MaxPorts}

NoPacket == [e |-> 0, threads |-> 0, loads |-> 0, stores |-> 0]

TypeOK ==
  /\ BrtTypeOK
  /\ IssueTypeOK
  /\ fdr_active \in Packet \cup {NoPacket}
  /\ launch \in Packet \cup {NoPacket}
  /\ fdr_active_valid \in BOOLEAN
  /\ exec_pop_sent \in BOOLEAN
  /\ exec_dispatch_done \in BOOLEAN
  /\ prog_pending \in BOOLEAN
  /\ handshake \in BOOLEAN
  /\ prog_busy \in BOOLEAN
  /\ pipe \in 0 .. MaxThreads
  /\ loads \in [EBlock -> Nat]
  /\ stores \in [EBlock -> Nat]
  /\ in_use \subseteq EBlock

Init ==
  /\ BrtInit
  /\ IssueInit
  /\ fdr_active = NoPacket
  /\ launch = NoPacket
  /\ fdr_active_valid = FALSE
  /\ exec_pop_sent = FALSE
  /\ exec_dispatch_done = FALSE
  /\ prog_pending = FALSE
  /\ handshake = FALSE
  /\ prog_busy = FALSE
  /\ pipe = 0
  /\ loads = [e \in EBlock |-> 0]
  /\ stores = [e \in EBlock |-> 0]
  /\ in_use = {}

-----------------------------------------------------------------------------
(* Combinational signals of one cycle. *)

FdrReady_IgnoresPipeline(exit) == ~Busy /\ ~prog_busy /\ ~prog_pending /\ ~exit

FdrReady(exit) == ~Busy /\ ~prog_busy /\ ~prog_pending /\ ~exit /\ pipe = 0

ExecPop(exit) ==
  /\ fdr_active_valid /\ ~exec_pop_sent /\ exec_dispatch_done
  /\ ~prog_busy /\ ~prog_pending /\ ~exit /\ pipe = 0

\* prog_handshake_li; the bank has been loaded before the front end offers.
ProgHandshake == prog_pending /\ ~prog_busy

ProgV == ProgHandshake /\ ~handshake

\* disp_pop with a valid thread: dispatch_issue_req_lo and a credit per port.
DispPop(avail, credit) == avail /\ ~prog_busy /\ credit

-----------------------------------------------------------------------------
(* Register updates. *)

FdrUpdate_KeepsSent(accepted, exec_pop) ==
  /\ fdr_active' \in IF accepted = {} THEN {fdr_active} ELSE accepted
  /\ fdr_active_valid' = (fdr_active_valid \/ accepted # {})
  /\ exec_pop_sent' = (exec_pop \/ exec_pop_sent)
  /\ exec_dispatch_done' = /\ accepted = {} /\ ~exec_pop
                           /\ DispatcherDone \/ exec_dispatch_done

FdrUpdate(accepted, exec_pop) ==
  /\ fdr_active' \in IF accepted = {} THEN {fdr_active} ELSE accepted
  /\ fdr_active_valid' = (fdr_active_valid \/ accepted # {})
  /\ exec_pop_sent' = (accepted = {} /\ (exec_pop \/ exec_pop_sent))
  /\ exec_dispatch_done' = /\ accepted = {} /\ ~exec_pop
                           /\ DispatcherDone \/ exec_dispatch_done

ProgUpdate(accepted, prog_done) ==
  /\ prog_pending' = ((accepted # {} \/ prog_pending) /\ ~ProgV)
  /\ handshake' = ProgHandshake
  /\ prog_busy' = IF prog_busy THEN ~prog_done ELSE ProgV

PipelineUpdate(avail, credit, exit) ==
  /\ pipe' = pipe + (IF DispPop(avail, credit) THEN 1 ELSE 0) - (IF exit THEN 1 ELSE 0)
  /\ launch' = IF DispPop(avail, credit) THEN [fdr_active EXCEPT !.e = dispatch.e]
               ELSE launch

\* A thread that leaves the CGRA issues its memory operations, tagged with the
\* metadata registered at launch; retired ones leave.
MemoryUpdate(exit, read_ret, store_ret) ==
  /\ loads' = [e \in EBlock |->
       loads[e] - read_ret[e] + (IF exit /\ launch.e = e THEN launch.loads ELSE 0)]
  /\ stores' = [e \in EBlock |->
       stores[e] - (IF e \in store_ret THEN 1 ELSE 0)
                 + (IF exit /\ launch.e = e THEN launch.stores ELSE 0)]

InUseUpdate_FreesAtToken(accepted) ==
  in_use' = {e \in in_use : ~(exec_pop_sent /\ e = fdr_active.e)} \cup {p.e : p \in accepted}

\* The scheduler's view: an id is free again when its e-block commits.
InUseUpdate(accepted) ==
  in_use' = {e \in in_use : ~Committing(e)} \cup {p.e : p \in accepted}

-----------------------------------------------------------------------------
(* One clock cycle. *)

\* Loads that can be written back this cycle, over all e-blocks.
ReadRetire == {r \in [EBlock -> 0 .. MaxReadRetire] : \A e \in EBlock : r[e] <= loads[e]}

\* mem_req_fifo reports one store retire a cycle.
StoreRetire == {{}} \cup {{e} : e \in {f \in EBlock : stores[f] > 0}}

\* The front end offers nothing or one e-block whose id is not in use.
Offer == {{}} \cup {{p} : p \in {q \in Packet : q.e \notin in_use}}

Cycle(offer, avail, credit, exit, prog_done, chunk_done, read_ret, store_ret) ==
  LET accepted == IF FdrReady(exit) THEN offer ELSE {}
      exec_ret == IF ExecPop(exit) THEN {fdr_active.e} ELSE {}
  IN  /\ FdrUpdate(accepted, ExecPop(exit))
      /\ ProgUpdate(accepted, prog_done)
      /\ DispatcherUpdate(accepted, avail, DispPop(avail, credit), chunk_done)
      /\ PipelineUpdate(avail, credit, exit)
      /\ MemoryUpdate(exit, read_ret, store_ret)
      /\ InUseUpdate(accepted)
      /\ BrtCycle(accepted, read_ret, store_ret, exec_ret)

Next ==
  \E offer \in Offer, avail \in When(Busy /\ todo > 0), exit \in When(pipe > 0),
     prog_done \in When(prog_busy), read_ret \in ReadRetire, store_ret \in StoreRetire :
    \E credit \in When(avail), chunk_done \in ChunkDone(avail) :
      Cycle(offer, avail, credit, exit, prog_done, chunk_done, read_ret, store_ret)

Spec == Init /\ [][Next]_vars

-----------------------------------------------------------------------------
(* What the back end owes an e-block. *)

\* Threads of e still to leave the pipeline.
Unfinished(e) == IF fdr_active.e = e THEN todo + pipe ELSE 0

\* e has been accepted and its execution token is still owed.
TokenOwed(e) == fdr_active_valid /\ fdr_active.e = e /\ ~exec_pop_sent

\* An e-block is committed only when every thread of it has left the CGRA and
\* every load and store those threads issued has retired: the front end fetches
\* the next e-block of the CTA and reuses the id on that event.
CommitOnlyWhenRetired ==
  \A e \in EBlock : ReadyToCommit(e) =>
    loads[e] = 0 /\ stores[e] = 0 /\ Unfinished(e) = 0 /\ ~TokenOwed(e)

\* A retiring load or store finds its e-block in the table with room to be taken
\* off, although the entry appears a clock after the e-block is accepted: nothing
\* is dropped and no counter wraps (the underflow checks of block_commit_table).
RetiresLand ==
  \A e \in EBlock :
    /\ loads[e] > 0 => valid[e] /\ pending_reads[e] >= loads[e]
    /\ stores[e] > 0 => valid[e] /\ pending_stores[e] >= stores[e]

\* An insert finds its entry empty (assert_no_double_insert).
NoDoubleInsert == insert_valid => ~valid[dispatch.e]

\* A thread that leaves the CGRA issues the requests of the e-block it belongs to:
\* the metadata register of the register file and the e-block latch of dice_brt
\* have not moved on to the next e-block while a thread is in flight.
RequestsTaggedRight == pipe > 0 => launch = fdr_active

\* When the next e-block replaces the active one, the old one's execution token has
\* been returned before or is returned in that very cycle: fdr_active_q is
\* overwritten, so a token missed here could never be returned.
TokenNotLost ==
  [][insert_valid' /\ fdr_active_valid =>
       exec_pop_sent \/ ExecPop(FALSE)]_vars

-----------------------------------------------------------------------------
(* The accounting behind the properties above: their inductive invariant. *)

\* The phases of the active e-block: dispatching, drained, token returned.
PhaseInv ==
  /\ dispatch.e = fdr_active.e
  /\ fdr_active_valid => fdr_active \in Packet
  /\ ~fdr_active_valid =>
       ps = "IDLE" /\ todo = 0 /\ pipe = 0 /\ ~insert_valid /\ ~exec_dispatch_done
  /\ fdr_active_valid => ps # "IDLE"
  /\ todo > 0 => Busy
  /\ Busy => ~exec_pop_sent /\ ~exec_dispatch_done
  /\ exec_dispatch_done => ~exec_pop_sent
  /\ exec_pop_sent => pipe = 0
  /\ fdr_active_valid /\ ~exec_pop_sent => Busy \/ exec_dispatch_done
  /\ todo + pipe <= fdr_active.threads
  /\ pipe > 0 => launch = fdr_active

\* In the clock after the accept the counts wait in the latch, and nothing of the
\* e-block can have happened yet.
LatchInv ==
  insert_valid =>
    /\ Busy /\ pipe = 0 /\ todo = fdr_active.threads
    /\ dispatch.reads = fdr_active.threads * fdr_active.loads
    /\ dispatch.stores = fdr_active.threads * fdr_active.stores + 1
    /\ ~valid[dispatch.e]

\* What an entry counts is exactly what its e-block still owes.
CountInv ==
  \A e \in EBlock : valid[e] =>
    /\ pending_reads[e] = loads[e] + Unfinished(e) * fdr_active.loads
    /\ pending_stores[e] = stores[e] + Unfinished(e) * fdr_active.stores
                           + (IF TokenOwed(e) THEN 1 ELSE 0)

\* An e-block the table does not know of owes nothing.
FreeInv ==
  \A e \in EBlock : ~valid[e] =>
    /\ loads[e] = 0 /\ stores[e] = 0
    /\ ~InsertAt(e) => Unfinished(e) = 0 /\ ~TokenOwed(e)

\* An id is busy for the scheduler exactly as long as the table or the latch in
\* front of it holds the e-block.
IdsAgree == in_use = {e \in EBlock : valid[e] \/ InsertAt(e)}

\* An e-block's counters hold what it owes, at every moment of its life, so that they
\* reach zero when, and only when, it owes nothing.
Accounting == PhaseInv /\ LatchInv /\ CountInv /\ FreeInv /\ IdsAgree

-----------------------------------------------------------------------------
(* Progress, if the units around the issue path keep answering. *)

Step(ok(_, _, _, _, _, _, _, _)) ==
  \E offer \in Offer, avail \in When(Busy /\ todo > 0), exit \in When(pipe > 0),
     prog_done \in When(prog_busy), read_ret \in ReadRetire, store_ret \in StoreRetire :
   \E credit \in When(avail), chunk_done \in ChunkDone(avail) :
    /\ ok(offer, avail, credit, exit, prog_done, chunk_done, read_ret, store_ret)
    /\ Cycle(offer, avail, credit, exit, prog_done, chunk_done, read_ret, store_ret)

\* The clock runs; as long as the active e-block waits for operands and credits, for
\* the CGRA or for the serializer, one of them answers; as long as an e-block has
\* operations outstanding, memory answers one of them.
Clock == Step(LAMBDA o, a, c, x, d, k, r, s : TRUE)
Works == Step(LAMBDA o, a, c, x, d, k, r, s : DispPop(a, c) \/ x \/ d)
Returns(e) == Step(LAMBDA o, a, c, x, d, k, r, s : r[e] > 0 \/ e \in s)

Fairness == WF_vars(Clock) /\ WF_vars(Works) /\ \A e \in EBlock : WF_vars(Returns(e))

LiveSpec == Spec /\ Fairness

\* Every accepted e-block commits: the commit search starves no entry, and no
\* wait of the issue path on the serializer, the pipeline and the table is cyclic.
EveryEblockCommits == \A e \in EBlock : e \in in_use ~> e \notin in_use

\* The back end always becomes able to accept again.
ReadyAgain == []<>FdrReady(FALSE)

\* Both: the back end never comes to rest with work in it, or closed to new work.
BackendGoesOn == EveryEblockCommits /\ ReadyAgain
=============================================================================
