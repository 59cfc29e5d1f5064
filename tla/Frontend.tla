------------------------------ MODULE Frontend ------------------------------
(***************************************************************************)
(* The front end: the CTA schedule stage with the SIMT stack, and fetch,   *)
(* decode and read with the branch handler, around a back end that accepts *)
(* an e-block, programs the CGRA with it, runs it, and commits it any time *)
(* later.  A step is one clock; when CTAs, the link, the CGRA and memory   *)
(* answer is chosen anew in every clock.  tpc records where each thread    *)
(* really is, so that the blocks that are run can be compared with         *)
(* KernelRun.                                                              *)
(***************************************************************************)
EXTENDS Fetch

CONSTANT Kernels  \* the kernels a CTA may run

ASSUME KernelsAssumption == Kernels \subseteq [1 .. NumBlocks -> Block]

VARIABLES
  phase,     \* of the e-block accepted last, until it has left the CGRA
  ex,        \* that e-block: fdr_active_q
  inserting, \* bct_insert_valid_r with its e-block id, at most one
  brt,       \* e-blocks in the block retire table
  launched,  \* threads of the running CTA, none if no CTA runs
  tpc        \* each thread's own program counter

backend_vars == <<phase, ex, inserting, brt>>

vars == <<simt_vars, schedule_vars, branch_vars, fetch_vars, backend_vars, launched, tpc>>

Executing == [id : Id, pc : PC, buffer : 0 .. 1, mask : SUBSET Thread, taken : SUBSET Thread]

TypeOK ==
  /\ SimtTypeOK /\ ScheduleTypeOK /\ BranchTypeOK /\ FetchTypeOK
  /\ phase \in {"idle", "pending", "programming", "running"}
  /\ ex \in Executing
  /\ inserting \subseteq Id /\ brt \subseteq Id
  /\ launched \subseteq Thread /\ tpc \in [Thread -> PC]

Init ==
  /\ code \in Kernels
  /\ SimtInit /\ ScheduleInit /\ BranchInit /\ FetchInit
  /\ phase = "idle"
  /\ ex = [id |-> 0, pc |-> 1, buffer |-> 0, mask |-> {}, taken |-> {}]
  /\ inserting = {} /\ brt = {}
  /\ launched = {}
  /\ tpc = [t \in Thread |-> EndPC]

-----------------------------------------------------------------------------
(* The handshake between the stages. *)

ScheduleFire == ScheduleValid /\ ScheduleReady

FdrValid == DoneStreaming /\ MetaValid /\ BhDone

\* Nothing is dispatched, programmed or in the CGRA pipeline.
FdrReady == phase = "idle"

Fire == FdrValid /\ FdrReady

Fired == [id |-> sched.id, pc |-> sched.pc, buffer |-> CmNum, mask |-> RealActiveMask]

\* prog_active_o: shifting, or taking the request of an accepted e-block.
ProgActive == phase \in {"pending", "programming"}

Arrives == IF MetaValid /\ ~meta_seen THEN {meta} ELSE {}

-----------------------------------------------------------------------------
(* The back end.  taken: the threads for which the accepted block sets its   *)
(* predicate, chosen with the accept and written when the block has run.     *)

Phases(done) ==
  CASE phase = "idle" -> IF Fire THEN "pending" ELSE "idle"
    [] phase = "pending" -> "programming"
    [] phase = "programming" -> IF done THEN "running" ELSE "programming"
    [] phase = "running" -> IF done THEN "idle" ELSE "running"

BackendCycle(done, commit, taken) ==
  /\ phase' = Phases(done)
  /\ ex' = IF Fire THEN [id |-> Fired.id, pc |-> Fired.pc, buffer |-> Fired.buffer,
                         mask |-> Fired.mask, taken |-> taken] ELSE ex
  /\ preds' = IF phase = "running" /\ done
              THEN [preds EXCEPT ![PredReg[ex.pc]] = (@ \ ex.mask) \cup ex.taken] ELSE preds
  /\ inserting' = IF Fire THEN {Fired.id} ELSE {}
  /\ brt' = (brt \ commit) \cup inserting

\* An e-block commits when it has left the CGRA and its memory operations are done.
Committable == {id \in brt : ~(id = ex.id /\ phase # "idle")}

-----------------------------------------------------------------------------
(* Where the threads really are. *)

ThreadsUpdate(threads, taken) ==
  IF add_fire
  THEN /\ launched' = 0 .. threads - 1
       /\ tpc' = [t \in Thread |-> IF t < threads THEN 1 ELSE EndPC]
  ELSE /\ launched' = IF PopCta THEN {} ELSE launched
       /\ tpc' = IF Fire
                 THEN [t \in Thread |-> IF t \in Fired.mask
                         THEN Successor(code[Fired.pc], Fired.pc, t \in taken) ELSE tpc[t]]
                 ELSE tpc

\* The threads that can take the branch of the block being fired.
MayTake == IF Fire /\ code[Fired.pc].kind = "branch" THEN Fired.mask ELSE {}

Cycle(start, threads, ar_ready, r_valid, done, commit, taken) ==
  /\ SimtCycle(InitRequest(threads), StackRequest)
  /\ CtaCycle(start, ScheduleFire, commit, IF PredictMiss THEN {sched.id} ELSE {},
              StatusEdit, brt # {})
  /\ BranchCycle(Arrives, Fire, ScheduleFire, MetaValid)
  /\ FetchCycle(ScheduleFire, Fire, ProgActive, ex.buffer, ar_ready, r_valid)
  /\ BackendCycle(done, commit, taken)
  /\ ThreadsUpdate(threads, taken)

\* One commit a clock at most.
Commits == {{}} \cup {{id} : id \in Committable}

Next ==
  \E start, ar_ready, r_valid, done \in BOOLEAN, commit \in Commits :
    \E threads \in IF add_fire THEN 1 .. NumThreads ELSE {1}, taken \in SUBSET MayTake :
      Cycle(start, threads, ar_ready, r_valid, done, commit, taken)

Spec == Init /\ [][Next]_vars

-----------------------------------------------------------------------------
(* Fairness: the link takes requests and delivers beats, the CGRA finishes,  *)
(* and e-blocks commit; each of them may make the others wait any time.      *)

Answers(ar_ready, r_valid, done, commit) ==
  \E start \in BOOLEAN, threads \in IF add_fire THEN 1 .. NumThreads ELSE {1},
     taken \in SUBSET MayTake :
    Cycle(start, threads, ar_ready, r_valid, done, commit, taken)

LinkAnswers == \E done \in BOOLEAN, commit \in Commits : Answers(TRUE, TRUE, done, commit)
CgraFinishes == \E a, r \in BOOLEAN, commit \in Commits : Answers(a, r, TRUE, commit)
BlockCommits == \E a, r, done \in BOOLEAN, commit \in Commits \ {{}} : Answers(a, r, done, commit)

LiveSpec ==
  Spec /\ WF_vars(LinkAnswers) /\ WF_vars(CgraFinishes) /\ WF_vars(BlockCommits)

-----------------------------------------------------------------------------
(* Properties. *)

KR == INSTANCE KernelRun

\* Speculation is invisible: whatever is prefetched, flushed and fetched again, every
\* e-block that is fired is a block run for exactly the threads that stand at it, and a
\* CTA is retired only when all of its threads have returned.
RunsKernel == KR!RunSpec

\* An e-block is fired for threads whose own path is at its block.
FiredOnPath ==
  [][Fire => Fired.mask # {} /\ \A t \in Fired.mask : tpc[t] = Fired.pc]_vars

\* The e-blocks in use, each in one place of the machine.
InFetch == IF meta_state # "Ready" THEN {sched.id} ELSE {}
InBackend == inserting \cup brt

\* The ids the scheduler holds live are the ids of the e-blocks in the machine, and the
\* one in the fetch is not in the back end: whatever meets in a clock, no id is freed
\* twice, kept for ever, or given out while its e-block is not committed.
IdsInUse == live = InFetch \cup InBackend /\ InFetch \cap InBackend = {}

\* A CTA is retired when no e-block of it is left anywhere and its stack is empty.
RetiredEmpty ==
  PopCta => InFetch \cup InBackend = {} /\ phase = "idle" /\ stack = <<>> /\ ~status.ucd

\* An e-block is fired with its own bitstream, whole; and while the serializer shifts it
\* out, no chunk of that configuration memory changes.
Whole(b, p) == \A c \in 1 .. BitstreamBeats : bank[b][c] = p
ConfiguredRight ==
  /\ Fire => Whole(Fired.buffer, Fired.pc)
  /\ ProgActive => Whole(ex.buffer, ex.pc)

\* Fetch and branch handler stay in step: new metadata finds an empty entry, which is
\* the next one to be looked at; and a flush comes when the metadata is held, never in
\* the middle of its burst.
TableInStep ==
  /\ Arrives # {} => table[wr].status = "Empty" /\ rd = wr
  /\ PredictMiss => meta_state = "HoldData"

\* A burst whose unit no longer waits for it: its beats block the link.
Orphan == \E i \in DOMAIN link :
  link[i].unit = "bsfetch" /\ ~(bs_state = "Streaming" /\ ar_sent)

\* A CTA that is launched retires, unless a flush cut a bitstream load in the middle.
CtaRetires == cta_valid ~> (~cta_valid \/ Orphan)

\* A flush cancels a load in progress: the unit gets no more of it, and nobody waits.
FlushCancels == ~Orphan
=============================================================================
