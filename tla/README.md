# MiniDICE in TLA+

MiniDICE is a single-core CGRA accelerator that runs SIMT kernels. A kernel is a graph of
*p-graphs* ("e-blocks" once they are scheduled): the front end picks the p-graph a thread
block (CTA) runs next, fetches its metadata and its CGRA bitstream, and hands it to the back
end, which sends the active threads through the configured CGRA one by one, lets their loads
and stores complete out of order, and reports the e-block committed. Control flow diverges per
thread and is kept on a SIMT stack.

The design is synchronous RTL. The modules here model it at clock level: a step is one clock
edge, an operator is the update of a few registers, and what the units around a component do in
that clock is chosen by `\E` in the next-state relation. Everything is translated from
`src/rtl`, but the verdict of the test benches; the word "hold" below means for every behaviour of the instance named.

## 1. Inventory

| component | source | state | operations | what makes it correct |
|---|---|---|---|---|
| Block retire table | `BE/commit_stage` | a latch for the accepted e-block; per id: valid, pending loads, pending stores; round-robin pointer | insert a clock after the accept, subtract load / store / token retires, commit one ready entry a clock | no early commit, no dropped retire, no insert over a live entry, every entry commits |
| Issue and retire path | `BE/dice_backend.sv` | active e-block, token flags, programming flags, pipeline count | accept, start programming, dispatch, return the execution token | the token of every e-block is returned once; requests carry the right id |
| Thread dispatcher | `BE/dispatcher` | mask, priority encoder position, three FIFOs, pending check, ready FIFO, scoreboard | find, queue, check operands, offer | every active thread once, never before its operands; done when and only when all have left |
| Register file | `BE/regfile` | a load buffer per bank, metadata registers | CGRA write, load write, read | a read sees the last write in program order |
| Bitstream serializer | `BE/misc/cgra_bitstream_buf_serial.sv` | idle / busy | shift one configuration in | one request at a time |
| Memory request FIFO | `BE/ldst_unit`, `BE/misc/dice_ready_to_credit_flow_converter.sv` | FIFO, state and tags per port; credits | queue a thread's bundle, arbitrate, match answers | no overflow; each answer goes to its thread |
| SIMT stack | `FE/cta_schedule/simt_stack*.sv` | RAM, pointer, an 8-state controller | first push, modify / push / pop after a branch | every thread on its own path, paths join where they must |
| Branch handler | `FE/fetch_stage/branch_handler.sv` | a two-entry buffer of fetched blocks, a state machine | resolve the branch of the finished block, verify a prediction, fire or flush the prefetched one | the fired block is the top of the stack, with its mask |
| CTA schedule stage | `FE/cta_schedule` | active CTA, pending / in-flight / prefetch flags, live ids | launch, schedule, prefetch, commit, retire | one use of an id at a time; retire only when nothing is left |
| Fetch, decode, read | `FE/fetch_stage` | AXI read state machines, buffer choice | metadata burst, bitstream burst, flush | a flushed burst leaves nothing behind |
| CTA dispatcher | `rtl/cta_dispatcher` | grid position, credits | walk the grid, dispatch, complete; not instantiated by `mini_dice_top` | every CTA once; kernel done after the last completion |
| Control registers | `internal_memory/cgra_io_csr.sv` | control, PC, thread count, arguments; a sticky completion | write, read, start pulse, reset of the core | a CTA runs with what was written for it; a poll never tells of the CTA before |
| Host link, in | `rtl/IO/axi_link_rx.sv` | a parser; FIFOs for write and read descriptors, beats, answers | take a flit, hand over to AXI | headers and beats are not mixed up; the link goes on |
| Host link, out | `axi_link_tx.sv`, `top_level_io.sv` | FIFOs, an order FIFO, a serializer, a count of made-up responses | accept one packet a clock, send it, respond to stores | a header is followed by its own beat; one response a store; nobody starves |
| Integration, crossbar | `dice_core.sv`, `mini_dice_top.sv`, `axi_crossbar` | - | launch, completion and reset of the core; third-party crossbar | CTAs run one after the other |
| Core test bench (C++) | `tb/cgra_core/**/dpi_*.cpp` | memory images, lists of expected and seen writes | answer reads, match writes, give a verdict | the verdict is about the kernel and not about when it is asked for |
| Generated stubs | `tb/**/csrc` | - | output of the simulator, checked in | - |

How they interact. The host writes the control registers over the link that also brings the
answers to the core's reads; they hand a CTA to the schedule stage, which pushes the first
entry of the SIMT stack. The scheduler issues the p-graph on top of the stack under a free
e-block id; fetch and decode turn it into an FDR packet. The back end accepts the packet
(`fdr_valid_i & fdr_ready_o`): in that clock the active e-block is replaced, the counts are
latched for the retire table, the dispatcher restarts and the scoreboard is reserved. Threads
leave the dispatcher when a memory credit is there, cross the CGRA, write the register file and
issue their memory operations. Answers release the scoreboard and, on the register write, count
down the retire table. The commit frees the id. A block that may diverge is fired before it is
known where its threads go: the scheduler prefetches the block at the branch's target meanwhile,
and the branch handler, once the retire table is empty, updates the SIMT stack from the predicates
and either goes on with the prefetched block, if its PC is that of the new top, or flushes it. When the
threads have returned and the retire table is empty the CTA completes; the host polls for it, and
the answer to its poll leaves the chip over the link that the stores have taken.

What is hard. Several e-blocks are in the back end at once; the retire table learns of an e-block
one clock late; state flags are registered and used a clock after they were true; memory answers
in any order; speculation is flushed in the middle of bursts; everything is bounded by small
FIFOs. Nothing is persisted and nothing is lost or duplicated on the wires, so there are no crash
or delivery properties. `PROJECT.json` lists each hazard at its line.

## 2. Modules

| module | models | state and actions |
|---|---|---|
| `BlockCommit` | `dice_brt`, `block_commit_table` | `BrtCycle` is the clock of both: the latch, then insert, reduce and pop with the code's priorities (pop over insert, retire over insert). Counters are `% CountMod` wide. |
| `ThreadIssue` | what the dispatcher promises the back end: `dispatcher_control` and `dispatcher_dataflow` over a *number* of threads | abstract: which thread is offered when is open. |
| `Backend` | `dice_backend` around the two above | `Cycle` is the whole clock: accept, `FdrUpdate`, programming handshake, dispatcher, pipeline count, tagging of memory operations, retire table, id liveness as the scheduler keeps it. Inputs: the offer, thread available, credit, exit from the CGRA, end of programming, retires. |
| `Scoreboard` | `scoreboard_refactor.sv` | reserved registers of each thread; reserve wins over release, clear over both. |
| `Dispatcher` | `dispatcher_refactored.sv` and what it instantiates | every register of the thread pipeline; `DispatcherCycle` is its clock. |
| `Operands` | `Dispatcher` with the CGRA pipeline, the loads in flight and the write ports of the register banks | accepts e-blocks (mask, registers read / loaded / written, CTA), pops, exits and responses in any order; implements `ThreadIssue`. The history variable `apart` (section 4) only observes. |
| `SimtStack` | `simt_stack`, `simt_stack_controller` | every state of the controller; a RAM top that is valid a clock after it is addressed; pushes and modifies dropped when full, as in the code. |
| `Kernel` | the metadata of branches and the stack update `branch_handler` derives | pure operators; also says which kernels are *structured*, which *nest* (`WellNested`) and which the front end can *predict* (`Predictable`). |
| `SimtKernel` | the SIMT stack running a kernel | `Launch`, `RunBlock`, `Working`, `Retire`; `tpc` records where each thread really is. |
| `KernelRun` | what the front end promises | abstract: launch, run a block for threads that stand at it, retire when all have returned. |
| `CtaSchedule` | `cta_controller`, `active_cta_table`, `cta_status_table`, `cta_scheduler` | the registers of the four, updated by `CtaCycle`, whose operands are what the stack, the fetch and the back end tell them. |
| `BranchHandler` | `branch_handler` | the two-entry table and its pointers; `NextEntryStatus` is the state machine, `BranchCycle` the clock, with new metadata written after the step, as in the code. |
| `Fetch` | `meta_fetch`, `bitstream_fetch_load`, the banks of the serializer, the link | both state machines, whose bitstream is in which chunk of which memory, and the bursts accepted by the link, answered in order; a beat for a unit that does not take it stays at the head. |
| `Frontend` | `dice_frontend` with `fdr_top` and `valid_check`, around a back end | `Cycle` is the clock of all of the above and of `SimtStack`; the back end accepts, programs, runs, writes the predicates, inserts a clock late and commits whenever it likes. Implements `KernelRun`. |
| `MemPorts` | `mem_req_fifo` of four ports, the credits in `dice_backend`, the crossbar behind | a thread of a memory e-block takes a credit of every port and pushes into those its e-block uses; grant, address and data handshakes, store retirement. |
| `LinkRx` | `axi_link_rx` | the parser, one flit a clock, with the room each header and beat needs; the FIFOs behind it and the bursts rebuilt from them. |
| `ControlRegs` | `cgra_io_csr` | `CsrCycle` is its clock: the two handshakes, the delayed write, the start pulse, the completion. |
| `CtaSequence` | what the chip promises its host | abstract: launch a CTA, complete it, let the host see it, for one CTA after the other. |
| `HostLink` | `LinkRx` and `ControlRegs`, the launch in `mini_dice_top` and `cta_controller`, around a host and a core | `Clock` is the clock of all; the host writes registers, polls, answers reads and may reset the core; the core reads and completes when it likes. Implements `CtaSequence`. |
| `LinkTx` | `axi_link_tx`, the responses of `top_level_io` | the arbiter, the FIFOs, the serializer; stores, reads and answers are offered, and beats of stores come, in any order. |
| `WriteCheck` | the bookkeeping of `dpi_dice_core_runtime.cpp` | expected and recorded writes, `RecordWrite`, `CheckDone`. |
| `Completion` | a CTA that stores and completes, `LinkTx`, the endpoint of the test benches and `WriteCheck` | `RunCycle` is a clock, `Check` the end of the simulation. |
| `Backend_proofs`, `Operands_proofs`, `SimtKernel_proofs`, `Frontend_proofs`, `MemPorts_proofs`, `HostLink_proofs`, `LinkTx_proofs`, `Completion_proofs` | - | theorems about the eight |
| `MCBackend`, `MCOperands`, `MCSimtKernel`, `MCFrontend`, `MCMemPorts`, `MCHostLink`, `MCCompletion` | - | instances |

`Backend` and `Operands` meet in `ThreadIssue`: `Backend` extends it, `Operands` has it as a
PROPERTY under a refinement mapping (`todo` is the number of active threads not dispatched), so
what is proved of `Backend` about the dispatcher's behaviour rests on something the detailed
thread pipeline has been proved to do (`IssueImplemented`).

`SimtKernel` and `Frontend` share `SimtStack` and `Kernel`: the first drives the stack with the
updates of any kernel at any speed, to establish what the stack does; the second drives it with
the real branch handler on few kernels, to establish that prefetching changes nothing, which the
proofs extend to every kernel of the kind: the theorems about `SimtKernel` are used for the stack in `Frontend`. `KernelRun`
is what both are measured by, in `Frontend` as a refinement (`code`, `launched` and `tpc` map to
themselves: `tpc` moves when a block is fired, with the branch outcomes the back end will write).

`HostLink` and `Completion` are the two directions of the host link. In the first the host drives
the chip, and the core is anything that waits for what it reads; the way out is reliable and in
order. In the second the core drives, with its stores, and the host only polls; what is on the link
and when matters. `Completion` extends `LinkTx`: a clock of it is a clock of `LinkTx`, and its proofs
use those of `LinkTx`.

Definitions named `X_Something` are versions of `X` with a plausible bug. No specification uses
them; each shows that one property can fail.

## 3. Runs

| run | instance | checks |
|---|---|---|
| `backend` | 2 ids, 2 threads, one memory port, up to 2 loads retired a clock | `Accounting` (the counters hold exactly what each e-block owes: pending operations, threads not yet through, token), and what follows from it: `CommitOnlyWhenRetired`, `RetiresLand`, `NoDoubleInsert`, `RequestsTaggedRight`, `TokenNotLost`; and `BackendGoesOn` (every e-block commits, the back end becomes ready again) under fairness |
| `operands` | 3 threads, 2 registers, FIFOs of one and two, load buffers of 8, six kinds of e-block, one CTA | `ThreadsConserved` (each active thread is dispatched, or in one stage, or still to be found; all in order), `IssueRefined` (the refinement of `ThreadIssue`), `ReservedUntilAnswered`, `OperandsLoaded`, `WrittenIfApart` (a thread finds what was loaded for it in the register file, as long as no e-block writes a register while a load of it is out), and `EveryBlockDispatched` under fairness |
| `simt_structured` | 3 threads, every structured forward kernel of 5 blocks, every way its threads may branch | `PathsOnStack`, `MasksNest`, `ThreadsMeet` (threads that diverged are together again at the join and at the return), `RoomToWrite` (a kernel needs no more entries than it has blocks), `EveryCtaRetires` |
| `frontend` | 2 threads, 2 ids, bursts of 2 beats, a stack of 5; two kernels of 5 blocks, an if with an else and an if around an if | `RunsKernel` (refinement of `KernelRun`), `IdsInUse`, `RetiredEmpty`, `ConfiguredRight`, `TableInStep`, and `CtaRetires` under fairness |
| `mem_ports` | 3 ports, FIFOs of 4, two kernels: one whose e-blocks store and load on the same two ports, one whose e-blocks load on different ports | `CreditsConserved`, `GrantHeld`, and `PortsGoOn` (every request is sent, a thread can be dispatched again) under fairness |
| `host_link` | 2 CTAs, bursts longer than the beat FIFO of 2, 2 polls under way, the next CTA's registers written early, a host that may reset the core | `LaunchesAsWritten`, `InStep` (headers, beats and the ends of bursts are not mixed up, nothing runs over, each poll has one answer), and `RunsInSequence` (refinement of `CtaSequence`, with its fairness) |
| `completion` | 2 stores, 2 values, up to 2 expected writes, reads and polls between; FIFOs of one and two places | `BeatsMatch` (every header is followed by its own beat, every store gets one response), `GivesWay` (no kind of packet is passed over twice for the same one), `StoresOnTheWay`, `CompletionBehindStores`, `VerdictRight` |
| `frontend_loop` (violation) | a loop of two blocks whose branch diverges | `FiredOnPath` fails |
| `simt_loop` (violation) | a divergent loop whose exit is its join | `ReturnPops` fails |
| `simt_full` (violation) | three nested ifs, a stack of three | `ModifyUpdatesTop` fails |
| `new_cta` (violation) | two CTAs that load and use a register | `OperandsLoaded` fails |
| `in_place` (violation) | load x, then x = f(x) | `OperandsWritten` fails |

### What the violation runs show

* `new_cta`: the scoreboard is cleared "on a true CTA boundary" in the very clock in which the
  first e-block of the new CTA is accepted and reserves its load destinations
  (`dice_backend.sv:230`, `dispatcher_refactored.sv:161`). Clear has the highest priority, so the
  reservations are gone, and the second e-block of that CTA reads registers whose loads are still
  out. By then the old CTA has retired and the scoreboard is empty anyway: the clear protects
  nothing. This concerns the core behind a dispatcher that numbers its CTAs. `mini_dice_top` leaves
  `cta_id` zero for every CTA (`mini_dice_top.sv:148-160`), so on the integrated chip the clear is
  never raised.
* `in_place`: the scoreboard releases a load when its value enters the write buffer of the bank
  (`dice_backend.sv:119-129`); at the bank the CGRA's results go first
  (`dice_wr_ctrl_bank.sv:68-75`). There is a clock of slack between release and the earliest
  read. Two results in consecutive clocks to the register being loaded use it up, and the thread
  reads the old value. Threads that piled up in the ready FIFO while the CGRA was being
  programmed leave it in consecutive clocks, so the pattern is ordinary: `x` loaded in one
  e-block, `x = f(x)` in the next.
  It can also happen to e-blocks that do not read what they write (section 5). `operands`, which
  has an e-block of the in-place kind among its six, checks `WrittenIfApart`; `OperandsWritten`
  fails there as well.
* `frontend_loop`: the mask of a prefetched block is captured when it is scheduled, before the
  branch is resolved (`cta_scheduler.sv:56`), and the branch handler does not read the mask of
  the new top when the PC matches (`branch_handler.sv:242-250`). After an if the mask is right
  all the same: the prefetched block is the branch's target, a branch that diverges leaves the
  fall-through on top, so the PC matches only if every thread took the branch. In
  `Linear(1), Branch(1, 3), Return` the fall-through is the join, so only the threads that stay in
  the loop are pushed, the target matches, and the prefetched body is fired for every thread
  that came to the branch: a thread that has left the loop runs it again.
* `simt_loop`: a return pops the stack only where the all-ones PC equals the join of the top
  entry. After a divergent loop the entry of the last iterations is on top with its own join as
  PC: it is not recognised as finished, runs past the join alone and meets the return with part
  of the threads.
* `simt_full`: `simt_stack` drops any write when full, including `modify_top`, which needs no
  room. The PC of the top then never moves.

### Bounds, and why they are enough

The counters of `Backend` need no bound: every operation is counted against an accepted e-block.
Two ids suffice for a new e-block to overlap an old one and for the search to have a choice, two
threads for one to be in the pipeline while another waits, and two loads in a clock for a retire
to take more than one off a counter. `DispatchMod` is 2 there, smaller than
in the code for its thread count, so the wrap of `dispatched_count` happens all the time. The
proofs remove these bounds. `operands` has three threads, the least with which two results in a row
can delay a third thread's operand, and registers enough for an e-block that uses one load while
issuing another; with one place in the reroute and the thread FIFO each stage holds up the one before, as
16 threads do with the depths of the code, which the proofs cover. The load buffers have the 8 places of
the code (`LDST_BUF_DEPTH`), which three threads do not fill: no result is held back by a buffer
that is shorter than the real one. `simt_structured` takes every kernel of its size instead of
chosen ones, with a stack of five: a full stack drops what is written, and `RoomToWrite` shows that
these kernels fill it but never write to it when it is full; with four entries that fails.
`frontend` has two threads, enough for a branch to be taken by none, one or all, two ids, so that
the scheduler is one block ahead of the retire table and has to wait for an id, and bursts of two
beats, so that a flush and a dispatch can fall between two beats; its kernels have a branch whose
target is run next, one whose target is not, and one under the other; with a stack entry for each
block and kernels that nest (`PlainKernelsAssumption`) the run is an instance of the theorems. `mem_ports` has three ports
because with two the search from `issue_rr_q` cannot pass over a port, and as many credits as a FIFO
has places, as in the code. `host_link` has bursts that are longer than the FIFO for their beats, as
in the chip, so that the parser stops in the middle of one, and two CTAs, so that there is an old
completion to be taken for a new one and a next CTA to be written early; `LinkDepth` is the
vendored link and bounds how far the host is ahead of the parser. `completion` has two values, which
tell a beat from its neighbour; two stores, so that the second is announced before the first has gone; two
places for the headers and beats of stores, so that one can be pushed while the other leaves, and one
place elsewhere, so that these FIFOs are full and empty all the time. The proofs have no bounds.

### Inputs assumed

* An e-block offered to the back end has at least one active thread and an id that is not in use.
  `Frontend` shows the second (`IdsInUse`) and, for kernels that nest and can be predicted, the first
  (`NeverOffPath`); both are proved.
* In `Operands`, an e-block does not load a register its own threads read (it would wait for
  itself), does not load a register again whose load is still out (the scoreboard has one bit),
  and belongs to another CTA only when the loads of the old one are done (a CTA is retired only
  with no e-block in flight, and `DICE_NUM_MAX_CTA_PER_CORE` is 1).

* The kernels of the `frontend` run nest, and their branches are predictable, as are those of the theorems
  about speculation: no branch leads to the block behind it or to another divergent branch. Each of
  these is needed, and TLC has a violation of `FiredOnPath` without it. A loop of divergent threads
  does not nest (`frontend_loop`). Of a branch whose target is the block behind it (`Branch(2, 3)`
  at 1), the threads that fall through come to the prefetched block too, which is then fired for
  all. A prefetched block that is itself a divergent branch is masked at fire time by its own
  predicate register (`branch_handler.sv:243-247`), which may still hold the outcome of an older
  block. A compiler that lays the two ways of an if out one behind the other meets the first two; the
  third holds only if there is a block between two branches.
* The host of `HostLink` does what `run_grid` in `tb_chip_top.sv` does (1080-1142): registers, start,
  polls until complete, next CTA. Where the test bench waits it does not have to: it polls right behind the start,
  and with `WriteAhead` writes PC and thread count of the next CTA early. A poll behind a start
  finds the completion cleared with no clock to spare: the header of the write is parsed in clock p,
  the address is taken in p+1, the register written in p+2, the start pulse is seen in p+3 and the flag is
  clear in p+4, in which a read right behind is served.
* A core in `HostLink` reads while its CTA is active and completes only when its reads are answered;
  no flushed burst is under way (section 5). The host resets the core only while no poll
  is under way, and starts no CTA after it. Writes have one beat. The crossbar
  has no latency for addresses and answers, as it is configured, and hands over the beat of a
  write after its address.
* In `Completion` the host asks for the verdict when its endpoint has recorded what came before the answer
  to its poll, which is what the settle time of `tb_chip_top` is for. An expected list that is empty
  passes every run, and the order of the writes is not compared; both are the code's, and
  `VerdictRight` says so.
* `GrantHeld` is stated for kernels whose memory e-blocks all use the same ports (`SamePorts`), which
  is so for the kernels under `tb/test_vectors`. `CreditsConserved` needs no such assumption, in
  the run or in the proof.

### Fairness

RTL has a clock, so each clock step is weakly fair. Beyond that: `Backend` assumes that while the
active e-block waits for an operand or credit, the CGRA or the serializer, one of them acts (the
dispatcher offers and credits come back, the CGRA has a fixed latency, the serializer counts a
fixed number of bits), and that memory answers what is outstanding. `Operands` assumes
that a ready thread is eventually taken, a thread in the CGRA eventually leaves, and some
outstanding load is eventually answered; that a thread becomes ready is not assumed but follows.
`Frontend` assumes
that the link takes requests and delivers beats, the CGRA finishes and some e-block in the table
commits; nothing of the scheduler, the fetch units or the branch handler. `MemPorts` assumes that
the crossbar takes what it is offered and threads leave the CGRA; that the credits come back follows.
`HostLink` assumes that the host goes on with its program and
answers reads, that a CTA ends once it waits for nothing, that register banks take loads, and that
answers to polls are picked up and heard; nothing of the parser or the registers. `LinkTx` and `Completion` have no fairness:
`GivesWay` says as an action property what the arbiter does for those that wait.
`SimtKernel` assumes that the controller runs, and that the block on top of the stack is
eventually executed. Nothing is assumed of the offers: a property that needs an e-block starts
from one that was accepted.

## 4. Proofs

`Backend_proofs` proves, for any number of ids, threads and ports:

| theorem | statement |
|---|---|
| `AccountingHolds` | `Spec => [](TypeOK /\ Accounting)` |
| `TypeCorrect` | `Spec => []TypeOK` |
| `CommitIsSafe` | `Spec => []CommitOnlyWhenRetired` |
| `RetiresNeverUnderflow` | `Spec => []RetiresLand` |
| `InsertsFindRoom` | `Spec => []NoDoubleInsert` |
| `RequestsKeepTheirEblock` | `Spec => []RequestsTaggedRight` |
| `TokenNeverLost` | `Spec => TokenNotLost` |

Assumptions: the ones the modules state on their constants; among them, that the widest count
(`MaxThreads * MaxPorts + 1`, with the execution token) fits in the counters. The source takes
`$clog2(NUM_CREDITS + 1)` bits, which leaves out the token; with its 16 threads and 4 ports the
count is 65 and the counter has 7 bits, so the assumption holds, but not for every configuration
(it fails where `NUM_CREDITS + 1` is a power of two).

Argument. None of the safety properties is inductive: that a commit is safe depends on what the
counters count, which depends on the phase of the e-block (latched, dispatching, drained, token
returned). `Accounting` is the strengthening: `PhaseInv` says which flags go with which phase,
`LatchInv` what is in the latch in the clock before the insert, `CountInv` that an entry counts
exactly what its e-block owes, `FreeInv` that an e-block the table does not know owes nothing, and
`IdsAgree` that the scheduler's view of the ids is the table's. `backend` checks it as an
invariant before it is proved. A clock does too many things at once to be cut into one step per
action, so the proof has two forms of a cycle instead (`CycleForms`): one in which an e-block is
accepted, where the pipeline is empty and the old e-block can only retire (`AcceptStep`), and one
in which none is, where threads, retires and the insert meet (`QuietStep`). `RetireStep` is the
arithmetic of a retire, shared by both; `ProductMonotone` and `NoTruncation` are about the counts.

`MemPorts_proofs` proves, for any number of ports, any depth and any kernels:

| theorem | statement |
|---|---|
| `CreditsAreConserved` | `Spec => []CreditsConserved` |
| `PortsTypeCorrect` | `Spec => []TypeOK` |
| `BusIsHeld` | `Spec => GrantHeld` |

The first two are inductive together. `FifoLength` says by how much a FIFO grows in a clock, `CreditStep`
that the credit counter, the threads in the CGRA and the FIFO balance, whether or not the thread that
leaves uses the port and whether or not the port takes a request in the same clock. That a FIFO never
holds more than `Depth` requests follows, which is what the blind write needs.

The grant is not a register: each clock gives the bus to the first port in service from `issue_rr_q`
on. That it stays where it is means that no port comes into service in front of the one that has
it, and `TurnsInv` says why. With the same ports for every thread all of them are asked together, so
that in the order of the turn (`Turn`) the requests of a port are as many as those of a port behind
it or one more, and all ports before one in service are in service too. The port that sends goes
from the front to the end of the turn with one request fewer, and the order is kept (`TurnsStep`);
a port that comes into service is behind those that are.

`Frontend_proofs` proves, for any kernels, threads, ids and burst lengths:

| theorem | statement |
|---|---|
| `IdsAreThoseInUse` | `Spec => []IdsInUse` |
| `FetchAndTableInStep` | `Spec => []TableInStep` |
| `FiredConfigured` | `Spec => []ConfiguredRight` |

The strengthening is small, and says how the fetch and the branch handler keep in step without ever
asking each other: `HeldInTable` (metadata is valid exactly while it is held; an entry of the table
is occupied only then; the other entry is always empty; the pointers are equal exactly when the
table is empty) and `InsertedOnce` (an id on its way into the retire table is not in it already).
From it `Moments` derives that a flush, a dispatch, a schedule and the arrival of metadata exclude
each other, which is why the order of the assignments in `cta_scheduler` and in `branch_handler`
decides nothing but commits. `TableNext`, `MetaNext`, `HeldNext` and `IdsNext` are the clock of
the table, of `meta_fetch`, of both and of the ids. Nothing about the SIMT stack is needed.

For the bitstreams `ConfigInv` adds what the fetch knows of its loads. A load starts in the clock its
metadata arrives, which is no clock of a flush, and is cut when the metadata goes (`LoadInv`,
`LoadMoments`); so while metadata is held the link has the rest of its load and nothing else, and
behind a flush at most the rest of one load, ahead of the next metadata (`LinkInv`): a beat that a
load takes is always its own. The words that have come are those of the e-block, up to `chunk`, so a
memory that is marked valid is whole (`MemoryInv`); and a load never goes to the memory that is shifted
out (`ShiftInv`), as the hit of the e-block that is programmed is in the other one.

What speculation may do is proved for kernels that nest and can be predicted, with `NumBlocks <= Depth`, for
any number of threads, ids and beats, whatever the link, the CGRA and memory do and when:

| theorem | statement |
|---|---|
| `SpeculationInvisible` | `Spec => RunsKernel` |
| `NeverOffPath` | `Spec => FiredOnPath`, which `frontend_loop` violates with another kernel |
| `RetiresEmpty` | `Spec => []RetiredEmpty` |

Argument. The front end drives the stack with the updates of the kernel, but not when the threads
move: a block that does not branch submits its update before it is fired, a branch after it was
fired and only when the block behind it has been fetched. `Standing` is where the updates that were
submitted have brought the threads. It differs from `tpc` only while a block is on its way to be fired
(`Ahead`) or a branch waits to be submitted (`Behind`), and with it each clock of the front end is a step of
`SimtKernel` or none (`StackClock`). So all that `SimtKernel_proofs` says of the stack is true here
(`StackKept`), at every moment of the pipeline.

`SpeculationInv` is the rest. `BehindInv` keeps an unresolved branch on top of the stack, and keeps the
predicate it wrote from being overwritten until the branch handler has read it; for that `BackInv` says
what an empty retire table tells the branch handler, although the e-block it waits for is inserted a clock
late. `OutcomeInv` is the heart: while the outcome is worked on, the stack it will lead to
(`Target`) has the prefetched block on top only for all the threads that came to the branch. A
branch that diverges leaves the path that fell through on top, and in a kernel that nests this path neither
begins at the target nor can the join be on top instead (`BranchEnds` in `SimtKernel_proofs`);
this is why `branch_handler` may compare program counters and look at no mask. With `Decides`, the controller
never answers early. `OnPathInv` says that an entry past this check stands where its threads do, and
`RestInv` that the threads of an entry are those of the top until its update is submitted.
`ReturnInv` says that a return empties the stack before it is announced (`ReturnEnds`), from which,
with the scheduler's count of live ids, a CTA leaves nothing behind. There is one lemma for what each part of the
machine does in a clock (`StageNext`, `HoldNext`, `StatusNext`, `BackNext`, `StackNext`) and one for each part
of the invariant; `ClockRuns` then maps a clock to a step of `KernelRun`.

`Operands_proofs` proves, for any number of threads, any registers, e-blocks and depths of the FIFOs:

| theorem | statement |
|---|---|
| `TypesHold` | `Spec => []TypeOK` |
| `EveryThreadOnce` | `Spec => []ThreadsConserved` |
| `IssueImplemented` | `Spec => IssueRefined` |
| `ReservedWithinCta` | `ASSUME OneCta PROVE Spec => []ReservedUntilAnswered` |
| `OperandsAnswered` | `ASSUME OneCta PROVE Spec => OperandsLoaded` |
| `OperandsLanded` | `ASSUME OneCta PROVE Spec => WrittenIfApart` |

Assumptions: the lane's FIFO has at least two places (`next_active_thread_logic` gives it two; with
one, `LanePush` pauses and the control takes the pause for the end of the chunk), an e-block has an
active thread and does not load what it reads, and, for the last three, all e-blocks belong to one CTA
(`OneCta`): across CTAs they are false, as `new_cta` shows. Of `OperandsWritten` only the part holds
that `WrittenIfApart` states, as `in_place` and the two arms of section 5 show: the active e-block
writes no register of which some thread's load is out (`WritesApart`), and the history variable
`apart` remembers that this has been so since the buffers of the banks were last all empty. `apart` only
observes, so the theorem is about every run of the model, with buffers of any depth. Nothing in
`src/` makes a kernel keep the writes apart, and `full_mul_array` does not: it is what a compiler has to
see to.

Argument. `ThreadsConserved` says where the threads are (`Ordered`), but not why each stage takes
what the one before gives it. The invariant `Inv` adds `RoomToArrive` (a thread that left the thread
FIFO finds `pending_check` free), `AtRest` and `Restarting` (an accepted e-block finds the stages
empty, and keeps them so for the clock in which the search restarts), `Searching` (while threads are
still to be found the lane's FIFO is not empty except at the start, so a pause does not look like
the end) and `Draining` (once the end has been seen, the reroute FIFO, which nobody watches, runs
empty before the thread FIFO does). `WayStep` shows that a clock only takes the first thread off
`OnTheWay` and adds the one found at its end, however many stages move. `IdleIsNoneLeft` turns
this into the refinement: what `dispatcher_control` watches is idle exactly when `todo` is zero.
`LoadInv` is the same for the loads: the threads in the CGRA are the last dispatched (`InCgra`), no
load is issued twice (`Apart`), and a thread that has passed the test for its operands still passes it
(`ReadyLoaded`), because with one CTA nothing is reserved while a thread is on its way.
A thread that is popped has thus no load left to be answered, and misses an operand only if the value
stays in the buffer of its bank for the clock of the pop: `PopFindsOperand` needs that at most one
value waits there and that the CGRA does not write the bank (`Landed`). That is so while none grows
while the CGRA has the port, and the clock in which the search restarts, which writes one value of
every bank, empties those that the new e-block writes. `Landing` says that `apart` implies both
`WritesApart` and `Landed`; it starts again whenever the buffers are all empty.

`SimtKernel_proofs` proves, for any kernel, structured or not, any number of threads and any depth:

| theorem | statement |
|---|---|
| `TypesKept` | `Spec => []TypeOK` |
| `EntriesNest` | `Spec => []MasksNest` |
| `PathsKept` | `Spec /\ []RoomToWrite => []PathsOnStack` |

`RoomToWrite` is needed: `simt_full` shows what happens without it. The kernels of `simt_loop` are
covered as well: there no thread is lost either, the threads only do not return together.

For kernels whose regions nest (`WellNested`), with `NumBlocks <= Depth`, an entry for each block:

| theorem | statement |
|---|---|
| `NestedKernelsMeet` | `Spec => []ThreadsMeet` |
| `NestedKernelsFit` | `Spec => []RoomToWrite` |
| `NestedKernelsLoseNone` | `Spec => []PathsOnStack` |

`WellNested` asks less than the run does: a structured kernel may also jump back where its threads
do not diverge, as long as no block leads to itself; `ForwardNested` says that the kernels of
`simt_structured` are well nested. That branches have something to skip and join before the kernel
ends is needed: a branch with both ways at its join is pushed at its own join.

Argument. `Phases` says what each state of the controller takes for granted (`out_valid` means that
`top` is the top of the stack; a CTA is launched on an empty stack), `UpdateFitsTop` that the update
was made for the entry that is still on top. For nesting, `PlanNests` adds the entries that are
still to be written. For the paths, `Target` is the stack the controller is working towards: a
request and the decision table change it, every other clock only carries it out (`PathWorking`).
`Fits` says that `Target` leads every thread to where it is, and `Joined` that when an entry is
popped its threads stand where the entry below takes them up; `PlanFits` is the decision table.
For the kernels that nest, `RegionInv` gives every entry above the first a branch whose region it is
inside, with `reconv` as its end; the place of the entry and the size of that region add up to at
most what the kernel has. A path that is pushed has a region that is smaller by one block at each
end, which pays for the two entries it may take (`DivergesInside`), and an entry that goes on
in its region shows that there is more than one block in it (`MovesInside`): so there is room. An entry
inside its region is not at its join, and the return is inside none.

`LinkTx_proofs` proves, for any depths and any values:

| theorem | statement |
|---|---|
| `LinkTypes` | `Spec => []TypeOK`: no FIFO is written when full or read when empty, the count of responses does not wrap |
| `BeatsFollowHeaders` | `Spec => []DataFollowsHeader` |
| `AnswersInOrder` | `Spec => []AnswersFollowHeader` |
| `ResponsesMatchStores` | `Spec => []OneResponse` |
| `BeatsAlwaysMatch` | `Spec => []BeatsMatch`, the three together |
| `WaitersGoFirst` | `Spec => GivesWay` |

The invariant `Inv` adds to these that the FIFO of lengths and that of beats are filled together and that
the serializer never looks for the beat of a read. `FifoStep` is the bound of a FIFO that is pushed
only where the arbiter found room, `SendingStep` and `DataStep` say what the serializer and the beats do
in a clock, whatever else is granted in it. `WaitersGoFirst` rests on the pointer alone (`TurnGoesOn`).

`HostLink_proofs` proves, for any number of CTAs and of polls under way, any depths of the FIFOs and
any lengths of the bursts, and for a host that may or may not reset the core:

| theorem | statement |
|---|---|
| `Invariance` | `Spec => []Inv` |
| `StaysInStep` | `Spec => []InStep`: types, headers and beats, room in the FIFOs, one answer for each poll |
| `RunsAsWritten` | `Spec => []LaunchesAsWritten` |
| `SequenceImplemented` | `Spec => CS!SequenceSafe`, the safety part of `RunsInSequence` |

Assumptions: those `LinkRx` and `HostLink` state on their constants, which say that the depths and
the lengths of the bursts are positive and the words wide enough.

Argument. A flit does not say whether it is a header or a beat, and a register does not say which
CTA it was written for; both follow from what the host sent before. So the invariant speaks of a
run of the parser that has not happened yet: `g` gives each flit on the link, and each the host still
owes, the place the parser will be at when it comes to it, and `Stream` says that every flit is
taken at its place (a header when the parser is idle, a word that fits the write announced before,
a beat that has its number) and that the run ends where the host's counts are. A clock shortens the run at
the front (`StreamTail`) or extends it at the end (`StreamAppend`, and `StreamTakes` for each of the
packets there are); nothing in between is looked at. Behind the parser a write is at most one step from
the registers (`WriteInv`), so the number of writes that have landed is that of the headers taken
or one less, and `CsrInv` gives the registers as functions of that number. `CoreInv` and `HostInv`
add that the host is never more than the six writes ahead that the wait for a completion leaves it, which is
what keeps the registers of the next CTA behind the launch of this one (`InvLaunches`). `PollInv`
follows the polls through the link, the FIFO, the registers and back: a poll that is answered
after the start of its CTA has landed cannot see the completion of the one before. `BeatInv` replays
the beats that wait on the descriptors that wait. `SequenceStep` maps each clock to a step of
`CtaSequence` or to none.

`Completion_proofs` proves, for any depths, any number of stores and any values:

| theorem | statement |
|---|---|
| `StoresInOrder` | `RunSpec => []StoresOnTheWay` |
| `CompletionIsLast` | `RunSpec => []CompletionBehindStores` |
| `VerdictIsRight` | `RunSpec => []VerdictRight` |

Argument. Nothing in the chip compares a completion with a store; what keeps the answer behind the stores is
the order FIFO alone. So the invariant has to say where in it a packet stands. `Placed` says that
the descriptors of a kind have increasing places in the order FIFO, as many as it has packets of the
kind; `OrderInv` that no store stands behind an answer that tells of the completion. An answer
can tell only when it was made after the completion, and a store is announced only before
(`CompleteInv`), so the order is right when a packet is pushed; `Pushed` and `Popped` keep places and
descriptors together, with `OneGrant` for the one packet a clock. When the answer is sent, it is the
first of all, so no descriptor of a store is left (`SendingFrom`, `NoStoreStep`), and `StoresOnTheWay`
then says that all stores have come (`TellsStep`). The invariant of `LinkTx` is used as it is.

The verdict is a matter of counting. The test bench marks, for each write that comes, one expected
write that is equal to it, and counts an error if none is left. `MatchInv` says what that keeps: as long
as there is no error each value has come as often as it is marked, and behind an error some
value has come more often than it is expected (`RecordStep`). At the end nothing expected is
unmarked exactly if each value came as often as it is expected (`VerdictOf`); and since all stores
of the CTA have come by then (`AllCome`), and a complete CTA stores nothing more, the verdict is
about the CTA and stands (`VerdictRuns`).

Only model-checked: all liveness, that of the refinement of `CtaSequence` included. Liveness under fairness is out of
the prover's reach, and so is induction over what a recursive operator computes. The type invariants of
`Frontend` and of `Completion` (`RunTypeOK`) document the registers; no run is spent on them.

## 5. Not modelled

* `register_to_bank_mapper` and the constant scoreboard (never reserved), the data path, the
  generated CGRA, and the shifting of bits in the serializer (a delay here).
* The special registers (constants, predicates) and their write buffer. They behave as one more
  bank with its own buffer.
* `cta_dispatcher`: `mini_dice_top` does not instantiate it and starts one CTA at a time.
* Of the control registers, the status bits beside the completion, the registers about bitstream
  loads and the stack, and the configuration bits, which are plain storage. Of the host link,
  `BURST_READ` and unknown opcodes, which the host does not send (`RX_DROP`). The vendored AXI
  components, `axi_crossbar` and the BaseJump link, which appear as what they promise; the older
  adapters and bridges in `rtl/IO`, which the chip does not instantiate. The rest of the
  integration is wiring.
* Simulation-only assertions, except where a property states what they check
  (`assert_no_double_insert`, the underflow checks of the retire table, the credit check of
  `mem_req_fifo`).
* Of the C++ under `tb/` the bookkeeping of writes is modelled; the rest of
  `dpi_dice_core_runtime.cpp` reads files into memory images and prints, and the `vector_mul` files compute
  products. `csrc/rmapats.h`, `csrc/_vcs_pli_stub_.c` and their neighbours are output of the
  simulator. The chip is the SystemVerilog under `src/rtl`, and every module but `WriteCheck` is
  translated from it.

Behaviours of the models that no run is spent on, seen with other constants or properties:

* `OperandsWritten` fails in `Operands` also for e-blocks that do not read what they write: 16
  threads, the depths of the code (`LDST_BUF_DEPTH` is 8, `DE_pkg.sv:31`), an if whose arms load y (threads 0 and 5 to 15) and write y (1 to 4), then a use of y by all. While the loads
  are out the four results leave the CGRA in consecutive clocks, and four loaded values pile up in
  the buffer. Afterwards one value is written in each clock, but a response comes in each clock too, so
  the pile stays until the last load is answered: its thread passes the test at once and is dispatched
  with the value behind others in the buffer. No thread's own program writes y while its load is
  out, so a compiler that looks at one thread cannot avoid it. TLC finds it when the search is
  restricted to this one schedule. `apart` is false from the accept of the second arm on; by
  `OperandsLanded` it cannot happen while `apart` holds.
* `FlushCancels` fails in `Frontend`: a flush while a bitstream burst is answered sends the unit to
  `StateIdle` (`bitstream_fetch_load.sv:122`), where it takes no beats; the rest of the burst stays
  at the head of the link, which delivers in order. `CtaRetires` excuses a CTA that waits behind
  such a burst, so it says nothing about this stop; `ConfiguredRight` says that the rest is not taken
  for another bitstream.
* With `PrefetchEnabled = FALSE`, the chicken bit, `CtaRetires` fails in `Frontend`:
  `unresolved_control_divergence` is cleared by the branch handler when it looks at a prefetched
  entry, and none comes (`cta_scheduler.sv:48`). The CTA stops at its first branch that may diverge.
* With `HostResets = TRUE`, `LinkGoesOn` fails in `HostLink`: the FIFO for beats of answers has 8
  places (`cgra_io_axi4_top.sv:395`), a bitstream burst 54 beats. While a unit waits for the burst
  this only slows the link down; but a reset of the core makes the unit forget it, nobody takes the
  beats, the parser stays in `RX_R_DATA`, and the write that would release the reset is behind
  them. So `CtaSequence` promises nothing after a reset; without one `LinkGoesOn` holds.
* `CleanAtComplete` fails in `Completion`: a store counts as retired when its address and beat leave
  the core (`mem_req_fifo_4port.sv:247`), so `complete_sticky_r` may be set while stores wait in the
  FIFOs of `axi_link_tx`. `tb_mini_dice` looks at the flag inside the chip and asks for the verdict
  a clock later. A host that reads the flag over the link is safe, as `CompletionBehindStores`
  says, and `tb_chip_top` waits besides.
* A kernel with e-blocks of different ports violates `GrantHeld`: `issue_grant_li` is computed anew
  each clock (`mem_req_fifo_4port.sv:232`), and a port nearer to `issue_rr_q` that becomes active
  takes the bus from one whose store is half done. If it stores as well, the crossbar has
  two addresses and expects the data of the first, whose port waits for the bus: a deadlock. If the
  port that lost the bus had an address on it that was not taken, the crossbar keeps that address
  and the port shows it again.

## 6. Plan

In this order; each builds on modules that exist.

1. A module that composes `Frontend` and `Backend`. `Frontend` lets an e-block that was handed over
   commit at any time; the proof that `Backend` commits each once, and after its last operation,
   exists, the one that together they still implement `KernelRun` does not.
2. A condition on the kernel alone under which `apart` always holds.

There is one run per question: safety and liveness share a run where the state space allows.
