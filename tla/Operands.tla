------------------------------ MODULE Operands ------------------------------
(***************************************************************************)
(* The dispatcher together with everything that decides whether a thread   *)
(* finds its operands in the register file: the threads in the CGRA, the   *)
(* loads they issue when they leave it, the responses of the memory, and   *)
(* the write ports of the register banks, where the result of a load waits *)
(* in a buffer while the CGRA writes the same bank.  An e-block is what    *)
(* the dispatcher sees of it: the active mask, the registers its threads   *)
(* read, load and write, and its CTA.                                      *)
(***************************************************************************)
EXTENDS Dispatcher

CONSTANTS
  Blocks,    \* e-blocks the front end may offer
  BufDepth   \* LDST_BUF_DEPTH

\* No kernel is compiled to a thread that waits for what it loads itself.
ASSUME BlocksAssumption ==
  /\ Blocks \subseteq [mask : SUBSET Thread, inputs : SUBSET Reg, dests : SUBSET Reg,
                       outs : SUBSET Reg, cta : Nat]
  /\ \A b \in Blocks : b.mask # {} /\ b.dests \cap b.inputs = {}
ASSUME BufDepthAssumption == BufDepth \in Nat \ {0}

VARIABLES
  pipe,         \* threads in the CGRA, the oldest first
  outstanding,  \* loads issued and not answered, as <<thread, register>>
  buffer,       \* reg_wr_buffer of each bank: threads whose loaded value waits
  apart         \* history: see HistoryUpdate

vars == <<disp_vars, pipe, outstanding, buffer, apart>>

TypeOK ==
  /\ DispTypeOK
  /\ IsFifo(pipe, NumThreads)
  /\ outstanding \subseteq Thread \X Reg
  /\ DOMAIN buffer = Reg /\ \A r \in Reg : IsFifo(buffer[r], BufDepth)
  /\ apart \in BOOLEAN

Init ==
  /\ DispInit
  /\ pipe = <<>>
  /\ outstanding = {}
  /\ buffer = [r \in Reg |-> <<>>]
  /\ apart = TRUE

-----------------------------------------------------------------------------

\* An input that can be high only where possible holds.
When(possible) == IF possible THEN BOOLEAN ELSE {FALSE}

\* fdr_ready_o, as far as it depends on the threads.
FdrReady == ~Busy /\ pipe = <<>>

\* A loaded value that the kernel has not waited for is not loaded again, and the
\* core takes a CTA only when the one before has retired (MAX_CTA_PER_CORE is 1).
Acceptable(b) ==
  /\ (b.mask \X b.dests) \cap outstanding = {}
  /\ b.cta # block.cta => outstanding = {} /\ \A r \in Reg : buffer[r] = <<>>

\* The e-block accepted in this clock, if any.
Offer == {{}} \cup {{b} : b \in {c \in Blocks : FdrReady /\ Acceptable(c)}}

\* A response is accepted if the buffer of its bank has room.
Responses == {{}} \cup {{w} : w \in {v \in outstanding : Len(buffer[v[2]]) < BufDepth}}

PipeUpdate(pop, exit) == pipe' = Moved(pipe, Item(ready_fifo, pop), exit)

\* A thread that leaves the CGRA issues its loads.
Issued(exit) == IF exit THEN {Head(pipe)} \X block.dests ELSE {}

MemoryUpdate(exit, rsp) == outstanding' = (outstanding \ rsp) \cup Issued(exit)

Arrived(rsp, r) == IF rsp = {} THEN <<>> ELSE SetToSeq({t \in Thread : <<t, r>> \in rsp})

BankUpdate_StallsAllBanks(exit, rsp) ==
  buffer' = [r \in Reg |-> Moved(buffer[r], Arrived(rsp, r), buffer[r] # <<>> /\ ~exit)]

\* A bank has one write port: the CGRA's result goes first.
BankUpdate(exit, rsp) ==
  buffer' = [r \in Reg |->
    Moved(buffer[r], Arrived(rsp, r), buffer[r] # <<>> /\ ~(exit /\ r \in block.outs))]

\* The active e-block writes no register of which a load is out, of whatever thread.
WritesApart == \A w \in outstanding : w[2] \notin block.outs

\* apart holds if that has been so in every clock since the buffers were last all empty.
\* It only observes.
HistoryUpdate ==
  apart' = (WritesApart' /\ (apart \/ \A r \in Reg : buffer'[r] = <<>>))

Cycle(accepted, pop, exit, rsp) ==
  /\ DispatcherCycle(accepted, pop, rsp)
  /\ PipeUpdate(pop, exit)
  /\ MemoryUpdate(exit, rsp)
  /\ BankUpdate(exit, rsp)
  /\ HistoryUpdate

\* pop depends on credits and on the programming of the CGRA, exit on its latency.
Next ==
  \E accepted \in Offer, pop \in When(DispatchValid), exit \in When(pipe # <<>>),
     rsp \in Responses :
    Cycle(accepted, pop, exit, rsp)

Spec == Init /\ [][Next]_vars

-----------------------------------------------------------------------------
(* The clock runs; a dispatchable thread gets its credits, a thread in the *)
(* CGRA leaves it, and the memory answers.                                 *)

Step(ok(_, _, _)) ==
  \E accepted \in Offer, pop \in When(DispatchValid), exit \in When(pipe # <<>>),
     rsp \in Responses :
    ok(pop, exit, rsp) /\ Cycle(accepted, pop, exit, rsp)

Fairness ==
  /\ WF_vars(Step(LAMBDA p, x, r : TRUE))
  /\ WF_vars(Step(LAMBDA p, x, r : p))
  /\ WF_vars(Step(LAMBDA p, x, r : x))
  /\ WF_vars(Step(LAMBDA p, x, r : r # {}))

LiveSpec == Spec /\ Fairness

-----------------------------------------------------------------------------

\* Loads of the active e-block whose threads have not left the CGRA.
Unissued == ((block.mask \ dispatched) \cup ToSet(pipe)) \X block.dests

\* A load that has not been answered is reserved, from the accept of its e-block on:
\* reservations are made for a whole e-block at once and released one by one, in any
\* order and while later e-blocks make theirs.
ReservedUntilAnswered == \A w \in Unissued \cup outstanding : w[2] \in entry[w[1]]

Pops(t) == t \in dispatched' \ dispatched

\* A thread is sent to the CGRA only when every load of a register it reads has been
\* answered: the test for it was made clocks before, in front of the FIFO of ready
\* threads.
OperandsLoaded ==
  [][\A t \in Thread : Pops(t) => ({t} \X block.inputs) \cap outstanding = {}]_vars

\* The values loaded for a thread have been written to the register file, or are being
\* written in this clock: they do not wait in the buffer of a bank.
Written(t) == \A r \in block.inputs : t \notin ToSet(buffer'[r])

\* A thread is sent to the CGRA only when the values loaded for it have been written
\* ("a colliding TID must be retained locally while waiting for its dependencies to
\* clear", dispatcher_refactored.sv).
OperandsWritten == [][\A t \in Thread : Pops(t) => Written(t)]_vars

\* The same as long as the e-blocks write no register while a load of it is out: the
\* scoreboard releases a load when its value enters the buffer, and nothing but the time
\* to the dispatch gets the value out of it.
WrittenIfApart == [][apart => \A t \in Thread : Pops(t) => Written(t)]_vars

\* The thread pipeline does what the dispatcher promises the back end: it is done when
\* every thread has been dispatched and not before, although what it watches leaves
\* out the reroute FIFO and the priority encoder.
Issue == INSTANCE ThreadIssue WITH MaxThreads <- NumThreads,
                                   todo <- Cardinality(block.mask \ dispatched)

IssueRefined == Issue!IssueSpec

\* Every accepted e-block is dispatched: no wait for operands, for room in a FIFO or
\* for the end of the chunk lasts for ever.
EveryBlockDispatched == Busy ~> ~Busy
=============================================================================
