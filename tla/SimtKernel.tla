----------------------------- MODULE SimtKernel -----------------------------
(***************************************************************************)
(* The SIMT stack running a kernel.  The environment is what the CTA       *)
(* controller and the branch handler are to the stack: it launches a CTA,  *)
(* then runs the block on top of the stack for the threads of its mask,    *)
(* lets every thread of a divergent branch choose its way, and submits the *)
(* stack update.  tpc records where each thread really is, so that the     *)
(* stack can be compared with the paths of the threads.                    *)
(***************************************************************************)
EXTENDS Kernel, FiniteSetsExt

CONSTANT Kernels  \* the kernels a CTA may run

ASSUME KernelsAssumption == Kernels \subseteq [1 .. NumBlocks -> Block]

VARIABLES
  code,      \* the kernel: a block for every program counter
  launched,  \* threads of the running CTA, none if no CTA runs
  tpc        \* each thread's own program counter

vars == <<simt_vars, code, launched, tpc>>

TypeOK ==
  /\ SimtTypeOK
  /\ code \in [1 .. NumBlocks -> Block]
  /\ launched \subseteq Thread
  /\ tpc \in [Thread -> PC]

Init ==
  /\ SimtInit
  /\ code \in Kernels
  /\ launched = {}
  /\ tpc = [t \in Thread |-> EndPC]

\* The top of the stack is readable and stable.
Settled == state = "Idle" /\ TopValid

\* cta_controller pushes the first entry when the CTA table is empty.
Launch ==
  /\ launched = {} /\ InitReady
  /\ \E threads \in 1 .. NumThreads :
       /\ launched' = 0 .. threads - 1
       /\ tpc' = [t \in Thread |-> IF t < threads THEN 1 ELSE EndPC]
       /\ SimtCycle({[pc |-> 1, threads |-> threads]}, {})
  /\ UNCHANGED code

\* The block on top of the stack has run; the branch handler submits its update.
RunBlock ==
  /\ Settled /\ launched # {} /\ top.pc # EndPC
  /\ \E taken \in SUBSET top.mask :
       /\ code[top.pc].kind # "branch" => taken = {}
       /\ tpc' = [t \in Thread |->
                    IF t \in top.mask THEN Successor(code[top.pc], top.pc, t \in taken)
                    ELSE tpc[t]]
       /\ SimtCycle({}, {StackUpdateFor(code[top.pc], top.pc, top.mask, taken)})
  /\ UNCHANGED <<code, launched>>

\* The CTA is retired when its return has emptied the stack.
Retire ==
  /\ state = "Idle" /\ stack = <<>> /\ launched # {}
  /\ launched' = {}
  /\ SimtCycle({}, {})
  /\ UNCHANGED <<code, tpc>>

\* The controller carries out an update.
Working ==
  /\ state # "Idle"
  /\ SimtCycle({}, {})
  /\ UNCHANGED <<code, launched, tpc>>

Next == Launch \/ RunBlock \/ Retire \/ Working

Spec == Init /\ [][Next]_vars

\* The clock runs, and a kernel that has been launched is executed.
LiveSpec == Spec /\ WF_vars(Working) /\ WF_vars(RunBlock) /\ WF_vars(Retire)

-----------------------------------------------------------------------------
(* Properties. *)

\* The highest entry that holds t.
Level(t) == Max({i \in DOMAIN stack : t \in stack[i].mask})

Unfinished == {t \in launched : tpc[t] # EndPC}

\* Whenever the stack is at rest, it knows where every thread is: a thread that has
\* not returned is in some entry, and the highest entry that holds it has the
\* thread's own program counter.  No thread is lost, and none is run off its path.
PathsOnStack ==
  state = "Idle" =>
    \A t \in Unfinished :
      /\ \E i \in DOMAIN stack : t \in stack[i].mask
      /\ stack[Level(t)].pc = tpc[t]

\* Entries nest: of two entries, the higher one holds threads of the lower one or
\* none of them, also between the clocks of an update that pushes both paths of a branch.
MasksNest ==
  \A i, j \in DOMAIN stack : i < j =>
    stack[j].mask \subseteq stack[i].mask \/ stack[j].mask \cap stack[i].mask = {}

\* An entry is never resumed at its own join: the threads that reach the join wait
\* there for the others, and all run it together.
JoinsTogether == Settled => top.pc # top.reconv

\* The return of a kernel is run once, by all threads of the CTA.
ReturnsTogether ==
  Settled /\ top.pc # EndPC /\ code[top.pc].kind = "return" => top.mask = launched

\* The paths of a structured kernel meet where they must, at every join and at the return.
ThreadsMeet == JoinsTogether /\ ReturnsTogether

\* The controller never writes to a full stack, which would drop what is written: a
\* structured kernel needs no more entries than it has blocks.
RoomToWrite == state \in {"ModifyTop", "PushFirst", "PushSecond"} => Len(stack) < Depth

\* Every launched CTA retires.
EveryCtaRetires == launched # {} ~> launched = {}

\* A return pops the SIMT stack: its next PC matches the entry's reconvergence PC.
ReturnPops ==
  [][state = "ReadTop" /\ out_valid /\ update = Uniform(EndPC) => Decide.pop]_vars

\* Modifying the top changes the top entry and nothing else.
ModifyUpdatesTop ==
  [][state = "ModifyTop" /\ stack # <<>> =>
       Last(stack') = plan.top /\ Front(stack') = Front(stack)]_vars
=============================================================================
