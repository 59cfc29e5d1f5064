----------------------------- MODULE KernelRun -----------------------------
(***************************************************************************)
(* What the front end promises, without a stack, a fetch or a prediction:  *)
(* a block is run for threads of the CTA whose own path stands at it, each *)
(* of them goes on along its own path, and the CTA is retired when all of  *)
(* them have returned.                                                     *)
(***************************************************************************)
EXTENDS Kernel

CONSTANT Kernels  \* the kernels a CTA may run

VARIABLES
  code,      \* the kernel: a block for every program counter
  launched,  \* threads of the running CTA, none if no CTA runs
  tpc        \* each thread's own program counter

run_vars == <<code, launched, tpc>>

At(p) == {t \in launched : tpc[t] = p}

Advance(p, threads, taken) ==
  [t \in Thread |-> IF t \in threads THEN Successor(code[p], p, t \in taken) ELSE tpc[t]]

RunInit ==
  /\ code \in Kernels
  /\ launched = {}
  /\ tpc = [t \in Thread |-> EndPC]

RunLaunch ==
  /\ launched = {}
  /\ \E threads \in 1 .. NumThreads :
       /\ launched' = 0 .. threads - 1
       /\ tpc' = [t \in Thread |-> IF t < threads THEN 1 ELSE EndPC]
  /\ UNCHANGED code

RunBlock ==
  /\ \E p \in 1 .. NumBlocks : \E threads \in (SUBSET At(p)) \ {{}} :
       \E taken \in SUBSET threads : tpc' = Advance(p, threads, taken)
  /\ UNCHANGED <<code, launched>>

RunRetire ==
  /\ launched # {} /\ launched = At(EndPC)
  /\ launched' = {}
  /\ UNCHANGED <<code, tpc>>

RunNext == RunLaunch \/ RunBlock \/ RunRetire

RunSpec == RunInit /\ [][RunNext]_run_vars
=============================================================================
