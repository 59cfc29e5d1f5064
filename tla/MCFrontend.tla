----------------------------- MODULE MCFrontend -----------------------------
(***************************************************************************)
(* Kernels for TLC.                                                        *)
(***************************************************************************)
EXTENDS Frontend

\* Two predicate registers, used in turn.
Alternating == [p \in 1 .. NumBlocks |-> p % 2]

\* An if with an else, and an if around an if.  No branch leads to a branch.
PlainKernels ==
  {<<Linear(1), Branch(4, 5), Jump(5), Linear(4), Return>>,
   <<Branch(5, 5), Branch(4, 4), Linear(3), Linear(4), Return>>}

\* They are among the kernels that the theorems of Frontend_proofs are about.
ASSUME PlainKernelsAssumption ==
  Kernels = PlainKernels =>
    /\ \A kernel \in Kernels : WellNested(kernel) /\ Predictable(kernel)
    /\ NumBlocks <= Depth

\* A loop of two blocks.
LoopKernel == {<<Linear(1), Branch(1, 3), Return>>}
=============================================================================
