---------------------------- MODULE MCSimtKernel ----------------------------
(***************************************************************************)
(* Kernels for TLC.                                                        *)
(***************************************************************************)
EXTENDS SimtKernel

\* Every structured kernel that only goes forward.
StructuredKernels == ForwardKernels

\* A loop on its first block, which joins at the block behind it.
LoopKernel == {<<Branch(1, 2), Return>>}

\* Three nested ifs without else.
NestedIfKernel == {<<Branch(6, 6), Branch(5, 5), Linear(3), Linear(4), Linear(5), Return>>}
=============================================================================
