----------------------------- MODULE MCMemPorts -----------------------------
(***************************************************************************)
(* Kernels for TLC.                                                        *)
(***************************************************************************)
EXTENDS MemPorts

\* A kernel whose memory e-blocks use the first two ports, as those of the compiled test
\* vectors all use all four: two stores, a store and a load, or two loads.
UniformKernel == {[num_stores |-> n, loads |-> n .. 1] : n \in 0 .. 2}

\* A kernel without stores, with loads on other ports in each of its e-blocks.
LoadKernel == {[num_stores |-> 0, loads |-> l] : l \in {{0}, {1, 2}}}

TwoKernels == {UniformKernel, LoadKernel}
=============================================================================
