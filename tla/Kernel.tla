------------------------------- MODULE Kernel -------------------------------
(***************************************************************************)
(* Kernels as the front end sees them: a p-graph (block) per program       *)
(* counter, with the branch part of its metadata, and the update that      *)
(* branch_handler derives for the SIMT stack once the predicates of the    *)
(* active threads are known.                                               *)
(***************************************************************************)
EXTENDS SimtStack

\* branch_meta_t: linear is ~branch_ena, jump is branch_uni, branch may diverge.
\* The offsets are kept as the block numbers they lead to.
Block == [kind : {"linear", "jump", "branch", "return"}, target : PC, reconv : PC]

Linear(pc) == [kind |-> "linear", target |-> pc + 1, reconv |-> pc + 1]
Jump(target) == [kind |-> "jump", target |-> target, reconv |-> target]
Branch(target, reconv) == [kind |-> "branch", target |-> target, reconv |-> reconv]
Return == [kind |-> "return", target |-> EndPC, reconv |-> EndPC]

\* Where a thread goes after the block at pc.
Successor(block, pc, taken) ==
  CASE block.kind = "linear" -> pc + 1
    [] block.kind = "jump" -> block.target
    [] block.kind = "branch" -> IF taken THEN block.target ELSE pc + 1
    [] block.kind = "return" -> EndPC

Uniform(next) == [NoUpdate EXCEPT !.next = next]

StackUpdateFor(block, pc, mask, taken) ==
  IF block.kind # "branch" \/ taken = {} \/ taken = mask
  THEN Uniform(Successor(block, pc, taken # {}))
  ELSE [diverges |-> TRUE, next |-> block.target, taken |-> taken,
        not_taken_pc |-> pc + 1, reconv |-> block.reconv]

-----------------------------------------------------------------------------
(* Kernels whose divergent regions nest.  A kernel is a function from block  *)
(* numbers to blocks, with its return last.                                  *)

Inside(code, p) == {q \in 1 .. NumBlocks : p < q /\ q < code[p].reconv}

Successors(code, q) ==
  {Successor(code[q], q, taken) : taken \in BOOLEAN}

\* Nothing that runs inside a region leaves it but to its join.
Closed(code, p) ==
  \A q \in Inside(code, p) \cup {p} :
    \A s \in Successors(code, q) : p < s /\ s <= code[p].reconv

\* A branch inside the region joins before the region does.
JoinsInside(code, p) ==
  \A q \in Inside(code, p) : code[q].kind = "branch" => code[q].reconv < code[p].reconv

Structured(code) ==
  /\ code[NumBlocks].kind = "return"
  /\ \A p \in 1 .. NumBlocks - 1 :
       /\ code[p].kind # "return"
       /\ code[p].kind = "branch" => Closed(code, p) /\ JoinsInside(code, p)

\* A structured kernel without a block that leads to itself, whose branches join before the
\* kernel ends and have something to skip.  It may loop where its threads do not diverge.
WellNested(kernel) ==
  /\ Structured(kernel)
  /\ \A p \in 1 .. NumBlocks :
       /\ p \notin Successors(kernel, p)
       /\ kernel[p].kind = "branch" =>
            /\ kernel[p].reconv <= NumBlocks
            /\ kernel[p].target # kernel[p].reconv \/ p + 1 # kernel[p].reconv

\* What the front end takes for granted when it runs the target of a branch ahead of it: a
\* path that falls through does not come there, and the target is no branch itself.
Predictable(kernel) ==
  \A p \in 1 .. NumBlocks : kernel[p].kind = "branch" =>
    kernel[p].target # p + 1 /\ kernel[kernel[p].target].kind # "branch"

\* The blocks that may stand at p in a kernel that only goes forward.  A branch has
\* something to skip: one whose two ways both start at its join is no branch.
ForwardBlocks(p) ==
  IF p = NumBlocks THEN {Return}
  ELSE {Linear(p)} \cup {Jump(q) : q \in p + 2 .. NumBlocks}
       \cup ({Branch(q, r) : q, r \in p + 1 .. NumBlocks} \ {Branch(p + 1, p + 1)})

ForwardKernels ==
  {code \in [1 .. NumBlocks -> UNION {ForwardBlocks(p) : p \in 1 .. NumBlocks}] :
     Structured(code) /\ \A p \in 1 .. NumBlocks : code[p] \in ForwardBlocks(p)}

=============================================================================
