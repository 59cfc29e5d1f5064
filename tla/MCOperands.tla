---------------------------- MODULE MCOperands ----------------------------
(***************************************************************************)
(* Instances of Operands for TLC.  The e-blocks are the kinds of program   *)
(* that can meet in the scoreboard: loads, uses of what was loaded, a use  *)
(* that loads another register, a use in place, and masks of different     *)
(* threads.                                                                *)
(***************************************************************************)
EXTENDS Operands

Block(mask, inputs, dests, outs, cta) ==
  [mask |-> mask, inputs |-> inputs, dests |-> dests, outs |-> outs, cta |-> cta]

\* Loads of x, of y after x, and uses of both, with writes of y, and of x in place.
LoadBlocks ==
  {Block(Thread, {}, {"x"}, {"y"}, 0), Block({0}, {}, {"x"}, {}, 0),
   Block(Thread, {"x"}, {"y"}, {}, 0), Block(Thread, {"x", "y"}, {}, {}, 0),
   Block({0, 1}, {"y"}, {}, {}, 0), Block(Thread, {"x"}, {}, {"x"}, 0)}

\* A load, and a use that writes its result to the register it reads (x = x + 1).
InPlaceBlocks == {Block(Thread, {}, {"x"}, {}, 0), Block(Thread, {"x"}, {}, {"x"}, 0)}

\* Two CTAs that load x and use it.
CtaBlocks ==
  {Block(Thread, {}, {"x"}, {}, c) : c \in {0, 1}}
    \cup {Block(Thread, {"x"}, {}, {}, c) : c \in {0, 1}}
=============================================================================
