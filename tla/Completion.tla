----------------------------- MODULE Completion -----------------------------
(***************************************************************************)
(* A CTA, the link out of the chip and the test bench on the other side.   *)
(* A store is done for the core when its address and its beat have left    *)
(* the core, long before the host has it; the CTA completes when its       *)
(* stores are done; and the host, which reads of the completion in the     *)
(* answer to a poll, then looks at its memory.  Nothing but the order of   *)
(* the one link makes the results be there.                                *)
(***************************************************************************)
EXTENDS LinkTx, WriteCheck

CONSTANTS
  MaxStores,   \* stores the CTA makes
  MaxExpected  \* writes that are expected of it

ASSUME StoresAssumption == MaxStores \in Nat /\ MaxExpected \in Nat
ASSUME WriteAssumption == Write = Value /\ {0, 1} \subseteq Value

VARIABLES
  stored,    \* the stores of the CTA whose address was taken
  complete,  \* complete_sticky_r
  arrived,   \* stores that came over the link and are not recorded yet
  told       \* the host has read of the completion

run_vars == <<vars, check_vars, stored, complete, arrived, told>>

RunTypeOK ==
  /\ TypeOK /\ CheckTypeOK
  /\ stored \in Seq(Value) /\ Len(stored) <= MaxStores
  /\ complete \in BOOLEAN /\ told \in BOOLEAN
  /\ arrived \in Seq(Value)

RunInit ==
  /\ Init /\ CheckInit(MaxExpected)
  /\ stored = <<>> /\ complete = FALSE /\ arrived = <<>> /\ told = FALSE

-----------------------------------------------------------------------------

\* The stores of the CTA, with the one whose address is offered.
Issued == Len(stored) + One(WR \in offers)

\* What the core offers anew: stores until it is complete, and reads.
NewOffers == {new \in Offered : WR \in new => ~complete /\ Issued < MaxStores}

MayComplete_BeatsOnly == ~complete /\ data = <<>>

\* No e-block is left, so every store has been retired: address and beat were taken.
MayComplete == ~complete /\ WR \notin offers /\ data = <<>>

\* A poll is answered with the completion flag; the host polls until it is set.
Answer(polled) == IF polled THEN <<One(complete)>> ELSE <<>>

\* The host takes a flit, and it is the beat of a packet of this kind.
BeatSent(kind, link_ready) == LinkValid /\ link_ready /\ state = "TX_DATA" /\ cur_kind = kind

Tells(link_ready) == BeatSent(RESP, link_ready) /\ Head(r_data) = 1

\* The memory of the test bench takes a store when it can.
Records(records) ==
  IF records THEN arrived # <<>> /\ RecordWrite(Head(arrived)) ELSE UNCHANGED check_vars

Arrivals_Kept(records, link_ready) ==
  arrived \o (IF BeatSent(WR, link_ready) THEN <<Head(w_data)>> ELSE <<>>)

\* Stores wait at the endpoint of the test bench, in order.
Arrivals(records, link_ready) ==
  After(arrived, records) \o (IF BeatSent(WR, link_ready) THEN <<Head(w_data)>> ELSE <<>>)

\* One clock.
RunCycle(store, w_valid, new, polled, link_ready, completes, records) ==
  /\ Cycle(store, w_valid, new, Answer(polled), link_ready, TRUE)
  /\ completes => MayComplete /\ WR \notin new
  /\ stored' = With(stored, Accepts(WR), store)
  /\ complete' = (complete \/ completes)
  /\ arrived' = Arrivals(records, link_ready)
  /\ told' = (told \/ Tells(link_ready))
  /\ Records(records)

\* The host has read of the completion and given its endpoint time to record what came: it
\* asks for the verdict.
Check ==
  /\ told /\ arrived = <<>> /\ verdict = "none"
  /\ CheckDone
  /\ UNCHANGED <<vars, stored, complete, arrived, told>>

\* The chip goes on, also behind the verdict.
Runs ==
  \E store \in Stores, w_valid \in If(BeatWaits), new \in NewOffers,
     polled \in If(answer = <<>> /\ ~told), link_ready \in If(LinkValid),
     completes \in If(MayComplete), records \in If(arrived # <<>>) :
    RunCycle(store, w_valid, new, polled, link_ready, completes, records)

RunNext == Runs \/ Check

RunSpec == RunInit /\ [][RunNext]_run_vars

-----------------------------------------------------------------------------
(* Properties. *)

\* The stores come out of the chip once each and in the order their addresses were taken,
\* and those that are not recorded are on their way.
StoresOnTheWay == stored = actual \o arrived \o w_data \o data

\* When the host reads of the completion, every store of the CTA has come to it, although
\* the core counted a store as done when it entered the link.
CompletionBehindStores == told => stored = actual \o arrived

\* The verdict is about the CTA: it passes exactly the runs that made the expected stores,
\* each as often as it is expected, or of which nothing is expected.
VerdictRight ==
  verdict # "none" =>
    (verdict = "pass" <=> expected = <<>> \/ SameWrites(stored, expected))

\* tb_mini_dice checks when it sees the completion in the chip, and takes writes that are
\* missing then for a failure.
CleanAtComplete ==
  complete /\ SameWrites(stored, expected) => Missing = {} /\ errors = 0
=============================================================================
