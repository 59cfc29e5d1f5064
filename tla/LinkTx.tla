------------------------------- MODULE LinkTx -------------------------------
(***************************************************************************)
(* axi_link_tx and top_level_io: the stores and reads of the core, and the *)
(* answers of the control registers, become packets on the one link out of *)
(* the chip.  The header of a store is sent when its address was taken,    *)
(* and its beat, taken later, must follow it.  The host answers no store:  *)
(* top_level_io makes up the write response.  A store and an answer have   *)
(* one beat.                                                               *)
(***************************************************************************)
EXTENDS Integers, Sequences

CONSTANTS
  Value,        \* what tells one store, or one answer, from another
  WrDescDepth, WLenDepth, WDataDepth, RdDescDepth, RDescDepth, RDataDepth,
  OrderDepth,   \* tx_*_fifo_els_p
  MaxWrites     \* fake_b_max_outstanding_p

ASSUME DepthsAssumption ==
  {WrDescDepth, WLenDepth, WDataDepth, RdDescDepth, RDescDepth, RDataDepth, OrderDepth,
   MaxWrites} \subseteq Nat \ {0}

ASSUME ValueAssumption == Value # {}

\* The packets, numbered as start_req is.
WR == 0
RD == 1
RESP == 2
Kind == {WR, RD, RESP}

VARIABLES
  offers,   \* packets the crossbar offers: an address of a store or of a read
  answer,   \* the answer the control registers offer, if any
  data,     \* the crossbar: stores whose address was taken, in order, but not their beat
  wr_desc, w_len, w_data, rd_desc, r_desc, r_data, pkt_order,  \* the FIFOs
  rr_start, \* rr_start_r
  state,    \* state_r
  cur_kind, \* cur_kind_r
  cur,      \* the store or answer being sent: cur_addr_r, cur_id_r
  fake_b,   \* fake_b_count_r
  mirror    \* aw_id_mirror_fifo_i: stores that have no response yet

vars == <<offers, answer, data, wr_desc, w_len, w_data, rd_desc, r_desc, r_data, pkt_order,
          rr_start, state, cur_kind, cur, fake_b, mirror>>

\* A read carries nothing that is followed here; w_len counts the lengths, which are all one.
TypeOK ==
  /\ offers \subseteq {WR, RD}
  /\ answer \in Seq(Value) /\ Len(answer) <= 1
  /\ data \in Seq(Value)
  /\ wr_desc \in Seq(Value) /\ Len(wr_desc) <= WrDescDepth
  /\ w_len \in 0 .. WLenDepth
  /\ w_data \in Seq(Value) /\ Len(w_data) <= WDataDepth
  /\ rd_desc \in 0 .. RdDescDepth
  /\ r_desc \in Seq(Value) /\ Len(r_desc) <= RDescDepth
  /\ r_data \in Seq(Value) /\ Len(r_data) <= RDataDepth
  /\ pkt_order \in Seq(Kind) /\ Len(pkt_order) <= OrderDepth
  /\ rr_start \in Kind
  /\ state \in {"TX_IDLE", "TX_HEADER", "TX_DATA"}
  /\ cur_kind \in Kind /\ cur \in Value
  /\ fake_b \in 0 .. MaxWrites
  /\ mirror \in Seq(Value) /\ Len(mirror) <= MaxWrites

Init ==
  /\ offers = {} /\ answer = <<>> /\ data = <<>>
  /\ wr_desc = <<>> /\ w_len = 0 /\ w_data = <<>> /\ rd_desc = 0
  /\ r_desc = <<>> /\ r_data = <<>> /\ pkt_order = <<>>
  /\ rr_start = WR
  /\ state = "TX_IDLE" /\ cur_kind = WR /\ cur \in Value
  /\ fake_b = 0 /\ mirror = <<>>

-----------------------------------------------------------------------------
(* Packet start arbitration. *)

\* start_req; a store also needs a place for its response.
StartRequest(kind) ==
  /\ Len(pkt_order) < OrderDepth
  /\ CASE kind = WR -> /\ WR \in offers /\ Len(mirror) < MaxWrites
                       /\ Len(wr_desc) < WrDescDepth /\ w_len < WLenDepth
       [] kind = RD -> RD \in offers /\ rd_desc < RdDescDepth
       [] kind = RESP -> /\ answer # <<>>
                         /\ Len(r_data) < RDataDepth /\ Len(r_desc) < RDescDepth

StartGrant_Fixed == {k \in Kind : StartRequest(k) /\ \A j \in Kind : StartRequest(j) => k <= j}

\* start_grant: the first request from rr_start on.
StartGrant ==
  LET turn(k) == (k + 3 - rr_start) % 3
  IN  {k \in Kind : /\ StartRequest(k)
                    /\ \A j \in Kind : StartRequest(j) => turn(k) <= turn(j)}

Accepts(kind) == kind \in StartGrant

RrUpdate ==
  rr_start' = IF StartGrant = {} THEN rr_start ELSE ((CHOOSE k \in StartGrant : TRUE) + 1) % 3

-----------------------------------------------------------------------------
(* Capture and serializer. *)

\* wready_o: the beat of a store is taken when its address was.
WReady == Len(w_data) < WDataDepth /\ w_len > 0

\* start_wr_pkt, start_rd_pkt, start_r_pkt
StartPacket(kind) ==
  /\ state = "TX_IDLE" /\ pkt_order # <<>> /\ Head(pkt_order) = kind
  /\ CASE kind = WR -> wr_desc # <<>>
       [] kind = RD -> rd_desc > 0
       [] kind = RESP -> r_desc # <<>>

\* link_tx_v_o
LinkValid ==
  \/ state = "TX_HEADER"
  \/ state = "TX_DATA" /\ IF cur_kind = WR THEN w_data # <<>> ELSE r_data # <<>>

SerializerUpdate(handshake) ==
  /\ state' = CASE \E k \in Kind : StartPacket(k) -> "TX_HEADER"
                [] handshake /\ state = "TX_HEADER" /\ cur_kind # RD -> "TX_DATA"
                [] handshake /\ (state = "TX_DATA" \/ cur_kind = RD) -> "TX_IDLE"
                [] OTHER -> state
  /\ cur_kind' = IF \E k \in Kind : StartPacket(k) THEN Head(pkt_order) ELSE cur_kind
  /\ cur' = CASE StartPacket(WR) -> Head(wr_desc)
              [] StartPacket(RESP) -> Head(r_desc)
              [] OTHER -> cur

-----------------------------------------------------------------------------

After(fifo, taken) == IF taken THEN SubSeq(fifo, 2, Len(fifo)) ELSE fifo
With(fifo, pushed, item) == IF pushed THEN Append(fifo, item) ELSE fifo
One(b) == IF b THEN 1 ELSE 0

\* The FIFOs; w_accept: a beat of a store is taken, sent: a beat leaves.
FifoUpdate(store, w_accept, sent) ==
  /\ wr_desc' = With(After(wr_desc, StartPacket(WR)), Accepts(WR), store)
  /\ w_len' = w_len + One(Accepts(WR)) - One(w_accept)
  /\ w_data' = With(After(w_data, sent /\ cur_kind = WR), w_accept, Head(data))
  /\ rd_desc' = rd_desc + One(Accepts(RD)) - One(StartPacket(RD))
  /\ r_desc' = With(After(r_desc, StartPacket(RESP)), Accepts(RESP), Head(answer))
  /\ r_data' = With(After(r_data, sent /\ cur_kind # WR), Accepts(RESP), Head(answer))
  /\ pkt_order' = After(pkt_order, \E k \in Kind : StartPacket(k))
                    \o (IF StartGrant = {} THEN <<>> ELSE <<CHOOSE k \in StartGrant : TRUE>>)

BValid_Early == mirror # <<>>

\* rx_bvalid_o
BValid == fake_b > 0 /\ mirror # <<>>

ResponseUpdate_PopWins(store, w_accept, b_ready) ==
  /\ fake_b' = IF BValid /\ b_ready THEN fake_b - 1 ELSE fake_b + One(w_accept)
  /\ mirror' = With(After(mirror, BValid /\ b_ready), Accepts(WR), store)

ResponseUpdate(store, w_accept, b_ready) ==
  /\ fake_b' = fake_b + One(w_accept) - One(BValid /\ b_ready)
  /\ mirror' = With(After(mirror, BValid /\ b_ready), Accepts(WR), store)

\* One clock; store: the store whose address is accepted, w_valid: the crossbar shows the next
\* beat, new: packets newly offered, read: an answer newly offered.
Cycle(store, w_valid, new, read, link_ready, b_ready) ==
  LET w_accept == w_valid /\ WReady
      handshake == LinkValid /\ link_ready
  IN  /\ w_valid => data # <<>>
      /\ read # <<>> => answer = <<>>
      /\ offers' = (offers \ StartGrant) \cup new
      /\ answer' = After(answer, Accepts(RESP)) \o read
      /\ data' = With(After(data, w_accept), Accepts(WR), store)
      /\ RrUpdate
      /\ FifoUpdate(store, w_accept, handshake /\ state = "TX_DATA")
      /\ SerializerUpdate(handshake)
      /\ ResponseUpdate(store, w_accept, b_ready)

\* What may happen in a clock; a value nothing looks at in this clock is not varied.
If(b) == IF b THEN BOOLEAN ELSE {FALSE}
Stores == IF Accepts(WR) THEN Value ELSE {CHOOSE v \in Value : TRUE}
Offered == SUBSET {k \in {WR, RD} : k \notin offers \/ Accepts(k)}
Read == IF answer = <<>> THEN {<<>>} \cup {<<v>> : v \in Value} ELSE {<<>>}

BeatWaits == data # <<>> /\ WReady

Next ==
  \E store \in Stores, new \in Offered, read \in Read,
     w_valid \in If(BeatWaits), link_ready \in If(LinkValid), b_ready \in If(BValid) :
    Cycle(store, w_valid, new, read, link_ready, b_ready)

Spec == Init /\ [][Next]_vars

-----------------------------------------------------------------------------
(* Properties. *)

Sending(kind) == IF state # "TX_IDLE" /\ cur_kind = kind THEN <<cur>> ELSE <<>>

\* The beats of the stores come behind their own headers: those that were taken and those
\* that are still to come are those of the headers still to be finished, in this order.
DataFollowsHeader == w_data \o data = Sending(WR) \o wr_desc

\* The same of answers, whose beat is taken with the descriptor.
AnswersFollowHeader == r_data = Sending(RESP) \o r_desc

\* A store gets one response, when its beat was taken: the stores without a response are
\* those whose beat was not taken and those a response is owed to.
OneResponse == Len(mirror) = Len(data) + fake_b

\* Each store and each answer on the link is a header, its own beat and, for a store, one
\* response, whatever comes between.
BeatsMatch == DataFollowsHeader /\ AnswersFollowHeader /\ OneResponse

\* A kind that was granted gives way to one that waits, so that no kind that may be granted is
\* passed over more than twice.
GivesWay ==
  [][\A j, k \in Kind :
       j # k /\ k \in StartGrant /\ StartRequest(j) /\ StartRequest(j)' => k \notin StartGrant']_vars
=============================================================================
