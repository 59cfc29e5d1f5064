--------------------------- MODULE LinkTx_proofs ---------------------------
(***************************************************************************)
(* For any depths of the FIFOs and any values: on the link a header is     *)
(* followed by its own beat, and a store gets one response.                *)
(***************************************************************************)
EXTENDS LinkTx, SequenceTheorems, TLAPS

\* The inductive invariant: the lengths are those of the stores whose beat is to come, and
\* only a store or an answer has a beat.
Inv ==
  /\ TypeOK /\ DataFollowsHeader /\ AnswersFollowHeader /\ OneResponse
  /\ w_len = Len(data)
  /\ state = "TX_DATA" => cur_kind # RD

-----------------------------------------------------------------------------
(* Sequences. *)

LEMMA OneOrNone ==
  ASSUME NEW b \in BOOLEAN
  PROVE  One(b) \in 0 .. 1 /\ (b => One(b) = 1) /\ (~b => One(b) = 0)
BY DEF One

LEMMA AfterSeq ==
  ASSUME NEW S, NEW s \in Seq(S), NEW taken \in BOOLEAN, taken => s # <<>>
  PROVE  /\ After(s, taken) \in Seq(S)
         /\ Len(After(s, taken)) = Len(s) - One(taken)
<1>1. CASE taken
  <2>1. After(s, taken) = Tail(s)
    BY <1>1, TailIsSubSeq DEF After
  <2>2. One(taken) = 1
    BY <1>1 DEF One
  <2> QED
    BY <1>1, <2>1, <2>2, HeadTailProperties
<1>2. CASE ~taken
  BY <1>2, LenProperties DEF After, One
<1> QED
  BY <1>1, <1>2

LEMMA WithSeq ==
  ASSUME NEW S, NEW s \in Seq(S), NEW pushed \in BOOLEAN, NEW item, pushed => item \in S
  PROVE  /\ With(s, pushed, item) \in Seq(S)
         /\ Len(With(s, pushed, item)) = Len(s) + One(pushed)
<1>1. CASE pushed
  <2>1. With(s, pushed, item) = Append(s, item) /\ One(pushed) = 1
    BY <1>1 DEF With, One
  <2>2. item \in S
    BY <1>1
  <2>3. Append(s, item) \in Seq(S) /\ Len(Append(s, item)) = Len(s) + 1
    BY <2>2, AppendProperties
  <2> QED
    BY <2>1, <2>3
<1>2. CASE ~pushed
  BY <1>2, LenProperties DEF With, One
<1> QED
  BY <1>1, <1>2

\* The first of two sequences gives the first element of both.
LEMMA AfterConcat ==
  ASSUME NEW S, NEW s \in Seq(S), NEW t \in Seq(S), NEW taken \in BOOLEAN, taken => s # <<>>
  PROVE  After(s \o t, taken) = After(s, taken) \o t
<1>1. CASE taken
  <2>1. s \o t \in Seq(S) /\ s \o t # <<>>
    BY <1>1, ConcatProperties, ConcatEqualIffEmpty, EmptySeq
  <2>2. After(s, taken) = Tail(s) /\ After(s \o t, taken) = Tail(s \o t)
    BY <1>1, <2>1, TailIsSubSeq DEF After
  <2>3. Tail(s \o t) = Tail(s) \o t
    BY <1>1, <2>1
  <2> QED
    BY <2>2, <2>3
<1>2. CASE ~taken
  BY <1>2 DEF After
<1> QED
  BY <1>1, <1>2

\* What moves from the front of the second sequence to the end of the first stays in place.
LEMMA HeadMoves ==
  ASSUME NEW S, NEW s \in Seq(S), NEW t \in Seq(S), NEW moved \in BOOLEAN, moved => t # <<>>
  PROVE  With(s, moved, Head(t)) \o After(t, moved) = s \o t
<1>1. CASE moved
  <2>1. Head(t) \in S /\ Tail(t) \in Seq(S) /\ t = <<Head(t)>> \o Tail(t)
    BY <1>1, HeadTailProperties
  <2>2. With(s, moved, Head(t)) = s \o <<Head(t)>>
    BY <1>1, <2>1, AppendIsConcat DEF With
  <2>3. After(t, moved) = Tail(t)
    BY <1>1, TailIsSubSeq DEF After
  <2>4. (s \o <<Head(t)>>) \o Tail(t) = s \o (<<Head(t)>> \o Tail(t))
    BY <2>1, ConcatAssociative
  <2> QED
    BY <2>1, <2>2, <2>3, <2>4
<1>2. CASE ~moved
  BY <1>2 DEF With, After
<1> QED
  BY <1>1, <1>2

LEMMA WithConcat ==
  ASSUME NEW S, NEW s \in Seq(S), NEW t \in Seq(S), NEW pushed \in BOOLEAN, NEW item,
         pushed => item \in S
  PROVE  s \o With(t, pushed, item) = With(s \o t, pushed, item)
<1>1. CASE pushed
  <2>1. s \o t \in Seq(S)
    BY ConcatProperties
  <2>2. With(t, pushed, item) = t \o <<item>> /\ With(s \o t, pushed, item) = (s \o t) \o <<item>>
    BY <1>1, <2>1, AppendIsConcat DEF With
  <2>3. (s \o t) \o <<item>> = s \o (t \o <<item>>)
    BY <1>1, ConcatAssociative
  <2> QED
    BY <2>2, <2>3
<1>2. CASE ~pushed
  BY <1>2 DEF With
<1> QED
  BY <1>1, <1>2
-----------------------------------------------------------------------------
(* One clock. *)

\* A packet of each kind starts only if its descriptor is there.
LEMMA Starts ==
  ASSUME TypeOK
  PROVE  /\ \A k \in Kind : StartPacket(k) \in BOOLEAN
         /\ \A k \in Kind : StartPacket(k) => /\ pkt_order # <<>> /\ state = "TX_IDLE"
                                              /\ k = Head(pkt_order)
         /\ StartPacket(WR) => wr_desc # <<>>
         /\ StartPacket(RD) => rd_desc > 0
         /\ StartPacket(RESP) => r_desc # <<>>
BY DEF StartPacket, Kind, WR, RD, RESP

\* What is granted was requested, and leaves room.
LEMMA Grants ==
  ASSUME TypeOK
  PROVE  /\ StartGrant \subseteq Kind
         /\ \A k \in Kind : Accepts(k) \in BOOLEAN
         /\ StartGrant # {} => Len(pkt_order) < OrderDepth
         /\ Accepts(WR) => /\ Len(mirror) < MaxWrites /\ Len(wr_desc) < WrDescDepth
                           /\ w_len < WLenDepth
         /\ Accepts(RD) => rd_desc < RdDescDepth
         /\ Accepts(RESP) => /\ answer # <<>>
                             /\ Len(r_data) < RDataDepth /\ Len(r_desc) < RDescDepth
<1>1. \A k \in StartGrant : k \in Kind /\ StartRequest(k)
  BY DEF StartGrant
<1>2. \A k \in Kind : Accepts(k) \in BOOLEAN
  BY DEF Accepts
<1>3. StartGrant # {} => Len(pkt_order) < OrderDepth
  BY <1>1 DEF StartRequest
<1>4. StartRequest(WR) => /\ Len(mirror) < MaxWrites /\ Len(wr_desc) < WrDescDepth
                          /\ w_len < WLenDepth
  BY DEF StartRequest, WR, RD, RESP
<1>5. StartRequest(RD) => rd_desc < RdDescDepth
  BY DEF StartRequest, WR, RD, RESP
<1>6. StartRequest(RESP) => /\ answer # <<>>
                            /\ Len(r_data) < RDataDepth /\ Len(r_desc) < RDescDepth
  BY DEF StartRequest, WR, RD, RESP
<1> QED
  BY <1>1, <1>2, <1>3, <1>4, <1>5, <1>6 DEF Accepts

\* The packet that is being sent and those that wait, as the link takes a beat of a packet
\* or the serializer starts one.
LEMMA SendingStep ==
  ASSUME TypeOK, state = "TX_DATA" => cur_kind # RD, NEW handshake \in BOOLEAN,
         handshake => LinkValid, SerializerUpdate(handshake), NEW k \in {WR, RESP},
         NEW desc \in Seq(Value),
         StartPacket(k) => desc # <<>> /\ cur' = Head(desc)
  PROVE  LET sent == handshake /\ state = "TX_DATA" /\ cur_kind = k
         IN  Sending(k)' \o After(desc, StartPacket(k)) = After(Sending(k) \o desc, sent)
<1> DEFINE sent == handshake /\ state = "TX_DATA" /\ cur_kind = k
           some == \E j \in Kind : StartPacket(j)
<1>1. k \in Kind /\ k # RD
  BY DEF Kind, WR, RD, RESP
<1>2. CASE StartPacket(k)
  <2>1. state = "TX_IDLE" /\ some /\ Head(pkt_order) = k
    BY <1>1, <1>2, Starts
  <2>2. state' = "TX_HEADER" /\ cur_kind' = k /\ cur' = Head(desc) /\ desc # <<>>
    BY <1>2, <2>1 DEF SerializerUpdate, LinkValid
  <2>3. Sending(k)' = <<Head(desc)>> /\ Sending(k) = <<>> /\ ~sent
    BY <2>1, <2>2 DEF Sending
  <2>4. After(desc, TRUE) = Tail(desc) /\ desc = <<Head(desc)>> \o Tail(desc)
    BY <2>2, TailIsSubSeq, HeadTailProperties DEF After
  <2>5. After(Sending(k) \o desc, FALSE) = desc
    BY <2>3, ConcatEmptySeq DEF After
  <2> QED
    BY <1>2, <2>3, <2>4, <2>5
<1>3. CASE ~StartPacket(k) /\ some
  <2>1. PICK j \in Kind : StartPacket(j)
    BY <1>3
  <2>2. state = "TX_IDLE" /\ j = Head(pkt_order) /\ j # k
    BY <1>3, <2>1, Starts
  <2>3. Sending(k) = <<>> /\ Sending(k)' = <<>> /\ ~sent
    BY <1>3, <2>1, <2>2 DEF SerializerUpdate, Sending
  <2> QED
    BY <1>3, <2>3, ConcatEmptySeq DEF After
<1>4. CASE ~some
  <2>1. ~StartPacket(k) /\ cur_kind' = cur_kind
    BY <1>1, <1>4 DEF SerializerUpdate
  <2>2. cur' = cur
    BY <1>4 DEF SerializerUpdate, Kind
  <2>3. CASE sent
    <3>1. state' = "TX_IDLE"
      BY <1>4, <2>3 DEF SerializerUpdate
    <3>2. Sending(k) = <<cur>> /\ Sending(k)' = <<>>
      BY <2>3, <3>1 DEF Sending
    <3>3. After(<<cur>> \o desc, TRUE) = After(<<cur>>, TRUE) \o desc
      BY AfterConcat, cur \in Value, <<cur>> \in Seq(Value), <<cur>> # <<>> DEF TypeOK
    <3>4. After(<<cur>>, TRUE) = <<>>
      BY DEF After
    <3> QED
      BY <2>1, <2>3, <3>2, <3>3, <3>4 DEF After
  <2>4. CASE ~sent
    <3>1. (state # "TX_IDLE" /\ cur_kind = k) <=> (state' # "TX_IDLE" /\ cur_kind' = k)
      <4>1. CASE cur_kind # k
        BY <2>1, <4>1
      <4>2. CASE cur_kind = k
        BY <1>1, <1>4, <2>1, <2>4, <4>2 DEF SerializerUpdate, TypeOK
      <4> QED
        BY <4>1, <4>2
    <3>2. Sending(k)' = Sending(k)
      BY <2>1, <2>2, <3>1 DEF Sending
    <3> QED
      BY <2>1, <2>4, <3>2 DEF After
  <2> QED
    BY <2>3, <2>4
<1> QED
  BY <1>2, <1>3, <1>4

\* A clock in which a beat of a store is taken or not, and the link takes a flit or not.
ClockOf(store, new, read, w_accept, handshake, b_ready) ==
  /\ store \in Value /\ new \subseteq {WR, RD} /\ read \in {<<>>} \cup {<<v>> : v \in Value}
  /\ w_accept \in BOOLEAN /\ handshake \in BOOLEAN /\ b_ready \in BOOLEAN
  /\ w_accept => data # <<>> /\ WReady
  /\ handshake => LinkValid
  /\ read # <<>> => answer = <<>>
  /\ offers' = (offers \ StartGrant) \cup new
  /\ answer' = After(answer, Accepts(RESP)) \o read
  /\ data' = With(After(data, w_accept), Accepts(WR), store)
  /\ RrUpdate
  /\ FifoUpdate(store, w_accept, handshake /\ state = "TX_DATA")
  /\ SerializerUpdate(handshake)
  /\ ResponseUpdate(store, w_accept, b_ready)

LEMMA NextIsClock ==
  ASSUME Next
  PROVE  \E store, new, read, w_accept, handshake, b_ready :
           ClockOf(store, new, read, w_accept, handshake, b_ready)
<1>1. PICK store \in Stores, new \in Offered, read \in Read, w_valid \in If(BeatWaits),
           link_ready \in If(LinkValid), b_ready \in If(BValid) :
        Cycle(store, w_valid, new, read, link_ready, b_ready)
  BY DEF Next
<1>2. store \in Value
  BY ValueAssumption DEF Stores
<1>3. new \subseteq {WR, RD} /\ read \in {<<>>} \cup {<<v>> : v \in Value}
  BY DEF Offered, Read
<1>4. w_valid \in BOOLEAN /\ link_ready \in BOOLEAN /\ b_ready \in BOOLEAN
  BY DEF If
<1>5. ClockOf(store, new, read, w_valid /\ WReady, LinkValid /\ link_ready, b_ready)
  BY <1>1, <1>2, <1>3, <1>4 DEF ClockOf, Cycle
<1> QED
  BY <1>5

\* A FIFO that is popped only if it is not empty, and pushed only if it has room.
LEMMA FifoStep ==
  ASSUME NEW S, NEW s \in Seq(S), NEW depth \in Nat, Len(s) <= depth,
         NEW taken \in BOOLEAN, taken => s # <<>>,
         NEW pushed \in BOOLEAN, NEW item, pushed => item \in S /\ Len(s) < depth
  PROVE  /\ With(After(s, taken), pushed, item) \in Seq(S)
         /\ Len(With(After(s, taken), pushed, item)) = Len(s) - One(taken) + One(pushed)
         /\ Len(With(After(s, taken), pushed, item)) <= depth
<1> DEFINE rest == After(s, taken)
           next == With(rest, pushed, item)
<1>1. rest \in Seq(S) /\ Len(rest) = Len(s) - One(taken)
  BY AfterSeq
<1>2. pushed => item \in S
  OBVIOUS
<1> HIDE DEF rest
<1>3. next \in Seq(S) /\ Len(next) = Len(rest) + One(pushed)
  BY <1>1, <1>2, WithSeq
<1> HIDE DEF next
<1>4. Len(s) \in Nat /\ Len(rest) \in Nat
  BY <1>1, LenProperties
<1>5. Len(next) = Len(s) - One(taken) + One(pushed) /\ Len(next) <= depth
  BY <1>1, <1>3, <1>4, OneOrNone
<1> QED
  BY <1>3, <1>5 DEF rest, next

\* What the control registers offer.
LEMMA AnswerStep ==
  ASSUME Inv, NEW store, NEW new, NEW read, NEW w_accept, NEW handshake, NEW b_ready,
         ClockOf(store, new, read, w_accept, handshake, b_ready)
  PROVE  answer' \in Seq(Value) /\ Len(answer') <= 1
<1>1. /\ TypeOK /\ Accepts(RESP) \in BOOLEAN /\ (Accepts(RESP) => answer # <<>>)
  BY Grants DEF Inv, Kind
<1>2. read \in Seq(Value) /\ Len(read) \in 0 .. 1 /\ (read = <<>> => Len(read) = 0)
  <2>1. CASE read = <<>>
    BY <2>1
  <2>2. ASSUME NEW v \in Value, read = <<v>>
        PROVE  read \in Seq(Value) /\ Len(read) = 1 /\ read # <<>>
    BY <2>2
  <2> QED
    BY <2>1, <2>2 DEF ClockOf
<1>3. /\ answer \in Seq(Value) /\ Len(answer) \in 0 .. 1 /\ (read # <<>> => Len(answer) = 0)
  <2>1. answer \in Seq(Value) /\ Len(answer) <= 1 /\ Len(answer) \in Nat
    BY <1>1 DEF TypeOK
  <2>2. read # <<>> => answer = <<>>
    BY DEF ClockOf
  <2>3. Len(<<>>) = 0
    OBVIOUS
  <2> QED
    BY <2>1, <2>2, <2>3
<1> DEFINE rest == After(answer, Accepts(RESP))
           taken == One(Accepts(RESP))
<1>4. rest \in Seq(Value) /\ Len(rest) = Len(answer) - taken
  BY <1>1, <1>3, AfterSeq
<1>5. answer' = rest \o read
  BY DEF ClockOf
<1>6. taken \in 0 .. 1
  BY <1>1, OneOrNone
<1> HIDE DEF rest, taken
<1> DEFINE held == Len(answer)
           offered == Len(read)
<1>7. answer' \in Seq(Value) /\ Len(answer') = Len(rest) + offered
  BY <1>2, <1>4, <1>5, ConcatProperties
<1>8. held \in 0 .. 1 /\ offered \in 0 .. 1 /\ (held = 0 \/ offered = 0)
  BY <1>2, <1>3
<1>9. Len(answer') = (held - taken) + offered
  BY <1>4, <1>7
<1> HIDE DEF held, offered
<1> QED
  BY <1>6, <1>7, <1>8, <1>9

\* The stores on their way, and the responses owed for them.
LEMMA StoreStep ==
  ASSUME Inv, NEW store, NEW new, NEW read, NEW w_accept, NEW handshake, NEW b_ready,
         ClockOf(store, new, read, w_accept, handshake, b_ready)
  PROVE  /\ data' \in Seq(Value) /\ w_len' = Len(data') /\ w_len' \in 0 .. WLenDepth
         /\ mirror' \in Seq(Value) /\ Len(mirror') <= MaxWrites
         /\ fake_b' \in 0 .. MaxWrites
         /\ OneResponse'
<1> DEFINE pop == BValid /\ b_ready
           accepts == Accepts(WR)
<1>1. TypeOK /\ w_accept \in BOOLEAN /\ store \in Value
  BY DEF Inv, ClockOf
<1>2. accepts \in BOOLEAN /\ (accepts => Len(mirror) < MaxWrites /\ w_len < WLenDepth)
  BY <1>1, Grants DEF Kind
<1>3. WLenDepth \in Nat /\ MaxWrites \in Nat
  BY DepthsAssumption
<1>4. w_len = Len(data) /\ w_len \in 0 .. WLenDepth
  BY DEF Inv, TypeOK
<1>5. pop \in BOOLEAN /\ (pop => fake_b > 0 /\ mirror # <<>>)
  BY DEF ClockOf, BValid
<1>6. w_accept => data # <<>> /\ w_len > 0
  BY DEF ClockOf, WReady
<1>7. fake_b \in 0 .. MaxWrites /\ Len(mirror) = Len(data) + fake_b
  BY DEF Inv, OneResponse, TypeOK
<1>8. data' = With(After(data, w_accept), accepts, store)
  BY DEF ClockOf
<1>9. w_len' = w_len + One(accepts) - One(w_accept)
  BY DEF ClockOf, FifoUpdate
<1>10. /\ fake_b' = fake_b + One(w_accept) - One(pop)
       /\ mirror' = With(After(mirror, pop), accepts, store)
  BY DEF ClockOf, ResponseUpdate
<1> HIDE DEF pop, accepts
<1>11. data' \in Seq(Value) /\ Len(data') = Len(data) - One(w_accept) + One(accepts)
  <2>1. data \in Seq(Value) /\ Len(data) <= WLenDepth
    BY <1>1, <1>3, <1>4 DEF TypeOK
  <2>2. accepts => store \in Value /\ Len(data) < WLenDepth
    BY <1>1, <1>2, <1>4
  <2>3. w_accept => data # <<>>
    BY <1>6
  <2> QED
    BY <1>1, <1>2, <1>3, <1>8, <2>1, <2>2, <2>3, FifoStep
<1>12. /\ mirror' \in Seq(Value) /\ Len(mirror') <= MaxWrites
       /\ Len(mirror') = Len(mirror) - One(pop) + One(accepts)
  <2>1. mirror \in Seq(Value) /\ Len(mirror) <= MaxWrites
    BY <1>1 DEF TypeOK
  <2>2. accepts => store \in Value /\ Len(mirror) < MaxWrites
    BY <1>1, <1>2
  <2>3. pop => mirror # <<>>
    BY <1>5
  <2> QED
    BY <1>2, <1>3, <1>5, <1>10, <2>1, <2>2, <2>3, FifoStep
<1>13. One(accepts) \in 0 .. 1 /\ One(w_accept) \in 0 .. 1 /\ One(pop) \in 0 .. 1
  BY <1>1, <1>2, <1>5, OneOrNone
<1>14. w_len' = Len(data') /\ w_len' \in 0 .. WLenDepth
  BY <1>1, <1>2, <1>3, <1>4, <1>6, <1>9, <1>11, <1>13, OneOrNone
<1>15. Len(mirror') = Len(data') + fake_b'
  <2>1. Len(data) \in Int /\ fake_b \in Int /\ Len(mirror) = Len(data) + fake_b
    BY <1>3, <1>4, <1>7
  <2>2. One(accepts) \in Int /\ One(w_accept) \in Int /\ One(pop) \in Int
    BY <1>13
  <2>3. /\ Len(mirror') = Len(mirror) - One(pop) + One(accepts)
        /\ Len(data') = Len(data) - One(w_accept) + One(accepts)
        /\ fake_b' = fake_b + One(w_accept) - One(pop)
    BY <1>10, <1>11, <1>12
  <2> QED
    BY <2>1, <2>2, <2>3
<1>16. fake_b' \in Int /\ fake_b' >= 0
  BY <1>1, <1>3, <1>5, <1>7, <1>10, <1>13, OneOrNone
<1>17. Len(mirror') \in Nat /\ Len(data') \in Nat
  BY <1>11, <1>12, LenProperties
<1>18. fake_b' \in 0 .. MaxWrites
  BY <1>3, <1>12, <1>15, <1>16, <1>17
<1> QED
  BY <1>11, <1>12, <1>14, <1>15, <1>18 DEF OneResponse

\* The serializer, and what it takes: a beat that leaves was there.
LEMMA SerializerStep ==
  ASSUME Inv, NEW store, NEW new, NEW read, NEW w_accept, NEW handshake, NEW b_ready,
         ClockOf(store, new, read, w_accept, handshake, b_ready)
  PROVE  /\ state' \in {"TX_IDLE", "TX_HEADER", "TX_DATA"}
         /\ cur_kind' \in Kind /\ cur' \in Value
         /\ state' = "TX_DATA" => cur_kind' # RD
         /\ StartPacket(WR) => cur' = Head(wr_desc)
         /\ StartPacket(RESP) => cur' = Head(r_desc)
<1> DEFINE some == \E k \in Kind : StartPacket(k)
<1>1. TypeOK /\ (state = "TX_DATA" => cur_kind # RD)
  BY DEF Inv
<1>2. SerializerUpdate(handshake) /\ (handshake => LinkValid)
  BY DEF ClockOf
<1>3. some => state = "TX_IDLE" /\ Head(pkt_order) \in Kind
  BY <1>1, Starts
<1>4. handshake => state # "TX_IDLE"
  BY <1>2 DEF LinkValid
<1>5. ~(StartPacket(WR) /\ StartPacket(RESP))
  BY <1>1, Starts DEF Kind, WR, RD, RESP
<1>6. state' \in {"TX_IDLE", "TX_HEADER", "TX_DATA"}
  BY <1>1, <1>2 DEF SerializerUpdate, TypeOK
<1>7. cur_kind' \in Kind
  BY <1>1, <1>2, <1>3 DEF SerializerUpdate, TypeOK
<1>8. StartPacket(WR) => cur' = Head(wr_desc)
  BY <1>2, <1>5 DEF SerializerUpdate
<1>9. StartPacket(RESP) => cur' = Head(r_desc)
  BY <1>2, <1>5 DEF SerializerUpdate
<1>10. cur' \in Value
  <2>1. CASE StartPacket(WR)
    BY <1>1, <1>8, <2>1, Starts, HeadTailProperties DEF TypeOK
  <2>2. CASE StartPacket(RESP)
    BY <1>1, <1>9, <2>2, Starts, HeadTailProperties DEF TypeOK
  <2>3. CASE ~StartPacket(WR) /\ ~StartPacket(RESP)
    BY <1>1, <1>2, <2>3 DEF SerializerUpdate, TypeOK
  <2> QED
    BY <2>1, <2>2, <2>3
<1>11. state' = "TX_DATA" => cur_kind' # RD
  <2>1. CASE some
    BY <1>2, <1>3, <1>4, <2>1 DEF SerializerUpdate
  <2>2. CASE ~some
    BY <1>1, <1>2, <2>2 DEF SerializerUpdate
  <2> QED
    BY <2>1, <2>2
<1> QED
  BY <1>6, <1>7, <1>8, <1>9, <1>10, <1>11

\* What is taken from the FIFOs of the packets was there.
LEMMA Leaves ==
  ASSUME TypeOK, NEW handshake \in BOOLEAN, handshake => LinkValid,
         state = "TX_DATA" => cur_kind # RD
  PROVE  LET sent == handshake /\ state = "TX_DATA"
         IN  /\ sent /\ cur_kind = WR => w_data # <<>>
             /\ sent /\ cur_kind # WR => r_data # <<>> /\ cur_kind = RESP
BY DEF LinkValid, TypeOK, Kind

\* The FIFOs of the packets that wait.
LEMMA PacketStep ==
  ASSUME Inv, NEW store, NEW new, NEW read, NEW w_accept, NEW handshake, NEW b_ready,
         ClockOf(store, new, read, w_accept, handshake, b_ready)
  PROVE  /\ wr_desc' \in Seq(Value) /\ Len(wr_desc') <= WrDescDepth
         /\ w_data' \in Seq(Value) /\ Len(w_data') <= WDataDepth
         /\ rd_desc' \in 0 .. RdDescDepth
         /\ r_desc' \in Seq(Value) /\ Len(r_desc') <= RDescDepth
         /\ r_data' \in Seq(Value) /\ Len(r_data') <= RDataDepth
<1> DEFINE sent == handshake /\ state = "TX_DATA"
           sent_w == sent /\ cur_kind = WR
           sent_r == sent /\ cur_kind # WR
           beat == Head(data)
           resp == Head(answer)
<1>1. TypeOK /\ store \in Value /\ w_accept \in BOOLEAN /\ handshake \in BOOLEAN
  BY DEF Inv, ClockOf
<1>2. WR \in Kind /\ RD \in Kind /\ RESP \in Kind
  BY DEF Kind
<1>3. /\ StartPacket(WR) \in BOOLEAN /\ StartPacket(RD) \in BOOLEAN
      /\ StartPacket(RESP) \in BOOLEAN
      /\ Accepts(WR) \in BOOLEAN /\ Accepts(RD) \in BOOLEAN /\ Accepts(RESP) \in BOOLEAN
  BY <1>1, <1>2, Starts, Grants
<1>4. /\ WrDescDepth \in Nat /\ WDataDepth \in Nat /\ RdDescDepth \in Nat
      /\ RDescDepth \in Nat /\ RDataDepth \in Nat
  BY DepthsAssumption
<1>5. (sent_w => w_data # <<>>) /\ (sent_r => r_data # <<>>)
  BY <1>1, Leaves DEF Inv, ClockOf
<1>6. w_accept => beat \in Value /\ Len(w_data) < WDataDepth
  BY <1>1, HeadTailProperties DEF ClockOf, WReady, TypeOK
<1>7. Accepts(RESP) => resp \in Value
  BY <1>1, Grants, HeadTailProperties DEF TypeOK
<1>8. /\ wr_desc' = With(After(wr_desc, StartPacket(WR)), Accepts(WR), store)
      /\ w_data' = With(After(w_data, sent_w), w_accept, beat)
      /\ rd_desc' = rd_desc + One(Accepts(RD)) - One(StartPacket(RD))
      /\ r_desc' = With(After(r_desc, StartPacket(RESP)), Accepts(RESP), resp)
      /\ r_data' = With(After(r_data, sent_r), Accepts(RESP), resp)
  BY DEF ClockOf, FifoUpdate
<1> HIDE DEF sent_w, sent_r, beat, resp
<1>9. wr_desc' \in Seq(Value) /\ Len(wr_desc') <= WrDescDepth
  <2>1. wr_desc \in Seq(Value) /\ Len(wr_desc) <= WrDescDepth
    BY <1>1 DEF TypeOK
  <2>2. StartPacket(WR) => wr_desc # <<>>
    BY <1>1, Starts
  <2>3. Accepts(WR) => store \in Value /\ Len(wr_desc) < WrDescDepth
    BY <1>1, Grants
  <2> QED
    BY <1>3, <1>4, <1>8, <2>1, <2>2, <2>3, FifoStep
<1>10. w_data' \in Seq(Value) /\ Len(w_data') <= WDataDepth
  <2>1. w_data \in Seq(Value) /\ Len(w_data) <= WDataDepth
    BY <1>1 DEF TypeOK
  <2>2. sent_w \in BOOLEAN
    BY DEF sent_w
  <2> QED
    BY <1>1, <1>4, <1>5, <1>6, <1>8, <2>1, <2>2, FifoStep
<1>11. rd_desc' \in 0 .. RdDescDepth
  <2>1. rd_desc \in 0 .. RdDescDepth
    BY <1>1 DEF TypeOK
  <2>2. StartPacket(RD) => rd_desc > 0
    BY <1>1, Starts
  <2>3. Accepts(RD) => rd_desc < RdDescDepth
    BY <1>1, Grants
  <2> QED
    BY <1>3, <1>4, <1>8, <2>1, <2>2, <2>3, OneOrNone
<1>12. r_desc' \in Seq(Value) /\ Len(r_desc') <= RDescDepth
  <2>1. r_desc \in Seq(Value) /\ Len(r_desc) <= RDescDepth
    BY <1>1 DEF TypeOK
  <2>2. StartPacket(RESP) => r_desc # <<>>
    BY <1>1, Starts
  <2>3. Accepts(RESP) => resp \in Value /\ Len(r_desc) < RDescDepth
    BY <1>1, <1>7, Grants
  <2> QED
    BY <1>3, <1>4, <1>8, <2>1, <2>2, <2>3, FifoStep
<1>13. r_data' \in Seq(Value) /\ Len(r_data') <= RDataDepth
  <2>1. r_data \in Seq(Value) /\ Len(r_data) <= RDataDepth
    BY <1>1 DEF TypeOK
  <2>2. sent_r \in BOOLEAN
    BY DEF sent_r
  <2>3. Accepts(RESP) => resp \in Value /\ Len(r_data) < RDataDepth
    BY <1>1, <1>7, Grants
  <2> QED
    BY <1>3, <1>4, <1>5, <1>8, <2>1, <2>2, <2>3, FifoStep
<1> QED
  BY <1>9, <1>10, <1>11, <1>12, <1>13

\* The order of the packets, and the pointer of the arbiter.
LEMMA OrderStep ==
  ASSUME Inv, NEW store, NEW new, NEW read, NEW w_accept, NEW handshake, NEW b_ready,
         ClockOf(store, new, read, w_accept, handshake, b_ready)
  PROVE  /\ pkt_order' \in Seq(Kind) /\ Len(pkt_order') <= OrderDepth
         /\ rr_start' \in Kind
<1> DEFINE some == \E k \in Kind : StartPacket(k)
           granted == CHOOSE k \in StartGrant : TRUE
           any == StartGrant # {}
<1>1. TypeOK /\ OrderDepth \in Nat
  BY DepthsAssumption DEF Inv
<1>2. any => granted \in Kind /\ Len(pkt_order) < OrderDepth
  BY <1>1, Grants
<1>3. some => pkt_order # <<>>
  BY <1>1, Starts
<1>4. pkt_order' = After(pkt_order, some) \o (IF any THEN <<granted>> ELSE <<>>)
  BY DEF ClockOf, FifoUpdate
<1>5. rr_start' = IF any THEN (granted + 1) % 3 ELSE rr_start
  BY DEF ClockOf, RrUpdate
<1>6. some \in BOOLEAN /\ any \in BOOLEAN
  OBVIOUS
<1> HIDE DEF some, granted, any
<1>7. rr_start' \in Kind
  BY <1>1, <1>2, <1>5 DEF TypeOK, Kind, WR, RD, RESP
<1>8. /\ After(pkt_order, some) \in Seq(Kind)
      /\ Len(After(pkt_order, some)) = Len(pkt_order) - One(some)
  BY <1>1, <1>3, <1>6, AfterSeq DEF TypeOK
<1>9. pkt_order' = With(After(pkt_order, some), any, granted)
  <2>1. CASE any
    <3>1. After(pkt_order, some) \o <<granted>> = Append(After(pkt_order, some), granted)
      BY <1>2, <1>8, <2>1, AppendIsConcat
    <3> QED
      BY <1>4, <2>1, <3>1 DEF With
  <2>2. CASE ~any
    BY <1>4, <1>8, <2>2, ConcatEmptySeq DEF With
  <2> QED
    BY <2>1, <2>2
<1>10. pkt_order \in Seq(Kind) /\ Len(pkt_order) <= OrderDepth
  BY <1>1 DEF TypeOK
<1>11. pkt_order' \in Seq(Kind) /\ Len(pkt_order') <= OrderDepth
  BY <1>1, <1>2, <1>3, <1>6, <1>9, <1>10, FifoStep
<1> QED
  BY <1>7, <1>11

\* A beat moves from the crossbar to the FIFO and from there to the link.
LEMMA DataMoves ==
  ASSUME Inv, NEW store, NEW new, NEW read, NEW w_accept, NEW handshake, NEW b_ready,
         ClockOf(store, new, read, w_accept, handshake, b_ready)
  PROVE  LET sent == handshake /\ state = "TX_DATA" /\ cur_kind = WR
         IN  /\ sent => w_data # <<>>
             /\ w_data' \o data' = With(After(w_data \o data, sent), Accepts(WR), store)
<1> DEFINE sent == handshake /\ state = "TX_DATA" /\ cur_kind = WR
           pushed == Accepts(WR)
<1>1. TypeOK /\ store \in Value /\ w_accept \in BOOLEAN /\ handshake \in BOOLEAN
  BY DEF Inv, ClockOf
<1>2. w_data \in Seq(Value) /\ data \in Seq(Value)
  BY <1>1 DEF TypeOK
<1>3. sent \in BOOLEAN /\ (sent => w_data # <<>>)
  BY <1>1, Leaves DEF Inv, ClockOf
<1>4. w_accept => data # <<>>
  BY DEF ClockOf
<1>5. pushed \in BOOLEAN
  BY <1>1, Grants DEF Kind
<1>6. /\ data' = With(After(data, w_accept), pushed, store)
      /\ w_data' = With(After(w_data, sent), w_accept, Head(data))
  BY DEF ClockOf, FifoUpdate
<1> HIDE DEF sent, pushed
<1> DEFINE kept == After(w_data, sent)
           rest == After(data, w_accept)
           first == With(kept, w_accept, Head(data))
<1>7. kept \in Seq(Value)
  BY <1>2, <1>3, AfterSeq
<1>8. rest \in Seq(Value)
  BY <1>1, <1>2, <1>4, AfterSeq
<1>9. w_accept => Head(data) \in Value
  BY <1>2, <1>4, HeadTailProperties
<1>10. kept \o data = After(w_data \o data, sent)
  BY <1>2, <1>3, AfterConcat
<1> HIDE DEF kept
<1>11. first \in Seq(Value)
  BY <1>1, <1>7, <1>9, WithSeq
<1>12. first \o rest = kept \o data
  BY <1>1, <1>2, <1>4, <1>7, HeadMoves
<1>13. w_data' = first /\ data' = With(rest, pushed, store)
  BY <1>6 DEF kept
<1> HIDE DEF first, rest
<1>14. pushed => store \in Value
  BY <1>1
<1>15. first \o With(rest, pushed, store) = With(first \o rest, pushed, store)
  BY <1>5, <1>8, <1>11, <1>14, WithConcat
<1> QED
  BY <1>3, <1>10, <1>12, <1>13, <1>15 DEF sent, pushed

\* The beats of the stores stay those of their headers.
LEMMA DataStep ==
  ASSUME Inv, NEW store, NEW new, NEW read, NEW w_accept, NEW handshake, NEW b_ready,
         ClockOf(store, new, read, w_accept, handshake, b_ready)
  PROVE  DataFollowsHeader'
<1> DEFINE sent == handshake /\ state = "TX_DATA" /\ cur_kind = WR
           pushed == Accepts(WR)
           waits == After(wr_desc, StartPacket(WR))
<1>1. /\ TypeOK /\ (state = "TX_DATA" => cur_kind # RD)
      /\ store \in Value /\ w_accept \in BOOLEAN /\ handshake \in BOOLEAN
      /\ (handshake => LinkValid) /\ SerializerUpdate(handshake)
  BY DEF Inv, ClockOf
<1>2. /\ w_data \in Seq(Value) /\ data \in Seq(Value) /\ wr_desc \in Seq(Value)
      /\ wr_desc' \in Seq(Value)
  BY <1>1, PacketStep DEF TypeOK
<1>3. sent \in BOOLEAN /\ (sent => w_data # <<>>)
  BY <1>1, Leaves
<1>4. w_accept => data # <<>>
  BY DEF ClockOf
<1>5. pushed \in BOOLEAN
  BY <1>1, Grants DEF Kind
<1>6. /\ StartPacket(WR) \in BOOLEAN /\ (StartPacket(WR) => wr_desc # <<>>)
      /\ (StartPacket(WR) => cur' = Head(wr_desc))
  BY <1>1, Starts, SerializerStep DEF Kind
<1>7. Sending(WR)' \o waits = After(Sending(WR) \o wr_desc, sent)
  BY <1>1, <1>2, <1>6, SendingStep
<1>8. w_data \o data = Sending(WR) \o wr_desc
  BY DEF Inv, DataFollowsHeader
<1>9. /\ data' = With(After(data, w_accept), pushed, store)
      /\ w_data' = With(After(w_data, sent), w_accept, Head(data))
      /\ wr_desc' = With(waits, pushed, store)
  BY DEF ClockOf, FifoUpdate
<1>10. Sending(WR)' \in Seq(Value) /\ waits \in Seq(Value)
  <2>1. cur' \in Value
    BY SerializerStep
  <2> QED
    BY <1>2, <1>6, <2>1, AfterSeq DEF Sending
<1> HIDE DEF sent, pushed, waits
<1>11. w_data' \o data' = With(After(w_data \o data, sent), pushed, store)
  BY DataMoves DEF sent, pushed
<1>12. Sending(WR)' \o wr_desc' = With(Sending(WR)' \o waits, pushed, store)
  <2> DEFINE sending == Sending(WR)'
  <2>1. /\ sending \in Seq(Value) /\ waits \in Seq(Value)
        /\ pushed \in BOOLEAN /\ (pushed => store \in Value)
    BY <1>1, <1>5, <1>10
  <2> HIDE DEF sending
  <2>2. sending \o With(waits, pushed, store) = With(sending \o waits, pushed, store)
    BY <2>1, WithConcat
  <2> QED
    BY <1>9, <2>2 DEF sending
<1> QED
  BY <1>7, <1>8, <1>11, <1>12 DEF DataFollowsHeader

\* The beats of the answers stay those of their headers.
LEMMA AnswerDataStep ==
  ASSUME Inv, NEW store, NEW new, NEW read, NEW w_accept, NEW handshake, NEW b_ready,
         ClockOf(store, new, read, w_accept, handshake, b_ready)
  PROVE  AnswersFollowHeader'
<1> DEFINE sent == handshake /\ state = "TX_DATA" /\ cur_kind = RESP
           pushed == Accepts(RESP)
           waits == After(r_desc, StartPacket(RESP))
           item == Head(answer)
<1>1. /\ TypeOK /\ (state = "TX_DATA" => cur_kind # RD)
      /\ handshake \in BOOLEAN /\ (handshake => LinkValid) /\ SerializerUpdate(handshake)
  BY DEF Inv, ClockOf
<1>2. r_desc \in Seq(Value)
  BY <1>1 DEF TypeOK
<1>3. sent <=> handshake /\ state = "TX_DATA" /\ cur_kind # WR
  BY <1>1 DEF TypeOK, Kind, WR, RD, RESP
<1>4. pushed \in BOOLEAN /\ (pushed => item \in Value)
  BY <1>1, Grants, HeadTailProperties DEF TypeOK, Kind
<1>5. /\ StartPacket(RESP) \in BOOLEAN /\ (StartPacket(RESP) => r_desc # <<>>)
      /\ (StartPacket(RESP) => cur' = Head(r_desc))
  BY <1>1, Starts, SerializerStep DEF Kind
<1>6. Sending(RESP)' \o waits = After(Sending(RESP) \o r_desc, sent)
  BY <1>1, <1>2, <1>5, SendingStep
<1>7. r_data = Sending(RESP) \o r_desc
  BY DEF Inv, AnswersFollowHeader
<1>8. /\ r_data' = With(After(r_data, sent), pushed, item)
      /\ r_desc' = With(waits, pushed, item)
  BY <1>3 DEF ClockOf, FifoUpdate
<1>9. Sending(RESP)' \in Seq(Value) /\ waits \in Seq(Value)
  <2>1. cur' \in Value
    BY SerializerStep
  <2> QED
    BY <1>2, <1>5, <2>1, AfterSeq DEF Sending
<1> HIDE DEF sent, pushed, waits, item
<1>10. Sending(RESP)' \o r_desc' = With(Sending(RESP)' \o waits, pushed, item)
  <2> DEFINE sending == Sending(RESP)'
  <2>1. /\ sending \in Seq(Value) /\ waits \in Seq(Value)
        /\ pushed \in BOOLEAN /\ (pushed => item \in Value)
    BY <1>4, <1>9
  <2> HIDE DEF sending
  <2>2. sending \o With(waits, pushed, item) = With(sending \o waits, pushed, item)
    BY <2>1, WithConcat
  <2> QED
    BY <1>8, <2>2 DEF sending
<1> QED
  BY <1>6, <1>7, <1>8, <1>10 DEF AnswersFollowHeader

-----------------------------------------------------------------------------
(* The theorems. *)

LEMMA InvInit == Init => Inv
<1> SUFFICES ASSUME Init PROVE Inv
  OBVIOUS
<1>1. <<>> \in Seq(Value) /\ <<>> \in Seq(Kind) /\ Len(<<>>) = 0 /\ <<>> \o <<>> = <<>>
  OBVIOUS
<1>2. TypeOK
  BY <1>1, DepthsAssumption DEF Init, TypeOK, Kind
<1> QED
  BY <1>1, <1>2
    DEF Init, Inv, DataFollowsHeader, AnswersFollowHeader, OneResponse, Sending

\* A clock keeps the invariant, whatever is around the link.
LEMMA ClockStep ==
  ASSUME Inv, NEW store, NEW new, NEW read, NEW w_accept, NEW handshake, NEW b_ready,
         ClockOf(store, new, read, w_accept, handshake, b_ready)
  PROVE  Inv'
<1>1. offers' \subseteq {WR, RD}
  BY DEF Inv, TypeOK, ClockOf
<1>2. answer' \in Seq(Value) /\ Len(answer') <= 1
  BY AnswerStep
<1>3. /\ data' \in Seq(Value) /\ w_len' = Len(data') /\ w_len' \in 0 .. WLenDepth
      /\ mirror' \in Seq(Value) /\ Len(mirror') <= MaxWrites
      /\ fake_b' \in 0 .. MaxWrites
      /\ OneResponse'
  BY StoreStep
<1>4. /\ wr_desc' \in Seq(Value) /\ Len(wr_desc') <= WrDescDepth
      /\ w_data' \in Seq(Value) /\ Len(w_data') <= WDataDepth
      /\ rd_desc' \in 0 .. RdDescDepth
      /\ r_desc' \in Seq(Value) /\ Len(r_desc') <= RDescDepth
      /\ r_data' \in Seq(Value) /\ Len(r_data') <= RDataDepth
  BY PacketStep
<1>5. /\ pkt_order' \in Seq(Kind) /\ Len(pkt_order') <= OrderDepth
      /\ rr_start' \in Kind
  BY OrderStep
<1>6. /\ state' \in {"TX_IDLE", "TX_HEADER", "TX_DATA"}
      /\ cur_kind' \in Kind /\ cur' \in Value
      /\ state' = "TX_DATA" => cur_kind' # RD
  BY SerializerStep
<1>7. TypeOK'
  BY <1>1, <1>2, <1>3, <1>4, <1>5, <1>6 DEF TypeOK
<1>8. DataFollowsHeader' /\ AnswersFollowHeader'
  BY DataStep, AnswerDataStep
<1> QED
  BY <1>3, <1>6, <1>7, <1>8 DEF Inv

LEMMA InvStep == Inv /\ [Next]_vars => Inv'
<1>1. Inv /\ Next => Inv'
  BY NextIsClock, ClockStep
<1>2. Inv /\ UNCHANGED vars => Inv'
  BY DEF vars, Inv, TypeOK, DataFollowsHeader, AnswersFollowHeader, OneResponse, Sending
<1> QED
  BY <1>1, <1>2

\* The invariant that the properties of axi_link_tx and top_level_io follow from.
THEOREM LinkInvariant == Spec => []Inv
<1>1. Init => Inv
  BY InvInit
<1>2. Inv /\ [Next]_vars => Inv'
  BY InvStep
<1> QED
  BY <1>1, <1>2, PTL DEF Spec

\* No FIFO of axi_link_tx is written when it is full or read when it is empty, and the count
\* of the made-up responses neither wraps nor exceeds the places for them.
THEOREM LinkTypes == Spec => []TypeOK
<1>1. Inv => TypeOK
  BY DEF Inv
<1> QED
  BY <1>1, LinkInvariant, PTL

\* On the link the beat behind the header of a store is its own, although the header is sent
\* when its address was taken and the beat may come any time later.
THEOREM BeatsFollowHeaders == Spec => []DataFollowsHeader
<1>1. Inv => DataFollowsHeader
  BY DEF Inv
<1> QED
  BY <1>1, LinkInvariant, PTL

\* The beat behind the header of an answer is its own.
THEOREM AnswersInOrder == Spec => []AnswersFollowHeader
<1>1. Inv => AnswersFollowHeader
  BY DEF Inv
<1> QED
  BY <1>1, LinkInvariant, PTL

\* The core gets one response for each store, and none before the link took the beat.
THEOREM ResponsesMatchStores == Spec => []OneResponse
<1>1. Inv => OneResponse
  BY DEF Inv
<1> QED
  BY <1>1, LinkInvariant, PTL

\* A header, its own beat and one response for each packet.
THEOREM BeatsAlwaysMatch == Spec => []BeatsMatch
<1>1. Inv => BeatsMatch
  BY DEF Inv, BeatsMatch
<1> QED
  BY <1>1, LinkInvariant, PTL

\* Whoever was granted is the last to be granted again: its turn comes behind that of any
\* other request.
LEMMA TurnGoesOn ==
  ASSUME rr_start \in 0 .. 2, RrUpdate, NEW k \in Kind, k \in StartGrant,
         NEW j \in Kind, j # k, StartRequest(j)'
  PROVE  k \notin StartGrant'
<1> DEFINE turn(i) == (i + 3 - rr_start) % 3
<1>1. \A i \in StartGrant : i = k
  <2> SUFFICES ASSUME NEW i \in StartGrant PROVE i = k
    OBVIOUS
  <2>1. i \in 0 .. 2 /\ k \in 0 .. 2 /\ turn(i) = turn(k)
    BY DEF StartGrant, Kind, WR, RD, RESP
  <2> QED
    BY <2>1
<1>2. rr_start' = (k + 1) % 3
  BY <1>1 DEF RrUpdate
<1>3. j \in 0 .. 2 /\ k \in 0 .. 2
  BY DEF Kind, WR, RD, RESP
<1>4. (k + 3 - rr_start') % 3 = 2 /\ (j + 3 - rr_start') % 3 \in {0, 1}
  BY <1>2, <1>3
<1>5. ~ ((k + 3 - rr_start') % 3 <= (j + 3 - rr_start') % 3)
  BY <1>4
<1> QED
  BY <1>5 DEF StartGrant

\* No store, read or answer that may be sent is passed over twice by the same kind of packet.
THEOREM WaitersGoFirst == Spec => GivesWay
<1>1. Inv /\ [Next]_vars =>
        [\A j, k \in Kind :
           j # k /\ k \in StartGrant /\ StartRequest(j) /\ StartRequest(j)' => k \notin StartGrant']_vars
  <2> SUFFICES ASSUME Inv, Next, NEW j \in Kind, NEW k \in Kind, j # k, k \in StartGrant,
                      StartRequest(j)'
               PROVE  k \notin StartGrant'
    OBVIOUS
  <2>1. RrUpdate
    BY NextIsClock DEF ClockOf
  <2>2. rr_start \in 0 .. 2
    BY DEF Inv, TypeOK, Kind, WR, RD, RESP
  <2> QED
    BY <2>1, <2>2, TurnGoesOn
<1> QED
  BY <1>1, LinkInvariant, PTL DEF Spec, GivesWay
=============================================================================
