-------------------------- MODULE Completion_proofs --------------------------
(***************************************************************************)
(* For any depths of the FIFOs, any number of stores and any values: the   *)
(* stores come out of the link once each and in order, all of them before  *)
(* the answer that tells the host of the completion, and the verdict that  *)
(* is asked for then compares them with what is expected.                  *)
(***************************************************************************)
EXTENDS Completion, LinkTx_proofs, FiniteSetTheorems, WellFoundedInduction

\* The n packets of a kind that wait are at their places among the m of the order FIFO, and
\* no store waits behind an answer that tells of the completion.
Place(place, kind, n, desc, m, order) ==
  /\ place \in [1 .. n -> 1 .. m]
  /\ \A i, j \in 1 .. n : i < j => place[i] < place[j]
  /\ \A i \in 1 .. n : order[place[i]] = kind
  /\ \A p \in 1 .. m : order[p] = kind => \E i \in 1 .. n : place[i] = p
  /\ kind = RESP =>
       \A i \in 1 .. n, p \in 1 .. m : desc[i] = 1 /\ order[p] = WR => p < place[i]

Placed(kind, desc, order) == \E place : Place(place, kind, Len(desc), desc, Len(order), order)

NoStoreWaits == /\ \A p \in 1 .. Len(pkt_order) : pkt_order[p] # WR
                /\ Sending(WR) = <<>>

\* No answer that tells of the completion is on its way.
NotTelling ==
  /\ answer # <<1>>
  /\ \A i \in 1 .. Len(r_desc) : r_desc[i] # 1
  /\ Sending(RESP) # <<1>>
  /\ ~told

TypesInv ==
  /\ Inv
  /\ stored \in Seq(Value) /\ actual \in Seq(Value) /\ arrived \in Seq(Value)
  /\ complete \in BOOLEAN

OrderInv ==
  /\ Placed(WR, wr_desc, pkt_order)
  /\ Placed(RESP, r_desc, pkt_order)

CompleteInv ==
  /\ complete => WR \notin offers
  /\ ~complete => NotTelling
  /\ Sending(RESP) = <<1>> \/ told => NoStoreWaits

\* The inductive invariant.
RunInv == TypesInv /\ StoresOnTheWay /\ OrderInv /\ CompleteInv

-----------------------------------------------------------------------------
(* Sequences. *)

\* What is left of a queue when its first entry is taken or not.
LEMMA AfterAt ==
  ASSUME NEW S, NEW s \in Seq(S), s # <<>>
  PROVE  /\ After(s, TRUE) \in Seq(S) /\ Len(s) \in Nat \ {0}
         /\ Len(After(s, TRUE)) = Len(s) - 1
         /\ \A i \in 1 .. Len(s) - 1 : After(s, TRUE)[i] = s[i + 1]
<1>1. After(s, TRUE) = Tail(s)
  BY TailIsSubSeq DEF After
<1>2. /\ Tail(s) \in Seq(S) /\ Len(Tail(s)) = Len(s) - 1
      /\ \A i \in 1 .. Len(Tail(s)) : Tail(s)[i] = s[i + 1]
  BY HeadTailProperties
<1>3. Len(s) \in Nat \ {0}
  BY EmptySeq, LenProperties
<1> QED
  BY <1>1, <1>2, <1>3

\* An entry is appended.
LEMMA AppendAt ==
  ASSUME NEW S, NEW s \in Seq(S), NEW item \in S
  PROVE  /\ Append(s, item) \in Seq(S) /\ Len(s) \in Nat
         /\ Len(Append(s, item)) = Len(s) + 1
         /\ \A i \in 1 .. Len(s) : Append(s, item)[i] = s[i]
         /\ Append(s, item)[Len(s) + 1] = item
BY AppendProperties, LenProperties

\* A packet of the kind enters the order FIFO.
LEMMA SamePushed ==
  ASSUME NEW kind, NEW n \in Nat, NEW desc, NEW m \in Nat, NEW order, NEW place,
         Place(place, kind, n, desc, m, order), kind # RESP \/ kind # WR,
         NEW desc2, \A i \in 1 .. n : desc2[i] = desc[i],
         NEW order2, \A p \in 1 .. m : order2[p] = order[p], order2[m + 1] = kind
  PROVE  \E place2 : Place(place2, kind, n + 1, desc2, m + 1, order2)
<1> DEFINE place2 == [i \in 1 .. n + 1 |-> IF i <= n THEN place[i] ELSE m + 1]
<1>1. \A i \in 1 .. n : place[i] \in 1 .. m /\ place2[i] = place[i]
  BY DEF Place
<1>2. place2[n + 1] = m + 1
  OBVIOUS
<1>3. place2 \in [1 .. n + 1 -> 1 .. m + 1]
  <2>1. ASSUME NEW i \in 1 .. n + 1
        PROVE  (IF i <= n THEN place[i] ELSE m + 1) \in 1 .. m + 1
    <3>1. CASE i <= n
      <4>1. place[i] \in 1 .. m
        BY <3>1 DEF Place
      <4> QED
        BY <3>1, <4>1
    <3>2. CASE ~(i <= n)
      BY <3>2
    <3> QED
      BY <3>1, <3>2
  <2> QED
    BY <2>1
<1> HIDE DEF place2
<1>4. ASSUME NEW i \in 1 .. n + 1, NEW j \in 1 .. n + 1, i < j
      PROVE  place2[i] < place2[j]
  <2>1. i \in 1 .. n
    BY <1>4
  <2>2. CASE j \in 1 .. n
    <3>1. place[i] < place[j]
      BY <1>4, <2>1, <2>2 DEF Place
    <3> QED
      BY <1>1, <2>1, <2>2, <3>1
  <2>3. CASE j = n + 1
    BY <1>1, <1>2, <2>1, <2>3
  <2> QED
    BY <2>2, <2>3
<1>5. ASSUME NEW i \in 1 .. n + 1
      PROVE  order2[place2[i]] = kind
  <2>1. CASE i \in 1 .. n
    <3>1. place[i] \in 1 .. m /\ order[place[i]] = kind /\ place2[i] = place[i]
      BY <1>1, <2>1 DEF Place
    <3> QED
      BY <3>1
  <2>2. CASE i = n + 1
    BY <1>2, <2>2
  <2> QED
    BY <2>1, <2>2
<1>6. ASSUME NEW p \in 1 .. m + 1, order2[p] = kind
      PROVE  \E i \in 1 .. n + 1 : place2[i] = p
  <2>1. CASE p \in 1 .. m
    <3>1. order[p] = kind
      BY <1>6, <2>1
    <3>2. PICK i \in 1 .. n : place[i] = p
      BY <2>1, <3>1 DEF Place
    <3>3. i \in 1 .. n + 1 /\ place2[i] = p
      BY <1>1, <3>2
    <3> QED
      BY <3>3
  <2>2. CASE p = m + 1
    BY <1>2, <2>2
  <2> QED
    BY <2>1, <2>2
<1>7. ASSUME kind = RESP, NEW i \in 1 .. n + 1, NEW p \in 1 .. m + 1,
             desc2[i] = 1, order2[p] = WR
      PROVE  p < place2[i]
  <2>1. p \in 1 .. m
    BY <1>7
  <2>2. CASE i \in 1 .. n
    BY <1>1, <1>7, <2>1, <2>2 DEF Place
  <2>3. CASE i = n + 1
    BY <1>2, <2>1, <2>3
  <2> QED
    BY <2>2, <2>3
<1>8. Place(place2, kind, n + 1, desc2, m + 1, order2)
  BY <1>3, <1>4, <1>5, <1>6, <1>7 DEF Place
<1> QED
  BY <1>8

\* A packet of another kind enters it.
LEMMA OtherPushed ==
  ASSUME NEW kind, NEW n \in Nat, NEW desc, NEW m \in Nat, NEW order, NEW place,
         Place(place, kind, n, desc, m, order),
         NEW order2, \A p \in 1 .. m : order2[p] = order[p], order2[m + 1] # kind,
         kind = RESP /\ order2[m + 1] = WR => \A i \in 1 .. n : desc[i] # 1
  PROVE  Place(place, kind, n, desc, m + 1, order2)
<1>1. \A i \in 1 .. n : place[i] \in 1 .. m
  BY DEF Place
<1>2. place \in [1 .. n -> 1 .. m + 1]
  BY <1>1 DEF Place
<1>3. \A i \in 1 .. n : order2[place[i]] = kind
  BY <1>1 DEF Place
<1>4. ASSUME NEW p \in 1 .. m + 1, order2[p] = kind
      PROVE  \E i \in 1 .. n : place[i] = p
  <2>1. p \in 1 .. m
    BY <1>4
  <2> QED
    BY <1>4, <2>1 DEF Place
<1>5. ASSUME kind = RESP, NEW i \in 1 .. n, NEW p \in 1 .. m + 1, desc[i] = 1, order2[p] = WR
      PROVE  p < place[i]
  <2>1. p \in 1 .. m
    BY <1>5
  <2> QED
    BY <1>1, <1>5, <2>1 DEF Place
<1> QED
  BY <1>2, <1>3, <1>4, <1>5 DEF Place

\* The first packet of all is the first of its kind.
LEMMA FirstPlace ==
  ASSUME NEW kind, NEW n \in Nat, NEW desc, NEW m \in Nat \ {0}, NEW order, NEW place,
         Place(place, kind, n, desc, m, order), order[1] = kind
  PROVE  n > 0 /\ place[1] = 1
<1>1. \A i \in 1 .. n : place[i] \in 1 .. m
  BY DEF Place
<1>2. PICK i \in 1 .. n : place[i] = 1
  BY DEF Place
<1>3. CASE i = 1
  BY <1>2, <1>3
<1>4. CASE 1 < i
  BY <1>1, <1>2, <1>4 DEF Place
<1> QED
  BY <1>3, <1>4

\* The first packet leaves it and is of the kind.
LEMMA SamePopped ==
  ASSUME NEW kind, NEW n \in Nat, NEW desc, NEW m \in Nat \ {0}, NEW order, NEW place,
         Place(place, kind, n, desc, m, order), order[1] = kind,
         NEW desc2, \A i \in 1 .. n - 1 : desc2[i] = desc[i + 1],
         NEW order2, \A p \in 1 .. m - 1 : order2[p] = order[p + 1]
  PROVE  \E place2 : Place(place2, kind, n - 1, desc2, m - 1, order2)
<1> DEFINE place2 == [i \in 1 .. n - 1 |-> place[i + 1] - 1]
<1>1. \A i \in 1 .. n : place[i] \in 1 .. m
  BY DEF Place
<1>2. n > 0 /\ place[1] = 1
  BY FirstPlace
<1>3. \A i \in 1 .. n - 1 : /\ i + 1 \in 1 .. n /\ place[i + 1] \in 2 .. m
                            /\ place2[i] = place[i + 1] - 1
  BY <1>1, <1>2 DEF Place
<1>4. place2 \in [1 .. n - 1 -> 1 .. m - 1]
  BY <1>3
<1> HIDE DEF place2
<1>5. ASSUME NEW i \in 1 .. n - 1, NEW j \in 1 .. n - 1, i < j
      PROVE  place2[i] < place2[j]
  <2>1. place[i + 1] < place[j + 1]
    BY <1>3, <1>5 DEF Place
  <2> QED
    BY <1>3, <2>1
<1>6. ASSUME NEW i \in 1 .. n - 1
      PROVE  order2[place2[i]] = kind
  <2>1. /\ i + 1 \in 1 .. n
        /\ place2[i] \in 1 .. m - 1 /\ place2[i] + 1 = place[i + 1]
    BY <1>3
  <2>2. order[place[i + 1]] = kind
    BY <2>1 DEF Place
  <2>3. order2[place2[i]] = order[place2[i] + 1]
    BY <2>1
  <2> QED
    BY <2>1, <2>2, <2>3
<1>7. ASSUME NEW p \in 1 .. m - 1, order2[p] = kind
      PROVE  \E i \in 1 .. n - 1 : place2[i] = p
  <2>1. p + 1 \in 1 .. m /\ order[p + 1] = kind
    BY <1>7
  <2>2. PICK j \in 1 .. n : place[j] = p + 1
    BY <2>1 DEF Place
  <2>3. j # 1
    BY <1>2, <2>2
  <2>4. j - 1 \in 1 .. n - 1 /\ (j - 1) + 1 = j
    BY <2>3
  <2>5. place2[j - 1] = p
    BY <1>3, <2>2, <2>4
  <2> QED
    BY <2>4, <2>5
<1>8. ASSUME kind = RESP, NEW i \in 1 .. n - 1, NEW p \in 1 .. m - 1,
             desc2[i] = 1, order2[p] = WR
      PROVE  p < place2[i]
  <2>1. i + 1 \in 1 .. n /\ p + 1 \in 1 .. m /\ order[p + 1] = WR /\ desc[i + 1] = 1
    BY <1>8
  <2>2. p + 1 < place[i + 1]
    BY <1>8, <2>1 DEF Place
  <2> QED
    BY <1>3, <2>2
<1>9. Place(place2, kind, n - 1, desc2, m - 1, order2)
  BY <1>4, <1>5, <1>6, <1>7, <1>8 DEF Place
<1> QED
  BY <1>9

\* The first packet leaves it and is of another kind.
LEMMA OtherPopped ==
  ASSUME NEW kind, NEW n \in Nat, NEW desc, NEW m \in Nat \ {0}, NEW order, NEW place,
         Place(place, kind, n, desc, m, order), order[1] # kind,
         NEW order2, \A p \in 1 .. m - 1 : order2[p] = order[p + 1]
  PROVE  \E place2 : Place(place2, kind, n, desc, m - 1, order2)
<1> DEFINE place2 == [i \in 1 .. n |-> place[i] - 1]
<1>1. \A i \in 1 .. n : place[i] \in 2 .. m /\ place2[i] = place[i] - 1
  <2>1. \A i \in 1 .. n : place[i] \in 1 .. m /\ place[i] # 1
    BY DEF Place
  <2> QED
    BY <2>1
<1>2. place2 \in [1 .. n -> 1 .. m - 1]
  BY <1>1
<1> HIDE DEF place2
<1>3. ASSUME NEW i \in 1 .. n, NEW j \in 1 .. n, i < j
      PROVE  place2[i] < place2[j]
  <2>1. place[i] < place[j]
    BY <1>3 DEF Place
  <2> QED
    BY <1>1, <2>1
<1>4. ASSUME NEW i \in 1 .. n
      PROVE  order2[place2[i]] = kind
  <2>1. place2[i] \in 1 .. m - 1 /\ place2[i] + 1 = place[i]
    BY <1>1
  <2> QED
    BY <2>1 DEF Place
<1>5. ASSUME NEW p \in 1 .. m - 1, order2[p] = kind
      PROVE  \E i \in 1 .. n : place2[i] = p
  <2>1. p + 1 \in 1 .. m /\ order[p + 1] = kind
    BY <1>5
  <2>2. PICK i \in 1 .. n : place[i] = p + 1
    BY <2>1 DEF Place
  <2> QED
    BY <1>1, <2>2
<1>6. ASSUME kind = RESP, NEW i \in 1 .. n, NEW p \in 1 .. m - 1, desc[i] = 1, order2[p] = WR
      PROVE  p < place2[i]
  <2>1. p + 1 \in 1 .. m /\ order[p + 1] = WR
    BY <1>6
  <2>2. p + 1 < place[i]
    BY <1>6, <2>1 DEF Place
  <2> QED
    BY <1>1, <2>2
<1>7. Place(place2, kind, n, desc, m - 1, order2)
  BY <1>2, <1>3, <1>4, <1>5, <1>6 DEF Place
<1> QED
  BY <1>7

\* The same of the FIFOs: a packet enters.
LEMMA Pushed ==
  ASSUME NEW kind \in Kind, NEW desc \in Seq(Value), NEW order \in Seq(Kind),
         Placed(kind, desc, order), NEW new \in Kind, NEW item, new = kind => item \in Value,
         kind = RESP /\ new = WR => \A i \in 1 .. Len(desc) : desc[i] # 1
  PROVE  Placed(kind, With(desc, new = kind, item), Append(order, new))
<1> DEFINE order2 == Append(order, new)
<1>1. PICK place : Place(place, kind, Len(desc), desc, Len(order), order)
  BY DEF Placed
<1>2. /\ Len(desc) \in Nat /\ Len(order) \in Nat
      /\ Len(order2) = Len(order) + 1 /\ order2[Len(order) + 1] = new
      /\ \A p \in 1 .. Len(order) : order2[p] = order[p]
  BY AppendAt, LenProperties
<1>3. kind # WR \/ kind # RESP
  BY DEF WR, RESP
<1> HIDE DEF order2
<1>4. CASE new = kind
  <2> DEFINE desc2 == Append(desc, item)
  <2>1. Len(desc2) = Len(desc) + 1 /\ \A i \in 1 .. Len(desc) : desc2[i] = desc[i]
    BY <1>4, AppendAt
  <2>2. With(desc, new = kind, item) = desc2
    BY <1>4 DEF With
  <2> HIDE DEF desc2
  <2>3. \E place2 : Place(place2, kind, Len(desc) + 1, desc2, Len(order) + 1, order2)
    BY <1>1, <1>2, <1>3, <1>4, <2>1, SamePushed
  <2>4. Placed(kind, desc2, order2)
    BY <1>2, <2>1, <2>3 DEF Placed
  <2> QED
    BY <2>2, <2>4 DEF order2
<1>5. CASE new # kind
  <2>1. With(desc, new = kind, item) = desc
    BY <1>5 DEF With
  <2>2. Place(place, kind, Len(desc), desc, Len(order) + 1, order2)
    BY <1>1, <1>2, <1>5, OtherPushed
  <2> QED
    BY <1>2, <2>1, <2>2 DEF Placed, order2
<1> QED
  BY <1>4, <1>5

\* The first packet leaves.
LEMMA Popped ==
  ASSUME NEW kind \in Kind, NEW desc \in Seq(Value), NEW order \in Seq(Kind), order # <<>>,
         Placed(kind, desc, order)
  PROVE  /\ Head(order) = kind => desc # <<>>
         /\ Head(order) = kind /\ kind = RESP /\ Head(desc) = 1 =>
              \A p \in 1 .. Len(order) : order[p] # WR
         /\ Placed(kind, After(desc, Head(order) = kind), After(order, TRUE))
<1> DEFINE order2 == After(order, TRUE)
<1>1. PICK place : Place(place, kind, Len(desc), desc, Len(order), order)
  BY DEF Placed
<1>2. /\ Len(desc) \in Nat /\ Len(order) \in Nat \ {0} /\ Len(order2) = Len(order) - 1
      /\ \A p \in 1 .. Len(order) - 1 : order2[p] = order[p + 1]
  BY AfterAt, LenProperties
<1>3. Head(order) = order[1]
  BY HeadTailProperties
<1> HIDE DEF order2
<1>4. CASE order[1] = kind
  <2> DEFINE desc2 == After(desc, TRUE)
  <2>1. Len(desc) > 0 /\ place[1] = 1
    BY <1>1, <1>2, <1>4, FirstPlace
  <2>2. desc # <<>>
    <3>1. Len(<<>>) = 0
      OBVIOUS
    <3> QED
      BY <2>1, <3>1
  <2>3. /\ Len(desc2) = Len(desc) - 1
        /\ \A i \in 1 .. Len(desc) - 1 : desc2[i] = desc[i + 1]
    BY <2>2, AfterAt
  <2>4. Head(desc) = desc[1]
    BY <2>2, HeadTailProperties
  <2> HIDE DEF desc2
  <2>5. \E place2 : Place(place2, kind, Len(desc) - 1, desc2, Len(order) - 1, order2)
    BY <1>1, <1>2, <1>4, <2>3, SamePopped
  <2>6. Placed(kind, desc2, order2)
    BY <1>2, <2>3, <2>5 DEF Placed
  <2>7. ASSUME kind = RESP, desc[1] = 1, NEW p \in 1 .. Len(order), order[p] = WR
        PROVE  FALSE
    <3>1. 1 \in 1 .. Len(desc) /\ p \in Nat /\ p > 0
      BY <1>2, <2>1
    <3>2. p < place[1]
      BY <1>1, <2>7, <3>1 DEF Place
    <3> QED
      BY <2>1, <3>1, <3>2
  <2> QED
    BY <1>3, <1>4, <2>2, <2>4, <2>6, <2>7 DEF order2, desc2
<1>5. CASE order[1] # kind
  <2>1. After(desc, Head(order) = kind) = desc
    BY <1>3, <1>5 DEF After
  <2>2. \E place2 : Place(place2, kind, Len(desc), desc, Len(order) - 1, order2)
    BY <1>1, <1>2, <1>5, OtherPopped
  <2>3. Placed(kind, desc, order2)
    BY <1>2, <2>2 DEF Placed
  <2> QED
    BY <1>3, <1>5, <2>1, <2>3 DEF order2
<1> QED
  BY <1>4, <1>5

-----------------------------------------------------------------------------
(* One clock. *)

\* A clock of the run is a clock of the link.
LEMMA RunCycleIsClock ==
  ASSUME Inv, complete \in BOOLEAN,
         NEW store \in Stores, NEW w_valid \in BOOLEAN, NEW new \in NewOffers,
         NEW polled \in BOOLEAN, NEW link_ready \in BOOLEAN, NEW completes, NEW records,
         RunCycle(store, w_valid, new, polled, link_ready, completes, records)
  PROVE  ClockOf(store, new, Answer(polled), w_valid /\ WReady, LinkValid /\ link_ready, TRUE)
<1>1. store \in Value
  BY ValueAssumption DEF Stores
<1>2. new \subseteq {WR, RD}
  BY DEF NewOffers, Offered
<1>3. Answer(polled) \in {<<>>} \cup {<<v>> : v \in Value}
  <2>1. One(complete) \in Value
    BY WriteAssumption DEF One
  <2> QED
    BY <2>1 DEF Answer
<1> QED
  BY <1>1, <1>2, <1>3 DEF RunCycle, Cycle, ClockOf

\* The arbiter grants one packet at a time.
LEMMA OneGrant ==
  ASSUME TypeOK
  PROVE  \A k \in StartGrant : StartGrant = {k}
<1> SUFFICES ASSUME NEW k \in StartGrant, NEW j \in StartGrant
             PROVE  j = k
  OBVIOUS
<1>1. k \in 0 .. 2 /\ j \in 0 .. 2 /\ rr_start \in 0 .. 2
  BY DEF StartGrant, Kind, WR, RD, RESP, TypeOK
<1>2. (k + 3 - rr_start) % 3 <= (j + 3 - rr_start) % 3
  BY DEF StartGrant
<1>3. (j + 3 - rr_start) % 3 <= (k + 3 - rr_start) % 3
  BY DEF StartGrant
<1>4. CASE rr_start = 0
  BY <1>1, <1>2, <1>3, <1>4
<1>5. CASE rr_start = 1
  BY <1>1, <1>2, <1>3, <1>5
<1>6. CASE rr_start = 2
  BY <1>1, <1>2, <1>3, <1>6
<1> QED
  BY <1>1, <1>4, <1>5, <1>6

\* What a clock does to the order FIFO.
LEMMA OrderUpdate ==
  ASSUME NEW store, NEW new, NEW read, NEW w_accept, NEW handshake, NEW b_ready,
         ClockOf(store, new, read, w_accept, handshake, b_ready)
  PROVE  pkt_order' = After(pkt_order, \E k \in Kind : StartPacket(k))
                        \o (IF StartGrant # {} THEN <<CHOOSE k \in StartGrant : TRUE>> ELSE <<>>)
BY DEF ClockOf, FifoUpdate

\* A kind of packet keeps its places in the order FIFO.
LEMMA PlacedStep ==
  ASSUME Inv, NEW store, NEW new, NEW read, NEW w_accept, NEW handshake, NEW b_ready,
         ClockOf(store, new, read, w_accept, handshake, b_ready),
         NEW kind \in {WR, RESP}, NEW desc \in Seq(Value), Placed(kind, desc, pkt_order),
         StartPacket(kind) <=> (\E j \in Kind : StartPacket(j)) /\ Head(pkt_order) = kind,
         NEW item, Accepts(kind) => item \in Value,
         kind = RESP /\ Accepts(WR) =>
           \A i \in 1 .. Len(desc) : desc[i] # 1
  PROVE  Placed(kind, With(After(desc, StartPacket(kind)), Accepts(kind), item), pkt_order')
<1> DEFINE some == \E k \in Kind : StartPacket(k)
           any == StartGrant # {}
           granted == CHOOSE k \in StartGrant : TRUE
           desc1 == After(desc, StartPacket(kind))
           order1 == After(pkt_order, some)
<1>1. TypeOK /\ kind \in Kind /\ pkt_order \in Seq(Kind)
  BY DEF Inv, TypeOK, Kind
<1>2. some => pkt_order # <<>>
  BY <1>1, Starts
<1>3. pkt_order' = order1 \o (IF any THEN <<granted>> ELSE <<>>)
  BY OrderUpdate
<1>4. any => granted \in Kind /\ \A k \in Kind : Accepts(k) <=> granted = k
  BY <1>1, OneGrant, Grants DEF Accepts
<1>5. ~any => ~Accepts(kind)
  BY DEF Accepts
<1>6. order1 \in Seq(Kind)
  BY <1>1, <1>2, AfterSeq
<1>7. Placed(kind, desc1, order1) /\ desc1 \in Seq(Value)
  <2>1. CASE some
    <3>1. order1 = After(pkt_order, TRUE) /\ desc1 = After(desc, Head(pkt_order) = kind)
      BY <2>1 DEF After
    <3>2. Head(pkt_order) = kind => desc # <<>>
      BY <1>1, <1>2, <2>1, Popped
    <3>3. Placed(kind, After(desc, Head(pkt_order) = kind), After(pkt_order, TRUE))
      BY <1>1, <1>2, <2>1, Popped
    <3>4. After(desc, Head(pkt_order) = kind) \in Seq(Value)
      BY <3>2, AfterSeq
    <3> QED
      BY <3>1, <3>3, <3>4
  <2>2. CASE ~some
    BY <1>1, <2>2 DEF After
  <2> QED
    BY <2>1, <2>2
<1>8. kind = RESP /\ Accepts(WR) => \A i \in 1 .. Len(desc1) : desc1[i] # 1
  <2>1. CASE StartPacket(kind)
    <3>1. desc1 = After(desc, TRUE) /\ desc # <<>>
      BY <1>1, <1>2, <2>1, Popped DEF After
    <3>2. /\ Len(desc) \in Nat \ {0} /\ Len(desc1) = Len(desc) - 1
          /\ \A i \in 1 .. Len(desc) - 1 : desc1[i] = desc[i + 1]
      BY <3>1, AfterAt
    <3> HIDE DEF desc1
    <3>3. ASSUME NEW i \in 1 .. Len(desc1)
          PROVE  i + 1 \in 1 .. Len(desc) /\ desc1[i] = desc[i + 1]
      BY <3>2
    <3> QED
      BY <3>3
  <2>2. CASE ~StartPacket(kind)
    BY <2>2 DEF After
  <2> QED
    BY <2>1, <2>2
<1> HIDE DEF some, any, granted, desc1, order1
<1>9. CASE any
  <2>1. pkt_order' = Append(order1, granted)
    BY <1>3, <1>4, <1>6, <1>9, AppendIsConcat
  <2>2. granted = WR <=> Accepts(WR)
    BY <1>4, <1>9 DEF Kind
  <2>3. Accepts(kind) <=> granted = kind
    BY <1>1, <1>4, <1>9
  <2>4. Placed(kind, With(desc1, granted = kind, item), Append(order1, granted))
    BY <1>1, <1>4, <1>6, <1>7, <1>8, <1>9, <2>2, <2>3, Pushed
  <2>5. With(desc1, Accepts(kind), item) = With(desc1, granted = kind, item)
    BY <2>3 DEF With
  <2> QED
    BY <2>1, <2>4, <2>5 DEF desc1
<1>10. CASE ~any
  <2>1. pkt_order' = order1
    BY <1>3, <1>6, <1>10, ConcatEmptySeq
  <2>2. With(desc1, Accepts(kind), item) = desc1
    BY <1>5, <1>10 DEF With
  <2> QED
    BY <1>7, <2>1, <2>2 DEF desc1
<1> QED
  BY <1>9, <1>10

\* What is taken from a queue and what stays.
LEMMA Pieces ==
  ASSUME NEW S, NEW s \in Seq(S), NEW taken \in BOOLEAN, taken => s # <<>>
  PROVE  LET piece == IF taken THEN <<Head(s)>> ELSE <<>>
         IN  piece \in Seq(S) /\ After(s, taken) \in Seq(S) /\ s = piece \o After(s, taken)
<1>1. CASE taken
  <2>1. Head(s) \in S /\ s = <<Head(s)>> \o Tail(s) /\ After(s, taken) = Tail(s)
    BY <1>1, HeadTailProperties, TailIsSubSeq DEF After
  <2>2. Tail(s) \in Seq(S) /\ <<Head(s)>> \in Seq(S)
    BY <1>1, <2>1, HeadTailProperties
  <2> QED
    BY <1>1, <2>1, <2>2
<1>2. CASE ~taken
  BY <1>2, ConcatEmptySeq DEF After
<1> QED
  BY <1>1, <1>2

\* A queue that is written or not is the queue and a piece of at most one entry.
LEMMA WithPiece ==
  ASSUME NEW S, NEW s \in Seq(S), NEW pushed \in BOOLEAN, NEW item, pushed => item \in S
  PROVE  LET piece == IF pushed THEN <<item>> ELSE <<>>
         IN  piece \in Seq(S) /\ With(s, pushed, item) = s \o piece
<1>1. CASE pushed
  BY <1>1, AppendIsConcat DEF With
<1>2. CASE ~pushed
  BY <1>2, ConcatEmptySeq DEF With
<1> QED
  BY <1>1, <1>2

\* Three queues in a row.
LEMMA Regroup ==
  ASSUME NEW a \in Seq(Value), NEW b \in Seq(Value), NEW c \in Seq(Value)
  PROVE  (a \o b) \o c = a \o (b \o c)
BY ONLY ConcatAssociative, SMTT(60)

\* Between two queues c moves, and e enters the second.
Conveys(a, c, d, e) == (a \o (c \o d)) \o e = (a \o c) \o (d \o e)

\* A piece that moves from one queue to the next keeps the whole.
LEMMA Conveyor ==
  ASSUME NEW a \in Seq(Value), NEW c \in Seq(Value), NEW d \in Seq(Value), NEW e \in Seq(Value)
  PROVE  Conveys(a, c, d, e)
<1> DEFINE ac == a \o c
<1>1. ac \in Seq(Value)
  BY ConcatProperties
<1>2. a \o (c \o d) = ac \o d
  BY Regroup, Zenon
<1> HIDE DEF ac
<1>3. (ac \o d) \o e = ac \o (d \o e)
  BY <1>1, Regroup, Zenon
<1> QED
  BY <1>2, <1>3, Zenon DEF ac, Conveys

Chained(a, b, c, d) == (a \o b) \o (c \o d) = a \o b \o c \o d

\* The same of four queues in a row.
LEMMA FourInOrder ==
  ASSUME NEW a \in Seq(Value), NEW b \in Seq(Value), NEW c \in Seq(Value), NEW d \in Seq(Value)
  PROVE  Chained(a, b, c, d)
<1>1. a \o b \in Seq(Value)
  BY ConcatProperties
<1> QED
  BY <1>1, Regroup, Zenon DEF Chained

\* The stores that left the core are where they were, one step further.
LEMMA StoresStep ==
  ASSUME TypesInv, StoresOnTheWay,
         NEW store, NEW new, NEW read, NEW w_accept, NEW link_ready \in BOOLEAN,
         NEW records \in BOOLEAN,
         ClockOf(store, new, read, w_accept, LinkValid /\ link_ready, TRUE),
         stored' = With(stored, Accepts(WR), store),
         arrived' = Arrivals(records, link_ready),
         Records(records)
  PROVE  /\ stored' \in Seq(Value) /\ actual' \in Seq(Value) /\ arrived' \in Seq(Value)
         /\ StoresOnTheWay'
<1> DEFINE sent == BeatSent(WR, link_ready)
           way == w_data \o data
           recorded == IF records THEN <<Head(arrived)>> ELSE <<>>
           waits == After(arrived, records)
           come == IF sent THEN <<Head(w_data)>> ELSE <<>>
           rest == After(way, sent)
           made == IF Accepts(WR) THEN <<store>> ELSE <<>>
<1>1. /\ Inv /\ TypeOK /\ store \in Value /\ Accepts(WR) \in BOOLEAN /\ sent \in BOOLEAN
      /\ stored \in Seq(Value) /\ actual \in Seq(Value) /\ arrived \in Seq(Value)
      /\ w_data \in Seq(Value) /\ data \in Seq(Value)
  BY Grants DEF TypesInv, Inv, TypeOK, ClockOf, Kind, BeatSent
<1>2. /\ sent => w_data # <<>>
      /\ w_data' \o data' = With(rest, Accepts(WR), store)
  BY <1>1, DataMoves DEF BeatSent
<1>3. way \in Seq(Value) /\ (sent => way # <<>> /\ Head(way) = Head(w_data))
  <2>1. way \in Seq(Value)
    BY <1>1, ConcatProperties
  <2>2. ASSUME w_data # <<>>
        PROVE  way # <<>> /\ Head(way) = Head(w_data)
    <3>1. Len(w_data) \in Nat \ {0} /\ Len(data) \in Nat
      BY <1>1, <2>2, EmptySeq, LenProperties
    <3>2. Len(way) = Len(w_data) + Len(data) /\ way[1] = w_data[1]
      BY <1>1, <3>1, ConcatProperties
    <3>3. way # <<>>
      BY <3>1, <3>2, Len(<<>>) = 0
    <3> HIDE DEF way
    <3> QED
      BY <1>1, <2>1, <2>2, <3>2, <3>3, HeadTailProperties
  <2> QED
    BY <1>2, <2>1, <2>2
<1>4. /\ recorded \in Seq(Value) /\ waits \in Seq(Value) /\ arrived = recorded \o waits
      /\ actual' = actual \o recorded
  <2>1. records => arrived # <<>>
    BY DEF Records
  <2>2. actual' = With(actual, records, Head(arrived))
    BY DEF Records, RecordWrite, With, check_vars
  <2>3. records => Head(arrived) \in Value
    BY <1>1, <2>1, HeadTailProperties
  <2>4. With(actual, records, Head(arrived)) = actual \o recorded
    BY <1>1, <2>3, WithPiece
  <2> QED
    BY <1>1, <2>1, <2>2, <2>4, Pieces
<1>5. come \in Seq(Value) /\ rest \in Seq(Value) /\ way = come \o rest
  <2>1. come = IF sent THEN <<Head(way)>> ELSE <<>>
    BY <1>3
  <2> HIDE DEF way, sent, come, rest
  <2>2. /\ (IF sent THEN <<Head(way)>> ELSE <<>>) \in Seq(Value)
        /\ After(way, sent) \in Seq(Value)
        /\ way = (IF sent THEN <<Head(way)>> ELSE <<>>) \o After(way, sent)
    BY <1>1, <1>3, Pieces
  <2> QED
    BY <2>1, <2>2 DEF rest
<1>6. arrived' = waits \o come
  BY DEF Arrivals
<1> HIDE DEF sent, way, rest, recorded, waits, come
<1>7. /\ made \in Seq(Value)
      /\ w_data' \o data' = rest \o made
      /\ stored' = stored \o made
  <2>1. ASSUME NEW s \in Seq(Value)
        PROVE  With(s, Accepts(WR), store) = s \o made /\ made \in Seq(Value)
    BY <1>1, WithPiece
  <2> HIDE DEF made
  <2>2. With(rest, Accepts(WR), store) = rest \o made /\ made \in Seq(Value)
    BY <1>5, <2>1
  <2>3. With(stored, Accepts(WR), store) = stored \o made
    BY <1>1, <2>1
  <2> QED
    BY <1>2, <2>2, <2>3
<1> HIDE DEF made
<1>8. stored = (actual \o (recorded \o waits)) \o (come \o rest)
  <2>1. stored = (actual \o arrived) \o way
    <3>1. Chained(actual, arrived, w_data, data)
      BY <1>1, FourInOrder
    <3> QED
      BY <3>1 DEF way, StoresOnTheWay, Chained
  <2> QED
    BY <1>4, <1>5, <2>1
<1>9. stored' = (actual' \o arrived') \o (w_data' \o data')
  <2> DEFINE old == actual \o (recorded \o waits)
  <2>1. /\ actual \in Seq(Value) /\ recorded \in Seq(Value) /\ waits \in Seq(Value)
        /\ come \in Seq(Value)
    BY <1>1, <1>4, <1>5
  <2>2. Conveys(actual, recorded, waits, come)
    BY <2>1, Conveyor
  <2>3. old \in Seq(Value)
    BY <2>1, ConcatProperties
  <2> HIDE DEF old
  <2>4. /\ old \in Seq(Value) /\ come \in Seq(Value) /\ rest \in Seq(Value)
        /\ made \in Seq(Value)
    BY <1>5, <1>7, <2>3
  <2>5. Conveys(old, come, rest, made)
    BY <2>4, Conveyor
  <2>6. old \o come = (actual \o recorded) \o (waits \o come)
    BY <2>2 DEF Conveys, old
  <2>7. (old \o (come \o rest)) \o made = (old \o come) \o (rest \o made)
    BY <2>5 DEF Conveys
  <2> QED
    BY <1>4, <1>6, <1>7, <1>8, <2>6, <2>7 DEF old
<1>10. stored' \in Seq(Value) /\ actual' \in Seq(Value) /\ arrived' \in Seq(Value)
  BY <1>1, <1>4, <1>5, <1>6, <1>7, ConcatProperties
<1>11. w_data' \in Seq(Value) /\ data' \in Seq(Value)
  BY <1>1, PacketStep, StoreStep
<1>12. Chained(actual', arrived', w_data', data')
  BY <1>10, <1>11, FourInOrder
<1> QED
  BY <1>9, <1>10, <1>12 DEF StoresOnTheWay, Chained

\* The packets keep their places; no store enters behind an answer that tells of the
\* completion, because none is made any more.
LEMMA PlacesStep ==
  ASSUME TypesInv, OrderInv, CompleteInv,
         NEW store, NEW new, NEW read, NEW w_accept, NEW handshake, NEW b_ready,
         ClockOf(store, new, read, w_accept, handshake, b_ready)
  PROVE  OrderInv'
<1>1. /\ Inv /\ TypeOK /\ store \in Value
      /\ wr_desc \in Seq(Value) /\ r_desc \in Seq(Value) /\ pkt_order \in Seq(Kind)
  BY DEF TypesInv, Inv, TypeOK, ClockOf
<1>2. ASSUME NEW kind \in Kind
      PROVE  StartPacket(kind) <=> (\E j \in Kind : StartPacket(j)) /\ Head(pkt_order) = kind
  <2>1. ASSUME StartPacket(kind)
        PROVE  (\E j \in Kind : StartPacket(j)) /\ Head(pkt_order) = kind
    BY <2>1 DEF StartPacket, Kind
  <2>2. ASSUME NEW j \in Kind, StartPacket(j), Head(pkt_order) = kind
        PROVE  StartPacket(kind)
    BY <2>2 DEF StartPacket
  <2> QED
    BY <2>1, <2>2
<1>3. Accepts(RESP) => Head(answer) \in Value
  BY <1>1, Grants, HeadTailProperties DEF TypeOK
<1>4. Accepts(WR) => \A i \in 1 .. Len(r_desc) : r_desc[i] # 1
  <2>1. Accepts(WR) => WR \in offers
    BY DEF Accepts, StartGrant, StartRequest, WR, RD, RESP
  <2> QED
    BY <2>1 DEF CompleteInv, NotTelling, TypesInv
<1>5. /\ wr_desc' = With(After(wr_desc, StartPacket(WR)), Accepts(WR), store)
      /\ r_desc' = With(After(r_desc, StartPacket(RESP)), Accepts(RESP), Head(answer))
  BY DEF ClockOf, FifoUpdate
<1>6. WR # RESP
  BY DEF WR, RESP
<1>7. Placed(WR, wr_desc', pkt_order')
  <2>1. Placed(WR, wr_desc, pkt_order)
    BY DEF OrderInv
  <2>2. StartPacket(WR) <=> (\E j \in Kind : StartPacket(j)) /\ Head(pkt_order) = WR
    BY <1>2 DEF Kind
  <2> QED
    BY <1>1, <1>5, <1>6, <2>1, <2>2, PlacedStep
<1>8. Placed(RESP, r_desc', pkt_order')
  <2>1. Placed(RESP, r_desc, pkt_order)
    BY DEF OrderInv
  <2>2. StartPacket(RESP) <=> (\E j \in Kind : StartPacket(j)) /\ Head(pkt_order) = RESP
    BY <1>2 DEF Kind
  <2> QED
    BY <1>1, <1>3, <1>4, <1>5, <2>1, <2>2, PlacedStep
<1> QED
  BY <1>7, <1>8 DEF OrderInv

\* What is being sent is what was being sent, or a packet that just starts.
LEMMA SendingFrom ==
  ASSUME Inv, NEW store, NEW new, NEW read, NEW w_accept, NEW handshake, NEW b_ready,
         ClockOf(store, new, read, w_accept, handshake, b_ready), NEW k \in {WR, RESP}
  PROVE  \/ Sending(k)' = <<>>
         \/ Sending(k)' = Sending(k)
         \/ StartPacket(k) /\ Sending(k)' = <<cur'>>
<1>1. TypeOK /\ SerializerUpdate(handshake) /\ (handshake => LinkValid) /\ k \in Kind
  BY DEF Inv, ClockOf, Kind
<1>2. CASE StartPacket(k)
  BY <1>2 DEF Sending
<1>3. CASE ~StartPacket(k) /\ \E j \in Kind : StartPacket(j)
  <2>1. cur_kind' = Head(pkt_order) /\ Head(pkt_order) # k
    BY <1>1, <1>3, Starts DEF SerializerUpdate
  <2> QED
    BY <2>1 DEF Sending
<1>4. CASE ~\E j \in Kind : StartPacket(j)
  <2>1. cur_kind' = cur_kind
    BY <1>1, <1>4 DEF SerializerUpdate
  <2>2. cur' = cur
    BY <1>1, <1>4 DEF SerializerUpdate, Kind
  <2>3. state = "TX_IDLE" => state' = "TX_IDLE"
    BY <1>1, <1>4 DEF SerializerUpdate, LinkValid
  <2> QED
    BY <2>1, <2>2, <2>3 DEF Sending
<1> QED
  BY <1>2, <1>3, <1>4

\* Once the CTA is complete, no store comes behind those that wait.
LEMMA NoStoreStep ==
  ASSUME TypesInv, CompleteInv, complete, NoStoreWaits,
         NEW store, NEW new, NEW read, NEW w_accept, NEW handshake, NEW b_ready,
         ClockOf(store, new, read, w_accept, handshake, b_ready)
  PROVE  NoStoreWaits'
<1> DEFINE some == \E k \in Kind : StartPacket(k)
           any == StartGrant # {}
           granted == CHOOSE k \in StartGrant : TRUE
           order1 == After(pkt_order, some)
<1>1. Inv /\ TypeOK /\ pkt_order \in Seq(Kind)
  BY DEF TypesInv, Inv, TypeOK
<1>2. /\ some => pkt_order # <<>>
      /\ StartPacket(WR) => pkt_order # <<>> /\ Head(pkt_order) = WR
  BY <1>1, Starts DEF Kind
<1>3. pkt_order' = order1 \o (IF any THEN <<granted>> ELSE <<>>)
  BY OrderUpdate
<1>4. any => granted \in Kind /\ granted # WR
  <2>1. ASSUME NEW k \in StartGrant
        PROVE  k \in Kind /\ StartRequest(k)
    BY <2>1 DEF StartGrant
  <2>2. ~StartRequest(WR)
    BY DEF CompleteInv, StartRequest, WR, RD, RESP
  <2> QED
    BY <2>1, <2>2
<1>5. ~StartPacket(WR)
  <2>1. pkt_order # <<>> => 1 \in 1 .. Len(pkt_order) /\ Head(pkt_order) = pkt_order[1]
    BY <1>1, EmptySeq, LenProperties, HeadTailProperties
  <2> QED
    BY <1>2, <2>1 DEF NoStoreWaits
<1>6. Sending(WR)' = <<>>
  BY <1>1, <1>5, SendingFrom DEF NoStoreWaits
<1>7. order1 \in Seq(Kind) /\ \A p \in 1 .. Len(order1) : order1[p] # WR
  <2>1. CASE some
    <3>1. order1 = After(pkt_order, TRUE)
      BY <2>1 DEF After
    <3>2. /\ order1 \in Seq(Kind) /\ Len(pkt_order) \in Nat \ {0}
          /\ Len(order1) = Len(pkt_order) - 1
          /\ \A i \in 1 .. Len(pkt_order) - 1 : order1[i] = pkt_order[i + 1]
      BY <1>1, <1>2, <2>1, <3>1, AfterAt
    <3> HIDE DEF order1
    <3>3. ASSUME NEW p \in 1 .. Len(order1)
          PROVE  p + 1 \in 1 .. Len(pkt_order) /\ order1[p] = pkt_order[p + 1]
      BY <3>2
    <3> QED
      BY <3>2, <3>3 DEF NoStoreWaits
  <2>2. CASE ~some
    BY <1>1, <2>2 DEF NoStoreWaits, After
  <2> QED
    BY <2>1, <2>2
<1> HIDE DEF some, any, granted, order1
<1>8. \A p \in 1 .. Len(pkt_order') : pkt_order'[p] # WR
  <2>1. CASE any
    <3>1. pkt_order' = Append(order1, granted)
      BY <1>3, <1>4, <1>7, <2>1, AppendIsConcat
    <3>2. /\ Len(order1) \in Nat /\ Len(pkt_order') = Len(order1) + 1
          /\ \A i \in 1 .. Len(order1) : pkt_order'[i] = order1[i]
          /\ pkt_order'[Len(order1) + 1] = granted
      BY <1>4, <1>7, <2>1, <3>1, AppendAt
    <3>3. ASSUME NEW p \in 1 .. Len(pkt_order')
          PROVE  p \in 1 .. Len(order1) \/ p = Len(order1) + 1
      BY <3>2
    <3> QED
      BY <1>4, <1>7, <2>1, <3>2, <3>3
  <2>2. CASE ~any
    BY <1>3, <1>7, <2>2, ConcatEmptySeq
  <2> QED
    BY <2>1, <2>2
<1> QED
  BY <1>6, <1>8 DEF NoStoreWaits

\* An answer that tells of the completion is taken only behind the stores.
LEMMA TellsStep ==
  ASSUME TypesInv, Tells(TRUE)
  PROVE  Sending(RESP) = <<1>>
<1>1. state = "TX_DATA" /\ cur_kind = RESP /\ Head(r_data) = 1
  BY DEF Tells, BeatSent
<1>2. Sending(RESP) = <<cur>> /\ cur \in Value /\ r_desc \in Seq(Value)
  BY <1>1 DEF Sending, TypesInv, Inv, TypeOK
<1>3. r_data = <<cur>> \o r_desc
  BY <1>2 DEF TypesInv, Inv, AnswersFollowHeader
<1>4. Head(<<cur>> \o r_desc) = cur
  <2>1. <<cur>> \in Seq(Value) /\ Len(<<cur>>) = 1 /\ <<cur>>[1] = cur
    BY <1>2
  <2> DEFINE both == <<cur>> \o r_desc
  <2>2. both \in Seq(Value) /\ Len(both) = 1 + Len(r_desc) /\ both[1] = cur
    BY <1>2, <2>1, ConcatProperties
  <2>3. Len(r_desc) \in Nat
    BY <1>2, LenProperties
  <2> HIDE DEF both
  <2>4. both # <<>>
    BY <2>2, <2>3, Len(<<>>) = 0
  <2>5. Head(both) = cur
    BY <2>2, <2>4, HeadTailProperties
  <2> QED
    BY <2>5 DEF both
<1> QED
  BY <1>1, <1>2, <1>3, <1>4

\* What is true of a complete CTA stays true.
LEMMA CompleteStep ==
  ASSUME TypesInv, OrderInv, CompleteInv,
         NEW store, NEW new \in NewOffers, NEW polled \in BOOLEAN, NEW w_accept,
         NEW link_ready \in BOOLEAN, NEW completes \in BOOLEAN,
         ClockOf(store, new, Answer(polled), w_accept, LinkValid /\ link_ready, TRUE),
         completes => MayComplete /\ WR \notin new,
         complete' = (complete \/ completes),
         told' = (told \/ Tells(link_ready))
  PROVE  CompleteInv'
<1>1. /\ Inv /\ TypeOK /\ r_desc \in Seq(Value) /\ answer \in Seq(Value) /\ Len(answer) <= 1
      /\ pkt_order \in Seq(Kind)
  BY DEF TypesInv, Inv, TypeOK
<1>2. complete' => WR \notin offers'
  BY DEF CompleteInv, NewOffers, MayComplete, ClockOf
<1>3. told' => told \/ Sending(RESP) = <<1>>
  <2>1. Tells(link_ready) => Tells(TRUE)
    BY DEF Tells, BeatSent
  <2> QED
    BY <2>1, TellsStep
<1>4. \/ Sending(RESP)' = <<>>
      \/ Sending(RESP)' = Sending(RESP)
      \/ StartPacket(RESP) /\ Sending(RESP)' = <<Head(r_desc)>>
  <2>1. \/ Sending(RESP)' = <<>>
        \/ Sending(RESP)' = Sending(RESP)
        \/ StartPacket(RESP) /\ Sending(RESP)' = <<cur'>>
    BY <1>1, SendingFrom
  <2>2. StartPacket(RESP) => cur' = Head(r_desc)
    BY <1>1, SerializerStep
  <2> QED
    BY <2>1, <2>2
<1>5. StartPacket(RESP) => /\ r_desc # <<>> /\ state = "TX_IDLE"
                           /\ pkt_order # <<>> /\ Head(pkt_order) = RESP
  BY <1>1, Starts DEF Kind
<1>6. r_desc # <<>> => 1 \in 1 .. Len(r_desc) /\ Head(r_desc) = r_desc[1]
  BY <1>1, EmptySeq, LenProperties, HeadTailProperties
<1>7. ~complete' => NotTelling'
  <2> SUFFICES ASSUME ~complete'
               PROVE  NotTelling'
    OBVIOUS
  <2>1. ~complete /\ NotTelling
    BY DEF CompleteInv
  <2>2. Accepts(RESP) \in BOOLEAN /\ (Accepts(RESP) => answer # <<>>)
    BY <1>1, Grants DEF Kind
  <2>3. answer # <<>> => Head(answer) # 1
    <3> SUFFICES ASSUME answer # <<>>, Head(answer) = 1
                 PROVE  FALSE
      OBVIOUS
    <3>1. Len(answer) = 1
      <4>1. Len(answer) \in Nat /\ Len(answer) # 0
        BY <1>1, EmptySeq, LenProperties
      <4> QED
        BY <1>1, <4>1
    <3>2. Tail(answer) \in Seq(Value) /\ Len(Tail(answer)) = 0
      <4>1. Tail(answer) \in Seq(Value) /\ Len(Tail(answer)) = Len(answer) - 1
        BY <1>1, HeadTailProperties
      <4> QED
        BY <3>1, <4>1
    <3>3. Tail(answer) = <<>>
      BY <3>2, EmptySeq
    <3>4. answer = <<Head(answer)>> \o Tail(answer)
      BY <1>1, HeadTailProperties
    <3>5. answer = <<1>>
      BY <3>3, <3>4
    <3> QED
      BY <2>1, <3>5 DEF NotTelling
  <2>4. answer' # <<1>>
    <3>1. answer' = After(answer, Accepts(RESP)) \o Answer(polled)
      BY DEF ClockOf
    <3>2. CASE polled
      <4>1. Answer(polled) = <<0>> /\ answer = <<>>
        BY <2>1, <3>2 DEF Answer, One, ClockOf
      <4>2. After(answer, Accepts(RESP)) = <<>>
        BY <2>2, <4>1 DEF After
      <4>3. answer' = <<0>>
        BY <3>1, <4>1, <4>2, <<>> \o <<0>> = <<0>>
      <4> QED
        BY <4>3
    <3>3. CASE ~polled
      <4>1. Answer(polled) = <<>>
        BY <3>3 DEF Answer
      <4>2. CASE Accepts(RESP)
        <5>1. /\ After(answer, Accepts(RESP)) \in Seq(Value)
              /\ Len(After(answer, Accepts(RESP))) = Len(answer) - 1
          BY <1>1, <2>2, <4>2, AfterAt
        <5>2. Len(After(answer, Accepts(RESP))) = 0
          BY <1>1, <5>1, LenProperties
        <5>3. After(answer, Accepts(RESP)) = <<>>
          BY <5>1, <5>2, EmptySeq
        <5> QED
          BY <3>1, <4>1, <5>3
      <4>3. CASE ~Accepts(RESP)
        BY <1>1, <2>1, <3>1, <4>1, <4>3, ConcatEmptySeq DEF After, NotTelling
      <4> QED
        BY <2>2, <4>2, <4>3
    <3> QED
      BY <3>2, <3>3
  <2>5. \A i \in 1 .. Len(r_desc') : r_desc'[i] # 1
    <3> DEFINE rest == After(r_desc, StartPacket(RESP))
               item == Head(answer)
    <3>1. r_desc' = With(rest, Accepts(RESP), item)
      BY DEF ClockOf, FifoUpdate
    <3>2. rest \in Seq(Value) /\ \A i \in 1 .. Len(rest) : rest[i] # 1
      <4>1. CASE StartPacket(RESP)
        <5>1. rest = After(r_desc, TRUE)
          BY <4>1 DEF After
        <5>2. /\ rest \in Seq(Value) /\ Len(r_desc) \in Nat \ {0}
              /\ Len(rest) = Len(r_desc) - 1
              /\ \A i \in 1 .. Len(r_desc) - 1 : rest[i] = r_desc[i + 1]
          BY <1>1, <1>5, <4>1, <5>1, AfterAt
        <5> HIDE DEF rest
        <5>3. ASSUME NEW i \in 1 .. Len(rest)
              PROVE  i + 1 \in 1 .. Len(r_desc) /\ rest[i] = r_desc[i + 1]
          BY <5>2
        <5> QED
          BY <2>1, <5>2, <5>3 DEF NotTelling
      <4>2. CASE ~StartPacket(RESP)
        BY <1>1, <2>1, <4>2 DEF After, NotTelling
      <4> QED
        BY <4>1, <4>2
    <3>3. Accepts(RESP) => item \in Value /\ item # 1
      BY <1>1, <2>2, <2>3, HeadTailProperties
    <3> HIDE DEF rest, item
    <3>4. CASE Accepts(RESP)
      <4>1. r_desc' = Append(rest, item)
        BY <3>1, <3>4 DEF With
      <4>2. /\ Len(rest) \in Nat /\ Len(r_desc') = Len(rest) + 1
            /\ \A i \in 1 .. Len(rest) : r_desc'[i] = rest[i]
            /\ r_desc'[Len(rest) + 1] = item
        BY <3>2, <3>3, <3>4, <4>1, AppendAt
      <4>3. ASSUME NEW i \in 1 .. Len(r_desc')
            PROVE  i \in 1 .. Len(rest) \/ i = Len(rest) + 1
        BY <4>2
      <4> QED
        BY <3>2, <3>3, <3>4, <4>2, <4>3
    <3>5. CASE ~Accepts(RESP)
      BY <3>1, <3>2, <3>5 DEF With
    <3> QED
      BY <2>2, <3>4, <3>5
  <2>6. Sending(RESP)' # <<1>>
    <3>1. StartPacket(RESP) => <<Head(r_desc)>> # <<1>>
      BY <1>5, <1>6, <2>1 DEF NotTelling
    <3> QED
      BY <1>4, <2>1, <3>1 DEF NotTelling
  <2>7. ~told'
    BY <1>3, <2>1 DEF NotTelling
  <2> QED
    BY <2>4, <2>5, <2>6, <2>7 DEF NotTelling
<1>8. Sending(RESP)' = <<1>> \/ told' => NoStoreWaits'
  <2> SUFFICES ASSUME Sending(RESP)' = << 1 >> \/ told'
               PROVE  NoStoreWaits'
    OBVIOUS
  <2>1. CASE Sending(RESP) = <<1>> \/ told
    <3>1. complete /\ NoStoreWaits
      BY <2>1 DEF CompleteInv, NotTelling
    <3> QED
      BY <3>1, NoStoreStep
  <2>2. CASE ~(Sending(RESP) = <<1>> \/ told)
    <3>1. StartPacket(RESP) /\ Head(r_desc) = 1
      BY <1>3, <1>4, <2>2
    <3>2. complete
      BY <1>5, <1>6, <3>1 DEF CompleteInv, NotTelling
    <3>3. \A p \in 1 .. Len(pkt_order) : pkt_order[p] # WR
      <4>1. Placed(RESP, r_desc, pkt_order) /\ RESP \in Kind
        BY DEF OrderInv, Kind
      <4> QED
        BY <1>1, <1>5, <3>1, <4>1, Popped
    <3>4. Sending(WR) = <<>>
      BY <1>5, <3>1 DEF Sending
    <3>5. NoStoreWaits
      BY <3>3, <3>4 DEF NoStoreWaits
    <3> QED
      BY <3>2, <3>5, NoStoreStep
  <2> QED
    BY <2>1, <2>2
<1> QED
  BY <1>2, <1>7, <1>8 DEF CompleteInv

-----------------------------------------------------------------------------
(* The theorems. *)

\* The invariant holds at the start.
LEMMA RunInvInit == RunInit => RunInv
<1> SUFFICES ASSUME RunInit PROVE RunInv
  OBVIOUS
<1>1. Inv
  BY InvInit DEF RunInit
<1>2. /\ <<>> \in Seq(Value) /\ Len(<<>>) = 0 /\ <<>> \o <<>> \o <<>> \o <<>> = <<>>
      /\ <<>> # <<1>>
  OBVIOUS
<1>3. /\ stored = <<>> /\ actual = <<>> /\ arrived = <<>> /\ w_data = <<>> /\ data = <<>>
      /\ wr_desc = <<>> /\ r_desc = <<>> /\ pkt_order = <<>> /\ answer = <<>> /\ offers = {}
      /\ complete = FALSE /\ told = FALSE /\ state = "TX_IDLE"
  BY DEF RunInit, Init, CheckInit
<1>4. TypesInv /\ StoresOnTheWay
  BY <1>1, <1>2, <1>3 DEF TypesInv, StoresOnTheWay
<1>5. \A kind \in Kind : Place([i \in {} |-> 0], kind, 0, <<>>, 0, <<>>)
  BY DEF Place
<1>6. OrderInv
  BY <1>2, <1>3, <1>5 DEF OrderInv, Placed, Kind
<1>7. Sending(RESP) = <<>> /\ NotTelling
  BY <1>2, <1>3 DEF Sending, NotTelling
<1>8. CompleteInv
  BY <1>2, <1>3, <1>7 DEF CompleteInv
<1> QED
  BY <1>4, <1>6, <1>8 DEF RunInv

\* A clock, or the check at the end, keeps it.
LEMMA RunInvStep == RunInv /\ [RunNext]_run_vars => RunInv'
<1> SUFFICES ASSUME RunInv, [RunNext]_run_vars PROVE RunInv'
  OBVIOUS
<1>1. ASSUME Runs
      PROVE  RunInv'
  <2>1. PICK store \in Stores, w_valid \in If(BeatWaits), new \in NewOffers,
             polled \in If(answer = <<>> /\ ~told), link_ready \in If(LinkValid),
             completes \in If(MayComplete), records \in If(arrived # <<>>) :
          RunCycle(store, w_valid, new, polled, link_ready, completes, records)
    BY <1>1 DEF Runs
  <2>2. /\ w_valid \in BOOLEAN /\ polled \in BOOLEAN /\ link_ready \in BOOLEAN
        /\ completes \in BOOLEAN /\ records \in BOOLEAN
    BY DEF If
  <2>3. TypesInv /\ StoresOnTheWay /\ OrderInv /\ CompleteInv /\ Inv /\ complete \in BOOLEAN
    BY DEF RunInv, TypesInv
  <2>4. ClockOf(store, new, Answer(polled), w_valid /\ WReady, LinkValid /\ link_ready, TRUE)
    BY <2>1, <2>2, <2>3, RunCycleIsClock
  <2>5. /\ completes => MayComplete /\ WR \notin new
        /\ stored' = With(stored, Accepts(WR), store)
        /\ complete' = (complete \/ completes)
        /\ arrived' = Arrivals(records, link_ready)
        /\ told' = (told \/ Tells(link_ready))
        /\ Records(records)
    BY <2>1 DEF RunCycle
  <2>6. /\ stored' \in Seq(Value) /\ actual' \in Seq(Value) /\ arrived' \in Seq(Value)
        /\ StoresOnTheWay'
    BY <2>2, <2>3, <2>4, <2>5, StoresStep
  <2>7. Inv'
    BY <2>3, <2>4, ClockStep
  <2>8. complete' \in BOOLEAN
    BY <2>2, <2>3, <2>5
  <2>9. OrderInv'
    BY <2>3, <2>4, PlacesStep
  <2>10. CompleteInv'
    BY <2>2, <2>3, <2>4, <2>5, CompleteStep
  <2> QED
    BY <2>6, <2>7, <2>8, <2>9, <2>10 DEF RunInv, TypesInv
<1>2. ASSUME UNCHANGED <<vars, actual, stored, complete, arrived, told>>
      PROVE  RunInv'
  <2>1. TypesInv'
    BY <1>2 DEF RunInv, TypesInv, vars, Inv, TypeOK, DataFollowsHeader, AnswersFollowHeader,
                OneResponse, Sending
  <2>2. StoresOnTheWay'
    BY <1>2 DEF RunInv, vars, StoresOnTheWay
  <2>3. OrderInv'
    BY <1>2 DEF RunInv, vars, OrderInv
  <2>4. CompleteInv'
    BY <1>2 DEF RunInv, vars, CompleteInv, NotTelling, NoStoreWaits, Sending
  <2> QED
    BY <2>1, <2>2, <2>3, <2>4 DEF RunInv
<1>3. CASE Check
  BY <1>2, <1>3 DEF Check, CheckDone
<1>4. CASE UNCHANGED run_vars
  BY <1>2, <1>4 DEF run_vars, check_vars
<1> QED
  BY <1>1, <1>3, <1>4 DEF RunNext

\* The invariant of a run that both results about the stores follow from.
THEOREM RunInvariant == RunSpec => []RunInv
<1>1. RunInit => RunInv
  BY RunInvInit
<1>2. RunInv /\ [RunNext]_run_vars => RunInv'
  BY RunInvStep
<1> QED
  BY <1>1, <1>2, PTL DEF RunSpec

\* Every store leaves the chip once and in the order its address was taken.
THEOREM StoresInOrder == RunSpec => []StoresOnTheWay
<1>1. RunInv => StoresOnTheWay
  BY DEF RunInv
<1> QED
  BY <1>1, RunInvariant, PTL

\* Once the host has read of the completion, no store is left in the chip.
LEMMA AllCome ==
  ASSUME RunInv, told
  PROVE  stored = actual \o arrived
<1>1. /\ wr_desc \in Seq(Value) /\ w_data \in Seq(Value) /\ data \in Seq(Value)
      /\ actual \in Seq(Value) /\ arrived \in Seq(Value)
  BY DEF RunInv, TypesInv, Inv, TypeOK
<1>2. NoStoreWaits
  BY DEF RunInv, CompleteInv
<1>3. wr_desc = <<>>
  <2> SUFFICES ASSUME wr_desc # <<>>
               PROVE  FALSE
    OBVIOUS
  <2>1. PICK place : Place(place, WR, Len(wr_desc), wr_desc, Len(pkt_order), pkt_order)
    BY DEF RunInv, OrderInv, Placed
  <2>2. 1 \in 1 .. Len(wr_desc)
    BY <1>1, EmptySeq, LenProperties
  <2>3. place[1] \in 1 .. Len(pkt_order) /\ pkt_order[place[1]] = WR
    BY <2>1, <2>2 DEF Place
  <2> QED
    BY <1>2, <2>3 DEF NoStoreWaits
<1>4. w_data \o data = <<>>
  BY <1>2, <1>3 DEF NoStoreWaits, RunInv, TypesInv, Inv, DataFollowsHeader
<1>5. w_data = <<>> /\ data = <<>>
  BY <1>1, <1>4, ConcatEqualIffEmpty
<1>6. actual \o arrived \in Seq(Value)
  BY <1>1, ConcatProperties
<1>7. stored = ((actual \o arrived) \o <<>>) \o <<>>
  BY <1>5 DEF RunInv, StoresOnTheWay
<1> QED
  BY <1>6, <1>7, ConcatEmptySeq

\* When the host reads of the completion, it has all stores of the CTA, although the core
\* counts a store as done when it enters the link.
THEOREM CompletionIsLast == RunSpec => []CompletionBehindStores
<1>1. RunInv => CompletionBehindStores
  BY AllCome DEF CompletionBehindStores
<1> QED
  BY <1>1, RunInvariant, PTL

-----------------------------------------------------------------------------
(* The verdict: how often a write is in a list. *)

\* A set of numbers that is not empty has a least one.
LEMMA HasLeast ==
  ASSUME NEW T \in SUBSET Nat, T # {}
  PROVE  \E x \in T : \A y \in T : x <= y
<1>1. PICK x \in T : \A y \in T : <<y, x>> \notin OpToRel(<, Nat)
  BY NatLessThanWellFounded, WFMin
<1>2. ASSUME NEW y \in T, ~(x <= y) PROVE FALSE
  <2>1. <<y, x>> \in Nat \X Nat /\ y < x
    BY <1>2
  <2>2. <<y, x>> \in OpToRel(<, Nat)
    BY <2>1 DEF OpToRel
  <2> QED
    BY <1>1, <2>2
<1> QED
  BY <1>2

\* Where v is in a list.
At(v, list) == {i \in DOMAIN list : list[i] = v}

LEMMA AtFinite ==
  ASSUME NEW S, NEW list \in Seq(S), NEW v
  PROVE  /\ IsFiniteSet(At(v, list)) /\ Times(v, list) = Cardinality(At(v, list))
         /\ Times(v, list) \in Nat /\ Len(list) \in Nat /\ DOMAIN list = 1 .. Len(list)
<1>1. Len(list) \in Nat /\ DOMAIN list = 1 .. Len(list)
  BY LenProperties
<1>2. IsFiniteSet(1 .. Len(list))
  BY <1>1, FS_Interval
<1>3. At(v, list) \in SUBSET (1 .. Len(list))
  BY <1>1 DEF At
<1>4. IsFiniteSet(At(v, list))
  BY <1>2, <1>3, FS_Subset
<1>5. Times(v, list) = Cardinality(At(v, list))
  BY DEF Times, At
<1> QED
  BY <1>1, <1>4, <1>5, FS_CardinalityType

\* One more write counts once.
LEMMA TimesWith ==
  ASSUME NEW S, NEW list \in Seq(S), NEW w \in S, NEW v
  PROVE  Times(v, Append(list, w)) = Times(v, list) + IF v = w THEN 1 ELSE 0
<1> DEFINE more == Append(list, w)
           n == Len(list)
<1>1. /\ more \in Seq(S) /\ n \in Nat /\ Len(more) = n + 1 /\ more[n + 1] = w
      /\ \A i \in 1 .. n : more[i] = list[i]
  BY AppendAt
<1>2. DOMAIN list = 1 .. n /\ IsFiniteSet(At(v, list)) /\ Times(v, list) = Cardinality(At(v, list))
      /\ Times(v, list) \in Nat
  BY AtFinite
<1>3. DOMAIN more = 1 .. n + 1 /\ Times(v, more) = Cardinality(At(v, more))
  BY <1>1, AtFinite
<1> HIDE DEF more, n
<1>4. At(v, more) = IF v = w THEN At(v, list) \cup {n + 1} ELSE At(v, list)
  <2>1. \A i : i \in 1 .. n + 1 <=> i \in 1 .. n \/ i = n + 1
    BY <1>1
  <2>2. At(v, more) = {i \in 1 .. n + 1 : more[i] = v} /\ At(v, list) = {i \in 1 .. n : list[i] = v}
    BY <1>2, <1>3 DEF At
  <2> QED
    BY <1>1, <2>1, <2>2
<1>5. n + 1 \notin At(v, list)
  BY <1>1, <1>2 DEF At
<1>6. Cardinality(At(v, list) \cup {n + 1}) = Cardinality(At(v, list)) + 1
  <2>1. IsFiniteSet(At(v, list))
    BY <1>2
  <2> QED
    BY <1>5, <2>1, FS_AddElement
<1>7. Times(v, more) = Times(v, list) + IF v = w THEN 1 ELSE 0
  BY <1>2, <1>3, <1>4, <1>6
<1> QED
  BY <1>7 DEF more

\* The expected writes of v that are matched.
Found(v) == {i \in matched : expected[i] = v}

\* Before the verdict, the matches are the writes that came, unless one came too often.
MatchInv ==
  /\ expected \in Seq(Value) /\ matched \subseteq DOMAIN expected /\ errors \in Nat
  /\ expected # <<>> /\ errors = 0 => \A v \in Value : Times(v, actual) = Cardinality(Found(v))
  /\ errors # 0 => expected # <<>> /\ \E v \in Value : Times(v, actual) > Times(v, expected)

\* The matched ones among the expected writes of v.
LEMMA FoundAmong ==
  ASSUME MatchInv, NEW v
  PROVE  /\ IsFiniteSet(Found(v)) /\ Found(v) \subseteq At(v, expected)
         /\ Cardinality(Found(v)) \in Nat /\ Times(v, expected) \in Nat
         /\ Cardinality(Found(v)) <= Times(v, expected)
         /\ Cardinality(Found(v)) = Times(v, expected) <=> Candidates(v) = {}
<1>1. expected \in Seq(Value) /\ matched \subseteq DOMAIN expected
  BY DEF MatchInv
<1>2. /\ IsFiniteSet(At(v, expected)) /\ Times(v, expected) = Cardinality(At(v, expected))
      /\ Times(v, expected) \in Nat
  BY <1>1, AtFinite
<1>3. Found(v) \in SUBSET At(v, expected)
  BY <1>1 DEF Found, At
<1>4. /\ IsFiniteSet(Found(v)) /\ Cardinality(Found(v)) <= Cardinality(At(v, expected))
      /\ Cardinality(At(v, expected)) = Cardinality(Found(v)) => At(v, expected) = Found(v)
  BY <1>2, <1>3, FS_Subset
<1>5. Candidates(v) = At(v, expected) \ Found(v)
  BY <1>1 DEF Candidates, Missing, At, Found
<1> QED
  BY <1>2, <1>3, <1>4, <1>5, FS_CardinalityType

\* A write that is recorded is matched with one expected write, or is one too many.
LEMMA RecordStep ==
  ASSUME MatchInv, actual \in Seq(Value), NEW w \in Value, RecordWrite(w)
  PROVE  MatchInv'
<1> DEFINE found == {i \in Candidates(w) : \A j \in Candidates(w) : i <= j}
<1>1. /\ expected \in Seq(Value) /\ matched \subseteq DOMAIN expected /\ errors \in Nat
      /\ actual' = Append(actual, w) /\ matched' = matched \cup found /\ expected' = expected
      /\ errors' = IF expected # <<>> /\ found = {} THEN errors + 1 ELSE errors
  BY DEF MatchInv, RecordWrite
<1>2. DOMAIN expected = 1 .. Len(expected)
  BY <1>1, AtFinite
<1>3. Candidates(w) \subseteq DOMAIN expected \ matched /\ \A i \in Candidates(w) : expected[i] = w
  BY DEF Candidates, Missing
<1>4. Candidates(w) \subseteq Nat
  BY <1>2, <1>3
<1>5. Candidates(w) # {} => found # {}
  BY <1>4, HasLeast
<1>6. \A i, j \in found : i = j
  BY <1>4
<1>7. found \subseteq Candidates(w)
  OBVIOUS
<1> HIDE DEF found
<1>8. \A v : Times(v, actual') = Times(v, actual) + IF v = w THEN 1 ELSE 0
  BY <1>1, TimesWith
<1>9. \A v : Times(v, actual) \in Nat /\ Times(v, expected) \in Nat
  BY <1>1, AtFinite
<1>10. expected' \in Seq(Value) /\ matched' \subseteq DOMAIN expected' /\ errors' \in Nat
  BY <1>1, <1>3, <1>7
<1>11. (expected # <<>> /\ errors = 0 => \A v \in Value : Times(v, actual) = Cardinality(Found(v)))'
  <2> SUFFICES ASSUME expected # <<>>, errors' = 0, NEW v \in Value
               PROVE  Times(v, actual') = Cardinality(Found(v)')
    BY <1>1 DEF Found
  <2>1. errors = 0 /\ found # {}
    BY <1>1
  <2>2. Times(v, actual) = Cardinality(Found(v)) /\ IsFiniteSet(Found(v))
    BY <2>1, FoundAmong DEF MatchInv
  <2>3. PICK f \in found : found = {f}
    BY <1>6, <2>1
  <2>4. expected[f] = w /\ f \notin matched
    BY <1>3, <1>7, <2>3
  <2>5. Found(v)' = IF v = w THEN Found(v) \cup {f} ELSE Found(v)
    BY <1>1, <2>3, <2>4 DEF Found
  <2>6. f \notin Found(v)
    BY <2>4 DEF Found
  <2>7. Cardinality(Found(v) \cup {f}) = Cardinality(Found(v)) + 1
    BY <2>2, <2>6, FS_AddElement
  <2>8. Times(v, actual') = Times(v, actual) + IF v = w THEN 1 ELSE 0
    BY <1>8
  <2>9. CASE v = w
    <3>1. Found(v)' = Found(v) \cup {f}
      BY <2>5, <2>9
    <3> QED
      BY <2>2, <2>7, <2>8, <2>9, <3>1
  <2>10. CASE v # w
    <3>1. Found(v)' = Found(v) /\ Times(v, actual') = Times(v, actual) + 0
      BY <2>5, <2>8, <2>10
    <3>2. Times(v, actual) \in Nat
      BY <1>9
    <3> QED
      BY <2>2, <3>1, <3>2
  <2> QED
    BY <2>9, <2>10
<1>12. (errors # 0 => expected # <<>> /\ \E v \in Value : Times(v, actual) > Times(v, expected))'
  <2> SUFFICES ASSUME errors' # 0
               PROVE  expected # <<>> /\ \E v \in Value : Times(v, actual') > Times(v, expected)
    BY <1>1
  <2>1. CASE errors # 0
    <3>1. PICK v \in Value : Times(v, actual) > Times(v, expected)
      BY <2>1 DEF MatchInv
    <3>2. Times(v, actual') > Times(v, expected)
      BY <1>8, <1>9, <3>1
    <3> QED
      BY <2>1, <3>2 DEF MatchInv
  <2>2. CASE errors = 0
    <3>1. expected # <<>> /\ found = {}
      BY <1>1, <2>2
    <3>2. Times(w, actual) = Times(w, expected)
      BY <1>5, <2>2, <3>1, FoundAmong DEF MatchInv
    <3>3. Times(w, actual') > Times(w, expected)
      BY <1>8, <1>9, <3>2
    <3> QED
      BY <3>1, <3>3
  <2> QED
    BY <2>1, <2>2
<1> QED
  BY <1>10, <1>11, <1>12 DEF MatchInv

\* The verdict compares what came with what is expected.
LEMMA VerdictOf ==
  ASSUME MatchInv, actual \in Seq(Value), CheckDone
  PROVE  /\ verdict' \in {"pass", "fail"}
         /\ verdict' = "pass" <=> expected = <<>> \/ SameWrites(actual, expected)
<1>1. /\ expected \in Seq(Value) /\ matched \subseteq DOMAIN expected /\ errors \in Nat
      /\ verdict' = IF errors + Cardinality(Missing) = 0 THEN "pass" ELSE "fail"
  BY DEF MatchInv, CheckDone
<1>2. DOMAIN expected = 1 .. Len(expected) /\ Len(expected) \in Nat
  BY <1>1, AtFinite
<1>3. IsFiniteSet(Missing)
  <2>1. IsFiniteSet(DOMAIN expected)
    BY <1>2, FS_Interval
  <2> QED
    BY <2>1, FS_Subset DEF Missing
<1>4. Cardinality(Missing) \in Nat /\ (Cardinality(Missing) = 0 <=> Missing = {})
  BY <1>3, FS_EmptySet, FS_CardinalityType
<1>5. verdict' = "pass" <=> errors = 0 /\ Missing = {}
  BY <1>1, <1>4
<1>6. \A v : Times(v, actual) \in Nat /\ Times(v, expected) \in Nat
  BY <1>1, AtFinite
<1>7. Write = Value
  BY WriteAssumption
<1>8. CASE expected = <<>>
  <2>1. errors = 0 /\ Missing = {}
    BY <1>8 DEF MatchInv, Missing
  <2> QED
    BY <1>1, <1>5, <1>8, <2>1
<1>9. CASE expected # <<>> /\ errors # 0
  <2>1. PICK v \in Value : Times(v, actual) > Times(v, expected)
    BY <1>9 DEF MatchInv
  <2>2. ~SameWrites(actual, expected)
    BY <1>6, <1>7, <2>1 DEF SameWrites
  <2> QED
    BY <1>1, <1>5, <1>9, <2>2
<1>10. CASE expected # <<>> /\ errors = 0
  <2>1. \A v \in Value : Times(v, actual) = Times(v, expected) <=> Candidates(v) = {}
    BY <1>10, FoundAmong DEF MatchInv
  <2>2. SameWrites(actual, expected) <=> \A v \in Value : Candidates(v) = {}
    BY <1>7, <2>1 DEF SameWrites
  <2>3. \A i \in DOMAIN expected : expected[i] \in Value
    BY <1>1, <1>2, ElementOfSeq
  <2>4. (\A v \in Value : Candidates(v) = {}) <=> Missing = {}
    BY <2>3 DEF Candidates, Missing
  <2> QED
    BY <1>1, <1>5, <1>10, <2>2, <2>4
<1> QED
  BY <1>8, <1>9, <1>10

\* Until the verdict the matches are right, and from then on it stands.
VerdictInv ==
  /\ verdict = "none" => MatchInv
  /\ verdict # "none" => told /\ arrived = <<>> /\ VerdictRight

\* Nothing has come and nothing is matched at the start.
LEMMA VerdictInit == RunInit => VerdictInv
<1> SUFFICES ASSUME RunInit PROVE VerdictInv
  OBVIOUS
<1>1. PICK n \in 0 .. MaxExpected : expected \in [1 .. n -> Write]
  BY DEF RunInit, CheckInit
<1>2. expected \in Seq(Value)
  BY <1>1, StoresAssumption, WriteAssumption, SeqDef
<1>3. matched = {} /\ actual = <<>> /\ errors = 0 /\ verdict = "none"
  BY DEF RunInit, CheckInit
<1>4. \A v : Found(v) = {} /\ At(v, actual) = {}
  BY <1>3 DEF Found, At
<1>5. \A v : Times(v, actual) = 0 /\ Cardinality(Found(v)) = 0
  <2>1. actual \in Seq(Value)
    BY <1>3
  <2>2. \A v : Times(v, actual) = Cardinality(At(v, actual))
    BY <2>1, AtFinite
  <2> QED
    BY <1>4, <2>2, FS_EmptySet
<1>6. MatchInv
  BY <1>2, <1>3, <1>5 DEF MatchInv
<1> QED
  BY <1>3, <1>6 DEF VerdictInv

\* A clock records a write before the verdict, and brings none behind it.
LEMMA VerdictRuns ==
  ASSUME RunInv, RunInv', CompletionBehindStores', VerdictInv, Runs
  PROVE  VerdictInv'
<1>1. PICK store \in Stores, w_valid \in If(BeatWaits), new \in NewOffers,
           polled \in If(answer = <<>> /\ ~told), link_ready \in If(LinkValid),
           completes \in If(MayComplete), records \in If(arrived # <<>>) :
        RunCycle(store, w_valid, new, polled, link_ready, completes, records)
  BY DEF Runs
<1>2. /\ stored' = With(stored, Accepts(WR), store) /\ told' = (told \/ Tells(link_ready))
      /\ IF records THEN arrived # <<>> /\ RecordWrite(Head(arrived)) ELSE UNCHANGED check_vars
  BY <1>1 DEF RunCycle, Records
<1>3. verdict' = verdict /\ expected' = expected
  BY <1>2 DEF RecordWrite, check_vars
<1>4. /\ actual \in Seq(Value) /\ arrived \in Seq(Value)
      /\ actual' \in Seq(Value) /\ arrived' \in Seq(Value)
  BY DEF RunInv, TypesInv
<1>5. CASE verdict = "none"
  <2>1. MatchInv
    BY <1>5 DEF VerdictInv
  <2>2. MatchInv'
    <3>1. CASE records
      <4>1. Head(arrived) \in Value /\ RecordWrite(Head(arrived))
        BY <1>2, <1>4, <3>1, HeadTailProperties
      <4> QED
        BY <1>4, <2>1, <4>1, RecordStep
    <3>2. CASE ~records
      BY <1>2, <2>1, <3>2 DEF check_vars, MatchInv, Found
    <3> QED
      BY <3>1, <3>2
  <2> QED
    BY <1>3, <1>5, <2>2 DEF VerdictInv
<1>6. CASE verdict # "none"
  <2>1. told /\ arrived = <<>> /\ VerdictRight
    BY <1>6 DEF VerdictInv
  <2>2. told' /\ actual' = actual
    BY <1>2, <2>1 DEF check_vars
  <2>3. WR \notin offers
    BY <2>1 DEF RunInv, CompleteInv, NotTelling
  <2>4. stored' = stored
    <3>1. Accepts(WR) => StartRequest(WR)
      BY DEF Accepts, StartGrant
    <3>2. ~StartRequest(WR)
      BY <2>3 DEF StartRequest, WR, RD, RESP
    <3> QED
      BY <1>2, <3>1, <3>2 DEF With
  <2>5. stored = actual
    <3>1. stored = actual \o <<>>
      BY <2>1, AllCome
    <3> QED
      BY <1>4, <3>1, ConcatEmptySeq
  <2>6. stored' = actual' \o arrived'
    BY <2>2 DEF CompletionBehindStores
  <2>7. arrived' = <<>>
    <3>1. Len(actual) = Len(actual) + Len(arrived') /\ Len(actual) \in Nat /\ Len(arrived') \in Nat
      BY <1>4, <2>2, <2>4, <2>5, <2>6, ConcatProperties, LenProperties
    <3> QED
      BY <1>4, <3>1, EmptySeq
  <2>8. VerdictRight'
    BY <1>3, <2>1, <2>4 DEF VerdictRight
  <2> QED
    BY <1>3, <1>6, <2>2, <2>7, <2>8 DEF VerdictInv
<1> QED
  BY <1>5, <1>6

\* The host asks when all stores have come, so the verdict is about them.
LEMMA VerdictCheck ==
  ASSUME RunInv, VerdictInv, Check
  PROVE  VerdictInv'
<1>1. /\ told /\ arrived = <<>> /\ verdict = "none" /\ CheckDone
      /\ told' = told /\ arrived' = arrived /\ stored' = stored /\ expected' = expected
  BY DEF Check, CheckDone
<1>2. MatchInv /\ actual \in Seq(Value)
  BY <1>1 DEF VerdictInv, RunInv, TypesInv
<1>3. stored = actual
  <2>1. stored = actual \o <<>>
    BY <1>1, AllCome
  <2> QED
    BY <1>2, <2>1, ConcatEmptySeq
<1>4. /\ verdict' \in {"pass", "fail"}
      /\ verdict' = "pass" <=> expected = <<>> \/ SameWrites(actual, expected)
  BY <1>1, <1>2, VerdictOf
<1>5. VerdictRight'
  BY <1>1, <1>3, <1>4 DEF VerdictRight, SameWrites, Times
<1>6. verdict' # "none"
  BY <1>4
<1> QED
  BY <1>1, <1>5, <1>6 DEF VerdictInv

\* The test bench passes exactly the runs that made the expected stores, each as often as it
\* is expected (or of which nothing is expected), although it asks when the host has read of
\* the completion and matches the writes one by one as they come.
THEOREM VerdictIsRight == RunSpec => []VerdictRight
<1>1. RunInit => RunInv /\ VerdictInv
  BY RunInvInit, VerdictInit
<1>2. RunInv => CompletionBehindStores
  BY AllCome DEF CompletionBehindStores
<1>3. RunInv' => CompletionBehindStores'
  BY <1>2, PTL
<1>4. RunInv /\ VerdictInv /\ [RunNext]_run_vars => (RunInv /\ VerdictInv)'
  <2> SUFFICES ASSUME RunInv, VerdictInv, [RunNext]_run_vars
               PROVE  RunInv' /\ VerdictInv'
    OBVIOUS
  <2>1. RunInv'
    BY RunInvStep
  <2>2. CASE Runs
    BY <1>3, <2>1, <2>2, VerdictRuns
  <2>3. CASE Check
    BY <2>1, <2>3, VerdictCheck
  <2>4. CASE UNCHANGED run_vars
    <3>1. UNCHANGED <<expected, matched, actual, errors, verdict, stored, arrived, told>>
      BY <2>4 DEF run_vars, check_vars
    <3>2. MatchInv' <=> MatchInv
      BY <3>1 DEF MatchInv, Found, Times
    <3>3. VerdictRight' <=> VerdictRight
      BY <3>1 DEF VerdictRight, SameWrites, Times
    <3> QED
      BY <2>1, <3>1, <3>2, <3>3 DEF VerdictInv
  <2> QED
    BY <2>1, <2>2, <2>3, <2>4 DEF RunNext
<1>5. VerdictInv => VerdictRight
  BY DEF VerdictInv, VerdictRight
<1> QED
  BY <1>1, <1>4, <1>5, PTL DEF RunSpec
=============================================================================
