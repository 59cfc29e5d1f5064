-------------------------- MODULE MemPorts_proofs --------------------------
(***************************************************************************)
(* For any number of ports, any depth of their FIFOs and any kernels: the  *)
(* credits of the memory ports are conserved, so that a FIFO is never      *)
(* written when it is full; and the port that has the bus keeps it, if the *)
(* e-blocks of a kernel use the same ports.                                *)
(***************************************************************************)
EXTENDS MemPorts, SequenceTheorems, TLAPS

\* The inductive invariant: the types bound what the credits bound.
Inv == TypeOK /\ CreditsConserved

One(condition) == IF condition THEN 1 ELSE 0

\* The FIFO of a port after a clock: one request shorter if the port took it, one longer if
\* a thread pushed one.
LEMMA FifoLength ==
  ASSUME NEW emit \in BOOLEAN, TypeOK, FifoUpdate(emit), NEW p \in Port
  PROVE  /\ fifo'[p] \in Seq(Op)
         /\ Len(fifo'[p]) = Len(fifo[p]) - One(p \in Taken) + One(emit /\ p \in Used)
<1> DEFINE kept == IF p \in Taken THEN Tail(fifo[p]) ELSE fifo[p]
           pushed == IF emit /\ p \in Used THEN <<OpOf(p)>> ELSE <<>>
<1>1. fifo[p] \in Seq(Op)
  BY DEF TypeOK
<1>2. fifo'[p] = kept \o pushed
  BY DEF FifoUpdate
<1>3. kept \in Seq(Op) /\ Len(kept) = Len(fifo[p]) - One(p \in Taken)
  <2>1. CASE p \in Taken
    <3>1. fifo[p] # <<>>
      BY <2>1 DEF Taken
    <3> QED
      BY <1>1, <2>1, <3>1 DEF One
  <2>2. CASE p \notin Taken
    BY <1>1, <2>2 DEF One
  <2> QED
    BY <2>1, <2>2
<1>4. pushed \in Seq(Op) /\ Len(pushed) = One(emit /\ p \in Used)
  <2>1. CASE emit /\ p \in Used
    <3>1. OpOf(p) \in Op
      BY DEF OpOf, Op
    <3>2. pushed = <<OpOf(p)>> /\ One(emit /\ p \in Used) = 1
      BY <2>1 DEF One
    <3> QED
      BY <3>1, <3>2
  <2>2. CASE ~(emit /\ p \in Used)
    <3>1. pushed = <<>> /\ One(emit /\ p \in Used) = 0
      BY <2>2 DEF One
    <3> QED
      BY <3>1
  <2> QED
    BY <2>1, <2>2
<1>5. Len(kept) \in Nat /\ Len(fifo[p]) \in Nat
  BY <1>1, <1>3
<1> HIDE DEF kept, pushed
<1>6. fifo'[p] \in Seq(Op) /\ Len(fifo'[p]) = Len(kept) + Len(pushed)
  BY <1>2, <1>3, <1>4, ConcatProperties
<1> QED
  BY <1>3, <1>4, <1>6

\* One clock conserves the credits of a port.
LEMMA CreditStep ==
  ASSUME TypeOK, CreditsConserved, NEW disp \in BOOLEAN, NEW emit \in BOOLEAN,
         disp => CreditReady, emit => pipe > 0,
         pipe' = pipe + One(disp) - One(emit),
         CreditUpdate(disp, emit), FifoUpdate(emit), NEW p \in Port
  PROVE  /\ credits'[p] \in 0 .. Depth
         /\ pipe' \in 0 .. Depth
         /\ credits'[p] + pipe' + Len(fifo'[p]) = Depth
<1> DEFINE taken == One(p \in Taken)
           used == One(emit /\ p \in Used)
           unused == One(emit /\ p \notin Used)
           left == One(emit)
           entered == One(disp)
<1>1. /\ credits[p] \in 0 .. Depth /\ pipe \in 0 .. Depth /\ Len(fifo[p]) \in Nat
      /\ credits[p] + pipe + Len(fifo[p]) = Depth
      /\ Depth \in Nat
  BY DepthAssumption DEF TypeOK, CreditsConserved
<1>2. Len(fifo'[p]) \in Nat /\ Len(fifo'[p]) = Len(fifo[p]) - taken + used
  BY FifoLength
<1>3. credits'[p] = credits[p] + (taken + unused) - entered
  BY DEF CreditUpdate, CreditReturn, One
<1>4. /\ taken \in 0 .. 1 /\ unused \in 0 .. 1 /\ entered \in 0 .. 1
      /\ left \in 0 .. 1 /\ used \in 0 .. 1
  BY DEF One
<1>5. used + unused = left
  <2>1. CASE emit
    BY <2>1 DEF One
  <2>2. CASE ~emit
    BY <2>2 DEF One
  <2> QED
    BY <2>1, <2>2
<1>6. credits[p] >= entered
  <2>1. CASE disp
    BY <1>1, <2>1 DEF One, CreditReady
  <2>2. CASE ~disp
    BY <1>1, <2>2 DEF One
  <2> QED
    BY <2>1, <2>2
<1>7. pipe >= left
  <2>1. CASE emit
    BY <1>1, <2>1 DEF One
  <2>2. CASE ~emit
    BY <1>1, <2>2 DEF One
  <2> QED
    BY <2>1, <2>2
<1>8. pipe' = pipe + entered - left
  OBVIOUS
<1>9. credits[p] \in Int /\ pipe \in Int /\ Depth \in Int
  BY <1>1
<1> HIDE DEF taken, used, unused, left, entered
<1>10. Len(fifo[p]) \in Int /\ Len(fifo'[p]) \in Int
  BY <1>1, <1>2
<1>11. taken \in Int /\ used \in Int /\ unused \in Int /\ left \in Int /\ entered \in Int
  BY <1>4
<1>12. pipe' \in Int /\ credits'[p] \in Int
  BY ONLY <1>3, <1>8, <1>9, <1>11
<1>13. credits'[p] + pipe' + Len(fifo'[p]) = Depth
  <2>1. credits[p] + pipe + Len(fifo[p]) = Depth
    BY ONLY <1>1
  <2>2. Len(fifo'[p]) = Len(fifo[p]) - taken + used
    BY ONLY <1>2
  <2>3. credits'[p] + pipe' = credits[p] + pipe + taken - used
    BY ONLY <1>3, <1>5, <1>8, <1>9, <1>11, <1>12
  <2> QED
    BY ONLY <2>1, <2>2, <2>3, <1>9, <1>10, <1>11, <1>12
<1>14. credits'[p] >= 0 /\ pipe' >= 0
  BY ONLY <1>3, <1>4, <1>6, <1>7, <1>8, <1>9, <1>11, <1>12
<1>15. credits'[p] <= Depth /\ pipe' <= Depth
  BY ONLY <1>2, <1>9, <1>10, <1>12, <1>13, <1>14
<1> QED
  BY ONLY <1>9, <1>12, <1>13, <1>14, <1>15

\* The request sent in a clock, if any, is of a port.
LEMMA SentPorts ==
  ASSUME NEW aw_ready, NEW w_ready, NEW ar_ready
  PROVE  /\ StoreRetire(aw_ready, w_ready) \cup ArDone(ar_ready) \subseteq Port
         /\ AwFire(aw_ready) \subseteq Port
         /\ WFire(w_ready) \subseteq Port
BY DEF StoreRetire, ArDone, AwFire, WFire, Storing, Granted, Active

\* The registers of the ports and the crossbar keep their types.
LEMMA PortTypes ==
  ASSUME TypeOK, NEW aw_ready, NEW w_ready, NEW ar_ready,
         PortUpdate(StoreRetire(aw_ready, w_ready) \cup ArDone(ar_ready)),
         StoreUpdate(aw_ready, w_ready),
         RrUpdate(StoreRetire(aw_ready, w_ready) \cup ArDone(ar_ready)),
         WritesUpdate(aw_ready, w_ready)
  PROVE  /\ state' \in [Port -> Op \cup {"idle"}]
         /\ aw_done' \subseteq Port /\ w_done' \subseteq Port
         /\ rr' \in Port
         /\ writes' \in Seq(Port)
<1> DEFINE sent == StoreRetire(aw_ready, w_ready) \cup ArDone(ar_ready)
<1>1. state' \in [Port -> Op \cup {"idle"}]
  <2>1. \A p \in Taken : Head(fifo[p]) \in Op
    BY DEF Taken, TypeOK
  <2> QED
    BY <2>1 DEF PortUpdate, TypeOK
<1>2. aw_done' \subseteq Port /\ w_done' \subseteq Port
  BY DEF StoreUpdate, Active
<1>3. rr' \in Port
  <2>1. CASE sent = {}
    BY <2>1 DEF RrUpdate, TypeOK
  <2>2. CASE sent # {}
    <3>1. PICK p \in Port : p = CHOOSE q \in sent : TRUE
      BY <2>2, SentPorts
    <3>2. rr' = (p + 1) % NumPorts
      BY <2>2, <3>1 DEF RrUpdate
    <3> QED
      BY <3>2, NumPortsAssumption DEF Port
  <2> QED
    BY <2>1, <2>2
<1>4. writes' \in Seq(Port)
  <2> DEFINE rest == IF WFire(w_ready) = {} THEN writes ELSE Tail(writes)
  <2>1. rest \in Seq(Port)
    <3>1. WFire(w_ready) # {} => writes # <<>>
      BY DEF WFire
    <3> QED
      BY <3>1 DEF TypeOK
  <2>2. CASE AwFire(aw_ready) = {}
    BY <2>1, <2>2 DEF WritesUpdate
  <2>3. CASE AwFire(aw_ready) # {}
    <3>1. PICK p \in Port : p = CHOOSE q \in AwFire(aw_ready) : TRUE
      BY <2>3, SentPorts
    <3>2. writes' = Append(rest, p)
      BY <2>3, <3>1 DEF WritesUpdate
    <3> HIDE DEF rest
    <3> QED
      BY <2>1, <3>2
  <2> QED
    BY <2>2, <2>3
<1> QED
  BY <1>1, <1>2, <1>3, <1>4

LEMMA InvInit == Init => Inv
<1> SUFFICES ASSUME Init PROVE Inv
  OBVIOUS
<1>1. TypeOK
  BY NumPortsAssumption, DepthAssumption DEF Init, TypeOK, Port
<1>2. CreditsConserved
  BY DepthAssumption DEF Init, CreditsConserved
<1> QED
  BY <1>1, <1>2 DEF Inv

LEMMA InvNext == Inv /\ [Next]_vars => Inv'
<1> SUFFICES ASSUME Inv, [Next]_vars PROVE Inv'
  OBVIOUS
<1> USE DEF Inv
<1>1. CASE UNCHANGED vars
  BY <1>1 DEF vars, TypeOK, CreditsConserved
<1>2. CASE Next
  <2>1. PICK next \in kernel, disp \in BOOLEAN, emit \in BOOLEAN, aw_ready \in BOOLEAN,
             w_ready \in BOOLEAN, ar_ready \in BOOLEAN :
          Cycle(next, disp, emit, aw_ready, w_ready, ar_ready)
    BY <1>2 DEF Next
  <2>2. \A p \in Port : /\ credits'[p] \in 0 .. Depth
                        /\ pipe' \in 0 .. Depth
                        /\ credits'[p] + pipe' + Len(fifo'[p]) = Depth
    BY <2>1, CreditStep DEF Cycle, One
  <2>3. kernel' \in Kernels /\ block' \in kernel'
    BY <2>1 DEF Cycle, BlockUpdate, TypeOK
  <2>4. pipe' \in 0 .. Depth
    <3>1. 0 \in Port
      BY NumPortsAssumption DEF Port
    <3> QED
      BY <2>2, <3>1
  <2>5. credits' \in [Port -> 0 .. Depth]
    BY <2>1, <2>2 DEF Cycle, CreditUpdate
  <2>6. fifo' \in [Port -> Seq(Op)]
    <3>1. \A p \in Port : fifo'[p] \in Seq(Op)
      BY <2>1, FifoLength DEF Cycle
    <3> QED
      BY <2>1, <3>1 DEF Cycle, FifoUpdate
  <2>7. /\ state' \in [Port -> Op \cup {"idle"}]
        /\ aw_done' \subseteq Port /\ w_done' \subseteq Port
        /\ rr' \in Port
        /\ writes' \in Seq(Port)
    BY <2>1, PortTypes DEF Cycle
  <2>8. TypeOK'
    BY <2>3, <2>4, <2>5, <2>6, <2>7 DEF TypeOK
  <2>9. CreditsConserved'
    BY <2>2 DEF CreditsConserved
  <2> QED
    BY <2>8, <2>9
<1> QED
  BY <1>1, <1>2

\* The registers and FIFOs of mem_req_fifo keep their types, the credits their range.
THEOREM PortsTypeCorrect == Spec => []TypeOK
<1>1. Spec => []Inv
  BY InvInit, InvNext, PTL DEF Spec
<1>2. Inv => TypeOK
  BY DEF Inv
<1> QED
  BY <1>1, <1>2, PTL

\* No credit is lost or counted twice: the FIFO written without looking has room.
THEOREM CreditsAreConserved == Spec => []CreditsConserved
<1>1. Spec => []Inv
  BY InvInit, InvNext, PTL DEF Spec
<1>2. Inv => CreditsConserved
  BY DEF Inv
<1> QED
  BY <1>1, <1>2, PTL
-----------------------------------------------------------------------------
(* The turns on the bus. *)

\* How far a port is from the front of the turn.
Turn(p) == (p + NumPorts - rr) % NumPorts

\* The requests of a port that wait in its FIFO or are in service.
Asked(p) == Len(fifo[p]) + One(p \in Active)

\* With the same ports for every thread: only these have requests, a port has as many of
\* them as those behind it in turn or one more, and if one is in service all ports before
\* it are.
TurnsInv ==
  SamePorts =>
    /\ \A p \in Port : fifo[p] # <<>> \/ p \in Active => p \in Used
    /\ \A p, q \in Used : Turn(p) < Turn(q) => Asked(q) <= Asked(p) /\ Asked(p) <= Asked(q) + 1
    /\ \A p \in Active, q \in Used : Turn(q) < Turn(p) => q \in Active

\* The remainders that the turn is made of.
LEMMA Remainders ==
  ASSUME NEW n \in Nat \ {0}, NEW a \in 0 .. n - 1, NEW b \in 0 .. n - 1
  PROVE  /\ (a + n - b) % n = IF b <= a THEN a - b ELSE a + n - b
         /\ (a + 1) % n = IF a = n - 1 THEN 0 ELSE a + 1
<1>1. \A x \in 0 .. n - 1 : x % n = x /\ (x + n) % n = x
  OBVIOUS
<1> QED
  BY <1>1

\* The turn as a distance, and what it is when the port at the front has gone.
LEMMA TurnIs ==
  ASSUME rr \in Port, NEW p \in Port
  PROVE  /\ Turn(p) \in 0 .. NumPorts - 1
         /\ Turn(p) = IF rr <= p THEN p - rr ELSE p + NumPorts - rr
<1>1. Turn(p) = IF rr <= p THEN p - rr ELSE p + NumPorts - rr
  BY Remainders, NumPortsAssumption DEF Turn, Port
<1> QED
  BY <1>1, NumPortsAssumption DEF Port

\* When port u has gone the search starts behind it: u is the last, and the ports that were
\* behind it come that much earlier.
LEMMA TurnGoesOn ==
  ASSUME rr \in Port, NEW u \in Port, rr' = (u + 1) % NumPorts, NEW p \in Port
  PROVE  /\ p = u => Turn(p)' = NumPorts - 1
         /\ Turn(p) > Turn(u) => Turn(p)' = Turn(p) - Turn(u) - 1
         /\ Turn(p) = Turn(u) => p = u
         /\ Turn(p)' \in 0 .. NumPorts - 1
<1>1. rr' = IF u = NumPorts - 1 THEN 0 ELSE u + 1
  BY Remainders, NumPortsAssumption DEF Port
<1>2. rr' \in Port
  BY <1>1, NumPortsAssumption DEF Port
<1>3. Turn(p)' = IF rr' <= p THEN p - rr' ELSE p + NumPorts - rr'
  BY <1>2, Remainders, NumPortsAssumption DEF Turn, Port
<1>4. /\ Turn(p) = IF rr <= p THEN p - rr ELSE p + NumPorts - rr
      /\ Turn(u) = IF rr <= u THEN u - rr ELSE u + NumPorts - rr
  BY TurnIs
<1> QED
  BY <1>1, <1>3, <1>4, NumPortsAssumption DEF Port

\* The requests of a port, and when it is in service, after a clock.
LEMMA AskedStep ==
  ASSUME TypeOK, NEW emit \in BOOLEAN, NEW sent \in SUBSET Active,
         FifoUpdate(emit), PortUpdate(sent), NEW p \in Port
  PROVE  /\ Asked(p) \in Nat
         /\ Asked(p)' = Asked(p) - One(p \in sent) + One(emit /\ p \in Used)
         /\ p \in Active' <=> p \in Taken \/ p \in Active \ sent
         /\ p \in Taken <=> p \notin Active /\ fifo[p] # <<>>
         /\ fifo'[p] # <<>> => fifo[p] # <<>> \/ p \in Used
<1>1. /\ Len(fifo'[p]) = Len(fifo[p]) - One(p \in Taken) + One(emit /\ p \in Used)
      /\ Len(fifo[p]) \in Nat /\ fifo'[p] \in Seq(Op) /\ fifo[p] \in Seq(Op)
  <2>1. fifo[p] \in Seq(Op)
    BY DEF TypeOK
  <2>2. /\ fifo'[p] \in Seq(Op)
        /\ Len(fifo'[p]) = Len(fifo[p]) - One(p \in Taken) + One(emit /\ p \in Used)
    BY FifoLength
  <2> QED
    BY <2>1, <2>2
<1>2. p \in Taken <=> p \notin Active /\ fifo[p] # <<>>
  BY DEF Taken
<1>3. p \in Active' <=> p \in Taken \/ p \in Active \ sent
  <2>1. p \in Taken => Head(fifo[p]) # "idle"
    BY <1>1, <1>2 DEF Op
  <2> QED
    BY <2>1 DEF Active, PortUpdate
<1>4. Asked(p)' = Len(fifo'[p]) + One(p \in Active')
  BY DEF Asked
<1>5. One(p \in Active') = One(p \in Active) + One(p \in Taken) - One(p \in sent)
  BY <1>2, <1>3 DEF One
<1>6. \A c : One(c) \in 0 .. 1
  BY DEF One
<1>7. Asked(p)' = Asked(p) - One(p \in sent) + One(emit /\ p \in Used)
  BY <1>1, <1>4, <1>5, <1>6 DEF Asked
<1>8. fifo'[p] # <<>> => fifo[p] # <<>> \/ p \in Used
  <2> SUFFICES ASSUME fifo[p] = <<>>, p \notin Used PROVE fifo'[p] = <<>>
    OBVIOUS
  <2>1. p \notin Taken /\ One(emit /\ p \in Used) = 0 /\ One(p \in Taken) = 0
    BY <1>2 DEF One
  <2>2. Len(fifo'[p]) = 0
    BY <1>1, <2>1
  <2> QED
    BY <1>1, <2>2
<1> QED
  BY <1>1, <1>2, <1>3, <1>6, <1>7, <1>8 DEF Asked

\* The port that has the bus is the first of those in service, and the only one that sends.
LEMMA SentIs ==
  ASSUME TypeOK, NEW aw_ready, NEW w_ready, NEW ar_ready, NEW sent,
         sent = StoreRetire(aw_ready, w_ready) \cup ArDone(ar_ready), RrUpdate(sent)
  PROVE  /\ sent \subseteq Granted /\ Granted \subseteq Active /\ Active \subseteq Port
         /\ \A p, q \in Granted : p = q
         /\ \A p \in Granted, q \in Active : Turn(p) <= Turn(q)
         /\ sent = {} => rr' = rr
         /\ \A u \in sent : sent = {u} /\ rr' = (u + 1) % NumPorts
<1>1. sent \subseteq Granted /\ Granted \subseteq Active /\ Active \subseteq Port
  BY DEF StoreRetire, ArDone, Storing, Granted, Active
<1>2. \A p \in Granted, q \in Active : Turn(p) <= Turn(q)
  BY DEF Granted, Turn
<1>3. \A p, q \in Granted : p = q
  <2> TAKE p, q \in Granted
  <2>1. p \in Port /\ q \in Port /\ rr \in Port /\ Turn(p) <= Turn(q) /\ Turn(q) <= Turn(p)
    BY <1>1, <1>2 DEF TypeOK
  <2>2. /\ Turn(p) = IF rr <= p THEN p - rr ELSE p + NumPorts - rr
        /\ Turn(q) = IF rr <= q THEN q - rr ELSE q + NumPorts - rr
    BY <2>1, TurnIs
  <2> QED
    BY <2>1, <2>2, NumPortsAssumption DEF Port
<1>4. \A u \in sent : sent = {u} /\ rr' = (u + 1) % NumPorts
  <2> TAKE u \in sent
  <2>1. sent = {u}
    BY <1>1, <1>3
  <2>2. (CHOOSE p \in sent : TRUE) = u
    BY <2>1
  <2> QED
    BY <2>1, <2>2 DEF RrUpdate
<1> QED
  BY <1>1, <1>2, <1>3, <1>4 DEF RrUpdate

\* At the start no port has been asked for anything.
LEMMA TurnsInit == Init => TurnsInv
<1> SUFFICES ASSUME Init PROVE TurnsInv
  OBVIOUS
<1>1. Active = {} /\ \A p \in Port : fifo[p] = <<>>
  BY DEF Init, Active
<1>2. \A p \in Port : Asked(p) = 0
  BY <1>1 DEF Asked, One
<1>3. Used \subseteq Port
  BY KernelsAssumption DEF Init, Used, UsedBy, Block
<1> QED
  BY <1>1, <1>2, <1>3 DEF TurnsInv

\* A clock keeps the order of the turn: the port that sends goes from the front to the end.
LEMMA TurnsStep ==
  ASSUME TypeOK, TurnsInv, SamePorts, Next
  PROVE  /\ TurnsInv'
         /\ \A p \in Granted : p \notin Active' \/ p \in Granted'
<1>1. PICK next \in kernel, disp \in BOOLEAN, emit \in BOOLEAN, aw_ready \in BOOLEAN,
           w_ready \in BOOLEAN, ar_ready \in BOOLEAN :
        Cycle(next, disp, emit, aw_ready, w_ready, ar_ready)
  BY DEF Next
<1> DEFINE sent == StoreRetire(aw_ready, w_ready) \cup ArDone(ar_ready)
<1>2. FifoUpdate(emit) /\ PortUpdate(sent) /\ RrUpdate(sent) /\ kernel' = kernel /\ block' \in kernel
  BY <1>1 DEF Cycle, BlockUpdate
<1>3. /\ sent \subseteq Granted /\ Granted \subseteq Active /\ Active \subseteq Port
      /\ \A p \in Granted, q \in Active : Turn(p) <= Turn(q)
      /\ sent = {} => rr' = rr
      /\ \A u \in sent : sent = {u} /\ rr' = (u + 1) % NumPorts
  <2>1. sent = StoreRetire(aw_ready, w_ready) \cup ArDone(ar_ready)
    OBVIOUS
  <2> HIDE DEF sent
  <2> QED
    BY <1>2, <2>1, SentIs
<1> HIDE DEF sent
<1>4. rr \in Port
  BY DEF TypeOK
<1>5. Used' = Used /\ Used \subseteq Port
  <2>1. block \in kernel /\ kernel \subseteq Block
    BY KernelsAssumption DEF TypeOK
  <2> QED
    BY <1>2, <2>1 DEF SamePorts, Used, UsedBy, Block
<1>6. \A p \in Port :
        /\ Asked(p) \in Nat
        /\ Asked(p)' = Asked(p) - One(p \in sent) + One(emit /\ p \in Used)
        /\ p \in Active' <=> p \in Taken \/ p \in Active \ sent
        /\ p \in Taken <=> p \notin Active /\ fifo[p] # <<>>
        /\ fifo'[p] # <<>> => fifo[p] # <<>> \/ p \in Used
  <2>1. sent \in SUBSET Active
    BY <1>3
  <2> QED
    BY <1>2, <2>1, AskedStep
<1>7. \A p \in Port : fifo[p] # <<>> \/ p \in Active => p \in Used
  BY DEF TurnsInv
<1>8. \A p, q \in Used : Turn(p) < Turn(q) => Asked(q) <= Asked(p) /\ Asked(p) <= Asked(q) + 1
  BY DEF TurnsInv
<1>9. \A p \in Active, q \in Used : Turn(q) < Turn(p) => q \in Active
  BY DEF TurnsInv
<1>10. \A p \in Port : fifo'[p] # <<>> \/ p \in Active' => p \in Used'
  BY <1>5, <1>6, <1>7
<1>11. \A p \in Port : Asked(p) > 0 <=> fifo[p] # <<>> \/ p \in Active
  <2> TAKE p \in Port
  <2>1. Len(fifo[p]) \in Nat /\ (Len(fifo[p]) = 0 <=> fifo[p] = <<>>)
    BY DEF TypeOK
  <2>2. CASE p \in Active
    BY <2>1, <2>2 DEF Asked, One
  <2>3. CASE p \notin Active
    BY <2>1, <2>3 DEF Asked, One
  <2> QED
    BY <2>2, <2>3
<1>12. \A u \in sent, p \in Used : p # u => Turn(u) < Turn(p)
  <2> TAKE u \in sent, p \in Used
  <2> SUFFICES ASSUME p # u PROVE Turn(u) < Turn(p)
    OBVIOUS
  <2>1. u \in Port /\ p \in Port /\ u \in Active
    BY <1>3, <1>5
  <2>2. Turn(u) \in 0 .. NumPorts - 1 /\ Turn(p) \in 0 .. NumPorts - 1 /\ Turn(u) # Turn(p)
    BY <1>3, <1>4, <2>1, TurnIs, TurnGoesOn
  <2>3. ~(Turn(p) < Turn(u))
    BY <1>3, <1>9, <2>1, <2>2, NumPortsAssumption
  <2> QED
    BY <2>2, <2>3, NumPortsAssumption

<1>13. \A p, q \in Used : Turn(p)' < Turn(q)' =>
         \/ Turn(p) < Turn(q) /\ p \notin sent /\ q \notin sent
         \/ p \notin sent /\ q \in sent /\ Turn(q) < Turn(p)
  <2> TAKE p, q \in Used
  <2> SUFFICES ASSUME Turn(p)' < Turn(q)'
               PROVE  \/ Turn(p) < Turn(q) /\ p \notin sent /\ q \notin sent
                      \/ p \notin sent /\ q \in sent /\ Turn(q) < Turn(p)
    OBVIOUS
  <2>1. p \in Port /\ q \in Port
    BY <1>5
  <2>2. CASE sent = {}
    <3>1. rr' = rr
      BY <1>3, <2>2
    <3>2. Turn(p)' = Turn(p) /\ Turn(q)' = Turn(q)
      BY <3>1 DEF Turn
    <3> QED
      BY <2>2, <3>2
  <2>3. CASE sent # {}
    <3>1. PICK u \in sent : sent = {u} /\ rr' = (u + 1) % NumPorts
      BY <1>3, <2>3
    <3>2. u \in Port /\ rr' \in Port
      BY <1>3, <3>1, Remainders, NumPortsAssumption DEF Port
    <3>3. /\ \A s \in {p, q} : Turn(s) \in 0 .. NumPorts - 1 /\ Turn(s)' \in 0 .. NumPorts - 1
          /\ Turn(u) \in 0 .. NumPorts - 1
      <4>1. \A s \in Port : Turn(s)' \in 0 .. NumPorts - 1
        BY <1>4, <3>1, <3>2, TurnGoesOn
      <4> QED
        BY <1>4, <2>1, <3>2, <4>1, TurnIs
    <3>4. \A s \in {p, q} : /\ s = u => Turn(s)' = NumPorts - 1
                            /\ s # u => Turn(u) < Turn(s) /\ Turn(s)' = Turn(s) - Turn(u) - 1
      BY <1>4, <1>12, <2>1, <3>1, <3>2, TurnGoesOn
    <3>5. p # u
      BY <3>3, <3>4, NumPortsAssumption
    <3>6. CASE q = u
      BY <3>1, <3>4, <3>5, <3>6
    <3>7. CASE q # u
      BY <3>1, <3>3, <3>4, <3>5, <3>7, NumPortsAssumption
    <3> QED
      BY <3>6, <3>7
  <2> QED
    BY <2>2, <2>3
<1>14. \A p, q \in Used' : Turn(p)' < Turn(q)' =>
         Asked(q)' <= Asked(p)' /\ Asked(p)' <= Asked(q)' + 1
  <2> TAKE p, q \in Used'
  <2> SUFFICES ASSUME Turn(p)' < Turn(q)'
               PROVE  Asked(q)' <= Asked(p)' /\ Asked(p)' <= Asked(q)' + 1
    OBVIOUS
  <2>1. p \in Used /\ q \in Used /\ p \in Port /\ q \in Port
    BY <1>5
  <2>2. /\ Asked(p) \in Nat /\ Asked(q) \in Nat /\ One(emit) \in 0 .. 1
        /\ Asked(p)' = Asked(p) - One(p \in sent) + One(emit)
        /\ Asked(q)' = Asked(q) - One(q \in sent) + One(emit)
    BY <1>6, <2>1 DEF One
  <2>3. CASE Turn(p) < Turn(q) /\ p \notin sent /\ q \notin sent
    BY <1>8, <2>1, <2>2, <2>3 DEF One
  <2>4. CASE p \notin sent /\ q \in sent /\ Turn(q) < Turn(p)
    BY <1>8, <2>1, <2>2, <2>4 DEF One
  <2> QED
    BY <1>13, <2>1, <2>3, <2>4
<1>15. \A p \in Active', q \in Used' : Turn(q)' < Turn(p)' => q \in Active'
  <2> TAKE p \in Active', q \in Used'
  <2> SUFFICES ASSUME Turn(q)' < Turn(p)' PROVE q \in Active'
    OBVIOUS
  <2>1. p \in Port /\ q \in Port /\ q \in Used
    BY <1>5 DEF Active
  <2>2. p \in Taken \/ p \in Active \ sent
    BY <1>6, <2>1
  <2>3. p \in Used /\ p \notin sent
    BY <1>3, <1>6, <1>7, <2>1, <2>2
  <2>4. Turn(q) < Turn(p) /\ q \notin sent
    BY <1>13, <2>1, <2>3
  <2>5. CASE p \in Active
    BY <1>6, <1>9, <2>1, <2>4, <2>5
  <2>6. CASE p \in Taken
    <3>1. Asked(p) > 0
      BY <1>6, <1>11, <2>1, <2>6
    <3>2. Asked(q) > 0
      BY <1>6, <1>8, <2>1, <2>3, <2>4, <3>1
    <3> QED
      BY <1>6, <1>11, <2>1, <2>4, <3>2
  <2> QED
    BY <2>2, <2>5, <2>6
<1>16. TurnsInv'
  BY <1>10, <1>14, <1>15 DEF TurnsInv
<1>17. \A p \in Granted : p \notin Active' \/ p \in Granted'
  <2> TAKE p \in Granted
  <2> SUFFICES ASSUME p \in Active' PROVE p \in Granted'
    OBVIOUS
  <2>1. p \in Active /\ p \in Port /\ p \in Used /\ p \notin sent
    BY <1>3, <1>6, <1>7
  <2>2. \A u \in sent : u = p
    BY <1>2, <1>3, SentIs DEF sent
  <2>3. rr' = rr
    BY <1>3, <2>1, <2>2
  <2>4. \A q \in Active' : Turn(p)' <= Turn(q)'
    <3> TAKE q \in Active'
    <3>1. q \in Port /\ q \in Used
      BY <1>5, <1>10 DEF Active
    <3>2. Turn(p)' = Turn(p) /\ Turn(q)' = Turn(q)
      BY <2>3 DEF Turn
    <3>3. ~(Turn(q) < Turn(p))
      <4> SUFFICES ASSUME Turn(q) < Turn(p) PROVE FALSE
        OBVIOUS
      <4>1. q \in Active
        BY <1>9, <2>1, <3>1
      <4>2. Turn(p) <= Turn(q)
        BY <1>3, <4>1
      <4> QED
        BY <1>4, <2>1, <3>1, <4>2, TurnIs, NumPortsAssumption
    <3> QED
      BY <1>4, <2>1, <3>1, <3>2, <3>3, TurnIs, NumPortsAssumption
  <2> QED
    BY <2>4 DEF Granted, Turn
<1> QED
  BY <1>16, <1>17

\* With the same ports for every thread of a kernel, the port that has the bus keeps it until
\* its request is sent (mem_req_fifo_4port: issue_grant_li, which is computed anew each clock),
\* for any number of ports and any depth: a port that comes to life is behind those that live.
THEOREM BusIsHeld == Spec => GrantHeld
<1>1. Inv /\ TurnsInv /\ [Next]_vars => TurnsInv'
  <2> SUFFICES ASSUME Inv, TurnsInv, [Next]_vars PROVE TurnsInv'
    OBVIOUS
  <2>1. CASE UNCHANGED vars
    <3>1. /\ Used' = Used /\ Active' = Active /\ fifo' = fifo /\ kernel' = kernel
          /\ \A p : Turn(p)' = Turn(p) /\ Asked(p)' = Asked(p)
      BY <2>1 DEF vars, Used, UsedBy, Active, Turn, Asked
    <3> QED
      BY <3>1 DEF TurnsInv, SamePorts
  <2>2. CASE Next /\ ~SamePorts
    <3>1. kernel' = kernel
      BY <2>2 DEF Next, Cycle, BlockUpdate
    <3> QED
      BY <2>2, <3>1 DEF TurnsInv, SamePorts
  <2>3. CASE Next /\ SamePorts
    BY <2>3, TurnsStep DEF Inv
  <2> QED
    BY <2>1, <2>2, <2>3
<1>2. Inv /\ TurnsInv /\ [Next]_vars =>
        [SamePorts => \A p \in Granted : p \notin Active' \/ p \in Granted']_vars
  BY TurnsStep DEF Inv
<1> QED
  BY <1>1, <1>2, InvInit, InvNext, TurnsInit, PTL DEF Spec, GrantHeld

=============================================================================
