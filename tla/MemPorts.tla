------------------------------ MODULE MemPorts ------------------------------
(***************************************************************************)
(* The memory side of the back end: mem_req_fifo of four ports with the    *)
(* credits of dice_backend in front of it and the crossbar behind it.  A   *)
(* thread of a memory e-block is dispatched for a credit of every port,    *)
(* and when it leaves the CGRA it pushes a request into the FIFO of each   *)
(* port its e-block uses, without asking whether there is room.  The ports *)
(* take turns on the bus; a load is sent when its address is taken, a      *)
(* store when its address and its data are.                                *)
(***************************************************************************)
EXTENDS Integers, Sequences

CONSTANTS
  NumPorts,  \* NUM_MEM_PORTS
  Depth,     \* MEM_REQ_BUNDLE_FIFO_DEPTH, also the credits of a port
  Kernels    \* kernels, as the metadata of their memory e-blocks

ASSUME NumPortsAssumption == NumPorts \in Nat \ {0}
ASSUME DepthAssumption == Depth \in Nat \ {0}

Port == 0 .. NumPorts - 1
Op == {"load", "store"}

\* The stores of a thread and the ports it loads on.
Block == {b \in [num_stores : 0 .. NumPorts, loads : SUBSET Port] :
            b.num_stores > 0 \/ b.loads # {}}

ASSUME KernelsAssumption == Kernels \subseteq SUBSET Block

VARIABLES
  kernel,   \* the kernel that runs
  block,    \* its memory e-block being dispatched
  pipe,     \* threads of it in the CGRA
  credits,  \* credit_cnt of each port
  fifo,     \* the FIFO of each port
  state,    \* state_q of each port, the request in service
  aw_done, w_done,  \* aw_done_q, w_done_q: ports whose address and data were taken
  rr,       \* issue_rr_q
  writes    \* the crossbar: ports whose data it expects, in the order of the addresses

vars == <<kernel, block, pipe, credits, fifo, state, aw_done, w_done, rr, writes>>

TypeOK ==
  /\ kernel \in Kernels /\ block \in kernel /\ pipe \in 0 .. Depth
  /\ credits \in [Port -> 0 .. Depth]
  /\ fifo \in [Port -> Seq(Op)]
  /\ state \in [Port -> Op \cup {"idle"}]
  /\ aw_done \subseteq Port /\ w_done \subseteq Port
  /\ rr \in Port
  /\ writes \in Seq(Port)

Init ==
  /\ kernel \in Kernels /\ block \in kernel /\ pipe = 0
  /\ credits = [p \in Port |-> Depth]
  /\ fifo = [p \in Port |-> <<>>]
  /\ state = [p \in Port |-> "idle"]
  /\ aw_done = {} /\ w_done = {}
  /\ rr = 0
  /\ writes = <<>>

-----------------------------------------------------------------------------

\* gen_mem_port_valid, gen_mem_port_op: the first ports store.
UsedBy(b) == {p \in Port : p < b.num_stores} \cup b.loads
Used == UsedBy(block)
OpOf(p) == IF p < block.num_stores THEN "store" ELSE "load"

CreditReady_AnyPort == \E p \in Port : credits[p] >= 1

\* mem_bundle_credit_ready_lo
CreditReady == \A p \in Port : credits[p] >= 1

Active == {p \in Port : state[p] # "idle"}

Granted_LowestPort == {p \in Active : \A q \in Active : p <= q}

\* issue_grant_li: the first active port, from rr on.
Granted ==
  LET turn(p) == (p + NumPorts - rr) % NumPorts
  IN  {p \in Active : \A q \in Active : turn(p) <= turn(q)}

\* fifo_yumi_li
Taken == {p \in Port \ Active : fifo[p] # <<>>}

Storing == {p \in Granted : state[p] = "store"}

AwFire(aw_ready) == {p \in Storing \ aw_done : aw_ready}

\* The crossbar takes data in the order in which it took addresses.
WFire(w_ready) == {p \in Storing \ w_done : w_ready /\ writes # <<>> /\ Head(writes) = p}

\* store_retire_set_li, ar_done_li
StoreRetire(aw_ready, w_ready) ==
  (aw_done \cup AwFire(aw_ready)) \cap (w_done \cup WFire(w_ready)) \cap Storing
ArDone(ar_ready) == {p \in Granted : state[p] = "load" /\ ar_ready}

-----------------------------------------------------------------------------

CreditReturn_AllPorts(p, emit) ==
  (IF p \in Taken THEN 1 ELSE 0) + (IF emit THEN 1 ELSE 0)

\* port_credit_return_o: of a request that leaves the FIFO, and of a port that a thread
\* had a credit of and does not use.
CreditReturn(p, emit) ==
  (IF p \in Taken THEN 1 ELSE 0) + (IF emit /\ p \notin Used THEN 1 ELSE 0)

CreditUpdate(disp, emit) ==
  credits' = [p \in Port |-> credits[p] + CreditReturn(p, emit) - (IF disp THEN 1 ELSE 0)]

FifoUpdate(emit) ==
  fifo' = [p \in Port |->
             (IF p \in Taken THEN Tail(fifo[p]) ELSE fifo[p])
               \o (IF emit /\ p \in Used THEN <<OpOf(p)>> ELSE <<>>)]

PortUpdate(sent) ==
  state' = [p \in Port |-> IF p \in Taken THEN Head(fifo[p])
                           ELSE IF p \in sent THEN "idle" ELSE state[p]]

\* The marks of a port are cleared while it is idle.
StoreUpdate(aw_ready, w_ready) ==
  /\ aw_done' = (aw_done \cup AwFire(aw_ready)) \cap Active
  /\ w_done' = (w_done \cup WFire(w_ready)) \cap Active

RrUpdate_Stays(sent) == UNCHANGED rr

RrUpdate(sent) ==
  rr' = IF sent = {} THEN rr ELSE ((CHOOSE p \in sent : TRUE) + 1) % NumPorts

\* The crossbar forgets an address when it has the data.
WritesUpdate(aw_ready, w_ready) ==
  LET rest == IF WFire(w_ready) = {} THEN writes ELSE Tail(writes)
  IN  writes' = IF AwFire(aw_ready) = {} THEN rest
                ELSE Append(rest, CHOOSE p \in AwFire(aw_ready) : TRUE)

\* The next e-block comes when the CGRA is empty.
BlockUpdate(next, disp) ==
  /\ next # block => pipe = 0 /\ ~disp
  /\ block' = next
  /\ UNCHANGED kernel

\* One clock; disp: a thread is dispatched, emit: a thread leaves the CGRA.
Cycle(next, disp, emit, aw_ready, w_ready, ar_ready) ==
  LET sent == StoreRetire(aw_ready, w_ready) \cup ArDone(ar_ready)
  IN  /\ disp => CreditReady
      /\ emit => pipe > 0
      /\ BlockUpdate(next, disp)
      /\ pipe' = pipe + (IF disp THEN 1 ELSE 0) - (IF emit THEN 1 ELSE 0)
      /\ CreditUpdate(disp, emit)
      /\ FifoUpdate(emit)
      /\ PortUpdate(sent)
      /\ StoreUpdate(aw_ready, w_ready)
      /\ RrUpdate(sent)
      /\ WritesUpdate(aw_ready, w_ready)

Next ==
  \E next \in kernel, disp, emit, aw_ready, w_ready, ar_ready \in BOOLEAN :
    Cycle(next, disp, emit, aw_ready, w_ready, ar_ready)

Spec == Init /\ [][Next]_vars

\* The CGRA lets its threads go and the crossbar takes what it is offered, each of them
\* any time later.
BusTakes ==
  \E next \in kernel, disp, emit \in BOOLEAN : Cycle(next, disp, emit, TRUE, TRUE, TRUE)
CgraEmits ==
  \E next \in kernel, disp, aw_ready, w_ready, ar_ready \in BOOLEAN :
    Cycle(next, disp, TRUE, aw_ready, w_ready, ar_ready)

LiveSpec == Spec /\ WF_vars(BusTakes) /\ WF_vars(CgraEmits)

-----------------------------------------------------------------------------
(* Properties. *)

\* A credit of a port is with the dispatcher, with a thread in the CGRA or with a request
\* in its FIFO, whatever ports the threads use: none is lost, none is counted twice, and
\* the FIFO written without looking has room.
CreditsConserved ==
  \A p \in Port : credits[p] + pipe + Len(fifo[p]) = Depth

\* In a kernel whose memory e-blocks all use the same ports, the port that has the bus
\* keeps it until its request is sent: the crossbar, which locks an address it was shown
\* and takes data in the order of the addresses, never sees an address withdrawn, or the
\* address of one store between that of another and its data.
SamePorts == \A b, c \in kernel : UsedBy(b) = UsedBy(c)
GrantHeld ==
  [][SamePorts => \A p \in Granted : p \notin Active' \/ p \in Granted']_vars

\* Every port gets its turn: a request in service is sent.
EveryRequestSent == \A p \in Port : (p \in Active) ~> (p \notin Active)

\* The dispatch of memory threads never comes to rest.
DispatchAgain == []<>CreditReady

\* Both: no port is starved of the bus, and no thread of credits.
PortsGoOn == EveryRequestSent /\ DispatchAgain
=============================================================================
