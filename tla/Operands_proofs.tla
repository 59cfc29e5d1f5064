-------------------------- MODULE Operands_proofs --------------------------
(***************************************************************************)
(* For any number of threads, any registers and any depth of the FIFOs:    *)
(* every active thread of an e-block is dispatched once and in order, and  *)
(* within a CTA a thread is sent to the CGRA only when every load of a     *)
(* register it reads has been answered, and, as long as the e-blocks do    *)
(* not write what is being loaded, when its values are in the register     *)
(* file.                                                                   *)
(***************************************************************************)
EXTENDS Operands, SequenceTheorems, FiniteSetTheorems, WellFoundedInduction, TLAPS

-----------------------------------------------------------------------------
(* Sequences and sets of numbers. *)

Drop(s, popped) == IF popped THEN Tail(s) ELSE s

LEMMA SetOfConcat ==
  ASSUME NEW S, NEW s \in Seq(S), NEW t \in Seq(S)
  PROVE  ToSet(s \o t) = ToSet(s) \cup ToSet(t)
<1>1. s \o t \in Seq(S) /\ Len(s \o t) = Len(s) + Len(t)
  BY ConcatProperties
<1>2. Len(s) \in Nat /\ Len(t) \in Nat
  OBVIOUS
<1>3. ASSUME NEW i \in 1 .. Len(s) PROVE s[i] \in ToSet(s \o t)
  <2>1. (s \o t)[i] = s[i] /\ i \in DOMAIN (s \o t)
    BY <1>1, <1>2, <1>3, ConcatProperties
  <2> QED
    BY <2>1 DEF ToSet
<1>4. ASSUME NEW i \in 1 .. Len(t) PROVE t[i] \in ToSet(s \o t)
  <2>1. (s \o t)[Len(s) + i] = t[i] /\ Len(s) + i \in DOMAIN (s \o t)
    BY <1>1, <1>2, <1>4, ConcatProperties
  <2> QED
    BY <2>1 DEF ToSet
<1>5. ASSUME NEW i \in DOMAIN (s \o t) PROVE (s \o t)[i] \in ToSet(s) \cup ToSet(t)
  <2>1. CASE i <= Len(s)
    <3>1. i \in DOMAIN s /\ (s \o t)[i] = s[i]
      BY <1>1, <1>2, <1>5, <2>1, ConcatProperties
    <3> QED
      BY <3>1 DEF ToSet
  <2>2. CASE ~(i <= Len(s))
    <3>1. i - Len(s) \in DOMAIN t /\ (s \o t)[i] = t[i - Len(s)]
      BY <1>1, <1>2, <1>5, <2>2, ConcatProperties
    <3> QED
      BY <3>1 DEF ToSet
  <2> QED
    BY <2>1, <2>2
<1>6. ToSet(s) \cup ToSet(t) \subseteq ToSet(s \o t)
  <2>1. ToSet(s) = {s[i] : i \in 1 .. Len(s)} /\ ToSet(t) = {t[i] : i \in 1 .. Len(t)}
    BY LenProperties DEF ToSet
  <2> QED
    BY <1>3, <1>4, <2>1
<1>7. ToSet(s \o t) \subseteq ToSet(s) \cup ToSet(t)
  BY <1>5 DEF ToSet
<1> QED
  BY <1>6, <1>7

LEMMA HeadThenTail ==
  ASSUME NEW S, NEW s \in Seq(S), s # <<>>
  PROVE  /\ Head(s) \in S /\ Tail(s) \in Seq(S)
         /\ <<Head(s)>> \o Tail(s) = s
<1>1. Head(s) \in S /\ Tail(s) \in Seq(S) /\ Len(Tail(s)) = Len(s) - 1
  BY HeadTailProperties
<1>2. <<Head(s)>> \in Seq(S) /\ Len(<<Head(s)>>) = 1
  BY <1>1
<1>3. <<Head(s)>> \o Tail(s) \in Seq(S) /\ Len(<<Head(s)>> \o Tail(s)) = Len(s)
  BY <1>1, <1>2, ConcatProperties
<1>4. ASSUME NEW i \in 1 .. Len(s) PROVE (<<Head(s)>> \o Tail(s))[i] = s[i]
  BY <1>1, <1>2, <1>4
<1> QED
  BY <1>1, <1>3, <1>4, SeqEqual

LEMMA SetOfHeadTail ==
  ASSUME NEW S, NEW s \in Seq(S), s # <<>>
  PROVE  ToSet(s) = {Head(s)} \cup ToSet(Tail(s))
<1>1. <<Head(s)>> \in Seq(S) /\ Tail(s) \in Seq(S) /\ <<Head(s)>> \o Tail(s) = s
  BY HeadThenTail
<1>2. ToSet(<<Head(s)>>) = {Head(s)}
  BY DEF ToSet
<1>3. ToSet(<<Head(s)>> \o Tail(s)) = ToSet(<<Head(s)>>) \cup ToSet(Tail(s))
  BY <1>1, SetOfConcat
<1> QED
  BY <1>1, <1>2, <1>3

\* Concatenation under a name of its own: the steps below use nothing of it but these
\* three lemmas.
Join(s, t) == s \o t

LEMMA JoinIsSeq ==
  ASSUME NEW S, NEW s \in Seq(S), NEW t \in Seq(S)
  PROVE  Join(s, t) \in Seq(S) /\ Join(s, <<>>) = s
BY ConcatProperties, ConcatEmptySeq DEF Join

\* A thread taken from a stage and put at the end of the next one stays in its place.
LEMMA JoinShift ==
  ASSUME NEW S, NEW f \in Seq(S), NEW s \in Seq(S), NEW t \in Seq(S), NEW moves \in BOOLEAN,
         moves => s # <<>>
  PROVE  Join(Join(f, Item(s, moves)), Moved(s, t, moves)) = Join(Join(f, s), t)
<1>1. CASE moves
  <2>1. Head(s) \in S /\ Tail(s) \in Seq(S) /\ <<Head(s)>> \o Tail(s) = s
    BY <1>1, HeadThenTail
  <2> DEFINE h == <<Head(s)>>
             u == Tail(s)
  <2>2. h \in Seq(S) /\ u \in Seq(S)
    BY <2>1
  <2>3. h \o u = s
    BY <2>1
  <2>4. Item(s, moves) = h /\ Moved(s, t, moves) = u \o t
    BY <1>1 DEF Item, Moved
  <2> HIDE DEF h, u
  <2>5. f \o h \in Seq(S)
    BY <2>2, ConcatProperties
  <2>6. (f \o h) \o (u \o t) = ((f \o h) \o u) \o t
    BY <2>2, <2>5, SMT
  <2>7. (f \o h) \o u = f \o (h \o u)
    BY <2>2, SMT
  <2> QED
    BY <2>3, <2>4, <2>6, <2>7 DEF Join
<1>2. CASE ~moves
  <2>1. f \o <<>> = f
    BY ConcatEmptySeq
  <2>2. f \o (s \o t) = (f \o s) \o t
    BY ConcatAssociative
  <2> QED
    BY <1>2, <2>1, <2>2 DEF Item, Moved, Join
<1> QED
  BY <1>1, <1>2

LEMMA JoinDrop ==
  ASSUME NEW S, NEW s \in Seq(S), NEW t \in Seq(S), NEW popped \in BOOLEAN,
         popped => s # <<>>
  PROVE  /\ Drop(s, popped) \in Seq(S)
         /\ Drop(Join(s, t), popped) = Join(Drop(s, popped), t)
         /\ popped => Join(s, t) # <<>> /\ Head(Join(s, t)) = Head(s)
<1>1. CASE popped
  <2>1. Head(s) \in S /\ Tail(s) \in Seq(S) /\ <<Head(s)>> \o Tail(s) = s
    BY <1>1, HeadThenTail
  <2>2. s \o t \in Seq(S) /\ Len(s \o t) = Len(s) + Len(t) /\ Len(s) \in Nat \ {0}
        /\ Len(t) \in Nat
    BY <1>1, ConcatProperties, EmptySeq
  <2>3. s \o t # <<>> /\ Head(s \o t) = Head(s)
    BY <2>2, ConcatProperties
  <2>4. Tail(s \o t) \in Seq(S) /\ <<Head(s)>> \o Tail(s \o t) = s \o t
    BY <2>2, <2>3, HeadThenTail
  <2>5. <<Head(s)>> \o (Tail(s) \o t) = s \o t
    BY <2>1, <2>2, ConcatAssociative
  <2>6. <<Head(s)>> \in Seq(S) /\ Tail(s) \o t \in Seq(S)
    BY <2>1
  <2>7. Tail(s \o t) = Tail(s) \o t
    BY <2>4, <2>5, <2>6, ConcatSimplifications
  <2> QED
    BY <1>1, <2>1, <2>3, <2>7 DEF Drop, Join
<1>2. CASE ~popped
  BY <1>2 DEF Drop, Join
<1> QED
  BY <1>1, <1>2

LEMMA OneItem ==
  ASSUME NEW S, NEW s \in Seq(S), s # <<>>, Len(s) <= 1
  PROVE  s = <<Head(s)>>
<1>1. Head(s) \in S /\ Tail(s) \in Seq(S) /\ <<Head(s)>> \o Tail(s) = s /\ Len(Tail(s)) = Len(s) - 1
  BY HeadThenTail, HeadTailProperties
<1>2. Len(s) \in Nat \ {0}
  BY EmptySeq
<1>3. Tail(s) = <<>>
  BY <1>1, <1>2, EmptySeq
<1>4. <<Head(s)>> \o <<>> = <<Head(s)>>
  BY <1>1, ConcatEmptySeq
<1> QED
  BY <1>1, <1>3, <1>4

LEMMA MinIsLeast ==
  ASSUME NEW T \in SUBSET Nat, T # {}
  PROVE  Min(T) \in T /\ \A y \in T : Min(T) <= y
<1>1. PICK x \in T : \A y \in T : <<y, x>> \notin OpToRel(<, Nat)
  BY NatLessThanWellFounded, WFMin
<1>2. ASSUME NEW y \in T, ~(x <= y) PROVE FALSE
  <2>1. <<y, x>> \in Nat \X Nat /\ y < x
    BY <1>2
  <2>2. <<y, x>> \in OpToRel(<, Nat)
    BY <2>1 DEF OpToRel
  <2> QED
    BY <1>1, <2>2
<1> QED
  BY <1>2 DEF Min

LEMMA MaxIsGreatest ==
  ASSUME NEW T \in SUBSET Thread, T # {}
  PROVE  Max(T) \in T /\ \A y \in T : y <= Max(T)
<1> DEFINE bounds == {n \in Nat : \A y \in T : y <= n}
<1>1. T \subseteq Nat /\ NumThreads - 1 \in bounds
  BY NumThreadsAssumption DEF Thread
<1>2. Min(bounds) \in bounds /\ \A n \in bounds : Min(bounds) <= n
  BY <1>1, MinIsLeast
<1>3. Min(bounds) \in T
  <2>1. SUFFICES ASSUME Min(bounds) \notin T PROVE FALSE
    OBVIOUS
  <2>2. \A y \in T : y < Min(bounds)
    BY <1>1, <1>2, <2>1
  <2>3. Min(bounds) - 1 \in Nat
    <3>1. PICK y \in T : y < Min(bounds)
      BY <2>2
    <3>2. y \in Nat /\ Min(bounds) \in Nat
      BY <1>1, <1>2
    <3> QED
      BY <3>1, <3>2
  <2>4. \A y \in T : y <= Min(bounds) - 1
    BY <1>1, <1>2, <2>2
  <2>5. Min(bounds) - 1 \in bounds
    BY <2>3, <2>4
  <2> QED
    BY <1>2, <2>3, <2>5
<1>4. \A y \in T : Min(bounds) >= y
  BY <1>1, <1>2
<1> QED
  BY <1>1, <1>2, <1>3, <1>4 DEF Max

-----------------------------------------------------------------------------
(* Threads in order: dispatched, on their way, and to be found. *)

Increasing(s) == \A i, j \in DOMAIN s : i < j => s[i] < s[j]

InOrder(mask, done, way, find) ==
  /\ Increasing(way)
  /\ \A s \in ToSet(way) : (\A t \in done : t < s) /\ (\A t \in find : s < t)
  /\ \A t \in done, s \in find : t < s
  /\ mask = done \cup ToSet(way) \cup find

LEMMA PopKeepsOrder ==
  ASSUME NEW mask \in SUBSET Nat, NEW done, NEW find, NEW way \in Seq(Nat), way # <<>>,
         InOrder(mask, done, way, find)
  PROVE  /\ InOrder(mask, done \cup {Head(way)}, Tail(way), find)
         /\ Head(way) \in mask \ done
<1>1. /\ Head(way) \in Nat /\ Tail(way) \in Seq(Nat) /\ Len(Tail(way)) = Len(way) - 1
      /\ Len(way) \in Nat \ {0}
      /\ \A i \in 1 .. Len(Tail(way)) : Tail(way)[i] = way[i + 1]
      /\ Head(way) = way[1] /\ DOMAIN way = 1 .. Len(way)
      /\ DOMAIN Tail(way) = 1 .. Len(Tail(way))
  BY HeadTailProperties, EmptySeq
<1>2. Increasing(way)
  BY DEF InOrder
<1>3. Increasing(Tail(way))
  <2> SUFFICES ASSUME NEW i \in DOMAIN Tail(way), NEW j \in DOMAIN Tail(way), i < j
               PROVE  Tail(way)[i] < Tail(way)[j]
    BY DEF Increasing
  <2>1. i + 1 \in DOMAIN way /\ j + 1 \in DOMAIN way /\ i + 1 < j + 1
    BY <1>1
  <2>2. way[i + 1] < way[j + 1]
    BY <1>2, <2>1 DEF Increasing
  <2> QED
    BY <1>1, <2>2
<1>4. \A x \in ToSet(Tail(way)) : Head(way) < x
  <2>1. ASSUME NEW i \in DOMAIN Tail(way) PROVE Head(way) < Tail(way)[i]
    <3>1. 1 \in DOMAIN way /\ i + 1 \in DOMAIN way /\ 1 < i + 1
      BY <1>1
    <3>2. way[1] < way[i + 1]
      BY <1>2, <3>1 DEF Increasing
    <3> QED
      BY <1>1, <3>2
  <2> QED
    BY <2>1 DEF ToSet
<1>5. ToSet(way) = {Head(way)} \cup ToSet(Tail(way))
  BY SetOfHeadTail
<1>6. InOrder(mask, done \cup {Head(way)}, Tail(way), find)
  BY <1>3, <1>4, <1>5 DEF InOrder
<1>7. \A t \in done : t < Head(way)
  BY <1>5 DEF InOrder
<1> QED
  BY <1>1, <1>5, <1>6, <1>7 DEF InOrder

LEMMA PushKeepsOrder ==
  ASSUME NEW mask \in SUBSET Nat, NEW done, NEW find, NEW way \in Seq(Nat),
         InOrder(mask, done, way, find),
         NEW m \in find, \A x \in find : m <= x
  PROVE  InOrder(mask, done, way \o <<m>>, find \ {m})
<1>1. done \subseteq Nat /\ find \subseteq Nat /\ m \in Nat
  BY DEF InOrder
<1> DEFINE next == way \o <<m>>
<1>2. <<m>> \in Seq(Nat) /\ Len(<<m>>) = 1 /\ Len(way) \in Nat /\ DOMAIN way = 1 .. Len(way)
  BY <1>1, LenProperties
<1>3. /\ next \in Seq(Nat) /\ Len(next) = Len(way) + 1 /\ DOMAIN next = 1 .. Len(way) + 1
      /\ \A i \in 1 .. Len(way) : next[i] = way[i]
      /\ next[Len(way) + 1] = m
  BY <1>1, <1>2, ConcatProperties
<1>4. ToSet(next) = ToSet(way) \cup {m}
  <2> DEFINE last == <<m>>
  <2>1. last \in Seq(Nat) /\ ToSet(last) = {m}
    BY <1>2 DEF ToSet
  <2> HIDE DEF last
  <2>2. ToSet(way \o last) = ToSet(way) \cup ToSet(last)
    BY <2>1, SetOfConcat
  <2> QED
    BY <2>1, <2>2 DEF last
<1>5. \A i \in 1 .. Len(way) : way[i] \in ToSet(way) /\ way[i] < m
  BY <1>2 DEF ToSet, InOrder
<1> HIDE DEF next
<1>6. Increasing(next)
  <2> SUFFICES ASSUME NEW i \in DOMAIN next, NEW j \in DOMAIN next, i < j
               PROVE  next[i] < next[j]
    BY DEF Increasing
  <2>1. i \in 1 .. Len(way) /\ next[i] = way[i]
    BY <1>2, <1>3
  <2>2. CASE j \in 1 .. Len(way)
    <3>1. way[i] < way[j]
      BY <1>2, <2>1, <2>2 DEF InOrder, Increasing
    <3> QED
      BY <1>3, <2>1, <2>2, <3>1
  <2>3. CASE j = Len(way) + 1
    BY <1>3, <1>5, <2>1, <2>3
  <2> QED
    BY <1>2, <1>3, <2>2, <2>3
<1>7. \A x \in find \ {m} : m < x
  BY <1>1
<1>8. \A s \in ToSet(next) : (\A t \in done : t < s) /\ (\A t \in find \ {m} : s < t)
  BY <1>4, <1>7 DEF InOrder
<1>9. mask = done \cup ToSet(next) \cup (find \ {m})
  BY <1>4 DEF InOrder
<1>10. \A t \in done, s \in find \ {m} : t < s
  BY DEF InOrder
<1>11. InOrder(mask, done, next, find \ {m})
  BY <1>6, <1>8, <1>9, <1>10 DEF InOrder
<1> QED
  BY <1>11 DEF next

-----------------------------------------------------------------------------
(* The inductive invariant of the thread pipeline. *)

Empty ==
  /\ ready_fifo = <<>> /\ pending_check = <<>> /\ thread_out = <<>>
  /\ thread_fifo = <<>> /\ reroute_fifo = <<>> /\ lane_fifo = <<>>

Registers ==
  /\ entry \in [Thread -> SUBSET Reg]
  /\ \/ ps = "IDLE" /\ block = NoBlock
     \/ ps \in {"DISPATCHING", "DONE"} /\ block \in Blocks
  /\ dispatched_count \in Nat /\ start_pos \in Nat
  /\ {last_chunk_done, restart, calculate_done_reg, thread_pop_pending} \subseteq BOOLEAN
  /\ ready_fifo \in Seq(Thread) /\ pending_check \in Seq(Thread)
  /\ thread_out \in Seq(Thread) /\ thread_fifo \in Seq(Thread)
  /\ reroute_fifo \in Seq(Thread) /\ lane_fifo \in Seq(Thread)

\* A thread that has left the thread FIFO finds pending_check free when it arrives.
RoomToArrive ==
  /\ Len(pending_check) <= 1 /\ Len(thread_out) <= 1
  /\ thread_out # <<>> <=> thread_pop_pending
  /\ thread_pop_pending => pending_check = <<>>

AtRest ==
  ~Busy => Empty /\ ~restart /\ ~thread_pop_pending
           /\ (calculate_done_reg \/ block.mask = {})

Restarting ==
  restart => /\ Busy /\ Empty /\ ~thread_pop_pending /\ dispatched = {}
             /\ calculate_done_reg /\ ~last_chunk_done /\ dispatched_count = 0

\* While threads are to be found the lane's FIFO is not empty, except at the start: this
\* is what keeps dispatcher_control from taking a pause for the end of the chunk.
Searching ==
  Busy /\ ~calculate_done_reg =>
    Remaining # {} /\ (lane_fifo # <<>> \/ (Empty /\ dispatched_count = 0))

\* The stage that dispatcher_control does not watch drains before the ones it watches.
Draining ==
  last_chunk_done =>
    /\ calculate_done_reg /\ lane_fifo = <<>>
    /\ reroute_fifo # <<>> => thread_fifo # <<>> \/ thread_out # <<>>

Ordered == InOrder(block.mask, dispatched, OnTheWay, ToFind)

Inv ==
  /\ Registers /\ RoomToArrive /\ AtRest /\ Restarting /\ Searching /\ Draining /\ Ordered

\* A clock of the dispatcher, as Next offers it.
Clock(accepted, pop, rsp) ==
  /\ accepted \in Offer /\ pop \in When(DispatchValid)
  /\ DispatcherCycle(accepted, pop, rsp)

\* The thread found in this clock.
Found == IF LanePush THEN <<Min(Remaining)>> ELSE <<>>

LEMMA MaskIsOfThreads ==
  ASSUME Registers
  PROVE  block.mask \subseteq Thread /\ Remaining \subseteq block.mask /\ Thread \subseteq Nat
<1>1. block = NoBlock \/ block \in Blocks
  BY DEF Registers
<1>2. block.mask \subseteq Thread
  BY <1>1, BlocksAssumption DEF NoBlock
<1> QED
  BY <1>2 DEF Remaining, Thread

LEMMA FoundIsLeast ==
  ASSUME Registers
  PROVE  /\ Found \in Seq(Thread)
         /\ LanePush => Min(Remaining) \in Remaining /\ \A t \in Remaining : Min(Remaining) <= t
<1>1. CASE LanePush
  <2>1. Remaining # {} /\ Remaining \subseteq Thread /\ Remaining \subseteq Nat
    BY <1>1, MaskIsOfThreads DEF LanePush
  <2>2. Min(Remaining) \in Remaining /\ \A t \in Remaining : Min(Remaining) <= t
    BY <2>1, MinIsLeast
  <2>3. Min(Remaining) \in Thread
    BY <2>1, <2>2
  <2> QED
    BY <1>1, <2>2, <2>3 DEF Found
<1>2. CASE ~LanePush
  BY <1>2 DEF Found
<1> QED
  BY <1>1, <1>2

LEMMA MovedIsSeq ==
  ASSUME NEW S, NEW s \in Seq(S), NEW t \in Seq(S), NEW popped \in BOOLEAN,
         popped => s # <<>>
  PROVE  Item(s, popped) \in Seq(S) /\ Moved(s, t, popped) \in Seq(S)
<1>1. CASE popped
  <2>1. Head(s) \in S /\ Tail(s) \in Seq(S)
    BY <1>1, HeadThenTail
  <2> QED
    BY <1>1, <2>1 DEF Item, Moved
<1>2. CASE ~popped
  BY <1>2 DEF Item, Moved
<1> QED
  BY <1>1, <1>2

\* What moves is there.
LEMMA Movers ==
  ASSUME NEW pop \in When(DispatchValid), NEW rsp
  PROVE  /\ pop \in BOOLEAN /\ (pop => ready_fifo # <<>>)
         /\ ReadyPush(rsp) \in BOOLEAN /\ (ReadyPush(rsp) => pending_check # <<>>)
         /\ ThreadPop \in BOOLEAN
         /\ ThreadPop => thread_fifo # <<>> /\ pending_check = <<>> /\ ~thread_pop_pending
         /\ ThreadPush \in BOOLEAN /\ (ThreadPush => reroute_fifo # <<>>)
         /\ ReroutePush \in BOOLEAN /\ (ReroutePush => lane_fifo # <<>>)
<1>1. pop \in BOOLEAN /\ (pop => ready_fifo # <<>>)
  BY DEF When, DispatchValid
<1> QED
  BY <1>1 DEF ReadyPush, ThreadPop, ThreadPush, ReroutePush

LEMMA StagesStep ==
  ASSUME Registers, NEW accepted, NEW pop, NEW rsp, Clock(accepted, pop, rsp)
  PROVE  /\ ready_fifo' \in Seq(Thread) /\ pending_check' \in Seq(Thread)
         /\ thread_out' \in Seq(Thread) /\ thread_fifo' \in Seq(Thread)
         /\ reroute_fifo' \in Seq(Thread) /\ lane_fifo' \in Seq(Thread)
<1> USE DEF Clock, DispatcherCycle
<1>1. /\ pop \in BOOLEAN /\ (pop => ready_fifo # <<>>)
      /\ ReadyPush(rsp) \in BOOLEAN /\ (ReadyPush(rsp) => pending_check # <<>>)
      /\ ThreadPop \in BOOLEAN /\ (ThreadPop => thread_fifo # <<>>)
      /\ ThreadPush \in BOOLEAN /\ (ThreadPush => reroute_fifo # <<>>)
      /\ ReroutePush \in BOOLEAN /\ (ReroutePush => lane_fifo # <<>>)
  BY Movers
<1>2. ready_fifo' \in Seq(Thread)
  <2>1. Item(pending_check, ReadyPush(rsp)) \in Seq(Thread)
    BY <1>1, MovedIsSeq DEF Registers
  <2> QED
    BY <1>1, <2>1, MovedIsSeq DEF Registers, ReadyUpdate
<1>3. pending_check' \in Seq(Thread)
  <2>1. <<>> \in Seq(Thread)
    BY EmptySeq
  <2> QED
    BY <2>1 DEF Registers, PendingUpdate
<1>4. thread_out' \in Seq(Thread) /\ thread_fifo' \in Seq(Thread)
  <2>1. Item(thread_fifo, ThreadPop) \in Seq(Thread) /\ Item(reroute_fifo, ThreadPush) \in Seq(Thread)
    BY <1>1, MovedIsSeq DEF Registers
  <2> QED
    BY <1>1, <2>1, MovedIsSeq DEF Registers, FifoUpdate
<1>5. reroute_fifo' \in Seq(Thread)
  <2>1. Item(lane_fifo, ReroutePush) \in Seq(Thread)
    BY <1>1, MovedIsSeq DEF Registers
  <2> QED
    BY <1>1, <2>1, MovedIsSeq DEF Registers, FifoUpdate
<1>6. lane_fifo' \in Seq(Thread)
  <2>1. lane_fifo' = Moved(lane_fifo, Found, ReroutePush)
    BY DEF LaneUpdate, Found
  <2> QED
    BY <1>1, <2>1, MovedIsSeq, FoundIsLeast DEF Registers
<1> QED
  BY <1>2, <1>3, <1>4, <1>5, <1>6

\* Through the output register and pending_check one thread moves at a time.
LEMMA ArrivalKeepsPlace ==
  ASSUME Registers, RoomToArrive, ~restart, NEW rsp, PendingUpdate(rsp), FifoUpdate,
         NEW x \in Seq(Thread)
  PROVE  Join(Join(Join(x, Item(pending_check, ReadyPush(rsp))), pending_check'), thread_out')
         = Join(Join(Join(x, pending_check), thread_out), Item(thread_fifo, ThreadPop))
<1>1. pending_check \in Seq(Thread) /\ thread_out \in Seq(Thread) /\ <<>> \in Seq(Thread)
  BY EmptySeq DEF Registers
<1>2. /\ Join(x, <<>>) = x
      /\ Join(Join(x, pending_check), <<>>) = Join(x, pending_check)
      /\ Join(Join(x, thread_out), <<>>) = Join(x, thread_out)
  BY <1>1, JoinIsSeq
<1>3. thread_out' = Item(thread_fifo, ThreadPop)
  BY DEF FifoUpdate
<1>4. CASE pending_check # <<>>
  <2>1. thread_out = <<>> /\ ~ThreadPop /\ Item(thread_fifo, ThreadPop) = <<>>
    BY <1>4 DEF RoomToArrive, ThreadPop, Item
  <2>2. CASE ReadyPush(rsp)
    <3>1. pending_check' = <<>>
      BY <2>2 DEF PendingUpdate
    <3>2. pending_check = <<Head(pending_check)>>
      BY <1>1, <1>4, OneItem DEF RoomToArrive
    <3>3. Item(pending_check, ReadyPush(rsp)) = pending_check
      BY <2>2, <3>2 DEF Item
    <3> QED
      BY <1>2, <1>3, <2>1, <3>1, <3>3
  <2>3. CASE ~ReadyPush(rsp)
    <3>1. pending_check' = pending_check /\ Item(pending_check, ReadyPush(rsp)) = <<>>
      BY <1>4, <2>3 DEF PendingUpdate, Item
    <3> QED
      BY <1>2, <1>3, <2>1, <3>1
  <2> QED
    BY <2>2, <2>3
<1>5. CASE pending_check = <<>>
  <2>1. ~ReadyPush(rsp) /\ Item(pending_check, ReadyPush(rsp)) = <<>>
    BY <1>5 DEF ReadyPush, Item
  <2>2. pending_check' = thread_out
    BY <1>5, <2>1 DEF PendingUpdate
  <2>3. CASE thread_out # <<>>
    <3>1. Item(thread_fifo, ThreadPop) = <<>>
      BY <2>3 DEF RoomToArrive, ThreadPop, Item
    <3> QED
      BY <1>2, <1>3, <1>5, <2>1, <2>2, <3>1
  <2>4. CASE thread_out = <<>>
    BY <1>2, <1>3, <1>5, <2>1, <2>2, <2>4
  <2> QED
    BY <2>3, <2>4
<1> QED
  BY <1>4, <1>5

\* A clock takes at most the first thread from its way, and puts the one it found at the
\* end.
LEMMA WayStep ==
  ASSUME Registers, RoomToArrive, ~restart,
         NEW accepted, NEW pop, NEW rsp, Clock(accepted, pop, rsp)
  PROVE  /\ OnTheWay \in Seq(Thread)
         /\ OnTheWay' = Join(Drop(OnTheWay, pop), Found)
         /\ pop => OnTheWay # <<>> /\ Head(OnTheWay) = Head(ready_fifo)
<1>1. /\ pop \in BOOLEAN /\ (pop => ready_fifo # <<>>)
      /\ ReadyPush(rsp) \in BOOLEAN
      /\ ThreadPop \in BOOLEAN /\ (ThreadPop => thread_fifo # <<>>)
      /\ ThreadPush \in BOOLEAN /\ (ThreadPush => reroute_fifo # <<>>)
      /\ ReroutePush \in BOOLEAN /\ (ReroutePush => lane_fifo # <<>>)
  BY Movers DEF Clock
<1>2. /\ ready_fifo \in Seq(Thread) /\ pending_check \in Seq(Thread)
      /\ thread_out \in Seq(Thread) /\ thread_fifo \in Seq(Thread)
      /\ reroute_fifo \in Seq(Thread) /\ lane_fifo \in Seq(Thread)
  BY DEF Registers
<1>3. /\ ready_fifo' = Moved(ready_fifo, Item(pending_check, ReadyPush(rsp)), pop)
      /\ thread_fifo' = Moved(thread_fifo, Item(reroute_fifo, ThreadPush), ThreadPop)
      /\ reroute_fifo' = Moved(reroute_fifo, Item(lane_fifo, ReroutePush), ThreadPush)
      /\ lane_fifo' = Moved(lane_fifo, Found, ReroutePush)
      /\ PendingUpdate(rsp) /\ FifoUpdate
  BY DEF Clock, DispatcherCycle, ReadyUpdate, FifoUpdate, LaneUpdate, Found
<1>4. /\ Item(reroute_fifo, ThreadPush) \in Seq(Thread)
      /\ Item(lane_fifo, ReroutePush) \in Seq(Thread)
      /\ Found \in Seq(Thread)
  BY <1>1, <1>2, MovedIsSeq, FoundIsLeast
<1> DEFINE w1 == Join(ready_fifo, pending_check)
           w2 == Join(w1, thread_out)
           w3 == Join(w2, thread_fifo)
           w4 == Join(w3, reroute_fifo)
           r == Drop(ready_fifo, pop)
           v1 == Join(r, pending_check)
           v2 == Join(v1, thread_out)
           v3 == Join(v2, thread_fifo)
           v4 == Join(v3, reroute_fifo)
<1>5. OnTheWay = Join(w4, lane_fifo)
  BY DEF OnTheWay, Join
<1>6. OnTheWay' = Join(Join(Join(Join(Join(ready_fifo', pending_check'), thread_out'),
                                 thread_fifo'), reroute_fifo'), lane_fifo')
  BY DEF OnTheWay, Join
<1>7. ready_fifo' = Join(r, Item(pending_check, ReadyPush(rsp)))
  BY <1>3 DEF Moved, Drop, Join
<1>8. w1 \in Seq(Thread) /\ r \in Seq(Thread) /\ v1 = Drop(w1, pop)
      /\ (pop => w1 # <<>> /\ Head(w1) = Head(ready_fifo))
  <2>1. w1 \in Seq(Thread)
    BY <1>2, JoinIsSeq
  <2> HIDE DEF w1, w2, w3, w4, r, v1, v2, v3, v4
  <2>2. /\ pop \in BOOLEAN /\ (pop => ready_fifo # <<>>)
        /\ ready_fifo \in Seq(Thread) /\ pending_check \in Seq(Thread)
    BY <1>1, <1>2
  <2>3. /\ Drop(ready_fifo, pop) \in Seq(Thread)
        /\ Drop(Join(ready_fifo, pending_check), pop)
             = Join(Drop(ready_fifo, pop), pending_check)
        /\ pop => /\ Join(ready_fifo, pending_check) # <<>>
                  /\ Head(Join(ready_fifo, pending_check)) = Head(ready_fifo)
    BY <2>2, JoinDrop
  <2> QED
    BY <2>1, <2>3 DEF w1, r, v1
<1>9. w2 \in Seq(Thread) /\ v1 \in Seq(Thread) /\ v2 = Drop(w2, pop)
      /\ (pop => w2 # <<>> /\ Head(w2) = Head(ready_fifo))
  BY <1>1, <1>2, <1>8, JoinIsSeq, JoinDrop
<1>10. w3 \in Seq(Thread) /\ v2 \in Seq(Thread) /\ v3 = Drop(w3, pop)
       /\ (pop => w3 # <<>> /\ Head(w3) = Head(ready_fifo))
  BY <1>1, <1>2, <1>9, JoinIsSeq, JoinDrop
<1>11. w4 \in Seq(Thread) /\ v3 \in Seq(Thread) /\ v4 = Drop(w4, pop)
       /\ (pop => w4 # <<>> /\ Head(w4) = Head(ready_fifo))
  BY <1>1, <1>2, <1>10, JoinIsSeq, JoinDrop
<1>12. OnTheWay \in Seq(Thread) /\ v4 \in Seq(Thread)
       /\ Join(v4, lane_fifo) = Drop(OnTheWay, pop)
       /\ (pop => OnTheWay # <<>> /\ Head(OnTheWay) = Head(ready_fifo))
  <2>1. Join(w4, lane_fifo) \in Seq(Thread) /\ v4 \in Seq(Thread)
    BY <1>2, <1>11, JoinIsSeq
  <2>2. /\ Drop(Join(w4, lane_fifo), pop) = Join(Drop(w4, pop), lane_fifo)
        /\ pop => Join(w4, lane_fifo) # <<>> /\ Head(Join(w4, lane_fifo)) = Head(w4)
    BY <1>1, <1>2, <1>11, JoinDrop
  <2> QED
    BY <1>5, <1>11, <2>1, <2>2
<1>13. Join(Join(Join(r, Item(pending_check, ReadyPush(rsp))), pending_check'), thread_out')
       = Join(v2, Item(thread_fifo, ThreadPop))
  BY <1>3, <1>8, ArrivalKeepsPlace
<1>14. Join(Join(v2, Item(thread_fifo, ThreadPop)), thread_fifo')
       = Join(v3, Item(reroute_fifo, ThreadPush))
  BY <1>1, <1>2, <1>3, <1>4, <1>10, JoinShift
<1>15. Join(Join(v3, Item(reroute_fifo, ThreadPush)), reroute_fifo')
       = Join(v4, Item(lane_fifo, ReroutePush))
  BY <1>1, <1>2, <1>3, <1>4, <1>11, JoinShift
<1>16. Join(Join(v4, Item(lane_fifo, ReroutePush)), lane_fifo')
       = Join(Join(v4, lane_fifo), Found)
  BY <1>1, <1>2, <1>3, <1>4, <1>12, JoinShift
<1>17. OnTheWay' = Join(Join(v4, lane_fifo), Found)
  BY <1>6, <1>7, <1>13, <1>14, <1>15, <1>16
<1> QED
  BY <1>12, <1>17

LEMMA AcceptIsAtRest ==
  ASSUME Registers, NEW accepted, NEW pop, NEW rsp, Clock(accepted, pop, rsp), accepted # {}
  PROVE  ~Busy /\ \E b \in Blocks : accepted = {b} /\ block' = b /\ Acceptable(b)
<1>1. PICK b \in {c \in Blocks : FdrReady /\ Acceptable(c)} : accepted = {b}
  BY DEF Clock, Offer
<1>2. block' = b
  BY <1>1 DEF Clock, DispatcherCycle, ControlUpdate
<1> QED
  BY <1>1, <1>2 DEF FdrReady

LEMMA RegistersStep ==
  ASSUME Registers, NEW accepted, NEW pop, NEW rsp, Clock(accepted, pop, rsp)
  PROVE  Registers'
<1>1. entry' \in [Thread -> SUBSET Reg]
  <2>1. \A t \in Thread : Reserved(accepted, t) \subseteq Reg
    <3>1. accepted \subseteq Blocks
      BY DEF Clock, Offer
    <3> QED
      BY <3>1, BlocksAssumption DEF Reserved
  <2> QED
    BY <2>1 DEF Registers, Clock, DispatcherCycle, ScoreboardUpdate
<1>2. \/ ps' = "IDLE" /\ block' = NoBlock
      \/ ps' \in {"DISPATCHING", "DONE"} /\ block' \in Blocks
  <2>1. CASE accepted # {}
    BY <2>1, AcceptIsAtRest DEF Clock, DispatcherCycle, ControlUpdate
  <2>2. CASE accepted = {}
    BY <2>2 DEF Registers, Clock, DispatcherCycle, ControlUpdate, Busy
  <2> QED
    BY <2>1, <2>2
<1>3. dispatched_count' \in Nat
  BY DispatchModAssumption DEF Registers, Clock, DispatcherCycle, ControlUpdate
<1>4. start_pos' \in Nat
  <2>1. LanePush => Min(Remaining) \in Nat
    BY FoundIsLeast, MaskIsOfThreads
  <2> QED
    BY <2>1 DEF Registers, Clock, DispatcherCycle, LaneUpdate
<1>5. last_chunk_done' \in BOOLEAN /\ restart' \in BOOLEAN
  BY DEF Clock, DispatcherCycle, ControlUpdate
<1>6. calculate_done_reg' \in BOOLEAN /\ thread_pop_pending' \in BOOLEAN
  BY DEF Clock, DispatcherCycle, LaneUpdate, PendingUpdate
<1> QED
  BY <1>1, <1>2, <1>3, <1>4, <1>5, <1>6, StagesStep DEF Registers

\* The priority encoder finds the least of the threads that are left.
LEMMA FindStep ==
  ASSUME Registers, ~restart, NEW pop, NEW rsp, Clock({}, pop, rsp)
  PROVE  /\ LanePush => /\ ToFind = Remaining /\ Min(Remaining) \in ToFind
                        /\ ToFind' = ToFind \ {Min(Remaining)}
         /\ ~LanePush => ToFind' = ToFind
<1>1. block' = block /\ ~restart' /\ (calculate_done_reg' <=> CalculateDone)
      /\ start_pos' = IF LanePush /\ ~CalculateDone THEN Min(Remaining) + 1 ELSE start_pos
  BY DEF Clock, DispatcherCycle, ControlUpdate, LaneUpdate
<1>2. ToFind' = IF CalculateDone THEN {} ELSE {t \in block.mask : t >= start_pos'}
  BY <1>1 DEF ToFind, Remaining
<1>3. block.mask \subseteq Thread /\ Remaining \subseteq block.mask /\ Thread \subseteq Nat
  BY MaskIsOfThreads
<1>4. CASE LanePush
  <2>1. ToFind = Remaining /\ ~calculate_done_reg /\ Remaining # {}
    BY <1>4 DEF ToFind, LanePush
  <2>2. Min(Remaining) \in Remaining /\ \A t \in Remaining : Min(Remaining) <= t
    BY <1>4, FoundIsLeast
  <2>3. block.mask # {} /\ \A t \in block.mask : t <= Max(block.mask)
    BY <1>3, <2>1, MaxIsGreatest
  <2>4. CASE Min(Remaining) = Max(block.mask)
    <3>1. Remaining \ {Min(Remaining)} = {}
      <4>1. ASSUME NEW t \in Remaining PROVE t = Min(Remaining)
        <5>1. Min(Remaining) <= t /\ t <= Min(Remaining)
          BY <1>3, <2>2, <2>3, <2>4
        <5>2. t \in Nat /\ Min(Remaining) \in Nat
          BY <1>3, <2>2
        <5> QED
          BY <5>1, <5>2
      <4> QED
        BY <4>1
    <3>2. CalculateDone
      BY <1>4, <2>4 DEF CalculateDone
    <3> QED
      BY <1>2, <1>4, <2>1, <2>2, <3>1, <3>2
  <2>5. CASE Min(Remaining) # Max(block.mask)
    <3>1. ~CalculateDone
      BY <2>1, <2>3, <2>5 DEF CalculateDone
    <3>2. ToFind' = {t \in block.mask : t >= Min(Remaining) + 1}
      BY <1>1, <1>2, <1>4, <3>1
    <3>3. ASSUME NEW t \in block.mask
          PROVE  t >= Min(Remaining) + 1 <=> t >= start_pos /\ t # Min(Remaining)
      <4>1. t \in Nat /\ Min(Remaining) \in Nat /\ start_pos \in Nat /\ Min(Remaining) >= start_pos
        BY <1>3, <2>2 DEF Registers, Remaining
      <4>2. t >= start_pos => t >= Min(Remaining)
        BY <2>2, <3>3, <4>1 DEF Remaining
      <4> QED
        BY <4>1, <4>2
    <3> QED
      BY <1>4, <2>1, <2>2, <3>2, <3>3 DEF Remaining
  <2> QED
    BY <2>4, <2>5
<1>5. CASE ~LanePush
  <2>1. CalculateDone <=> calculate_done_reg \/ block.mask = {}
    BY <1>5 DEF CalculateDone
  <2>2. start_pos' = start_pos
    BY <1>1, <1>5
  <2> QED
    BY <1>2, <1>5, <2>1, <2>2 DEF ToFind, Remaining
<1> QED
  BY <1>4, <1>5

\* Stages that are empty stay empty while nothing is found.
LEMMA EmptyStays ==
  ASSUME Registers, Empty, ~thread_pop_pending, ~LanePush,
         NEW accepted, NEW pop, NEW rsp, Clock(accepted, pop, rsp)
  PROVE  Empty' /\ ~thread_pop_pending' /\ ~pop
<1>1. ~pop /\ ~ReadyPush(rsp) /\ ~ThreadPop /\ ~ThreadPush /\ ~ReroutePush
  BY Movers DEF Clock, Empty
<1>2. <<>> \o <<>> = <<>>
  BY ConcatEmptySeq, EmptySeq
<1>3. ready_fifo' = <<>> /\ thread_fifo' = <<>> /\ reroute_fifo' = <<>> /\ lane_fifo' = <<>>
      /\ thread_out' = <<>>
  BY <1>1, <1>2 DEF Clock, DispatcherCycle, ReadyUpdate, FifoUpdate, LaneUpdate, Moved, Item, Empty
<1>4. pending_check' = <<>> /\ ~thread_pop_pending'
  BY <1>1 DEF Clock, DispatcherCycle, PendingUpdate, Empty
<1> QED
  BY <1>1, <1>3, <1>4 DEF Empty

LEMMA NothingFound ==
  ASSUME Registers, calculate_done_reg \/ block.mask = {}
  PROVE  ~LanePush /\ CalculateDone
BY MaskIsOfThreads DEF LanePush, CalculateDone

LEMMA EmptyInOrder ==
  ASSUME NEW mask
  PROVE  InOrder(mask, {}, <<>>, mask)
<1>1. ToSet(<<>>) = {} /\ Increasing(<<>>)
  BY DEF ToSet, Increasing
<1> QED
  BY <1>1 DEF InOrder

LEMMA OrderedStep ==
  ASSUME Inv, NEW accepted, NEW pop, NEW rsp, Clock(accepted, pop, rsp)
  PROVE  Ordered'
<1> USE DEF Inv
<1>1. CASE accepted # {}
  <2>1. Empty /\ ~thread_pop_pending /\ ~restart /\ ~LanePush
    BY <1>1, AcceptIsAtRest, NothingFound DEF AtRest
  <2>2. Empty'
    BY <2>1, EmptyStays
  <2>3. dispatched' = {} /\ ToFind' = block'.mask
    BY <1>1 DEF Clock, DispatcherCycle, ReadyUpdate, ControlUpdate, ToFind
  <2>4. OnTheWay' = <<>>
    BY <2>2, ConcatEmptySeq, EmptySeq DEF Empty, OnTheWay
  <2> QED
    BY <2>3, <2>4, EmptyInOrder DEF Ordered
<1>2. CASE accepted = {} /\ restart
  <2>1. Empty /\ ~thread_pop_pending /\ ~LanePush /\ dispatched = {}
    BY <1>2, NothingFound DEF Restarting
  <2>2. Empty' /\ ~pop
    BY <2>1, EmptyStays
  <2>3. dispatched' = {} /\ block' = block /\ ~restart' /\ ~calculate_done_reg' /\ start_pos' = 0
    BY <1>2, <2>1, <2>2
       DEF Clock, DispatcherCycle, ReadyUpdate, ControlUpdate, LaneUpdate
  <2>4. ToFind' = block.mask
    BY <2>3, MaskIsOfThreads DEF ToFind, Remaining
  <2>5. OnTheWay' = <<>>
    BY <2>2, ConcatEmptySeq, EmptySeq DEF Empty, OnTheWay
  <2> QED
    BY <2>3, <2>4, <2>5, EmptyInOrder DEF Ordered
<1>3. CASE accepted = {} /\ ~restart
  <2>1. Clock({}, pop, rsp)
    BY <1>3
  <2>2. block' = block /\ dispatched' = IF pop THEN dispatched \cup {Head(ready_fifo)} ELSE dispatched
    BY <1>3 DEF Clock, DispatcherCycle, ReadyUpdate, ControlUpdate
  <2>3. /\ OnTheWay \in Seq(Thread) /\ OnTheWay' = Join(Drop(OnTheWay, pop), Found)
        /\ pop => OnTheWay # <<>> /\ Head(OnTheWay) = Head(ready_fifo)
    BY <1>3, WayStep
  <2>4. block.mask \in SUBSET Nat /\ OnTheWay \in Seq(Nat)
    BY <2>3, MaskIsOfThreads, SeqMonotonic
  <2>5. /\ InOrder(block.mask, dispatched', Drop(OnTheWay, pop), ToFind)
        /\ Drop(OnTheWay, pop) \in Seq(Nat)
    <3>1. CASE pop
      <4>1. OnTheWay # <<>> /\ Head(OnTheWay) = Head(ready_fifo)
        BY <2>3, <3>1
      <4>2. InOrder(block.mask, dispatched \cup {Head(OnTheWay)}, Tail(OnTheWay), ToFind)
        BY <2>4, <4>1, PopKeepsOrder DEF Ordered
      <4>3. Tail(OnTheWay) \in Seq(Nat)
        BY <2>4, <4>1, HeadTailProperties
      <4> QED
        BY <2>2, <3>1, <4>1, <4>2, <4>3 DEF Drop
    <3>2. CASE ~pop
      BY <2>2, <2>4, <3>2 DEF Ordered, Drop
    <3> QED
      BY <3>1, <3>2
  <2> DEFINE way == Drop(OnTheWay, pop)
  <2> HIDE DEF way
  <2>6. CASE LanePush
    <3>1. /\ Min(Remaining) \in ToFind /\ \A t \in ToFind : Min(Remaining) <= t
          /\ ToFind' = ToFind \ {Min(Remaining)}
      BY <1>3, <2>1, <2>6, FindStep, FoundIsLeast
    <3>2. InOrder(block.mask, dispatched', way \o <<Min(Remaining)>>, ToFind \ {Min(Remaining)})
      BY <2>4, <2>5, <3>1, PushKeepsOrder DEF way
    <3>3. OnTheWay' = way \o <<Min(Remaining)>>
      BY <2>3, <2>6 DEF Found, Join, way
    <3> QED
      BY <2>2, <3>1, <3>2, <3>3 DEF Ordered
  <2>7. CASE ~LanePush
    <3>1. ToFind' = ToFind
      BY <1>3, <2>1, <2>7, FindStep
    <3>2. OnTheWay' = way
      BY <2>3, <2>5, <2>7, JoinIsSeq DEF Found, way
    <3> QED
      BY <2>2, <2>5, <3>1, <3>2 DEF Ordered, way
  <2> QED
    BY <2>6, <2>7
<1> QED
  BY <1>1, <1>2, <1>3

LEMMA RoomStep ==
  ASSUME Inv, NEW accepted, NEW pop, NEW rsp, Clock(accepted, pop, rsp)
  PROVE  RoomToArrive'
<1> USE DEF Inv
<1>1. thread_out' = Item(thread_fifo, ThreadPop)
  BY DEF Clock, DispatcherCycle, FifoUpdate
<1>2. /\ pending_check' \in {<<>>, thread_out, pending_check}
      /\ thread_pop_pending' = (~restart /\ ~(pending_check = <<>> /\ thread_out # <<>>)
                                /\ (ThreadPop \/ thread_pop_pending))
  BY DEF Clock, DispatcherCycle, PendingUpdate
<1>3. Len(thread_out') <= 1
  BY <1>1, EmptySeq DEF Item
<1>4. Len(pending_check') <= 1
  BY <1>2, EmptySeq DEF RoomToArrive
<1>5. ASSUME thread_out' # <<>> PROVE thread_pop_pending' /\ pending_check' = <<>>
  <2>1. ThreadPop /\ thread_fifo # <<>> /\ pending_check = <<>> /\ ~thread_pop_pending
    BY <1>1, <1>5 DEF Item, ThreadPop
  <2>2. thread_out = <<>> /\ ~restart
    BY <2>1 DEF RoomToArrive, Restarting, Empty
  <2> QED
    BY <1>2, <2>1, <2>2
<1>6. ASSUME thread_pop_pending' PROVE thread_out' # <<>>
  <2>1. ThreadPop /\ thread_fifo # <<>>
    BY <1>2, <1>6 DEF RoomToArrive, ThreadPop
  <2> QED
    BY <1>1, <2>1 DEF Item
<1> QED
  BY <1>3, <1>4, <1>5, <1>6 DEF RoomToArrive

LEMMA AtRestStep ==
  ASSUME Inv, NEW accepted, NEW pop, NEW rsp, Clock(accepted, pop, rsp)
  PROVE  AtRest'
<1> USE DEF Inv
<1>1. SUFFICES ASSUME ~Busy' PROVE Empty' /\ ~restart' /\ ~thread_pop_pending' /\ calculate_done_reg'
  BY DEF AtRest
<1>2. accepted = {} /\ ~restart'
  BY <1>1 DEF Clock, DispatcherCycle, ControlUpdate, Busy
<1>3. Empty /\ ~thread_pop_pending /\ (calculate_done_reg \/ block.mask = {}) /\ ~restart
  <2>1. CASE Busy
    <3>1. last_chunk_done /\ PipelineIdle(rsp)
      BY <1>1, <1>2, <2>1 DEF Clock, DispatcherCycle, ControlUpdate, Busy
    <3>2. /\ thread_fifo = <<>> /\ thread_out = <<>> /\ pending_check = <<>> /\ ready_fifo = <<>>
          /\ ~thread_pop_pending
      BY <3>1 DEF PipelineIdle
    <3>3. lane_fifo = <<>> /\ reroute_fifo = <<>> /\ calculate_done_reg
      BY <3>1, <3>2 DEF Draining
    <3>4. ~restart
      BY <3>1 DEF Restarting
    <3> QED
      BY <3>2, <3>3, <3>4 DEF Empty
  <2>2. CASE ~Busy
    BY <2>2 DEF AtRest
  <2> QED
    BY <2>1, <2>2
<1>4. ~LanePush /\ CalculateDone
  BY <1>3, NothingFound
<1>5. calculate_done_reg'
  BY <1>3, <1>4 DEF Clock, DispatcherCycle, LaneUpdate
<1> QED
  BY <1>2, <1>3, <1>4, <1>5, EmptyStays

LEMMA RestartingStep ==
  ASSUME Inv, NEW accepted, NEW pop, NEW rsp, Clock(accepted, pop, rsp)
  PROVE  Restarting'
<1> USE DEF Inv
<1>1. SUFFICES ASSUME accepted # {}
               PROVE  /\ Busy' /\ Empty' /\ ~thread_pop_pending' /\ dispatched' = {}
                      /\ calculate_done_reg' /\ ~last_chunk_done' /\ dispatched_count' = 0
  BY DEF Restarting, Clock, DispatcherCycle, ControlUpdate
<1>2. /\ Empty /\ ~thread_pop_pending /\ ~restart /\ ~LanePush /\ CalculateDone
  BY <1>1, AcceptIsAtRest, NothingFound DEF AtRest
<1>3. Empty' /\ ~thread_pop_pending'
  BY <1>2, EmptyStays
<1>4. Busy' /\ ~last_chunk_done' /\ dispatched_count' = 0
  BY <1>1 DEF Clock, DispatcherCycle, ControlUpdate, Busy
<1>5. dispatched' = {} /\ calculate_done_reg'
  BY <1>1, <1>2 DEF Clock, DispatcherCycle, ReadyUpdate, LaneUpdate
<1> QED
  BY <1>3, <1>4, <1>5

\* A FIFO that has room takes the thread found; one that is full holds another.
LEMMA LaneStaysFilled ==
  ASSUME Registers, ~calculate_done_reg, Remaining # {}, NEW accepted, NEW pop, NEW rsp,
         Clock(accepted, pop, rsp)
  PROVE  lane_fifo' # <<>>
<1>1. lane_fifo' = Moved(lane_fifo, Found, ReroutePush) /\ Found \in Seq(Thread)
      /\ lane_fifo \in Seq(Thread) /\ ReroutePush \in BOOLEAN /\ (ReroutePush => lane_fifo # <<>>)
  BY Movers, FoundIsLeast DEF Clock, DispatcherCycle, LaneUpdate, Found, Registers
<1> DEFINE kept == IF ReroutePush THEN Tail(lane_fifo) ELSE lane_fifo
<1>2. kept \in Seq(Thread)
  BY <1>1, HeadTailProperties
<1>3. lane_fifo' = kept \o Found
  BY <1>1 DEF Moved
<1>4. CASE LanePush
  <2>1. Found # <<>>
    BY <1>4 DEF Found
  <2> HIDE DEF kept
  <2> QED
    BY <1>1, <1>2, <1>3, <2>1, ConcatEqualIffEmpty, ConcatSimplifications
<1>5. CASE ~LanePush
  <2>1. Len(lane_fifo) \in Nat /\ Len(lane_fifo) >= 2
    BY <1>1, <1>5, DepthAssumption, LenProperties DEF LanePush
  <2>2. kept # <<>>
    <3>1. Len(kept) \in Nat /\ Len(kept) > 0
      BY <1>1, <2>1, HeadTailProperties
    <3> HIDE DEF kept
    <3> QED
      BY <3>1, EmptySeq
  <2> HIDE DEF kept
  <2> QED
    BY <1>1, <1>2, <1>3, <2>2, ConcatSimplifications
<1> QED
  BY <1>4, <1>5

LEMMA SearchingStep ==
  ASSUME Inv, NEW accepted, NEW pop, NEW rsp, Clock(accepted, pop, rsp)
  PROVE  Searching'
<1> USE DEF Inv
<1>1. SUFFICES ASSUME Busy', ~calculate_done_reg'
               PROVE  Remaining' # {} /\ (lane_fifo' # <<>> \/ (Empty' /\ dispatched_count' = 0))
  BY DEF Searching
<1>2. CASE restart
  <2>1. Busy /\ Empty /\ ~thread_pop_pending /\ dispatched_count = 0 /\ ~LanePush
    BY <1>2, NothingFound DEF Restarting
  <2>2. accepted = {}
    BY <2>1, AcceptIsAtRest
  <2>3. Empty'
    BY <2>1, EmptyStays
  <2>4. dispatched_count' = 0 /\ block' = block /\ start_pos' = 0
    BY <1>2, <2>1, <2>2
       DEF Clock, DispatcherCycle, ControlUpdate, LaneUpdate, DispatchValid, Empty
  <2>5. block.mask # {} /\ block.mask \subseteq Nat
    BY <2>1, BlocksAssumption, MaskIsOfThreads DEF Registers, Busy
  <2>6. Remaining' = block.mask
    BY <2>4, <2>5 DEF Remaining
  <2> QED
    BY <2>3, <2>4, <2>5, <2>6
<1>3. CASE ~restart
  <2>1. ~CalculateDone
    BY <1>1, <1>3 DEF Clock, DispatcherCycle, LaneUpdate
  <2>2. ~calculate_done_reg /\ Busy
    BY <2>1 DEF CalculateDone, AtRest
  <2>3. accepted = {} /\ Clock({}, pop, rsp)
    BY <2>2, AcceptIsAtRest
  <2>4. Remaining # {}
    BY <2>2 DEF Searching
  <2>5. lane_fifo' # <<>>
    BY <2>2, <2>4, LaneStaysFilled
  <2>6. Remaining' # {}
    <3>1. CASE LanePush
      <4>1. block' = block /\ start_pos' = Min(Remaining) + 1
        BY <1>3, <2>1, <2>3, <3>1 DEF Clock, DispatcherCycle, ControlUpdate, LaneUpdate
      <4>2. /\ Min(Remaining) \in block.mask /\ Min(Remaining) # Max(block.mask)
            /\ block.mask \subseteq Thread /\ Thread \subseteq Nat
        BY <2>1, <3>1, FoundIsLeast, MaskIsOfThreads DEF CalculateDone
      <4>3. Max(block.mask) \in block.mask /\ Min(Remaining) <= Max(block.mask)
        BY <4>2, MaxIsGreatest
      <4>4. Max(block.mask) >= Min(Remaining) + 1
        <5>1. Max(block.mask) \in Nat /\ Min(Remaining) \in Nat
          BY <4>2, <4>3
        <5> QED
          BY <4>2, <4>3, <5>1
      <4> QED
        BY <4>1, <4>3, <4>4 DEF Remaining
    <3>2. CASE ~LanePush
      <4>1. block' = block /\ start_pos' = start_pos
        BY <1>3, <2>3, <3>2 DEF Clock, DispatcherCycle, ControlUpdate, LaneUpdate
      <4> QED
        BY <2>4, <4>1 DEF Remaining
    <3> QED
      BY <3>1, <3>2
  <2> QED
    BY <2>5, <2>6
<1> QED
  BY <1>2, <1>3

LEMMA DrainingStep ==
  ASSUME Inv, NEW accepted, NEW pop, NEW rsp, Clock(accepted, pop, rsp)
  PROVE  Draining'
<1> USE DEF Inv
<1>1. SUFFICES ASSUME last_chunk_done'
               PROVE  /\ calculate_done_reg' /\ lane_fifo' = <<>>
                      /\ reroute_fifo' # <<>> => thread_fifo' # <<>> \/ thread_out' # <<>>
  BY DEF Draining
<1>2. last_chunk_done \/ LastChunkFin
  BY <1>1 DEF Clock, DispatcherCycle, ControlUpdate
<1>3. calculate_done_reg /\ lane_fifo = <<>> /\ ~restart
  <2>1. CASE last_chunk_done
    BY <2>1 DEF Draining, Restarting
  <2>2. CASE LastChunkFin
    <3>1. Busy /\ CalculateDone /\ lane_fifo = <<>> /\ dispatched_count # 0
      BY <2>2 DEF LastChunkFin, ChunkDone
    <3> QED
      BY <3>1 DEF Searching, Restarting
  <2> QED
    BY <1>2, <2>1, <2>2
<1>4. reroute_fifo # <<>> => thread_fifo # <<>> \/ thread_out # <<>> \/ ThreadPush
  <2>1. CASE last_chunk_done
    BY <2>1 DEF Draining
  <2>2. CASE LastChunkFin
    <3>1. thread_fifo = <<>> /\ Len(thread_fifo) = 0
      BY <2>2, EmptySeq DEF LastChunkFin, ChunkDone
    <3> QED
      BY <3>1, DepthAssumption DEF ThreadPush
  <2> QED
    BY <1>2, <2>1, <2>2
<1>5. ~LanePush /\ CalculateDone /\ ~ReroutePush
  BY <1>3, NothingFound DEF ReroutePush
<1>6. <<>> \o <<>> = <<>>
  BY ConcatEmptySeq, EmptySeq
<1>7. calculate_done_reg' /\ lane_fifo' = <<>>
  BY <1>3, <1>5, <1>6 DEF Clock, DispatcherCycle, LaneUpdate, Moved
<1>8. ASSUME reroute_fifo' # <<>> PROVE thread_fifo' # <<>> \/ thread_out' # <<>>
  <2>1. reroute_fifo # <<>>
    <3>1. reroute_fifo' = Moved(reroute_fifo, <<>>, ThreadPush)
      BY <1>5 DEF Clock, DispatcherCycle, FifoUpdate, Item
    <3> QED
      BY <1>6, <1>8, <3>1, Movers DEF Moved, ThreadPush
  <2>2. /\ thread_fifo' = (IF ThreadPop THEN Tail(thread_fifo) ELSE thread_fifo)
                            \o Item(reroute_fifo, ThreadPush)
        /\ thread_out' = Item(thread_fifo, ThreadPop)
    BY DEF Clock, DispatcherCycle, FifoUpdate, Moved
  <2>3. CASE ThreadPop
    BY <2>2, <2>3 DEF Item
  <2>4. CASE ~ThreadPop
    <3>1. thread_fifo \in Seq(Thread) /\ Item(reroute_fifo, ThreadPush) \in Seq(Thread)
      BY <2>1, MovedIsSeq DEF Registers, ThreadPush
    <3>2. CASE ThreadPush
      <4>1. Item(reroute_fifo, ThreadPush) # <<>>
        BY <3>2 DEF Item
      <4> QED
        BY <2>2, <2>4, <3>1, <4>1, ConcatSimplifications
    <3>3. CASE ~ThreadPush /\ thread_fifo # <<>>
      BY <2>2, <2>4, <3>1, <3>3, ConcatSimplifications
    <3>4. CASE ~ThreadPush /\ thread_fifo = <<>>
      <4>1. Len(thread_fifo) = 0
        BY <3>4, EmptySeq
      <4> QED
        BY <2>1, <3>4, <4>1, DepthAssumption DEF ThreadPush
    <3> QED
      BY <3>2, <3>3, <3>4
  <2> QED
    BY <2>3, <2>4
<1> QED
  BY <1>7, <1>8

LEMMA InvInit == Init => Inv
<1> SUFFICES ASSUME Init PROVE Inv
  OBVIOUS
<1> USE DEF Init, DispInit
<1>1. Registers
  BY EmptySeq DEF Registers, ScoreboardInit
<1>2. Empty /\ ~Busy /\ block.mask = {}
  BY DEF Empty, Busy, NoBlock
<1>3. OnTheWay = <<>>
  BY <1>2, ConcatEmptySeq, EmptySeq DEF OnTheWay, Empty
<1>4. ToFind = {} /\ dispatched = {}
  BY <1>2 DEF ToFind, Remaining
<1>5. Ordered
  BY <1>2, <1>3, <1>4, EmptyInOrder DEF Ordered
<1>6. RoomToArrive
  BY EmptySeq DEF RoomToArrive
<1> QED
  BY <1>1, <1>2, <1>5, <1>6 DEF Inv, AtRest, Restarting, Searching, Draining

LEMMA InvStep == Inv /\ [Next]_vars => Inv'
<1> SUFFICES ASSUME Inv, [Next]_vars PROVE Inv'
  OBVIOUS
<1>1. CASE Next
  <2>1. PICK accepted \in Offer, pop \in When(DispatchValid), exit \in When(pipe # <<>>),
             rsp \in Responses : Cycle(accepted, pop, exit, rsp)
    BY <1>1 DEF Next
  <2>2. Clock(accepted, pop, rsp)
    BY <2>1 DEF Clock, Cycle
  <2> QED
    BY <2>2, RegistersStep, RoomStep, AtRestStep, RestartingStep, SearchingStep,
       DrainingStep, OrderedStep DEF Inv
<1>2. CASE UNCHANGED vars
  BY <1>2 DEF vars, disp_vars, Inv, Registers, RoomToArrive, AtRest, Restarting, Searching,
     Draining, Ordered, Busy, Empty, Remaining, ToFind, OnTheWay
<1> QED
  BY <1>1, <1>2

\* The invariant of the thread pipeline holds always.
THEOREM InvAlways == Spec => []Inv
BY InvInit, InvStep, PTL DEF Spec

\* Every active thread of an e-block is dispatched once and in the order of the thread ids,
\* for any number of threads and any depth of the FIFOs (Dispatcher.tla).
THEOREM EveryThreadOnce == Spec => []ThreadsConserved
<1>1. Inv => ThreadsConserved
  BY DEF Inv, Ordered, InOrder, Increasing, ThreadsConserved
<1> QED
  BY <1>1, InvAlways, PTL

-----------------------------------------------------------------------------
(* What the back end is promised.  The number of threads that are left is what *)
(* the thread pipeline has in place of a counter.                              *)

Left == block.mask \ dispatched

LEMMA LeftIsFinite ==
  ASSUME Registers
  PROVE  /\ IsFiniteSet(Left) /\ Cardinality(Left) \in 0 .. NumThreads
         /\ Cardinality(Left) = 0 <=> Left = {}
<1>1. IsFiniteSet(Thread) /\ Cardinality(Thread) = NumThreads
  BY FS_Interval, NumThreadsAssumption DEF Thread
<1>2. Left \in SUBSET Thread
  BY MaskIsOfThreads DEF Left
<1>3. IsFiniteSet(Left) /\ Cardinality(Left) <= NumThreads /\ Cardinality(Left) \in Nat
  BY <1>1, <1>2, FS_Subset, FS_CardinalityType
<1> QED
  BY <1>3, FS_EmptySet, NumThreadsAssumption

LEMMA WayIsLeft ==
  ASSUME Inv
  PROVE  /\ OnTheWay \in Seq(Thread) /\ Increasing(OnTheWay)
         /\ ToSet(OnTheWay) \subseteq Left /\ ToFind \subseteq Left
         /\ ToSet(OnTheWay) \cap ToFind = {}
         /\ Left = ToSet(OnTheWay) \cup ToFind
         /\ Len(OnTheWay) = Len(ready_fifo) + Len(pending_check) + Len(thread_out)
                            + Len(thread_fifo) + Len(reroute_fifo) + Len(lane_fifo)
<1> USE DEF Inv
<1>1. /\ OnTheWay \in Seq(Thread)
      /\ Len(OnTheWay) = Len(ready_fifo) + Len(pending_check) + Len(thread_out)
                         + Len(thread_fifo) + Len(reroute_fifo) + Len(lane_fifo)
  BY ConcatProperties DEF OnTheWay, Registers
<1>2. block.mask \subseteq Nat
  BY MaskIsOfThreads
<1>3. block.mask = dispatched \cup ToSet(OnTheWay) \cup ToFind
  BY DEF Ordered, InOrder
<1>4. \A s \in ToSet(OnTheWay) : (\A t \in dispatched : t < s) /\ (\A t \in ToFind : s < t)
  BY DEF Ordered, InOrder
<1>5. \A t \in dispatched, s \in ToFind : t < s
  BY DEF Ordered, InOrder
<1>6. \A n \in Nat : ~(n < n)
  OBVIOUS
<1>7. ToSet(OnTheWay) \cap dispatched = {} /\ ToFind \cap dispatched = {}
      /\ ToSet(OnTheWay) \cap ToFind = {}
  BY <1>2, <1>3, <1>4, <1>5, <1>6
<1> QED
  BY <1>1, <1>3, <1>7 DEF Left, Ordered, InOrder

\* While threads are left to find the encoder is not done.
LEMMA FoundAll ==
  ASSUME Inv, ToFind = {}
  PROVE  CalculateDone /\ ~restart
<1> USE DEF Inv
<1>1. ~restart
  <2>1. ASSUME restart PROVE FALSE
    <3>1. block \in Blocks /\ ToFind = block.mask
      BY <2>1 DEF Restarting, Registers, Busy, ToFind
    <3> QED
      BY <3>1, BlocksAssumption
  <2> QED
    BY <2>1
<1>2. CASE calculate_done_reg
  BY <1>1, <1>2 DEF CalculateDone
<1>3. CASE ~calculate_done_reg
  <2>1. Remaining = {}
    BY <1>1, <1>3 DEF ToFind
  <2>2. ~Busy
    BY <1>3, <2>1 DEF Searching
  <2> QED
    BY <1>1, <1>3, <2>2 DEF AtRest, CalculateDone
<1> QED
  BY <1>2, <1>3

LEMMA NoneLeft ==
  ASSUME Inv, Left = {}
  PROVE  Empty /\ ~thread_pop_pending /\ ChunkDone
<1> USE DEF Inv
<1>1. ToSet(OnTheWay) = {} /\ ToFind = {} /\ OnTheWay \in Seq(Thread)
  BY WayIsLeft
<1>2. OnTheWay = <<>>
  BY <1>1, SetOfHeadTail
<1>3. Empty
  <2>1. Len(OnTheWay) = 0
    BY <1>2
  <2>2. /\ Len(ready_fifo) \in Nat /\ Len(pending_check) \in Nat /\ Len(thread_out) \in Nat
        /\ Len(thread_fifo) \in Nat /\ Len(reroute_fifo) \in Nat /\ Len(lane_fifo) \in Nat
    BY DEF Registers
  <2>3. /\ Len(ready_fifo) = 0 /\ Len(pending_check) = 0 /\ Len(thread_out) = 0
        /\ Len(thread_fifo) = 0 /\ Len(reroute_fifo) = 0 /\ Len(lane_fifo) = 0
    BY <2>1, <2>2, WayIsLeft
  <2> QED
    BY <2>3, EmptySeq DEF Empty, Registers
<1>4. ~thread_pop_pending
  BY <1>3 DEF RoomToArrive, Empty
<1> QED
  BY <1>1, <1>3, <1>4, FoundAll DEF ChunkDone, Empty

LEMMA OneLeft ==
  ASSUME Inv, Cardinality(Left) = 1, DispatchValid
  PROVE  ChunkDone
<1> USE DEF Inv
<1>1. PICK x : Left = {x}
  BY LeftIsFinite, FS_Singleton
<1>2. /\ Len(ready_fifo) \in Nat \ {0} /\ Len(pending_check) \in Nat /\ Len(thread_out) \in Nat
      /\ Len(thread_fifo) \in Nat /\ Len(reroute_fifo) \in Nat /\ Len(lane_fifo) \in Nat
  BY EmptySeq DEF Registers, DispatchValid
<1>3. OnTheWay \in Seq(Thread) /\ Len(OnTheWay) \in Nat \ {0} /\ DOMAIN OnTheWay = 1 .. Len(OnTheWay)
  BY <1>2, WayIsLeft, LenProperties
<1>4. \A i \in DOMAIN OnTheWay : OnTheWay[i] = x
  BY <1>1, WayIsLeft DEF ToSet
<1>5. x \in Nat
  BY <1>1, MaskIsOfThreads DEF Left
<1>6. Len(OnTheWay) = 1
  <2>1. ASSUME Len(OnTheWay) > 1 PROVE FALSE
    <3>1. 1 \in DOMAIN OnTheWay /\ 2 \in DOMAIN OnTheWay
      BY <1>3, <2>1
    <3>2. OnTheWay[1] < OnTheWay[2]
      BY <3>1, WayIsLeft DEF Increasing
    <3> QED
      BY <1>4, <1>5, <3>1, <3>2
  <2> QED
    BY <1>3, <2>1
<1>7. Len(lane_fifo) = 0 /\ Len(thread_fifo) = 0
  BY <1>2, <1>6, WayIsLeft
<1>8. lane_fifo = <<>> /\ thread_fifo = <<>>
  BY <1>7, EmptySeq DEF Registers
<1>9. ToFind = {}
  <2>1. x \in ToSet(OnTheWay)
    BY <1>3, <1>4 DEF ToSet
  <2> QED
    BY <1>1, <2>1, WayIsLeft
<1> QED
  BY <1>8, <1>9, FoundAll DEF ChunkDone

\* What dispatcher_control watches is idle exactly when no thread is left.
LEMMA IdleIsNoneLeft ==
  ASSUME Inv, Busy, last_chunk_done, NEW rsp
  PROVE  PipelineIdle(rsp) <=> Left = {}
<1> USE DEF Inv
<1>1. ASSUME PipelineIdle(rsp) PROVE Left = {}
  <2>1. OnTheWay = <<>>
    BY <1>1, ConcatEmptySeq, EmptySeq DEF PipelineIdle, Draining, OnTheWay
  <2>2. ToSet(OnTheWay) = {}
    BY <2>1 DEF ToSet
  <2>3. ToFind = {}
    BY DEF Draining, Restarting, ToFind
  <2> QED
    BY <2>2, <2>3, WayIsLeft
<1>2. ASSUME Left = {} PROVE PipelineIdle(rsp)
  BY <1>2, NoneLeft DEF Empty, PipelineIdle, ThreadPop, ReadyPush
<1> QED
  BY <1>1, <1>2

-----------------------------------------------------------------------------
(* Reservations and loads, while the e-blocks of one CTA run. *)

OneCta == \A b, c \in Blocks : b.cta = c.cta

\* The threads in the CGRA are the last that were dispatched.
InCgra ==
  /\ pipe \in Seq(Thread)
  /\ InOrder(dispatched, dispatched \ ToSet(pipe), pipe, {})

\* A load is issued once.
Apart == outstanding \subseteq Thread \X Reg /\ Unissued \cap outstanding = {}

\* A thread that has passed the test for its operands still passes it.
ReadyLoaded == \A t \in ToSet(ready_fifo) : entry[t] \cap block.inputs = {}

LoadInv == InCgra /\ Apart /\ ReservedUntilAnswered /\ ReadyLoaded

\* A clock of the whole, as Next offers it.
Tick(accepted, pop, exit, rsp) ==
  /\ Clock(accepted, pop, rsp)
  /\ exit \in When(pipe # <<>>) /\ rsp \in Responses
  /\ PipeUpdate(pop, exit) /\ MemoryUpdate(exit, rsp)

\* The thread that is dispatched follows those that have been.
LEMMA PopIsNext ==
  ASSUME Inv, NEW accepted, NEW pop, NEW rsp, Clock(accepted, pop, rsp), pop
  PROVE  /\ accepted = {} /\ ready_fifo # <<>> /\ Head(ready_fifo) \in ToSet(ready_fifo)
         /\ Head(ready_fifo) \in block.mask \ dispatched
         /\ \A t \in dispatched : t < Head(ready_fifo)
         /\ dispatched' = dispatched \cup {Head(ready_fifo)}
<1> USE DEF Inv
<1>1. ready_fifo # <<>>
  BY Movers DEF Clock
<1>2. accepted = {} /\ ~restart
  BY <1>1, AcceptIsAtRest DEF AtRest, Restarting, Empty
<1>3. OnTheWay \in Seq(Thread) /\ OnTheWay # <<>> /\ Head(OnTheWay) = Head(ready_fifo)
  BY <1>2, WayStep
<1>4. Head(OnTheWay) \in ToSet(OnTheWay)
  BY <1>3, SetOfHeadTail
<1>5. \A t \in dispatched : t < Head(ready_fifo)
  BY <1>3, <1>4 DEF Ordered, InOrder
<1>6. block.mask \in SUBSET Nat /\ OnTheWay \in Seq(Nat)
  BY <1>3, MaskIsOfThreads, SeqMonotonic
<1>7. Head(OnTheWay) \in block.mask \ dispatched
  BY <1>3, <1>6, PopKeepsOrder DEF Ordered
<1>8. Head(ready_fifo) \in ToSet(ready_fifo)
  BY <1>1, SetOfHeadTail DEF Registers
<1>9. dispatched' = dispatched \cup {Head(ready_fifo)}
  BY <1>2 DEF Clock, DispatcherCycle, ReadyUpdate
<1> QED
  BY <1>1, <1>2, <1>3, <1>5, <1>7, <1>8, <1>9

LEMMA InCgraStep ==
  ASSUME Inv, InCgra, NEW accepted, NEW pop, NEW exit, NEW rsp, Tick(accepted, pop, exit, rsp)
  PROVE  InCgra'
<1> USE DEF Inv, Tick
<1>1. exit \in BOOLEAN /\ (exit => pipe # <<>>) /\ pop \in BOOLEAN
  BY Movers DEF When, Clock
<1>2. CASE accepted # {}
  <2>1. ~pop /\ pipe = <<>> /\ ~exit /\ dispatched' = {}
    BY <1>1, <1>2, PopIsNext DEF Clock, Offer, FdrReady, DispatcherCycle, ReadyUpdate
  <2>2. pipe' = <<>>
    BY <2>1, ConcatEmptySeq, EmptySeq DEF PipeUpdate, Moved, Item
  <2>3. ToSet(<<>>) = {}
    BY DEF ToSet
  <2> QED
    BY <2>1, <2>2, <2>3, EmptyInOrder, EmptySeq DEF InCgra, InOrder
<1>3. CASE accepted = {}
  <2> DEFINE way == Drop(pipe, exit)
  <2>1. pipe \in Seq(Thread) /\ pipe \in Seq(Nat) /\ dispatched \in SUBSET Nat
    BY MaskIsOfThreads, SeqMonotonic DEF InCgra, Ordered, InOrder
  <2>2. way \in Seq(Thread) /\ way \in Seq(Nat) /\ InOrder(dispatched, dispatched \ ToSet(way), way, {})
    <3>1. CASE exit
      <4>1. pipe # <<>> /\ Head(pipe) \in Thread /\ Tail(pipe) \in Seq(Thread) /\ Tail(pipe) \in Seq(Nat)
            /\ ToSet(pipe) = {Head(pipe)} \cup ToSet(Tail(pipe))
        BY <1>1, <2>1, <3>1, HeadTailProperties, SetOfHeadTail
      <4>2. InOrder(dispatched, (dispatched \ ToSet(pipe)) \cup {Head(pipe)}, Tail(pipe), {})
        BY <2>1, <4>1, PopKeepsOrder DEF InCgra
      <4>3. Head(pipe) \notin ToSet(Tail(pipe))
        <5>1. \A s \in ToSet(Tail(pipe)) : Head(pipe) < s
          BY <4>2 DEF InOrder
        <5>2. Head(pipe) \in Nat
          BY <4>1 DEF Thread
        <5> QED
          BY <5>1, <5>2
      <4>4. Head(pipe) \in dispatched
        BY <4>1 DEF InCgra, InOrder
      <4>5. (dispatched \ ToSet(pipe)) \cup {Head(pipe)} = dispatched \ ToSet(Tail(pipe))
        BY <4>1, <4>3, <4>4
      <4> QED
        BY <3>1, <4>1, <4>2, <4>5 DEF Drop
    <3>2. CASE ~exit
      BY <2>1, <3>2 DEF InCgra, Drop
    <3> QED
      BY <1>1, <3>1, <3>2
  <2>3. pipe' = way \o Item(ready_fifo, pop)
    BY DEF PipeUpdate, Moved, Drop
  <2> HIDE DEF way
  <2>4. CASE pop
    <3> DEFINE m == Head(ready_fifo)
    <3>1. m \notin dispatched /\ m \in Thread /\ (\A t \in dispatched : t < m)
          /\ dispatched' = dispatched \cup {m} /\ dispatched \cup {m} \in SUBSET Nat
      BY <2>1, <2>4, PopIsNext, MaskIsOfThreads
    <3>2. pipe' = way \o <<m>>
      BY <2>3, <2>4 DEF Item
    <3> HIDE DEF m
    <3>3. InOrder(dispatched \cup {m}, dispatched \ ToSet(way), way, {m})
      BY <2>2, <3>1 DEF InOrder
    <3>4. \A t \in {m} : m <= t
      BY <3>1 DEF Thread
    <3>5. InOrder(dispatched \cup {m}, dispatched \ ToSet(way), way \o <<m>>, {m} \ {m})
      BY <2>2, <3>1, <3>3, <3>4, PushKeepsOrder
    <3>6. ToSet(pipe') = ToSet(way) \cup {m} /\ pipe' \in Seq(Thread)
      <4> DEFINE last == <<m>>
      <4>1. last \in Seq(Thread) /\ ToSet(last) = {m}
        BY <3>1 DEF ToSet
      <4> HIDE DEF last
      <4>2. ToSet(way \o last) = ToSet(way) \cup ToSet(last) /\ way \o last \in Seq(Thread)
        BY <2>2, <4>1, SetOfConcat, ConcatProperties
      <4> QED
        BY <3>2, <4>1, <4>2 DEF last
    <3>7. dispatched' \ ToSet(pipe') = dispatched \ ToSet(way) /\ {m} \ {m} = {}
      BY <3>1, <3>6
    <3> QED
      BY <3>1, <3>2, <3>5, <3>6, <3>7 DEF InCgra
  <2>5. CASE ~pop
    <3>1. dispatched' = dispatched
      BY <1>3, <2>5 DEF Clock, DispatcherCycle, ReadyUpdate
    <3>2. pipe' = way
      BY <2>2, <2>3, <2>5, ConcatEmptySeq DEF Item
    <3> QED
      BY <2>2, <3>1, <3>2 DEF InCgra
  <2> QED
    BY <1>1, <2>4, <2>5
<1> QED
  BY <1>2, <1>3

\* With one CTA the scoreboard is never cleared.
LEMMA NeverCleared ==
  ASSUME OneCta, Registers, NEW accepted, NEW pop, NEW rsp, Clock(accepted, pop, rsp)
  PROVE  \A t \in Thread : entry'[t] = (entry[t] \ WbRegs(rsp, t)) \cup Reserved(accepted, t)
<1>1. ~Clears(accepted)
  <2>1. accepted \subseteq Blocks
    BY DEF Clock, Offer
  <2> QED
    BY <2>1 DEF OneCta, Clears, Registers
<1> QED
  BY <1>1 DEF Clock, DispatcherCycle, ScoreboardUpdate

\* What is issued in this clock was not issued before and is not to be issued again.
LEMMA IssueStep ==
  ASSUME Inv, InCgra, NEW pop, NEW exit, NEW rsp, Tick({}, pop, exit, rsp)
  PROVE  /\ Issued(exit) \subseteq Unissued
         /\ Unissued' \subseteq Unissued \ Issued(exit)
<1> USE DEF Inv, Tick
<1>1. exit \in BOOLEAN /\ (exit => pipe # <<>>) /\ pop \in BOOLEAN
  BY Movers DEF When, Clock
<1>2. block' = block
  BY DEF Clock, DispatcherCycle, ControlUpdate
<1>3. pop => /\ Head(ready_fifo) \in block.mask \ dispatched
             /\ dispatched' = dispatched \cup {Head(ready_fifo)}
  BY PopIsNext
<1>4. ~pop => dispatched' = dispatched
  BY DEF Clock, DispatcherCycle, ReadyUpdate
<1> DEFINE way == Drop(pipe, exit)
           last == Item(ready_fifo, pop)
<1>5. last \in Seq(Thread) /\ ToSet(last) = IF pop THEN {Head(ready_fifo)} ELSE {}
  <2>1. CASE pop
    <3>1. Head(ready_fifo) \in Thread
      BY <1>3, <2>1, MaskIsOfThreads
    <3> QED
      BY <2>1, <3>1 DEF Item, ToSet
  <2>2. CASE ~pop
    BY <2>2, EmptySeq DEF Item, ToSet
  <2> QED
    BY <1>1, <2>1, <2>2
<1>6. way \in Seq(Thread) /\ ToSet(way) \subseteq ToSet(pipe)
      /\ (exit => Head(pipe) \in ToSet(pipe) /\ Head(pipe) \notin ToSet(way))
  <2>1. CASE exit
    <3> HIDE DEF way, last
    <3>0. pipe \in Seq(Thread) /\ pipe # <<>> /\ Thread \subseteq Nat
      BY <1>1, <2>1 DEF InCgra, Thread
    <3>1. /\ Tail(pipe) \in Seq(Thread) /\ Head(pipe) \in Nat
          /\ ToSet(pipe) = {Head(pipe)} \cup ToSet(Tail(pipe))
      BY <3>0, HeadTailProperties, SetOfHeadTail
    <3>2. pipe \in Seq(Nat) /\ dispatched \in SUBSET Nat
      BY MaskIsOfThreads, SeqMonotonic DEF InCgra, Ordered, InOrder
    <3>3. InOrder(dispatched, (dispatched \ ToSet(pipe)) \cup {Head(pipe)}, Tail(pipe), {})
      BY <1>1, <2>1, <3>2, PopKeepsOrder DEF InCgra
    <3>4. \A s \in ToSet(Tail(pipe)) : Head(pipe) < s
      BY <3>3 DEF InOrder
    <3> QED
      BY <2>1, <3>1, <3>4 DEF Drop, way
  <2>2. CASE ~exit
    BY <2>2 DEF InCgra, Drop
  <2> QED
    BY <1>1, <2>1, <2>2
<1>7. pipe' = way \o last
  BY DEF PipeUpdate, Moved, Drop
<1> HIDE DEF way, last
<1>8. ToSet(pipe') = ToSet(way) \cup ToSet(last)
  BY <1>5, <1>6, <1>7, SetOfConcat
<1>9. exit => Head(pipe) \in dispatched
  BY <1>6 DEF InCgra, InOrder
<1>10. (block.mask \ dispatched') \cup ToSet(pipe') \subseteq
         ((block.mask \ dispatched) \cup ToSet(pipe)) \ (IF exit THEN {Head(pipe)} ELSE {})
  BY <1>1, <1>3, <1>4, <1>5, <1>6, <1>8, <1>9
<1>11. Issued(exit) = (IF exit THEN {Head(pipe)} ELSE {}) \X block.dests
  BY DEF Issued
<1>12. Unissued' = ((block.mask \ dispatched') \cup ToSet(pipe')) \X block.dests
  BY <1>2 DEF Unissued, ToSet
<1> QED
  BY <1>6, <1>10, <1>11, <1>12 DEF Unissued

LEMMA LoadsStep ==
  ASSUME OneCta, Inv, InCgra, Apart, ReservedUntilAnswered,
         NEW accepted, NEW pop, NEW exit, NEW rsp, Tick(accepted, pop, exit, rsp)
  PROVE  Apart' /\ ReservedUntilAnswered'
<1> USE DEF Inv
<1>1. rsp \subseteq outstanding /\ outstanding \subseteq Thread \X Reg
  BY DEF Tick, Responses, Apart
<1>2. \A t \in Thread : entry'[t] = (entry[t] \ WbRegs(rsp, t)) \cup Reserved(accepted, t)
  BY NeverCleared DEF Tick
<1>3. outstanding' = (outstanding \ rsp) \cup Issued(exit)
  BY DEF Tick, MemoryUpdate
<1>4. Unissued \subseteq Thread \X Reg
  <2>1. block.dests \subseteq Reg
    BY BlocksAssumption DEF Registers, NoBlock
  <2>2. ToSet(pipe) \subseteq block.mask /\ block.mask \subseteq Thread
    BY MaskIsOfThreads DEF InCgra, Ordered, InOrder
  <2> QED
    BY <2>1, <2>2 DEF Unissued
<1>5. ASSUME NEW w \in (Unissued \cup outstanding) \ rsp PROVE w[2] \in entry'[w[1]]
  <2>1. w \in Thread \X Reg /\ w = <<w[1], w[2]>> /\ w[1] \in Thread /\ w[2] \in entry[w[1]]
    BY <1>1, <1>4, <1>5 DEF ReservedUntilAnswered
  <2>2. w[2] \notin WbRegs(rsp, w[1])
    BY <1>5, <2>1 DEF WbRegs
  <2> QED
    BY <1>2, <2>1, <2>2
<1>6. CASE accepted = {}
  <2>1. Tick({}, pop, exit, rsp)
    BY <1>6
  <2>2. Issued(exit) \subseteq Unissued /\ Unissued' \subseteq Unissued \ Issued(exit)
    BY <2>1, IssueStep
  <2>3. Unissued \cap rsp = {}
    BY <1>1 DEF Apart
  <2>4. Unissued' \cup outstanding' \subseteq (Unissued \cup outstanding) \ rsp
    BY <1>3, <2>2, <2>3
  <2>5. Unissued' \cap outstanding' = {} /\ outstanding' \subseteq Thread \X Reg
    BY <1>1, <1>3, <1>4, <2>2 DEF Apart
  <2> QED
    BY <1>5, <2>4, <2>5 DEF Apart, ReservedUntilAnswered
<1>7. CASE accepted # {}
  <2>1. PICK b \in Blocks : accepted = {b} /\ block' = b /\ Acceptable(b)
    BY <1>7, AcceptIsAtRest DEF Tick
  <2>2. ~pop /\ ~exit /\ pipe = <<>> /\ dispatched' = {}
    BY <1>7, PopIsNext
       DEF Tick, Clock, Offer, FdrReady, When, DispatcherCycle, ReadyUpdate
  <2>3. ToSet(pipe') = {}
    <3>1. pipe' = <<>>
      BY <2>2, ConcatEmptySeq, EmptySeq DEF Tick, PipeUpdate, Moved, Item
    <3> QED
      BY <3>1 DEF ToSet
  <2>4. Unissued' = b.mask \X b.dests
    BY <2>1, <2>2, <2>3 DEF Unissued, ToSet
  <2>5. outstanding' = outstanding \ rsp
    BY <1>3, <2>2 DEF Issued
  <2>6. Unissued' \cap outstanding' = {}
    BY <2>1, <2>4, <2>5 DEF Acceptable
  <2>7. ASSUME NEW w \in Unissued' PROVE w[2] \in entry'[w[1]]
    <3>1. w[1] \in b.mask /\ w[2] \in b.dests /\ w[1] \in Thread
      BY <2>4, <2>7, BlocksAssumption
    <3>2. w[2] \in Reserved(accepted, w[1])
      BY <2>1, <3>1 DEF Reserved
    <3> QED
      BY <1>2, <3>1, <3>2
  <2> QED
    BY <1>1, <1>5, <2>5, <2>6, <2>7 DEF Apart, ReservedUntilAnswered
<1> QED
  BY <1>6, <1>7

LEMMA ReadyLoadedStep ==
  ASSUME OneCta, Inv, ReadyLoaded,
         NEW accepted, NEW pop, NEW rsp, Clock(accepted, pop, rsp)
  PROVE  ReadyLoaded'
<1> USE DEF Inv
<1>1. CASE accepted # {}
  <2>1. Empty /\ ~thread_pop_pending /\ ~LanePush
    BY <1>1, AcceptIsAtRest, NothingFound DEF AtRest
  <2>2. ready_fifo' = <<>>
    BY <2>1, EmptyStays DEF Empty
  <2> QED
    BY <2>2 DEF ReadyLoaded, ToSet
<1>2. CASE accepted = {}
  <2>1. block' = block
    BY <1>2 DEF Clock, DispatcherCycle, ControlUpdate
  <2>2. \A t \in Thread : entry'[t] \subseteq entry[t]
    BY <1>2, NeverCleared DEF Reserved
  <2> DEFINE kept == Drop(ready_fifo, pop)
             last == Item(pending_check, ReadyPush(rsp))
  <2>3. kept \in Seq(Thread) /\ ToSet(kept) \subseteq ToSet(ready_fifo)
    <3>1. CASE pop
      BY <3>1, Movers, HeadTailProperties, SetOfHeadTail DEF Clock, Registers, Drop
    <3>2. CASE ~pop
      BY <3>2 DEF Registers, Drop
    <3> QED
      BY <3>1, <3>2
  <2>4. last \in Seq(Thread) /\ \A t \in ToSet(last) : entry[t] \cap block.inputs = {}
    <3>1. CASE ReadyPush(rsp)
      <4>1. Head(pending_check) \in Thread /\ entry[Head(pending_check)] \cap block.inputs = {}
        BY <3>1, HeadTailProperties DEF ReadyPush, Collision, Registers
      <4>2. last = <<Head(pending_check)>> /\ ToSet(last) = {Head(pending_check)}
        BY <3>1 DEF Item, ToSet
      <4> QED
        BY <4>1, <4>2
    <3>2. CASE ~ReadyPush(rsp)
      BY <3>2, EmptySeq DEF Item, ToSet
    <3> QED
      BY <3>1, <3>2
  <2>5. ready_fifo' = kept \o last
    BY DEF Clock, DispatcherCycle, ReadyUpdate, Moved, Drop
  <2> HIDE DEF kept, last
  <2>6. ToSet(ready_fifo') = ToSet(kept) \cup ToSet(last)
    BY <2>3, <2>4, <2>5, SetOfConcat
  <2>7. ToSet(kept) \subseteq Thread /\ ToSet(last) \subseteq Thread
    BY <2>3, <2>4 DEF ToSet
  <2> QED
    BY <2>1, <2>2, <2>3, <2>4, <2>6, <2>7 DEF ReadyLoaded, ToSet
<1> QED
  BY <1>1, <1>2

LEMMA LoadInvInit == Init => LoadInv
<1> SUFFICES ASSUME Init PROVE LoadInv
  OBVIOUS
<1>1. pipe = <<>> /\ ready_fifo = <<>> /\ dispatched = {} /\ outstanding = {} /\ block.mask = {}
  BY DEF Init, DispInit, NoBlock
<1>2. ToSet(<<>>) = {}
  BY DEF ToSet
<1>3. InCgra
  BY <1>1, <1>2, EmptyInOrder, EmptySeq DEF InCgra
<1>4. Unissued = {}
  BY <1>1, <1>2 DEF Unissued
<1> QED
  BY <1>1, <1>2, <1>3, <1>4 DEF LoadInv, Apart, ReservedUntilAnswered, ReadyLoaded

LEMMA LoadInvStep == OneCta /\ Inv /\ LoadInv /\ [Next]_vars => LoadInv'
<1> SUFFICES ASSUME OneCta, Inv, LoadInv, [Next]_vars PROVE LoadInv'
  OBVIOUS
<1>1. CASE Next
  <2>1. PICK accepted \in Offer, pop \in When(DispatchValid), exit \in When(pipe # <<>>),
             rsp \in Responses : Cycle(accepted, pop, exit, rsp)
    BY <1>1 DEF Next
  <2>2. Tick(accepted, pop, exit, rsp) /\ Clock(accepted, pop, rsp)
    BY <2>1 DEF Tick, Clock, Cycle
  <2> QED
    BY <2>2, InCgraStep, LoadsStep, ReadyLoadedStep DEF LoadInv
<1>2. CASE UNCHANGED vars
  BY <1>2 DEF vars, disp_vars, LoadInv, InCgra, Apart, ReservedUntilAnswered, ReadyLoaded,
     Unissued
<1> QED
  BY <1>1, <1>2

\* Within one CTA, the invariant of the loads holds always.
THEOREM LoadInvAlways == ASSUME OneCta PROVE Spec => []LoadInv
BY OneCta, InvAlways, LoadInvInit, LoadInvStep, PTL DEF Spec

\* While the e-blocks of one CTA run, a load that has not been answered stays reserved,
\* however releases and later reservations of the same thread meet (Scoreboard.tla).
THEOREM ReservedWithinCta == ASSUME OneCta PROVE Spec => []ReservedUntilAnswered
<1>1. LoadInv => ReservedUntilAnswered
  BY DEF LoadInv
<1> QED
  BY <1>1, LoadInvAlways, PTL

\* While the e-blocks of one CTA run, no thread is sent to the CGRA before the loads of the
\* registers it reads have been answered, for any depth of the FIFO between the test and
\* the dispatch (Dispatcher.tla).
THEOREM OperandsAnswered == ASSUME OneCta PROVE Spec => OperandsLoaded
<1>1. ASSUME Inv, LoadInv, [Next]_vars, NEW t \in Thread, Pops(t)
      PROVE  ({t} \X block.inputs) \cap outstanding = {}
  <2>1. CASE Next
    <3>1. PICK accepted \in Offer, pop \in When(DispatchValid), exit \in When(pipe # <<>>),
               rsp \in Responses : Cycle(accepted, pop, exit, rsp)
      BY <2>1 DEF Next
    <3>2. Clock(accepted, pop, rsp)
      BY <3>1 DEF Clock, Cycle
    <3>3. pop
      BY <1>1, <3>2 DEF Clock, DispatcherCycle, ReadyUpdate, Pops
    <3>4. t = Head(ready_fifo) /\ t \in ToSet(ready_fifo)
      BY <1>1, <3>2, <3>3, PopIsNext DEF Pops
    <3>5. entry[t] \cap block.inputs = {}
      BY <1>1, <3>4 DEF LoadInv, ReadyLoaded
    <3>6. ASSUME NEW r \in block.inputs, <<t, r>> \in outstanding PROVE FALSE
      <4>1. r \in entry[t]
        BY <1>1, <3>6 DEF LoadInv, ReservedUntilAnswered
      <4> QED
        BY <3>5, <4>1
    <3> QED
      BY <3>6
  <2>2. CASE UNCHANGED vars
    BY <1>1, <2>2 DEF vars, disp_vars, Pops
  <2> QED
    BY <1>1, <2>1, <2>2
<1>2. Inv /\ LoadInv /\ [Next]_vars
        => [\A t \in Thread : Pops(t) => ({t} \X block.inputs) \cap outstanding = {}]_vars
  BY <1>1
<1> QED
  BY <1>2, InvAlways, LoadInvAlways, PTL DEF Spec, OperandsLoaded

-----------------------------------------------------------------------------
(* The bounds of the FIFOs. *)

Bounds ==
  /\ dispatched_count \in 0 .. DispatchMod - 1 /\ start_pos \in Thread
  /\ Len(lane_fifo) <= LaneDepth /\ Len(reroute_fifo) <= RerouteDepth
  /\ Len(thread_fifo) <= ThreadDepth /\ Len(ready_fifo) <= ReadyDepth
  /\ DOMAIN buffer = Reg /\ \A r \in Reg : IsFifo(buffer[r], BufDepth)

\* A FIFO that takes a thread only when it has room does not overflow.
LEMMA MovedFits ==
  ASSUME NEW S, NEW s \in Seq(S), NEW t \in Seq(S), NEW popped \in BOOLEAN, NEW depth \in Nat,
         popped => s # <<>>, Len(s) <= depth, Len(t) <= 1, t # <<>> => Len(s) < depth
  PROVE  Moved(s, t, popped) \in Seq(S) /\ Len(Moved(s, t, popped)) <= depth
<1> DEFINE rest == IF popped THEN Tail(s) ELSE s
<1>1. rest \in Seq(S) /\ Len(rest) <= Len(s)
  BY HeadTailProperties, LenProperties
<1>2. Moved(s, t, popped) = rest \o t
  BY DEF Moved
<1> HIDE DEF rest
<1>3. rest \o t \in Seq(S) /\ Len(rest \o t) = Len(rest) + Len(t)
  BY <1>1, ConcatProperties
<1>4. Len(t) = 0 \/ (Len(t) = 1 /\ Len(s) < depth)
  <2> DEFINE n == Len(t)
  <2>1. n \in Nat /\ n <= 1
    BY LenProperties
  <2>2. t # <<>> \/ n = 0
    OBVIOUS
  <2> HIDE DEF n
  <2>3. n = 0 \/ n = 1
    BY <2>1
  <2> QED
    BY <2>2, <2>3 DEF n
<1> QED
  BY <1>1, <1>2, <1>3, <1>4, LenProperties

LEMMA ItemIsOne ==
  ASSUME NEW S, NEW s \in Seq(S), NEW valid \in BOOLEAN, valid => s # <<>>
  PROVE  Item(s, valid) \in Seq(S) /\ Len(Item(s, valid)) <= 1 /\ (Item(s, valid) # <<>> => valid)
<1>1. Item(s, valid) \in Seq(S)
  BY MovedIsSeq, EmptySeq
<1> QED
  BY <1>1, EmptySeq DEF Item

\* What arrives at a bank in one clock is at most one value, and it finds room.
LEMMA ArrivesOnce ==
  ASSUME NEW rsp \in Responses, outstanding \subseteq Thread \X Reg, NEW r \in Reg
  PROVE  /\ Arrived(rsp, r) \in Seq(Thread) /\ Len(Arrived(rsp, r)) <= 1
         /\ Arrived(rsp, r) # <<>> => Len(buffer[r]) < BufDepth
<1> DEFINE T == {t \in Thread : <<t, r>> \in rsp}
           oneToOne == {f \in [1 .. Cardinality(T) -> T] : IsInjective(f)}
<1>1. CASE rsp = {}
  BY <1>1, EmptySeq DEF Arrived
<1>2. CASE rsp # {}
  <2>1. PICK w \in outstanding : rsp = {w} /\ Len(buffer[w[2]]) < BufDepth
    BY <1>2 DEF Responses
  <2>2. w = <<w[1], w[2]>> /\ w[1] \in Thread /\ w[2] \in Reg
    BY <2>1
  <2>3. Arrived(rsp, r) = SetToSeq(T)
    BY <1>2 DEF Arrived
  <2>4. T = IF w[2] = r THEN {w[1]} ELSE {}
    BY <2>1, <2>2
  <2>5. Cardinality(T) = (IF w[2] = r THEN 1 ELSE 0)
    BY <2>4, FS_EmptySet, FS_Singleton
  <2>6. \E f : f \in oneToOne
    <3>1. CASE w[2] = r
      <4>1. 1 .. Cardinality(T) = {1} /\ T = {w[1]}
        <5> HIDE DEF T
        <5> QED
          BY <2>4, <2>5, <3>1
      <4>2. [i \in {1} |-> w[1]] \in oneToOne
        BY <4>1 DEF IsInjective
      <4> QED
        BY <4>2
    <3>2. CASE w[2] # r
      <4>1. 1 .. Cardinality(T) = {} /\ T = {}
        <5> HIDE DEF T
        <5> QED
          BY <2>4, <2>5, <3>2
      <4>2. [i \in {} |-> w[1]] \in oneToOne
        BY <4>1 DEF IsInjective
      <4> QED
        BY <4>2
    <3> QED
      BY <3>1, <3>2
  <2>7. SetToSeq(T) \in oneToOne
    BY <2>6 DEF SetToSeq
  <2>8. SetToSeq(T) \in [1 .. Cardinality(T) -> T]
    BY <2>7
  <2> HIDE DEF oneToOne, T
  <2>9. SetToSeq(T) \in Seq(T) /\ Len(SetToSeq(T)) = Cardinality(T)
    BY <2>5, <2>8
  <2>10. T \subseteq Thread
    BY DEF T
  <2>11. SetToSeq(T) \in Seq(Thread)
    BY <2>9, <2>10, SeqMonotonic
  <2>12. SetToSeq(T) # <<>> => w[2] = r
    BY <2>5, <2>9, EmptySeq
  <2> QED
    BY <2>1, <2>3, <2>5, <2>9, <2>11, <2>12
<1> QED
  BY <1>1, <1>2

LEMMA BoundsStep ==
  ASSUME Inv, Bounds, outstanding \subseteq Thread \X Reg,
         NEW accepted, NEW pop, NEW exit, NEW rsp, Clock(accepted, pop, rsp),
         rsp \in Responses, BankUpdate(exit, rsp)
  PROVE  Bounds'
<1> USE DEF Inv, Clock, DispatcherCycle
<1>1. /\ pop \in BOOLEAN /\ (pop => ready_fifo # <<>>)
      /\ ReadyPush(rsp) \in BOOLEAN /\ (ReadyPush(rsp) => pending_check # <<>>)
      /\ ThreadPop \in BOOLEAN /\ (ThreadPop => thread_fifo # <<>>)
      /\ ThreadPush \in BOOLEAN /\ (ThreadPush => reroute_fifo # <<>>)
      /\ ReroutePush \in BOOLEAN /\ (ReroutePush => lane_fifo # <<>>)
  BY Movers
<1>2. dispatched_count' \in 0 .. DispatchMod - 1
  BY DispatchModAssumption DEF ControlUpdate, Bounds, Registers
<1>3. start_pos' \in Thread
  <2>1. 0 \in Thread
    BY NumThreadsAssumption DEF Thread
  <2>2. ASSUME LanePush, ~CalculateDone PROVE Min(Remaining) + 1 \in Thread
    <3>1. Min(Remaining) \in block.mask /\ block.mask \in SUBSET Thread
      BY <2>2, FoundIsLeast, MaskIsOfThreads
    <3>2. Max(block.mask) \in Thread /\ Min(Remaining) <= Max(block.mask)
      BY <3>1, MaxIsGreatest
    <3>3. Min(Remaining) # Max(block.mask)
      BY <2>2 DEF CalculateDone
    <3> QED
      BY <3>1, <3>2, <3>3, NumThreadsAssumption DEF Thread
  <2> QED
    BY <2>1, <2>2 DEF LaneUpdate, Bounds
<1>4. Len(lane_fifo') <= LaneDepth
  <2>1. Len(Found) <= 1 /\ Found \in Seq(Thread) /\ (Found # <<>> => LanePush)
    BY FoundIsLeast DEF Found
  <2>2. lane_fifo' = Moved(lane_fifo, Found, ReroutePush)
    BY DEF LaneUpdate, Found
  <2>3. Found # <<>> => Len(lane_fifo) < LaneDepth
    BY <2>1 DEF LanePush
  <2> QED
    BY <1>1, <2>1, <2>2, <2>3, MovedFits, DepthAssumption DEF Bounds, Registers
<1>5. Len(reroute_fifo') <= RerouteDepth
  <2> DEFINE item == Item(lane_fifo, ReroutePush)
  <2>1. item \in Seq(Thread) /\ Len(item) <= 1 /\ (item # <<>> => ReroutePush)
    BY <1>1, ItemIsOne DEF Registers
  <2>2. item # <<>> => Len(reroute_fifo) < RerouteDepth
    BY <2>1 DEF ReroutePush
  <2>3. reroute_fifo' = Moved(reroute_fifo, item, ThreadPush)
    BY DEF FifoUpdate
  <2> HIDE DEF item
  <2> QED
    BY <1>1, <2>1, <2>2, <2>3, MovedFits, DepthAssumption DEF Bounds, Registers
<1>6. Len(thread_fifo') <= ThreadDepth
  <2> DEFINE item == Item(reroute_fifo, ThreadPush)
  <2>1. item \in Seq(Thread) /\ Len(item) <= 1 /\ (item # <<>> => ThreadPush)
    BY <1>1, ItemIsOne DEF Registers
  <2>2. item # <<>> => Len(thread_fifo) < ThreadDepth
    BY <2>1 DEF ThreadPush
  <2>3. thread_fifo' = Moved(thread_fifo, item, ThreadPop)
    BY DEF FifoUpdate
  <2> HIDE DEF item
  <2> QED
    BY <1>1, <2>1, <2>2, <2>3, MovedFits, DepthAssumption DEF Bounds, Registers
<1>7. Len(ready_fifo') <= ReadyDepth
  <2> DEFINE item == Item(pending_check, ReadyPush(rsp))
  <2>1. item \in Seq(Thread) /\ Len(item) <= 1 /\ (item # <<>> => ReadyPush(rsp))
    BY <1>1, ItemIsOne DEF Registers
  <2>2. item # <<>> => Len(ready_fifo) < ReadyDepth
    BY <2>1 DEF ReadyPush, ReadyNotFull
  <2>3. ready_fifo' = Moved(ready_fifo, item, pop)
    BY DEF ReadyUpdate
  <2> HIDE DEF item
  <2> QED
    BY <1>1, <2>1, <2>2, <2>3, MovedFits, DepthAssumption DEF Bounds, Registers
<1>8. DOMAIN buffer' = Reg
  BY DEF BankUpdate
<1>9. ASSUME NEW r \in Reg PROVE IsFifo(buffer'[r], BufDepth)
  <2> DEFINE popped == buffer[r] # <<>> /\ ~(exit /\ r \in block.outs)
             come == Arrived(rsp, r)
  <2>1. buffer'[r] = Moved(buffer[r], come, popped)
    BY <1>9 DEF BankUpdate
  <2>2. buffer[r] \in Seq(Thread) /\ Len(buffer[r]) <= BufDepth
    BY <1>9 DEF Bounds, IsFifo
  <2>3. come \in Seq(Thread) /\ Len(come) <= 1 /\ (come # <<>> => Len(buffer[r]) < BufDepth)
    BY <1>9, ArrivesOnce
  <2>4. popped \in BOOLEAN /\ (popped => buffer[r] # <<>>)
    OBVIOUS
  <2> HIDE DEF popped, come
  <2> QED
    BY <2>1, <2>2, <2>3, <2>4, MovedFits, BufDepthAssumption DEF IsFifo
<1> QED
  BY <1>2, <1>3, <1>4, <1>5, <1>6, <1>7, <1>8, <1>9 DEF Bounds

LEMMA BoundsInit == Init => Bounds
<1> SUFFICES ASSUME Init PROVE Bounds
  OBVIOUS
<1>1. <<>> \in Seq(Thread) /\ Len(<<>>) = 0
  BY EmptySeq
<1>2. 0 \in Thread /\ DispatchMod - 1 \in Nat
  BY NumThreadsAssumption, DispatchModAssumption DEF Thread
<1> QED
  BY <1>1, <1>2, DepthAssumption, BufDepthAssumption DEF Init, DispInit, Bounds, IsFifo

\* The CGRA holds each thread once at most.
LEMMA PipeFits ==
  ASSUME NEW s \in Seq(Thread), Increasing(s)
  PROVE  Len(s) <= NumThreads
<1>1. s \in [1 .. Len(s) -> Thread] /\ Len(s) \in Nat
  BY LenProperties
<1>2. \A i, j \in 1 .. Len(s) : s[i] = s[j] => i = j
  <2>1. ASSUME NEW i \in 1 .. Len(s), NEW j \in 1 .. Len(s), i < j PROVE s[i] < s[j]
    BY <1>1, <2>1 DEF Increasing
  <2>2. \A i \in 1 .. Len(s) : s[i] \in Nat
    BY <1>1 DEF Thread
  <2> QED
    BY <1>1, <2>1, <2>2
<1>3. s \in Injection(1 .. Len(s), Thread)
  BY <1>1, <1>2 DEF Injection, IsInjective
<1>4. IsFiniteSet(Thread) /\ Cardinality(Thread) = NumThreads
  BY NumThreadsAssumption, FS_Interval DEF Thread
<1>5. Cardinality(1 .. Len(s)) <= NumThreads
  BY <1>3, <1>4, FS_Injection
<1>6. Cardinality(1 .. Len(s)) = IF 1 > Len(s) THEN 0 ELSE Len(s) - 1 + 1
  BY <1>1, FS_Interval
<1> QED
  BY <1>1, <1>5, <1>6, NumThreadsAssumption

\* What TypeOK says beyond the invariants above; it holds whatever CTAs the e-blocks are of.
TypeInv == InCgra /\ Bounds /\ outstanding \subseteq Thread \X Reg /\ apart \in BOOLEAN

LEMMA TypeInvStep == Inv /\ TypeInv /\ [Next]_vars => TypeInv'
<1> SUFFICES ASSUME Inv, TypeInv, [Next]_vars PROVE TypeInv'
  OBVIOUS
<1>1. CASE Next
  <2>1. PICK accepted \in Offer, pop \in When(DispatchValid), exit \in When(pipe # <<>>),
             rsp \in Responses : Cycle(accepted, pop, exit, rsp)
    BY <1>1 DEF Next
  <2>2. Clock(accepted, pop, rsp) /\ Tick(accepted, pop, exit, rsp) /\ BankUpdate(exit, rsp)
    BY <2>1 DEF Clock, Tick, Cycle
  <2>3. InCgra'
    BY <2>2, InCgraStep DEF TypeInv
  <2>4. Bounds'
    BY <2>1, <2>2, BoundsStep DEF TypeInv
  <2>5. Issued(exit) \subseteq Thread \X Reg
    <3>1. pipe # <<>> => Head(pipe) \in Thread
      BY HeadTailProperties DEF TypeInv, InCgra
    <3>2. exit => pipe # <<>>
      BY <2>1 DEF When
    <3>3. block.dests \subseteq Reg
      BY BlocksAssumption DEF Inv, Registers, NoBlock
    <3> QED
      BY <3>1, <3>2, <3>3 DEF Issued
  <2>6. outstanding' \subseteq Thread \X Reg
    BY <2>1, <2>5 DEF TypeInv, Cycle, MemoryUpdate
  <2>7. apart' \in BOOLEAN
    BY <2>1 DEF Cycle, HistoryUpdate
  <2> QED
    BY <2>3, <2>4, <2>6, <2>7 DEF TypeInv
<1>2. CASE UNCHANGED vars
  BY <1>2 DEF vars, disp_vars, TypeInv, InCgra, Bounds
<1> QED
  BY <1>1, <1>2

\* The bounds and the types behind TypeOK hold always.
LEMMA TypeInvAlways == Spec => []TypeInv
<1>1. Init => TypeInv
  <2>1. Init => InCgra
    BY LoadInvInit DEF LoadInv
  <2> QED
    BY <2>1, BoundsInit DEF TypeInv, Init
<1> QED
  BY <1>1, TypeInvStep, InvAlways, PTL DEF Spec

\* Nothing runs over: the stages of the thread pipeline, the CGRA, which never holds a thread
\* twice, and the write buffers of the register banks stay within their depths, although
\* one of the stages has no ready signal and a response is accepted on the room of its bank
\* alone (Operands.tla).
THEOREM TypesHold == Spec => []TypeOK
<1>1. Inv /\ TypeInv => TypeOK
  <2> SUFFICES ASSUME Inv, TypeInv PROVE TypeOK
    OBVIOUS
  <2>1. block \in [mask : SUBSET Thread, inputs : SUBSET Reg, dests : SUBSET Reg,
                   outs : SUBSET Reg, cta : Nat]
    BY BlocksAssumption DEF Inv, Registers, NoBlock
  <2>2. dispatched \subseteq block.mask
    BY DEF Inv, Ordered, InOrder
  <2>3. IsFifo(pipe, NumThreads)
    BY PipeFits DEF TypeInv, InCgra, InOrder, IsFifo
  <2>4. DispTypeOK
    BY <2>1, <2>2 DEF DispTypeOK, ScoreboardTypeOK, IsFifo, Inv, Registers, RoomToArrive,
       TypeInv, Bounds
  <2> QED
    BY <2>3, <2>4 DEF TypeOK, TypeInv, Bounds
<1> QED
  BY <1>1, TypeInvAlways, InvAlways, PTL

-----------------------------------------------------------------------------
(* The thread pipeline implements what the back end is built on. *)

\* A clock in which no e-block is accepted: at most the thread that is popped leaves.
LEMMA LeftStep ==
  ASSUME Inv, NEW pop, NEW rsp, Clock({}, pop, rsp)
  PROVE  Cardinality(Left') = IF pop THEN Cardinality(Left) - 1 ELSE Cardinality(Left)
<1>1. Left' = block.mask \ dispatched'
  BY DEF Left, Clock, DispatcherCycle, ControlUpdate
<1>2. CASE pop
  <2>1. Left' = Left \ {Head(ready_fifo)} /\ Head(ready_fifo) \in Left
    BY <1>1, <1>2, PopIsNext DEF Left
  <2>2. IsFiniteSet(Left)
    BY LeftIsFinite DEF Inv
  <2> QED
    BY <1>2, <2>1, <2>2, FS_RemoveElement
<1>3. CASE ~pop
  <2>1. Left' = Left
    BY <1>1, <1>3 DEF Left, Clock, DispatcherCycle, ReadyUpdate
  <2> QED
    BY <1>3, <2>1
<1> QED
  BY <1>2, <1>3

LEMMA DispatchesWork ==
  ASSUME Inv, NEW accepted, NEW pop, NEW rsp, Clock(accepted, pop, rsp)
  PROVE  /\ DispatchValid \in Issue!When(Busy /\ Cardinality(Left) > 0)
         /\ pop \in Issue!When(DispatchValid)
         /\ ChunkDone \in Issue!ChunkDone(DispatchValid)
<1> USE DEF Inv
<1>1. ASSUME DispatchValid PROVE Busy /\ Cardinality(Left) > 0
  <2>1. Left # {} /\ Busy
    BY <1>1, NoneLeft DEF AtRest, DispatchValid, Empty
  <2> QED
    BY <2>1, LeftIsFinite
<1>2. DispatchValid \in BOOLEAN /\ ChunkDone \in BOOLEAN
  BY DEF DispatchValid, ChunkDone, CalculateDone, LanePush, Registers
<1>3. pop \in When(DispatchValid)
  BY DEF Clock
<1>4. Cardinality(Left) = 0 => ChunkDone
  BY LeftIsFinite, NoneLeft
<1>5. Cardinality(Left) = 1 /\ DispatchValid => ChunkDone
  BY OneLeft
<1> QED
  BY <1>1, <1>2, <1>3, <1>4, <1>5 DEF Issue!When, Issue!ChunkDone, When, Left

LEMMA IssueInitImplemented == Init => Issue!IssueInit
<1> SUFFICES ASSUME Init PROVE Issue!IssueInit
  OBVIOUS
<1>1. block.mask \ dispatched = {}
  BY DEF Init, DispInit, NoBlock
<1> QED
  BY <1>1, FS_EmptySet DEF Init, DispInit, Issue!IssueInit

LEMMA IssueStepImplemented == Inv /\ [Next]_vars => [Issue!IssueNext]_(Issue!issue_vars)
<1> SUFFICES ASSUME Inv, [Next]_vars PROVE [Issue!IssueNext]_(Issue!issue_vars)
  OBVIOUS
<1>1. CASE Next
  <2>1. PICK accepted \in Offer, pop \in When(DispatchValid), exit \in When(pipe # <<>>),
             rsp \in Responses : Cycle(accepted, pop, exit, rsp)
    BY <1>1 DEF Next
  <2>2. Clock(accepted, pop, rsp) /\ ControlUpdate(accepted, rsp)
    BY <2>1 DEF Clock, Cycle, DispatcherCycle
  <2>3. /\ DispatchValid \in Issue!When(Busy /\ Cardinality(Left) > 0)
        /\ pop \in Issue!When(DispatchValid)
        /\ ChunkDone \in Issue!ChunkDone(DispatchValid)
    BY <2>2, DispatchesWork
  <2>4. CASE accepted = {}
    <3>1. Cardinality(Left') = IF pop THEN Cardinality(Left) - 1 ELSE Cardinality(Left)
      BY <2>2, <2>4, LeftStep
    <3>2. Busy /\ last_chunk_done => (PipelineIdle(rsp) <=> Cardinality(Left) = 0)
      BY IdleIsNoneLeft, LeftIsFinite DEF Inv
    <3>3. Issue!DispatcherUpdate({}, DispatchValid, pop, ChunkDone)
      BY <2>2, <2>4, <3>1, <3>2
         DEF Issue!DispatcherUpdate, Issue!DispatcherDone, Issue!Busy, ControlUpdate,
             LastChunkFin, Busy, Left
    <3> QED
      BY <2>3, <3>3 DEF Issue!IssueNext, Issue!Busy, Busy, Left
  <2>5. CASE accepted # {}
    <3>1. PICK b \in Blocks : accepted = {b} /\ block' = b
      BY <2>2, <2>5, AcceptIsAtRest DEF Inv
    <3>2. ~Busy /\ dispatched' = {}
      BY <2>2, <2>5, AcceptIsAtRest DEF Inv, Clock, DispatcherCycle, ReadyUpdate
    <3> DEFINE n == Cardinality(b.mask)
    <3>3. n \in 1 .. NumThreads
      <4>1. IsFiniteSet(Thread) /\ Cardinality(Thread) = NumThreads
        BY FS_Interval, NumThreadsAssumption DEF Thread
      <4>2. b.mask \in SUBSET Thread /\ b.mask # {}
        BY BlocksAssumption
      <4>3. IsFiniteSet(b.mask) /\ n <= NumThreads /\ n \in Nat
        BY <4>1, <4>2, FS_Subset, FS_CardinalityType
      <4> QED
        BY <4>2, <4>3, FS_EmptySet, NumThreadsAssumption
    <3>4. Cardinality(block'.mask \ dispatched') = n
      <4>1. block'.mask \ dispatched' = b.mask
        BY <3>1, <3>2
      <4> QED
        BY <4>1
    <3> HIDE DEF n
    <3>5. Issue!DispatcherUpdate({[threads |-> n]}, DispatchValid, pop, ChunkDone)
      BY <2>2, <2>5, <3>4 DEF Issue!DispatcherUpdate, ControlUpdate
    <3> QED
      BY <2>3, <3>2, <3>3, <3>5 DEF Issue!IssueNext, Issue!Busy, Busy, Left
  <2> QED
    BY <2>4, <2>5
<1>2. CASE UNCHANGED vars
  BY <1>2 DEF vars, disp_vars, Issue!issue_vars
<1> QED
  BY <1>1, <1>2

\* Every behaviour of the thread pipeline and the scoreboard is one of ThreadIssue, for any
\* number of threads and any depth of the FIFOs: the dispatcher is done when every thread
\* has been dispatched and not before, so what Backend shows holds with the real pipeline
\* (Dispatcher.tla, ThreadIssue.tla).
THEOREM IssueImplemented == Spec => IssueRefined
BY InvAlways, IssueInitImplemented, IssueStepImplemented, PTL
   DEF Spec, IssueRefined, Issue!IssueSpec

-----------------------------------------------------------------------------
(* The values that wait at the banks.  A thread that is popped has no load left *)
(* to be answered, so it misses a value only if the value is in a buffer: it is *)
(* enough that no buffer holds more than the value written in this clock.       *)

\* One value at most waits for a bank, and none for a bank that the CGRA writes.
Landed ==
  \A r \in Reg : Len(buffer[r]) <= 1 /\ (r \in block.outs /\ ~restart => buffer[r] = <<>>)

\* What arrives at a bank are the threads whose load of it is answered.
LEMMA ArrivedAnswered ==
  ASSUME NEW rsp \in Responses, outstanding \subseteq Thread \X Reg, NEW r \in Reg,
         NEW t \in ToSet(Arrived(rsp, r))
  PROVE  <<t, r>> \in outstanding
<1> DEFINE T == {s \in Thread : <<s, r>> \in rsp}
           oneToOne == {f \in [1 .. Cardinality(T) -> T] : IsInjective(f)}
<1>1. rsp # {}
  BY DEF Arrived, ToSet
<1>2. PICK w \in outstanding : rsp = {w}
  BY <1>1 DEF Responses
<1>3. w = <<w[1], w[2]>> /\ w[1] \in Thread /\ w[2] \in Reg
  BY <1>2
<1>4. T = IF w[2] = r THEN {w[1]} ELSE {}
  BY <1>2, <1>3
<1>5. Cardinality(T) = (IF w[2] = r THEN 1 ELSE 0)
  BY <1>4, FS_EmptySet, FS_Singleton
<1>6. \E f : f \in oneToOne
  <2>1. CASE w[2] = r
    <3>1. 1 .. Cardinality(T) = {1} /\ T = {w[1]}
      <4> HIDE DEF T
      <4> QED
        BY <1>4, <1>5, <2>1
    <3>2. [i \in {1} |-> w[1]] \in oneToOne
      BY <3>1 DEF IsInjective
    <3> QED
      BY <3>2
  <2>2. CASE w[2] # r
    <3>1. 1 .. Cardinality(T) = {} /\ T = {}
      <4> HIDE DEF T
      <4> QED
        BY <1>4, <1>5, <2>2
    <3>2. [i \in {} |-> w[1]] \in oneToOne
      BY <3>1 DEF IsInjective
    <3> QED
      BY <3>2
  <2> QED
    BY <2>1, <2>2
<1>7. SetToSeq(T) \in oneToOne
  BY <1>6 DEF SetToSeq
<1>8. SetToSeq(T) \in [1 .. Cardinality(T) -> T]
  BY <1>7
<1>9. Arrived(rsp, r) = SetToSeq(T)
  BY <1>1 DEF Arrived
<1> HIDE DEF oneToOne, T
<1>10. t \in T
  BY <1>8, <1>9 DEF ToSet
<1> QED
  BY <1>2, <1>10 DEF T

\* A bank after a clock in which it is written: what waited first is gone.
LEMMA WrittenBank ==
  ASSUME NEW S, NEW s \in Seq(S), NEW come \in Seq(S)
  PROVE  LET next == Moved(s, come, s # <<>>)
         IN  /\ next \in Seq(S)
             /\ Len(s) <= 1 => next = come
<1>1. CASE s = <<>>
  BY <1>1, ConcatEmptySeq DEF Moved
<1>2. CASE s # <<>>
  <2>1. Tail(s) \in Seq(S) /\ Len(Tail(s)) = Len(s) - 1 /\ Len(s) \in Nat \ {0}
    BY <1>2, HeadTailProperties, EmptySeq
  <2> DEFINE u == Tail(s)
  <2>2. Moved(s, come, s # <<>>) = u \o come
    BY <1>2 DEF Moved
  <2> HIDE DEF u
  <2>3. u \in Seq(S) /\ Len(u) = Len(s) - 1
    BY <2>1 DEF u
  <2>4. u \o come \in Seq(S)
    BY <2>3, ConcatProperties
  <2>5. Len(s) <= 1 => u \o come = come
    BY <2>1, <2>3, EmptySeq, ConcatEmptySeq
  <2> QED
    BY <2>2, <2>4, <2>5
<1> QED
  BY <1>1, <1>2

\* A bank as the step lemmas see it.
LEMMA BankStep ==
  ASSUME Bounds, outstanding \subseteq Thread \X Reg, NEW exit, NEW rsp \in Responses,
         BankUpdate(exit, rsp), NEW r \in Reg
  PROVE  /\ buffer[r] \in Seq(Thread) /\ Len(buffer[r]) <= BufDepth
         /\ Arrived(rsp, r) \in Seq(Thread) /\ Len(Arrived(rsp, r)) <= 1
         /\ Arrived(rsp, r) # <<>> => Len(buffer[r]) < BufDepth
         /\ ~(exit /\ r \in block.outs)
              => buffer'[r] = Moved(buffer[r], Arrived(rsp, r), buffer[r] # <<>>)
         /\ exit /\ r \in block.outs => buffer'[r] = buffer[r] \o Arrived(rsp, r)
<1>1. buffer'[r] = Moved(buffer[r], Arrived(rsp, r), buffer[r] # <<>> /\ ~(exit /\ r \in block.outs))
  BY DEF BankUpdate
<1>2. buffer[r] \in Seq(Thread) /\ Len(buffer[r]) <= BufDepth
  BY DEF Bounds, IsFifo
<1> QED
  BY <1>1, <1>2, ArrivesOnce DEF Moved

\* A thread that is popped finds its operand, if at most one value waits for the bank and
\* the CGRA does not keep it from being written.
LEMMA PopFindsOperand ==
  ASSUME Inv, LoadInv, Bounds, NEW pop, NEW exit, NEW rsp, Tick({}, pop, exit, rsp),
         BankUpdate(exit, rsp), ready_fifo # <<>>,
         NEW r \in block.inputs, r \in Reg, Len(buffer[r]) <= 1,
         r \in block.outs => buffer[r] = <<>>
  PROVE  Head(ready_fifo) \notin ToSet(buffer'[r])
<1> DEFINE t == Head(ready_fifo)
           come == Arrived(rsp, r)
<1>1. rsp \in Responses /\ outstanding \subseteq Thread \X Reg
  BY DEF Tick, LoadInv, Apart
<1>2. /\ buffer[r] \in Seq(Thread) /\ come \in Seq(Thread) /\ Len(come) <= 1
      /\ ~(exit /\ r \in block.outs) => buffer'[r] = Moved(buffer[r], come, buffer[r] # <<>>)
      /\ exit /\ r \in block.outs => buffer'[r] = buffer[r] \o come
  BY <1>1, BankStep
<1>3. buffer'[r] = come
  <2>1. CASE exit /\ r \in block.outs
    BY <1>2, <2>1, ConcatEmptySeq
  <2>2. CASE ~(exit /\ r \in block.outs)
    BY <1>2, <2>2, WrittenBank
  <2> QED
    BY <2>1, <2>2
<1>4. t \in ToSet(ready_fifo) /\ t \in Thread
  BY SetOfHeadTail, HeadThenTail DEF Inv, Registers
<1>5. <<t, r>> \notin outstanding
  BY <1>4 DEF LoadInv, ReadyLoaded, ReservedUntilAnswered
<1> QED
  BY <1>1, <1>3, <1>5, ArrivedAnswered

\* At a pop the active e-block runs: it has been accepted before the last clock.
LEMMA PopIsOfBlock ==
  ASSUME Inv, NEW accepted, NEW pop, NEW exit, NEW rsp, Tick(accepted, pop, exit, rsp),
         NEW t, Pops(t)
  PROVE  /\ accepted = {} /\ ~restart /\ t = Head(ready_fifo) /\ ready_fifo # <<>>
         /\ block.inputs \subseteq Reg
<1>1. Clock(accepted, pop, rsp)
  BY DEF Tick
<1>2. pop
  BY <1>1 DEF Clock, DispatcherCycle, ReadyUpdate, Pops
<1>3. accepted = {} /\ ready_fifo # <<>> /\ t = Head(ready_fifo)
  BY <1>1, <1>2, PopIsNext DEF Pops
<1>4. ~restart
  BY <1>3 DEF Inv, Restarting, Empty
<1>5. block.inputs \subseteq Reg
  BY BlocksAssumption DEF Inv, Registers, NoBlock
<1> QED
  BY <1>3, <1>4, <1>5

\* In the clock after an accept nothing leaves the CGRA.
LEMMA RestartIsEmpty ==
  ASSUME Inv, InCgra, restart
  PROVE  pipe = <<>>
<1>1. dispatched = {}
  BY DEF Inv, Restarting
<1>2. ToSet(pipe) \subseteq dispatched
  BY DEF InCgra, InOrder
<1> QED
  BY <1>1, <1>2, SetOfHeadTail DEF InCgra

LEMMA LandedStep ==
  ASSUME Inv, LoadInv, Bounds, WritesApart, Landed,
         NEW accepted, NEW pop, NEW exit, NEW rsp, Tick(accepted, pop, exit, rsp),
         BankUpdate(exit, rsp)
  PROVE  Landed'
<1> SUFFICES ASSUME NEW r \in Reg
             PROVE  /\ Len(buffer'[r]) <= 1
                    /\ r \in block'.outs /\ ~restart' => buffer'[r] = <<>>
  BY DEF Landed
<1>1. rsp \in Responses /\ outstanding \subseteq Thread \X Reg
  BY DEF Tick, LoadInv, Apart
<1>2. /\ buffer[r] \in Seq(Thread)
      /\ Arrived(rsp, r) \in Seq(Thread) /\ Len(Arrived(rsp, r)) <= 1
      /\ ~(exit /\ r \in block.outs)
           => buffer'[r] = Moved(buffer[r], Arrived(rsp, r), buffer[r] # <<>>)
      /\ exit /\ r \in block.outs => buffer'[r] = buffer[r] \o Arrived(rsp, r)
  BY <1>1, BankStep
<1>3. Len(buffer[r]) <= 1 /\ (r \in block.outs /\ ~restart => buffer[r] = <<>>)
  BY DEF Landed
<1>4. ~restart' => block' = block
  BY DEF Tick, Clock, DispatcherCycle, ControlUpdate
<1>5. CASE r \notin block.outs
  BY <1>2, <1>3, <1>4, <1>5, WrittenBank
<1>6. CASE r \in block.outs
  <2>1. Arrived(rsp, r) = <<>>
    <3>1. SUFFICES ASSUME Arrived(rsp, r) # <<>> PROVE FALSE
      OBVIOUS
    <3>2. Head(Arrived(rsp, r)) \in ToSet(Arrived(rsp, r))
      BY <1>2, <3>1, SetOfHeadTail
    <3>3. <<Head(Arrived(rsp, r)), r>> \in outstanding
      BY <1>1, <3>2, ArrivedAnswered
    <3> QED
      BY <1>6, <3>3 DEF WritesApart
  <2>2. CASE exit
    <3>1. ~restart
      BY <2>2, RestartIsEmpty DEF Tick, When, LoadInv
    <3>2. buffer'[r] = <<>>
      BY <1>2, <1>3, <1>6, <2>1, <2>2, <3>1, ConcatEmptySeq
    <3> QED
      BY <3>2, EmptySeq
  <2>3. CASE ~exit
    <3>1. buffer'[r] = <<>>
      BY <1>2, <1>3, <2>1, <2>3, WrittenBank
    <3> QED
      BY <3>1, EmptySeq
  <2> QED
    BY <2>2, <2>3
<1> QED
  BY <1>5, <1>6

\* With the history: as long as the writes are apart, the values land.
Landing == apart => WritesApart /\ Landed

LEMMA LandingInit == Init => Landing
<1> SUFFICES ASSUME Init PROVE Landing
  OBVIOUS
<1>1. \A r \in Reg : buffer[r] = <<>> /\ Len(buffer[r]) = 0
  BY EmptySeq DEF Init
<1> QED
  BY <1>1 DEF Init, Landing, Landed, WritesApart

LEMMA LandingNext == Inv /\ LoadInv /\ TypeInv /\ Landing /\ [Next]_vars => Landing'
<1> SUFFICES ASSUME Inv, LoadInv, TypeInv, Landing, [Next]_vars PROVE Landing'
  OBVIOUS
<1>1. CASE Next
  <2>1. PICK accepted \in Offer, pop \in When(DispatchValid), exit \in When(pipe # <<>>),
             rsp \in Responses : Cycle(accepted, pop, exit, rsp)
    BY <1>1 DEF Next
  <2>2. Tick(accepted, pop, exit, rsp) /\ BankUpdate(exit, rsp)
    BY <2>1 DEF Tick, Clock, Cycle
  <2>3. apart' = (WritesApart' /\ (apart \/ \A r \in Reg : buffer'[r] = <<>>))
    BY <2>1 DEF Cycle, HistoryUpdate
  <2>4. CASE apart
    <3>1. Landed'
      BY <2>2, <2>4, LandedStep DEF TypeInv, Landing
    <3> QED
      BY <2>3, <3>1 DEF Landing
  <2>5. CASE \A r \in Reg : buffer'[r] = <<>>
    <3>1. \A r \in Reg : Len(buffer'[r]) = 0
      BY <2>5, EmptySeq
    <3>2. Landed'
      BY <2>5, <3>1 DEF Landed
    <3> QED
      BY <2>3, <3>2 DEF Landing
  <2> QED
    BY <2>3, <2>4, <2>5 DEF Landing
<1>2. CASE UNCHANGED vars
  BY <1>2 DEF vars, disp_vars, Landing, Landed, WritesApart
<1> QED
  BY <1>1, <1>2

\* While the e-blocks of one CTA run, every thread finds its operands in the register file,
\* whatever the depth of the buffers, as long as no e-block writes a register while a load
\* of it is out (Operands.tla).
THEOREM OperandsLanded == ASSUME OneCta PROVE Spec => WrittenIfApart
<1>1. ASSUME Inv, LoadInv, TypeInv, Landing, [Next]_vars, apart,
             NEW t \in Thread, Pops(t), NEW r \in block.inputs
      PROVE  t \notin ToSet(buffer'[r])
  <2>1. CASE Next
    <3>1. PICK accepted \in Offer, pop \in When(DispatchValid), exit \in When(pipe # <<>>),
               rsp \in Responses : Cycle(accepted, pop, exit, rsp)
      BY <2>1 DEF Next
    <3>2. Tick(accepted, pop, exit, rsp) /\ BankUpdate(exit, rsp)
      BY <3>1 DEF Tick, Clock, Cycle
    <3>3. /\ accepted = {} /\ ~restart /\ t = Head(ready_fifo) /\ ready_fifo # <<>>
          /\ block.inputs \subseteq Reg
      BY <1>1, <3>2, PopIsOfBlock
    <3>4. r \in Reg /\ Len(buffer[r]) <= 1 /\ (r \in block.outs => buffer[r] = <<>>)
      BY <1>1, <3>3 DEF Landing, Landed
    <3> QED
      BY <1>1, <3>2, <3>3, <3>4, PopFindsOperand DEF TypeInv
  <2>2. CASE UNCHANGED vars
    BY <1>1, <2>2 DEF vars, disp_vars, Pops
  <2> QED
    BY <1>1, <2>1, <2>2
<1>2. Inv /\ LoadInv /\ TypeInv /\ Landing /\ [Next]_vars
        => [apart => \A t \in Thread : Pops(t) => Written(t)]_vars
  BY <1>1 DEF Written
<1>3. Spec => []Landing
  BY LandingInit, LandingNext, InvAlways, LoadInvAlways, TypeInvAlways, PTL DEF Spec
<1> QED
  BY <1>2, <1>3, InvAlways, LoadInvAlways, TypeInvAlways, PTL DEF Spec, WrittenIfApart
=============================================================================
