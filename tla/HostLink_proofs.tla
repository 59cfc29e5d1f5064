--------------------------- MODULE HostLink_proofs ---------------------------
(***************************************************************************)
(* Proofs about the host, its link and the control registers: the parser   *)
(* stays in step with the packets, whatever the FIFOs hold, each CTA runs  *)
(* as it was written, and the host learns of the end of the CTA it polls   *)
(* for and of no other.                                                    *)
(*                                                                         *)
(* A flit means something only at its place in the stream.  The invariant  *)
(* gives every flit under way the place the parser will be at when it      *)
(* comes to it: a run of the parser over the flits to come, from the state *)
(* it is in now to the end of the last packet.                             *)
(***************************************************************************)
EXTENDS HostLink, SequenceTheorems, FiniteSetTheorems, TLAPS

-----------------------------------------------------------------------------
(* The stream. *)

\* Where the parser is: its state, and the writes and polls whose headers it has taken.
Place == [state : {"RX_IDLE", "RX_WR_DATA", "RX_R_DATA"}, left : Nat,
          sent : Nat, resets : Nat, polled : Nat]

\* The k-th write of the host, if it is one for a launch.
RegOf(k) == LaunchOrder[((k - 1) % 4) + 1]
WordOf(k) == IF RegOf(k) = "CTRL" THEN StartWord ELSE ((k - 1) \div 4) + 1

\* The register of the last write whose header was taken at p, and what is written to it.
LastReg(p) == IF p.resets = 0 THEN RegOf(p.sent) ELSE "CTRL"
Payload(p) ==
  IF p.resets = 0 THEN WordOf(p.sent) ELSE IF p.resets = 1 THEN ResetWord ELSE 0

\* The parser takes f at p, and is at q then.
TakesWrite(p, f, q) ==
  /\ p.state = "RX_IDLE" /\ f.op = "WRITE" /\ f.reg = LastReg(q)
  /\ \/ p.resets = 0 /\ q = [p EXCEPT !.state = "RX_WR_DATA", !.left = 1, !.sent = @ + 1]
     \/ q = [p EXCEPT !.state = "RX_WR_DATA", !.left = 1, !.resets = @ + 1]

TakesRead(p, f, q) ==
  p.state = "RX_IDLE" /\ f.op = "READ" /\ q = [p EXCEPT !.polled = @ + 1]

TakesResp(p, f, q) ==
  /\ p.state = "RX_IDLE" /\ f.op = "READ_RESP" /\ f.burst.left = Beats[f.burst.unit]
  /\ q = [p EXCEPT !.state = "RX_R_DATA", !.left = f.burst.left]

TakesWData(p, f, q) ==
  /\ p.state = "RX_WR_DATA" /\ p.left = 1 /\ f.op = "DATA" /\ f.word = Payload(p)
  /\ q = [p EXCEPT !.state = "RX_IDLE", !.left = 0]

TakesRData(p, f, q) ==
  /\ p.state = "RX_R_DATA" /\ p.left > 0 /\ f.op = "DATA" /\ f.word = p.left
  /\ q = [p EXCEPT !.state = IF p.left = 1 THEN "RX_IDLE" ELSE @, !.left = @ - 1]

Takes(p, f, q) ==
  \/ TakesWrite(p, f, q) \/ TakesRead(p, f, q) \/ TakesResp(p, f, q)
  \/ TakesWData(p, f, q) \/ TakesRData(p, f, q)

\* g is the run of the parser over the flits of F.
Follows(F, g) ==
  /\ g \in [0 .. Len(F) -> Place]
  /\ \A i \in 1 .. Len(F) : Takes(g[i - 1], F[i], g[i])

\* The run ends at e.  A poll is for the last CTA whose start was sent before it; P are the
\* polls under way, and heard those before them.
Stream(F, g, e, P, heard) ==
  /\ Follows(F, g) /\ g[Len(F)] = e
  /\ heard <= g[0].polled /\ e.polled = heard + Len(P)
  /\ \A i, j \in 0 .. Len(F) : i <= j =>
       g[i].sent <= g[j].sent /\ g[i].resets <= g[j].resets /\ g[i].polled <= g[j].polled
  /\ \A i \in 1 .. Len(F) :
       F[i].op = "READ" => P[g[i - 1].polled - heard + 1] = g[i - 1].sent \div 4

-----------------------------------------------------------------------------
(* The invariant. *)

One(b) == IF b THEN 1 ELSE 0

Flits == link \o owed

\* Where the parser is when it has taken everything the host has sent or owes.
End(heard) == [state |-> "RX_IDLE", left |-> 0, sent |-> writes, resets |-> resets,
               polled |-> heard + Len(polls)]

StreamInv(g, heard) ==
  /\ link \in Seq(Flit) /\ owed \in Seq(Flit) /\ Len(link) <= LinkDepth
  /\ \A i \in 1 .. Len(owed) : owed[i].op = "DATA"
  /\ Stream(Flits, g, End(heard), polls, heard)
  /\ g[0].state = state /\ g[0].left = beats_left

\* A write is at most one behind the parser: its header, its header at the registers, or its
\* word there as well.
WriteInv(p) ==
  \/ /\ state # "RX_WR_DATA" /\ wr_desc = <<>> /\ w_data = <<>> /\ ~write_active /\ ~aw_pending
  \/ /\ wr_desc = <<LastReg(p)>> /\ (p.resets = 0 => p.sent > 0)
     /\ \/ state = "RX_WR_DATA" /\ w_data = <<>> /\ ~write_active /\ ~aw_pending
        \/ /\ write_active /\ aw_pending /\ aw_idx = LastReg(p)
           /\ w_data = IF state = "RX_WR_DATA" THEN <<>> ELSE <<Payload(p)>>

InFlight == wr_desc # <<>>

\* The writes, and those that reset, that have reached the registers.
Landed(p) == p.sent - One(InFlight /\ p.resets = 0)
Resets(p) == p.resets - One(InFlight /\ p.resets > 0)

\* The registers and the core, when a writes and z resets have landed.
CsrInv(a, z) ==
  /\ start_pc = (a + 3) \div 4 /\ thread_count = (a + 2) \div 4 /\ csrX = (a + 1) \div 4
  /\ ctrl \in 0 .. 2 /\ (ctrl = 2 <=> z = 1)
  /\ Start => a % 4 = 0 /\ z = 0 /\ ~write_active /\ ~add_fire
  /\ add_fire => a % 4 = 0 /\ z = 0

CoreInv(a) ==
  /\ launched \in Nat /\ done \in Nat /\ seen \in Nat
  /\ a \div 4 = launched + One(Start \/ add_fire)
  /\ seen <= done /\ done <= launched /\ launched <= done + 1
  /\ cta # NoCta =>
       cta = [start_pc |-> launched, thread_count |-> launched] /\ launched = done + 1 /\ ~cta_out
  /\ cta_out => launched = done + 1
  /\ complete /\ ~Start => done = a \div 4

HostInv ==
  /\ writes \in 0 .. 4 * NumCtas /\ writes <= 4 * seen + 6
  /\ resets \in 0 .. 2 /\ (resets > 0 => polls = <<>>)

\* The polls that have been taken off the link, the oldest first: answered, at the registers,
\* or behind the parser.
PollInv(p, a, heard) ==
  /\ answers \in Seq(BOOLEAN) /\ rd_desc \in Seq({"STATUS"})
  /\ p.polled = heard + Len(answers) + One(ar_pending) + Len(rd_desc)
  /\ \A j \in 1 .. Len(answers) : answers[j] => polls[j] <= done
  /\ ar_pending /\ Start => 4 * polls[Len(answers) + 1] < a
  /\ \A j \in 1 .. p.polled - heard : 4 * polls[j] <= a

\* What is left of the burst on the R channel, and which of R comes next; a beat takes r to q.
Rest == [left : Nat, next : Nat \ {0}]

Replays(r, beat, R, q) ==
  IF r.left > 0 THEN beat = r.left /\ q = [left |-> r.left - 1, next |-> r.next]
  ELSE /\ r.next \in 1 .. Len(R) /\ beat = R[r.next].left
       /\ q = [left |-> beat - 1, next |-> r.next + 1]

\* The beats of D are those of the bursts of R, after b of the burst on the channel.
Replay(D, R, b, last) ==
  \E h \in [0 .. Len(D) -> Rest] :
    /\ h[0] = [left |-> b, next |-> 1] /\ h[Len(D)] = last
    /\ \A i \in 1 .. Len(D) : Replays(h[i - 1], D[i], R, h[i])
    /\ \A i, j \in 0 .. Len(D) : i <= j => h[i].next <= h[j].next

\* Where the parser has left off.
Behind(last, R, parser, beats) ==
  IF parser # "RX_R_DATA" THEN last = [left |-> 0, next |-> Len(R) + 1]
  ELSE \/ last = [left |-> beats, next |-> Len(R) + 1]
       \/ last = [left |-> 0, next |-> Len(R)] /\ Len(R) > 0 /\ beats = R[Len(R)].left

BeatInv ==
  \E last \in Rest : Replay(r_data, r_desc, r_burst.left, last) /\ Behind(last, r_desc, state, beats_left)

\* A burst has at most the beats of its unit.
BurstsInv ==
  /\ r_desc \in Seq(Burst) /\ r_data \in Seq(Word) /\ r_burst \in Burst
  /\ \A i \in 1 .. Len(r_desc) : r_desc[i].left = Beats[r_desc[i].unit]

FifoInv ==
  /\ BurstsInv /\ r_burst.left <= Beats[r_burst.unit]
  /\ Len(r_desc) <= RDescDepth /\ Len(r_data) <= RDataDepth /\ Len(rd_desc) <= RdDescDepth
  /\ beats_left \in Nat /\ \E u \in Unit : beats_left <= Beats[u]

SignalInv ==
  /\ asked \subseteq Unit /\ waits \subseteq Unit /\ reads \in 0 .. MaxReads
  /\ polls \in Seq(Cta) /\ Len(polls) <= MaxPolls
  /\ {aw_pending, complete, ar_pending, write_active, add_fire, cta_out} \subseteq BOOLEAN
  /\ aw_idx \in Reg

-----------------------------------------------------------------------------
(* Runs of the parser. *)

LEMMA Fields ==
  ASSUME NEW p \in Place
  PROVE  /\ p.state \in {"RX_IDLE", "RX_WR_DATA", "RX_R_DATA"} /\ p.left \in Nat
         /\ p.sent \in Nat /\ p.resets \in Nat /\ p.polled \in Nat
BY DEF Place

LEMMA SamePlace ==
  ASSUME NEW p \in Place, NEW q \in Place, p.state = q.state, p.left = q.left,
         p.sent = q.sent, p.resets = q.resets, p.polled = q.polled
  PROVE  p = q
BY DEF Place

LEMMA AtMostThrough ==
  ASSUME NEW x \in Nat, NEW y \in Nat, NEW z \in Nat, x <= y, y <= z
  PROVE  x <= z
OBVIOUS

LEMMA PollIndex ==
  ASSUME NEW x \in Nat, NEW heard \in Nat, NEW n \in Nat, heard <= x, x + 1 <= heard + n
  PROVE  x - heard + 1 \in 1 .. n
OBVIOUS

LEMMA Quarters ==
  ASSUME NEW n \in Nat
  PROVE  n \div 4 \in Nat /\ n % 4 \in 0 .. 3 /\ n = 4 * (n \div 4) + (n % 4)
OBVIOUS

\* The counts of a place do not fall, and a poll is counted.
LEMMA TakesMoves ==
  ASSUME NEW p \in Place, NEW f, NEW q, Takes(p, f, q)
  PROVE  /\ p.sent <= q.sent /\ p.resets <= q.resets
         /\ q.polled = IF f.op = "READ" THEN p.polled + 1 ELSE p.polled
<1>1. CASE TakesWrite(p, f, q)
  <2>1. CASE q = [p EXCEPT !.state = "RX_WR_DATA", !.left = 1, !.sent = @ + 1]
    BY <1>1, <2>1 DEF TakesWrite, Place
  <2>2. CASE q = [p EXCEPT !.state = "RX_WR_DATA", !.left = 1, !.resets = @ + 1]
    BY <1>1, <2>2 DEF TakesWrite, Place
  <2> QED
    BY <1>1, <2>1, <2>2 DEF TakesWrite
<1>2. CASE TakesRead(p, f, q)
  BY <1>2 DEF TakesRead, Place
<1>3. CASE TakesResp(p, f, q)
  BY <1>3 DEF TakesResp, Place
<1>4. CASE TakesWData(p, f, q)
  BY <1>4 DEF TakesWData, Place
<1>5. CASE TakesRData(p, f, q)
  BY <1>5 DEF TakesRData, Place
<1> QED
  BY <1>1, <1>2, <1>3, <1>4, <1>5 DEF Takes

\* The parser takes the first flit.
LEMMA StreamTail ==
  ASSUME NEW F \in Seq(Flit), F # <<>>, NEW g, NEW e, NEW P, NEW heard \in Nat,
         Stream(F, g, e, P, heard)
  PROVE  /\ Takes(g[0], Head(F), g[1])
         /\ Head(F).op = "READ" => P[g[0].polled - heard + 1] = g[0].sent \div 4
         /\ \E k : k[0] = g[1] /\ Stream(Tail(F), k, e, P, heard)
<1> DEFINE k == [i \in 0 .. Len(F) - 1 |-> g[i + 1]]
<1>1. /\ Len(F) \in Nat \ {0} /\ Tail(F) \in Seq(Flit) /\ Len(Tail(F)) = Len(F) - 1
      /\ Head(F) = F[1] /\ \A i \in 1 .. Len(F) - 1 : Tail(F)[i] = F[i + 1]
  BY HeadTailProperties, EmptySeq, LenProperties
<1>2. /\ g \in [0 .. Len(F) -> Place] /\ g[Len(F)] = e
      /\ heard <= g[0].polled /\ e.polled = heard + Len(P)
      /\ \A i \in 1 .. Len(F) : Takes(g[i - 1], F[i], g[i])
      /\ \A i, j \in 0 .. Len(F) : i <= j =>
           g[i].sent <= g[j].sent /\ g[i].resets <= g[j].resets /\ g[i].polled <= g[j].polled
      /\ \A i \in 1 .. Len(F) :
           F[i].op = "READ" => P[g[i - 1].polled - heard + 1] = g[i - 1].sent \div 4
  BY DEF Stream, Follows
<1>3. Takes(g[0], Head(F), g[1])
      /\ (Head(F).op = "READ" => P[g[0].polled - heard + 1] = g[0].sent \div 4)
  <2>1. 1 \in 1 .. Len(F) /\ 1 - 1 = 0
    BY <1>1
  <2> QED
    BY <1>1, <1>2, <2>1
<1>4. k \in [0 .. Len(Tail(F)) -> Place] /\ \A i \in 0 .. Len(Tail(F)) : k[i] = g[i + 1]
  <2>1. \A i \in 0 .. Len(F) - 1 : i + 1 \in 0 .. Len(F)
    BY <1>1
  <2> QED
    BY <1>1, <1>2, <2>1
<1> HIDE DEF k
<1>5. k[0] = g[1] /\ k[Len(Tail(F))] = e /\ heard <= k[0].polled
  <2>1. k[0] = g[1] /\ k[Len(Tail(F))] = e
    BY <1>1, <1>2, <1>4
  <2>2. g[0].polled <= g[1].polled /\ g[0] \in Place /\ g[1] \in Place
    BY <1>1, <1>2
  <2> QED
    BY <1>2, <2>1, <2>2, Fields
<1>6. ASSUME NEW i \in 1 .. Len(Tail(F))
      PROVE  /\ Takes(k[i - 1], Tail(F)[i], k[i])
             /\ Tail(F)[i].op = "READ" => P[k[i - 1].polled - heard + 1] = k[i - 1].sent \div 4
  <2>1. i + 1 \in 1 .. Len(F) /\ (i + 1) - 1 = i /\ i - 1 \in 0 .. Len(Tail(F)) /\ (i - 1) + 1 = i
        /\ i \in 0 .. Len(Tail(F)) /\ i \in 1 .. Len(F) - 1
    BY <1>1
  <2>2. Tail(F)[i] = F[i + 1] /\ k[i] = g[i + 1] /\ k[i - 1] = g[i]
    BY <1>1, <1>4, <2>1
  <2> QED
    BY <1>2, <2>1, <2>2
<1>7. ASSUME NEW i \in 0 .. Len(Tail(F)), NEW j \in 0 .. Len(Tail(F)), i <= j
      PROVE  k[i].sent <= k[j].sent /\ k[i].resets <= k[j].resets /\ k[i].polled <= k[j].polled
  <2>1. i + 1 \in 0 .. Len(F) /\ j + 1 \in 0 .. Len(F) /\ i + 1 <= j + 1
    BY <1>1, <1>7
  <2> QED
    BY <1>2, <1>4, <2>1
<1>8. Stream(Tail(F), k, e, P, heard)
  BY <1>2, <1>4, <1>5, <1>6, <1>7 DEF Stream, Follows
<1> QED
  BY <1>3, <1>5, <1>8

\* The polls under way when f is sent as well.
PollsWith(P, e, f, P2) == P2 = IF f.op = "READ" THEN Append(P, e.sent \div 4) ELSE P

\* A further flit.
Sends(F, g, e, P, heard, f, q, P2) ==
  /\ F \in Seq(Flit) /\ e \in Place /\ P \in Seq(Nat) /\ heard \in Nat
  /\ Stream(F, g, e, P, heard) /\ f \in Flit /\ q \in Place /\ Takes(e, f, q)
  /\ P2 \in Seq(Nat) /\ PollsWith(P, e, f, P2)

LEMMA StreamAppend ==
  ASSUME NEW F, NEW g, NEW e, NEW P, NEW heard, NEW f, NEW q, NEW P2,
         Sends(F, g, e, P, heard, f, q, P2)
  PROVE  \E k : k[0] = g[0] /\ Stream(F \o <<f>>, k, q, P2, heard)
<1>0. /\ F \in Seq(Flit) /\ e \in Place /\ P \in Seq(Nat) /\ heard \in Nat
      /\ Stream(F, g, e, P, heard) /\ f \in Flit /\ q \in Place /\ Takes(e, f, q)
      /\ P2 \in Seq(Nat) /\ PollsWith(P, e, f, P2)
  BY DEF Sends
<1> USE <1>0
<1> DEFINE n == Len(F)
           k == [i \in 0 .. n + 1 |-> IF i <= n THEN g[i] ELSE q]
           F2 == F \o <<f>>
<1>1. n \in Nat /\ F2 \in Seq(Flit) /\ Len(F2) = n + 1 /\ F2[n + 1] = f /\ \A i \in 1 .. n : F2[i] = F[i]
  <2> DEFINE last == <<f>>
  <2>1. last \in Seq(Flit) /\ Len(last) = 1 /\ last[1] = f
    OBVIOUS
  <2> HIDE DEF last
  <2>2. n \in Nat
    BY LenProperties
  <2> QED
    BY <2>1, <2>2, ConcatProperties DEF last
<1>2. /\ g \in [0 .. n -> Place] /\ g[n] = e /\ e.polled = heard + Len(P) /\ heard <= g[0].polled
      /\ \A i \in 1 .. n : Takes(g[i - 1], F[i], g[i])
      /\ \A i, j \in 0 .. n : i <= j =>
           g[i].sent <= g[j].sent /\ g[i].resets <= g[j].resets /\ g[i].polled <= g[j].polled
      /\ \A i \in 1 .. n :
           F[i].op = "READ" => P[g[i - 1].polled - heard + 1] = g[i - 1].sent \div 4
  BY DEF Stream, Follows
<1>3. k \in [0 .. n + 1 -> Place] /\ k[n + 1] = q /\ \A i \in 0 .. n : k[i] = g[i]
  BY <1>1, <1>2
<1> HIDE DEF n, F2, k
<1>4. e.sent <= q.sent /\ e.resets <= q.resets /\ e.polled <= q.polled
      /\ q.polled = IF f.op = "READ" THEN e.polled + 1 ELSE e.polled
  BY Fields, TakesMoves
<1>5. /\ q.polled = heard + Len(P2) /\ Len(P) \in Nat
      /\ \A i \in 1 .. Len(P) : P2[i] = P[i]
      /\ f.op = "READ" => P2[Len(P) + 1] = e.sent \div 4
  <2>1. Len(P) \in Nat /\ e.sent \div 4 \in Nat
    BY Fields, Quarters, LenProperties
  <2>2. CASE f.op = "READ"
    <3>1. /\ Len(P2) = Len(P) + 1 /\ P2[Len(P) + 1] = e.sent \div 4
          /\ \A i \in 1 .. Len(P) : P2[i] = P[i]
      BY <2>1, <2>2, AppendProperties DEF PollsWith
    <3> QED
      BY <1>2, <1>4, <2>1, <2>2, <3>1
  <2>3. CASE f.op # "READ"
    BY <1>2, <1>4, <2>1, <2>3 DEF PollsWith
  <2> QED
    BY <2>2, <2>3
<1>6. ASSUME NEW i \in 1 .. n + 1
      PROVE  /\ Takes(k[i - 1], F2[i], k[i])
             /\ F2[i].op = "READ" => P2[k[i - 1].polled - heard + 1] = k[i - 1].sent \div 4
  <2>1. CASE i \in 1 .. n
    <3>1. i - 1 \in 0 .. n /\ i \in 0 .. n /\ k[i] = g[i] /\ k[i - 1] = g[i - 1] /\ F2[i] = F[i]
      BY <1>1, <1>3, <2>1
    <3>2. ASSUME F[i].op = "READ" PROVE P2[g[i - 1].polled - heard + 1] = g[i - 1].sent \div 4
      <4>1. Takes(g[i - 1], F[i], g[i]) /\ g[i - 1] \in Place /\ g[i] \in Place /\ g[0] \in Place
        BY <1>1, <1>2, <2>1, <3>1
      <4>2. g[i].polled = g[i - 1].polled + 1
        BY <3>2, <4>1, TakesMoves
      <4>3. g[i].polled <= heard + Len(P)
        <5>1. n \in 0 .. n /\ i <= n
          BY <1>1, <3>1
        <5> QED
          BY <1>2, <3>1, <5>1
      <4>4. heard <= g[i - 1].polled
        <5>1. 0 \in 0 .. n /\ 0 <= i - 1
          BY <1>1, <3>1
        <5>2. g[0].polled <= g[i - 1].polled
          BY <1>2, <3>1, <5>1
        <5> QED
          BY <1>2, <4>1, <5>2, Fields
      <4>5. g[i - 1].polled - heard + 1 \in 1 .. Len(P)
        <5>1. g[i].polled \in Nat /\ g[i - 1].polled \in Nat
          BY <4>1, Fields
        <5>2. Len(P) \in Nat
          BY <1>5
        <5> QED
          BY <4>2, <4>3, <4>4, <5>1, <5>2, PollIndex
      <4> QED
        BY <1>2, <1>5, <2>1, <3>2, <4>5
    <3> QED
      BY <1>2, <2>1, <3>1, <3>2
  <2>2. CASE i = n + 1
    <3>1. i - 1 = n /\ n \in 0 .. n
      BY <1>1, <2>2
    <3>2. k[i - 1] = e /\ k[i] = q /\ F2[i] = f
      BY <1>1, <1>2, <1>3, <2>2, <3>1
    <3>3. e.polled - heard + 1 = Len(P) + 1
      BY <1>2, <1>5
    <3> QED
      BY <1>5, <3>2, <3>3
  <2> QED
    BY <1>1, <2>1, <2>2
<1>7. ASSUME NEW i \in 0 .. n + 1, NEW j \in 0 .. n + 1, i <= j
      PROVE  k[i].sent <= k[j].sent /\ k[i].resets <= k[j].resets /\ k[i].polled <= k[j].polled
  <2>1. CASE j \in 0 .. n
    <3>1. i \in 0 .. n
      BY <1>1, <1>7, <2>1
    <3> QED
      BY <1>2, <1>3, <1>7, <2>1, <3>1
  <2>2. CASE i = n + 1
    <3>1. j = n + 1 /\ k[i] = q /\ k[j] = q
      BY <1>1, <1>3, <1>7, <2>2
    <3>2. q.sent \in Nat /\ q.resets \in Nat /\ q.polled \in Nat
      BY Fields
    <3>3. q.sent <= q.sent /\ q.resets <= q.resets /\ q.polled <= q.polled
      BY <3>2
    <3> QED
      BY <3>1, <3>3
  <2>3. CASE i \in 0 .. n /\ j = n + 1
    <3>1. k[i] = g[i] /\ k[j] = q /\ n \in 0 .. n /\ i <= n /\ g[i] \in Place
      BY <1>1, <1>2, <1>3, <2>3
    <3>2. g[i].sent <= e.sent /\ g[i].resets <= e.resets /\ g[i].polled <= e.polled
      BY <1>2, <2>3, <3>1
    <3>3. /\ g[i].sent \in Nat /\ g[i].resets \in Nat /\ g[i].polled \in Nat
          /\ e.sent \in Nat /\ e.resets \in Nat /\ e.polled \in Nat
          /\ q.sent \in Nat /\ q.resets \in Nat /\ q.polled \in Nat
      BY <3>1, Fields
    <3>4. e.sent <= q.sent /\ e.resets <= q.resets /\ e.polled <= q.polled
      BY <1>4
    <3>5. g[i].sent <= q.sent /\ g[i].resets <= q.resets /\ g[i].polled <= q.polled
      BY <3>2, <3>3, <3>4, AtMostThrough
    <3> QED
      BY <3>1, <3>5
  <2> QED
    BY <1>1, <2>1, <2>2, <2>3
<1>8. k[0] = g[0] /\ heard <= k[0].polled
  BY <1>1, <1>2, <1>3
<1>9. Stream(F2, k, q, P2, heard)
  BY <1>1, <1>3, <1>5, <1>6, <1>7, <1>8 DEF Stream, Follows
<1> QED
  BY <1>8, <1>9 DEF F2

\* The host hears of the oldest poll, which has left the stream.
LEMMA StreamHear ==
  ASSUME NEW S, NEW F \in Seq(S), NEW g, NEW e \in Place, NEW P \in Seq(Nat), P # <<>>,
         NEW heard \in Nat, Stream(F, g, e, P, heard), heard < g[0].polled
  PROVE  Stream(F, g, e, Tail(P), heard + 1)
<1> DEFINE n == Len(F)
<1>1. n \in Nat /\ Len(P) \in Nat \ {0} /\ Len(Tail(P)) = Len(P) - 1
      /\ \A i \in 1 .. Len(P) - 1 : Tail(P)[i] = P[i + 1]
  BY HeadTailProperties, EmptySeq, LenProperties
<1>2. /\ Follows(F, g) /\ g[n] = e /\ e.polled = heard + Len(P)
      /\ g \in [0 .. n -> Place] /\ \A i \in 1 .. n : Takes(g[i - 1], F[i], g[i])
      /\ \A i, j \in 0 .. n : i <= j =>
           g[i].sent <= g[j].sent /\ g[i].resets <= g[j].resets /\ g[i].polled <= g[j].polled
      /\ \A i \in 1 .. n :
           F[i].op = "READ" => P[g[i - 1].polled - heard + 1] = g[i - 1].sent \div 4
  BY DEF Stream, Follows
<1> HIDE DEF n
<1>3. heard + 1 <= g[0].polled /\ e.polled = heard + 1 + Len(Tail(P))
  <2>1. g[0] \in Place
    BY <1>1, <1>2
  <2>2. g[0].polled \in Nat
    BY <2>1, Fields
  <2> QED
    BY <1>1, <1>2, <2>2
<1>4. ASSUME NEW i \in 1 .. n, F[i].op = "READ"
      PROVE  Tail(P)[g[i - 1].polled - (heard + 1) + 1] = g[i - 1].sent \div 4
  <2>1. i - 1 \in 0 .. n /\ 0 \in 0 .. n /\ 0 <= i - 1 /\ i \in 0 .. n /\ n \in 0 .. n /\ i <= n
    BY <1>1
  <2>2. /\ g[i - 1] \in Place /\ g[i] \in Place /\ g[0] \in Place
        /\ g[0].polled <= g[i - 1].polled /\ g[i].polled <= e.polled
    BY <1>2, <2>1
  <2>3. g[i].polled = g[i - 1].polled + 1
    BY <1>2, <1>4, <2>2, TakesMoves
  <2> DEFINE x == g[i - 1].polled
  <2>4. x \in Nat /\ heard + 1 <= x /\ x + 1 <= heard + Len(P)
    <3>1. x \in Nat /\ g[0].polled \in Nat
      BY <2>2, Fields
    <3>2. heard + 1 <= x
      BY <1>3, <2>2, <3>1, AtMostThrough
    <3> QED
      BY <1>2, <2>2, <2>3, <3>1, <3>2
  <2> HIDE DEF x
  <2>5. x - (heard + 1) + 1 \in 1 .. Len(P) - 1 /\ (x - (heard + 1) + 1) + 1 = x - heard + 1
    BY <1>1, <2>4
  <2>6. P[x - heard + 1] = g[i - 1].sent \div 4
    BY <1>2, <1>4 DEF x
  <2>7. Tail(P)[x - (heard + 1) + 1] = P[x - heard + 1]
    BY <1>1, <2>5
  <2> QED
    BY <2>6, <2>7 DEF x
<1> QED
  BY <1>2, <1>3, <1>4 DEF Stream, n

\* The beats of the answer to a read, numbered down to one, and the place before the last l.
BeatsOf(n) == [i \in 1 .. n |-> [op |-> "DATA", word |-> n + 1 - i]]
Within(e, l) == [e EXCEPT !.state = IF l = 0 THEN "RX_IDLE" ELSE "RX_R_DATA", !.left = l]

LEMMA WithinPlace ==
  ASSUME NEW e \in Place, NEW l \in Nat
  PROVE  /\ Within(e, l) \in Place /\ Within(e, l).left = l
         /\ Within(e, l).state = IF l = 0 THEN "RX_IDLE" ELSE "RX_R_DATA"
         /\ Within(e, l).sent = e.sent /\ Within(e, l).resets = e.resets
         /\ Within(e, l).polled = e.polled
BY DEF Within, Place

LEMMA TakesBeat ==
  ASSUME NEW e \in Place, NEW l \in Nat
  PROVE  Takes(Within(e, l + 1), [op |-> "DATA", word |-> l + 1], Within(e, l))
<1> DEFINE p == Within(e, l + 1)
<1>1. p \in Place /\ p.left = l + 1 /\ p.state = "RX_R_DATA"
  BY WithinPlace
<1> DEFINE q == [p EXCEPT !.state = IF p.left = 1 THEN "RX_IDLE" ELSE @, !.left = @ - 1]
<1>2. /\ q.state = (IF l = 0 THEN "RX_IDLE" ELSE "RX_R_DATA") /\ q.left = l
      /\ q.sent = p.sent /\ q.resets = p.resets /\ q.polled = p.polled /\ q \in Place
  <2>1. p.left - 1 = l /\ p.left - 1 \in Nat /\ (p.left = 1 <=> l = 0)
    BY <1>1
  <2> HIDE DEF p
  <2>2. CASE l = 0
    BY <1>1, <2>1, <2>2 DEF Place
  <2>3. CASE l # 0
    BY <1>1, <2>1, <2>3 DEF Place
  <2> QED
    BY <2>2, <2>3
<1>3. p.sent = e.sent /\ p.resets = e.resets /\ p.polled = e.polled
  BY WithinPlace
<1>4. Within(e, l) = q
  <2> HIDE DEF p, q
  <2> QED
    BY <1>2, <1>3, WithinPlace, SamePlace
<1> HIDE DEF p
<1> QED
  BY <1>1, <1>4 DEF Takes, TakesRData, p

LEMMA ConcatAt ==
  ASSUME NEW S, NEW s \in Seq(S), NEW t \in Seq(S)
  PROVE  /\ s \o t \in Seq(S) /\ Len(s \o t) = Len(s) + Len(t)
         /\ \A i \in 1 .. Len(s) : (s \o t)[i] = s[i]
         /\ \A j \in 1 .. Len(t) : (s \o t)[Len(s) + j] = t[j]
<1> DEFINE n == Len(s)
           m == Len(t)
           u == s \o t
<1>1. n \in Nat /\ m \in Nat /\ u \in Seq(S) /\ Len(u) = n + m
      /\ \A i \in 1 .. n + m : u[i] = IF i <= n THEN s[i] ELSE t[i - n]
  BY ConcatProperties, LenProperties
<1> HIDE DEF n, m, u
<1>2. \A i \in 1 .. n : u[i] = s[i]
  BY <1>1
<1>3. \A j \in 1 .. m : n + j \in 1 .. n + m /\ ~(n + j <= n) /\ (n + j) - n = j
  BY <1>1
<1>4. \A j \in 1 .. m : u[n + j] = t[j]
  BY <1>1, <1>3
<1> QED
  BY <1>1, <1>2, <1>4 DEF n, m, u

LEMMA StreamBeats ==
  ASSUME NEW S, NEW F \in Seq(S), NEW g, NEW e \in Place, NEW P, NEW heard,
         Stream(F, g, e, P, heard), e.state = "RX_R_DATA", e.left > 0, BeatsOf(e.left) \in Seq(S)
  PROVE  \E k : k[0] = g[0] /\ Stream(F \o BeatsOf(e.left), k, Within(e, 0), P, heard)
<1> DEFINE n == Len(F)
           m == e.left
           B == BeatsOf(m)
           F2 == F \o B
           k == [i \in 0 .. n + m |-> IF i <= n THEN g[i] ELSE Within(e, n + m - i)]
<1>1. n \in Nat /\ m \in Nat \ {0} /\ B \in Seq(S) /\ Len(B) = m
  <2>1. n \in Nat /\ m \in Nat \ {0} /\ B \in Seq(S)
    BY Fields, LenProperties
  <2>2. Len(B) = m
    BY <2>1, LenProperties DEF BeatsOf
  <2> QED
    BY <2>1, <2>2
<1>2. /\ Len(F2) = n + m /\ \A i \in 1 .. n : F2[i] = F[i]
      /\ \A j \in 1 .. m : F2[n + j] = B[j]
  <2> HIDE DEF n, B, m, F2
  <2>2. \A s, t \in Seq(S) : /\ s \o t \in Seq(S) /\ Len(s \o t) = Len(s) + Len(t)
         /\ \A i \in 1 .. Len(s) : (s \o t)[i] = s[i]
         /\ \A j \in 1 .. Len(t) : (s \o t)[Len(s) + j] = t[j]
    BY ConcatAt
  <2>1. /\ F2 = F \o B /\ Len(F2) = Len(F) + Len(B) /\ \A i \in 1 .. Len(F) : F2[i] = F[i]
        /\ \A j \in 1 .. Len(B) : F2[Len(F) + j] = B[j]
    <3>1. B \in Seq(S)
      BY <1>1
    <3>2. F2 = F \o B
      BY DEF F2
    <3>3. Len(F \o B) = Len(F) + Len(B)
      BY <2>2, <3>1
    <3>4. \A i \in 1 .. Len(F) : (F \o B)[i] = F[i]
      BY <2>2, <3>1
    <3>5. \A j \in 1 .. Len(B) : (F \o B)[Len(F) + j] = B[j]
      BY <2>2, <3>1
    <3> QED
      BY <3>1, <3>2, <3>3, <3>4, <3>5
  <2>3. Len(F) = n /\ Len(B) = m
    BY <1>1 DEF n
  <2> QED
    BY <2>1, <2>3
<1>3. /\ g \in [0 .. n -> Place] /\ g[n] = e /\ e.polled = heard + Len(P) /\ heard <= g[0].polled
      /\ \A i \in 1 .. n : Takes(g[i - 1], F[i], g[i])
      /\ \A i, j \in 0 .. n : i <= j =>
           g[i].sent <= g[j].sent /\ g[i].resets <= g[j].resets /\ g[i].polled <= g[j].polled
      /\ \A i \in 1 .. n :
           F[i].op = "READ" => P[g[i - 1].polled - heard + 1] = g[i - 1].sent \div 4
  BY DEF Stream, Follows
<1>4. Within(e, m) = e
  BY <1>1 DEF Within, Place
<1>5. \A j \in 1 .. m : B[j] = [op |-> "DATA", word |-> m + 1 - j]
  BY DEF BeatsOf
<1> HIDE DEF m, n, B, F2
<1>6. k \in [0 .. n + m -> Place] /\ \A i \in 0 .. n : k[i] = g[i]
  <2>1. ASSUME NEW i \in 0 .. n + m, i <= n PROVE k[i] = g[i] /\ g[i] \in Place
    BY <1>1, <1>3, <2>1
  <2>2. ASSUME NEW i \in 0 .. n + m, ~(i <= n) PROVE k[i] \in Place
    <3>1. n + m - i \in Nat
      BY <1>1, <2>2
    <3>2. k[i] = Within(e, n + m - i)
      BY <2>2
    <3>3. PICK l \in Nat : l = n + m - i
      BY <3>1
    <3>4. Within(e, l) \in Place
      BY WithinPlace
    <3> QED
      BY <3>2, <3>3, <3>4
  <2>3. \A i \in 0 .. n : i \in 0 .. n + m /\ i <= n
    BY <1>1
  <2> QED
    BY <2>1, <2>2, <2>3
<1>7. \A j \in 0 .. m : n + j \in 0 .. n + m /\ k[n + j] = Within(e, m - j)
  <2> SUFFICES ASSUME NEW j \in 0 .. m PROVE n + j \in 0 .. n + m /\ k[n + j] = Within(e, m - j)
    OBVIOUS
  <2>1. n + j \in 0 .. n + m /\ (n + m) - (n + j) = m - j
    BY <1>1
  <2>2. CASE j = 0
    <3>1. n + j = n /\ n \in 0 .. n /\ m - j = m
      BY <1>1, <2>2
    <3> QED
      BY <1>3, <1>4, <1>6, <2>1, <3>1
  <2>3. CASE j # 0
    <3> DEFINE x == n + j
    <3>1. x \in 0 .. n + m /\ ~(x <= n) /\ n + m - x = m - j
      BY <1>1, <2>1, <2>3
    <3> HIDE DEF x
    <3>2. k[x] = Within(e, n + m - x)
      BY <3>1
    <3> QED
      BY <2>1, <3>1, <3>2 DEF x
  <2> QED
    BY <2>2, <2>3
<1> HIDE DEF k
<1>8. k[0] = g[0] /\ k[n + m] = Within(e, 0)
  <2>1. m \in 0 .. m /\ m - m = 0 /\ 0 \in 0 .. n
    BY <1>1
  <2> QED
    BY <1>6, <1>7, <2>1
<1>9. ASSUME NEW i \in 1 .. n + m
      PROVE  /\ Takes(k[i - 1], F2[i], k[i])
             /\ F2[i].op = "READ" => P[k[i - 1].polled - heard + 1] = k[i - 1].sent \div 4
  <2>1. CASE i \in 1 .. n
    <3>1. i - 1 \in 0 .. n /\ i \in 0 .. n
      BY <1>1, <2>1
    <3> QED
      BY <1>2, <1>3, <1>6, <2>1, <3>1
  <2>2. CASE i \notin 1 .. n
    <3> DEFINE j == i - n
               l == m - j
    <3>1. j \in 1 .. m /\ j \in 0 .. m /\ j - 1 \in 0 .. m /\ i = n + j /\ i - 1 = n + (j - 1)
          /\ l \in Nat /\ m - (j - 1) = l + 1 /\ m + 1 - j = l + 1
      BY <1>1, <2>2
    <3> HIDE DEF j, l
    <3>2. k[i - 1] = Within(e, l + 1) /\ k[i] = Within(e, l) /\ F2[i] = [op |-> "DATA", word |-> l + 1]
      BY <1>2, <1>5, <1>7, <3>1 DEF l
    <3> QED
      BY <3>1, <3>2, TakesBeat
  <2> QED
    BY <2>1, <2>2
<1>10. ASSUME NEW i \in 0 .. n + m, ~(i <= n)
       PROVE  k[i].sent = e.sent /\ k[i].resets = e.resets /\ k[i].polled = e.polled
  <2> DEFINE j == i - n
  <2>1. j \in 0 .. m /\ i = n + j /\ m - j \in Nat
    BY <1>1, <1>10
  <2> HIDE DEF j
  <2> QED
    BY <1>7, <2>1, WithinPlace
<1>11. ASSUME NEW i \in 0 .. n + m, NEW j \in 0 .. n + m, i <= j
       PROVE  k[i].sent <= k[j].sent /\ k[i].resets <= k[j].resets /\ k[i].polled <= k[j].polled
  <2>1. CASE j <= n
    <3>1. i \in 0 .. n /\ j \in 0 .. n
      BY <1>1, <1>11, <2>1
    <3> QED
      BY <1>3, <1>6, <1>11, <3>1
  <2>2. CASE ~(i <= n)
    <3>1. ~(j <= n)
      BY <1>1, <1>11, <2>2
    <3>2. e.sent \in Nat /\ e.resets \in Nat /\ e.polled \in Nat
      BY Fields
    <3> QED
      BY <1>10, <2>2, <3>1, <3>2
  <2>3. CASE i <= n /\ ~(j <= n)
    <3>1. i \in 0 .. n /\ n \in 0 .. n
      BY <1>1, <2>3
    <3>2. k[i] = g[i] /\ g[i].sent <= e.sent /\ g[i].resets <= e.resets /\ g[i].polled <= e.polled
      BY <1>3, <1>6, <2>3, <3>1
    <3> QED
      BY <1>10, <2>3, <3>2
  <2> QED
    BY <2>1, <2>2, <2>3
<1>12. Within(e, 0).polled = heard + Len(P)
  BY <1>3, WithinPlace
<1>13. heard <= k[0].polled
  BY <1>3, <1>8
<1>14. Stream(F2, k, Within(e, 0), P, heard)
  BY <1>2, <1>6, <1>8, <1>9, <1>11, <1>12, <1>13 DEF Stream, Follows
<1> QED
  BY <1>8, <1>14 DEF F2, B, m

\* There is a run from p over F to e.
Reaches(F, p, e, P, heard) == \E k : k[0] = p /\ Stream(F, k, e, P, heard)

LEMMA ReachesByHeader ==
  ASSUME NEW F \in Seq(Flit), NEW p, NEW e \in Place, NEW P \in Seq(Nat), NEW heard \in Nat,
         Reaches(F, p, e, P, heard), NEW f \in Flit, NEW q \in Place, Takes(e, f, q),
         f.op # "READ", NEW F2, F2 = F \o << f >>
  PROVE  F2 \in Seq(Flit) /\ Reaches(F2, p, q, P, heard)
<1>1. PICK g : g[0] = p /\ Stream(F, g, e, P, heard)
  BY DEF Reaches
<1>2. \E k : k[0] = g[0] /\ Stream(F \o << f >>, k, q, P, heard)
  <2>1. PollsWith(P, e, f, P)
    BY DEF PollsWith
  <2> QED
    <3>1. Sends(F, g, e, P, heard, f, q, P)
      BY <1>1, <2>1 DEF Sends
    <3> QED
      BY <3>1, StreamAppend
<1>3. F2 \in Seq(Flit)
  <2> DEFINE last == << f >>
  <2>1. last \in Seq(Flit)
    OBVIOUS
  <2> HIDE DEF last
  <2>2. F \o last \in Seq(Flit)
    BY <2>1, ConcatProperties
  <2> QED
    BY <2>2 DEF last
<1> QED
  BY <1>1, <1>2, <1>3 DEF Reaches

LEMMA ReachesByPoll ==
  ASSUME NEW F \in Seq(Flit), NEW p, NEW e \in Place, NEW P \in Seq(Nat), NEW heard \in Nat,
         Reaches(F, p, e, P, heard), NEW f \in Flit, NEW q \in Place, Takes(e, f, q),
         NEW P2 \in Seq(Nat), PollsWith(P, e, f, P2), NEW F2, F2 = F \o << f >>
  PROVE  Reaches(F2, p, q, P2, heard)
<1>1. PICK g : g[0] = p /\ Stream(F, g, e, P, heard)
  BY DEF Reaches
<1>2. \E k : k[0] = g[0] /\ Stream(F \o << f >>, k, q, P2, heard)
  <2>1. Sends(F, g, e, P, heard, f, q, P2)
    BY <1>1 DEF Sends
  <2> QED
    BY <2>1, StreamAppend
<1> QED
  BY <1>1, <1>2 DEF Reaches

LEMMA ReachesByBeats ==
  ASSUME NEW F \in Seq(Flit), NEW p, NEW e \in Place, NEW P, NEW heard,
         Reaches(F, p, e, P, heard), e.state = "RX_R_DATA", NEW n, e.left = n, n > 0,
         BeatsOf(n) \in Seq(Flit), NEW F2, F2 = F \o BeatsOf(n)
  PROVE  Reaches(F2, p, Within(e, 0), P, heard)
<1>1. PICK g : g[0] = p /\ Stream(F, g, e, P, heard)
  BY DEF Reaches
<1>2. \E k : k[0] = g[0] /\ Stream(F \o BeatsOf(e.left), k, Within(e, 0), P, heard)
  BY <1>1, StreamBeats
<1> QED
  BY <1>1, <1>2 DEF Reaches

-----------------------------------------------------------------------------
(* A clock of the parser, and what it does to the stream. *)

\* The parser goes from p to q, and takes what is in front of it if it moves.
Moves(p, q) ==
  /\ p \in Place /\ q \in Place
  /\ state = p.state /\ beats_left = p.left /\ state' = q.state /\ beats_left' = q.left
  /\ \/ /\ q = p /\ ~ParsesWrite /\ ~ParsesRead /\ ~ParsesResp /\ ~ParsesWData /\ ~ParsesRData
     \/ /\ TakesWrite(p, Head(link), q)
        /\ ParsesWrite /\ ~ParsesRead /\ ~ParsesResp /\ ~ParsesWData /\ ~ParsesRData
     \/ /\ TakesRead(p, Head(link), q)
        /\ ~ParsesWrite /\ ParsesRead /\ ~ParsesResp /\ ~ParsesWData /\ ~ParsesRData
     \/ /\ TakesResp(p, Head(link), q)
        /\ ~ParsesWrite /\ ~ParsesRead /\ ParsesResp /\ ~ParsesWData /\ ~ParsesRData
     \/ /\ TakesWData(p, Head(link), q)
        /\ ~ParsesWrite /\ ~ParsesRead /\ ~ParsesResp /\ ParsesWData /\ ~ParsesRData
     \/ /\ TakesRData(p, Head(link), q)
        /\ ~ParsesWrite /\ ~ParsesRead /\ ~ParsesResp /\ ~ParsesWData /\ ParsesRData

LEMMA TailConcat ==
  ASSUME NEW S, NEW s \in Seq(S), NEW t \in Seq(S), s # <<>>
  PROVE  s \o t # <<>> /\ Head(s \o t) = Head(s) /\ Tail(s \o t) = Tail(s) \o t
<1> DEFINE n == Len(s)
           m == Len(t)
           u == s \o t
<1>1. n \in Nat \ {0} /\ m \in Nat /\ u \in Seq(S) /\ Len(u) = n + m
      /\ Tail(s) \in Seq(S) /\ Len(Tail(s)) = n - 1
      /\ \A i \in 1 .. n - 1 : Tail(s)[i] = s[i + 1]
  BY ConcatProperties, LenProperties, EmptySeq, HeadTailProperties
<1>2. (\A i \in 1 .. n : u[i] = s[i]) /\ \A j \in 1 .. m : u[n + j] = t[j]
  <2>1. \A i \in 1 .. n : u[i] = s[i]
    BY ConcatAt
  <2>2. \A j \in 1 .. m : u[n + j] = t[j]
    BY ConcatAt
  <2> QED
    BY <2>1, <2>2
<1> DEFINE v == Tail(s) \o t
<1>3. v \in Seq(S) /\ Len(v) = (n - 1) + m
  BY <1>1, ConcatAt
<1>4. \A i \in 1 .. n - 1 : v[i] = Tail(s)[i]
  BY <1>1, ConcatAt
<1>5. \A j \in 1 .. m : v[(n - 1) + j] = t[j]
  BY <1>1, ConcatAt
<1> HIDE DEF n, m, u, v
<1>6. u # <<>> /\ Head(u) = u[1] /\ Head(s) = s[1]
  <2>1. u # <<>>
    BY <1>1, EmptySeq
  <2> QED
    BY <1>1, <2>1
<1>7. Tail(u) \in Seq(S) /\ Len(Tail(u)) = n + m - 1 /\ \A i \in 1 .. n + m - 1 : Tail(u)[i] = u[i + 1]
  BY <1>1, <1>6, HeadTailProperties
<1>8. ASSUME NEW i \in 1 .. n + m - 1 PROVE Tail(u)[i] = v[i]
  <2>1. CASE i <= n - 1
    <3>1. i \in 1 .. n - 1 /\ i + 1 \in 1 .. n
      BY <1>1, <2>1
    <3> QED
      BY <1>1, <1>2, <1>4, <1>7, <3>1
  <2>2. CASE ~(i <= n - 1)
    <3> DEFINE j == i + 1 - n
    <3>1. j \in 1 .. m /\ i + 1 = n + j /\ i = (n - 1) + j
      BY <1>1, <2>2
    <3> HIDE DEF j
    <3>2. v[i] = t[j] /\ u[i + 1] = t[j]
      BY <1>2, <1>5, <3>1
    <3> QED
      BY <1>7, <3>2
  <2> QED
    BY <2>1, <2>2
<1>9. n + m - 1 = (n - 1) + m
  BY <1>1
<1>10. Tail(u) = v
  BY <1>3, <1>7, <1>8, <1>9, SeqEqual
<1>11. Head(u) = Head(s)
  BY <1>1, <1>2, <1>6
<1> QED
  BY <1>6, <1>10, <1>11 DEF u, v

\* The parser goes along the run, and a poll it takes is for the CTA it was sent for.
GoesAlong(g, heard, q) ==
  /\ Moves(g[0], q)
  /\ Parses => /\ link # <<>> /\ q = g[1]
               /\ Head(link).op = "READ" =>
                    polls[g[0].polled - heard + 1] = g[0].sent \div 4
  /\ ~Parses => q = g[0]

LEMMA ParserStep ==
  ASSUME NEW g, NEW heard \in Nat, StreamInv(g, heard), ParserUpdate
  PROVE  \E q : GoesAlong(g, heard, q)
<1> DEFINE f == Head(link)
           p == g[0]
           q == IF Parses THEN g[1] ELSE p
<1>1. Flits \in Seq(Flit) /\ link \in Seq(Flit) /\ owed \in Seq(Flit)
      /\ g \in [0 .. Len(Flits) -> Place] /\ Len(Flits) \in Nat
      /\ p.state = state /\ p.left = beats_left
  BY LenProperties, ConcatProperties DEF StreamInv, Stream, Follows, Flits
<1>2. p \in Place
  BY <1>1
<1>3. ASSUME link # <<>>
      PROVE  /\ Takes(p, f, g[1]) /\ g[1] \in Place
             /\ f.op = "READ" => polls[p.polled - heard + 1] = p.sent \div 4
  <2>1. Flits # <<>> /\ Head(Flits) = f
    BY <1>1, <1>3, TailConcat DEF Flits
  <2>2. 1 \in 0 .. Len(Flits)
    BY <1>1, <2>1, EmptySeq
  <2>3. Stream(Flits, g, End(heard), polls, heard)
    BY DEF StreamInv
  <2>4. /\ Takes(g[0], Head(Flits), g[1])
        /\ Head(Flits).op = "READ" => polls[g[0].polled - heard + 1] = g[0].sent \div 4
    BY <1>1, <2>1, <2>3, StreamTail, SMTT(30)
  <2>5. g[1] \in Place
    BY <1>1, <2>2
  <2> QED
    BY <2>1, <2>4, <2>5
<1>4. Parses => link # <<>>
  BY DEF Parses, ParsesWrite, ParsesRead, ParsesResp, ParsesWData, ParsesRData, Header
<1>5. CASE ~Parses
  <2>1. state' = state /\ beats_left' = beats_left
    BY <1>5 DEF ParserUpdate, Parses
  <2>2. Moves(p, p)
    BY <1>1, <1>2, <1>5, <2>1 DEF Moves, Parses
  <2> QED
    BY <1>5, <2>2 DEF GoesAlong
<1>6. CASE Parses
  <2> DEFINE r == g[1]
  <2>1. link # <<>> /\ Takes(p, f, r) /\ r \in Place
        /\ (f.op = "READ" => polls[p.polled - heard + 1] = p.sent \div 4)
    BY <1>3, <1>4, <1>6
  <2> SUFFICES Moves(p, r)
    BY <1>6, <2>1 DEF GoesAlong
  <2> HIDE DEF r, p, f
  <2>2. CASE TakesWrite(p, f, r)
    <3>1. state = "RX_IDLE" /\ f.op = "WRITE"
      BY <1>1, <2>2 DEF TakesWrite
    <3>2. ParsesWrite /\ ~ParsesRead /\ ~ParsesResp /\ ~ParsesWData /\ ~ParsesRData
      BY <1>6, <3>1 DEF Parses, ParsesWrite, ParsesRead, ParsesResp, ParsesWData, ParsesRData, Header, f
    <3>3. state' = "RX_WR_DATA" /\ beats_left' = 1
      BY <3>2 DEF ParserUpdate
    <3>4. r.state = "RX_WR_DATA" /\ r.left = 1
      BY <1>2, <2>2 DEF TakesWrite, Place
    <3> QED
      BY <1>1, <1>2, <2>1, <2>2, <3>2, <3>3, <3>4 DEF Moves, f
  <2>3. CASE TakesRead(p, f, r)
    <3>1. state = "RX_IDLE" /\ f.op = "READ"
      BY <1>1, <2>3 DEF TakesRead
    <3>2. ~ParsesWrite /\ ParsesRead /\ ~ParsesResp /\ ~ParsesWData /\ ~ParsesRData
      BY <1>6, <3>1 DEF Parses, ParsesWrite, ParsesRead, ParsesResp, ParsesWData, ParsesRData, Header, f
    <3>3. state' = state /\ beats_left' = beats_left
      BY <3>2 DEF ParserUpdate
    <3>4. r.state = p.state /\ r.left = p.left
      BY <1>2, <2>3 DEF TakesRead, Place
    <3> QED
      BY <1>1, <1>2, <2>1, <2>3, <3>2, <3>3, <3>4 DEF Moves, f
  <2>4. CASE TakesResp(p, f, r)
    <3>1. state = "RX_IDLE" /\ f.op = "READ_RESP"
      BY <1>1, <2>4 DEF TakesResp
    <3>2. ~ParsesWrite /\ ~ParsesRead /\ ParsesResp /\ ~ParsesWData /\ ~ParsesRData
      BY <1>6, <3>1 DEF Parses, ParsesWrite, ParsesRead, ParsesResp, ParsesWData, ParsesRData, Header, f
    <3>3. state' = "RX_R_DATA" /\ beats_left' = f.burst.left
      BY <3>2 DEF ParserUpdate, f
    <3>4. r.state = "RX_R_DATA" /\ r.left = f.burst.left
      BY <1>2, <2>4 DEF TakesResp, Place
    <3> QED
      BY <1>1, <1>2, <2>1, <2>4, <3>2, <3>3, <3>4 DEF Moves, f
  <2>5. CASE TakesWData(p, f, r)
    <3>1. state = "RX_WR_DATA" /\ beats_left = 1
      BY <1>1, <2>5 DEF TakesWData
    <3>2. ~ParsesWrite /\ ~ParsesRead /\ ~ParsesResp /\ ParsesWData /\ ~ParsesRData
      BY <1>6, <3>1 DEF Parses, ParsesWrite, ParsesRead, ParsesResp, ParsesWData, ParsesRData, Header
    <3>3. state' = "RX_IDLE" /\ beats_left' = 0
      BY <3>1, <3>2 DEF ParserUpdate
    <3>4. r.state = "RX_IDLE" /\ r.left = 0
      BY <1>2, <2>5 DEF TakesWData, Place
    <3> QED
      BY <1>1, <1>2, <2>1, <2>5, <3>2, <3>3, <3>4 DEF Moves, f
  <2>6. CASE TakesRData(p, f, r)
    <3>1. state = "RX_R_DATA"
      BY <1>1, <2>6 DEF TakesRData
    <3>2. ~ParsesWrite /\ ~ParsesRead /\ ~ParsesResp /\ ~ParsesWData /\ ParsesRData
      BY <1>6, <3>1 DEF Parses, ParsesWrite, ParsesRead, ParsesResp, ParsesWData, ParsesRData, Header
    <3>3. state' = (IF beats_left = 1 THEN "RX_IDLE" ELSE state) /\ beats_left' = beats_left - 1
      BY <3>2 DEF ParserUpdate
    <3>4. r.state = (IF p.left = 1 THEN "RX_IDLE" ELSE p.state) /\ r.left = p.left - 1
      BY <1>2, <2>6 DEF TakesRData, Place
    <3> QED
      BY <1>1, <1>2, <2>1, <2>6, <3>2, <3>3, <3>4 DEF Moves, f
  <2> QED
    BY <2>1, <2>2, <2>3, <2>4, <2>5, <2>6 DEF Takes
<1> QED
  BY <1>5, <1>6

\* The stream when the parser and the host have taken what they take, before more is sent.
LEMMA StreamTakes ==
  ASSUME NEW g, NEW heard \in Nat, StreamInv(g, heard), NEW q, GoesAlong(g, heard, q),
         NEW hears \in BOOLEAN, hears => heard < g[0].polled, polls \in Seq(Cta),
         End(heard) \in Place
  PROVE  /\ After(link, Parses) \in Seq(Flit) /\ After(polls, hears) \in Seq(Cta)
         /\ \E k : k[0] = q /\ Stream(After(link, Parses) \o owed, k, End(heard),
                                     After(polls, hears), heard + One(hears))
<1> DEFINE P == After(polls, hears)
           H == heard + One(hears)
           e == End(heard)
<1>1. Flits \in Seq(Flit) /\ link \in Seq(Flit) /\ owed \in Seq(Flit) /\ polls \in Seq(Nat)
      /\ Stream(Flits, g, e, polls, heard)
  <2>1. Cta \subseteq Nat
    BY HostAssumption DEF Cta
  <2> QED
    BY <2>1, ConcatProperties, SeqMonotonic DEF StreamInv, Flits
<1>2. polls = <<>> => ~hears
  <2> SUFFICES ASSUME hears, polls = <<>> PROVE FALSE
    OBVIOUS
  <2>1. Len(polls) = 0
    OBVIOUS
  <2>2. Len(Flits) \in Nat /\ 0 \in 0 .. Len(Flits) /\ Len(Flits) \in 0 .. Len(Flits)
    BY <1>1, LenProperties
  <2>5. /\ g \in [0 .. Len(Flits) -> Place] /\ g[Len(Flits)] = e /\ e.polled = heard + Len(polls)
        /\ \A i, j \in 0 .. Len(Flits) : i <= j => g[i].polled <= g[j].polled
    BY <1>1 DEF Stream, Follows
  <2>6. 0 <= Len(Flits)
    BY <2>2
  <2>3. g[0].polled <= g[Len(Flits)].polled /\ g[Len(Flits)] = e /\ e.polled = heard + Len(polls)
        /\ g[0] \in Place
    BY <2>2, <2>5, <2>6
  <2>4. g[0].polled \in Nat
    BY <2>3, Fields
  <2> QED
    BY <2>1, <2>3, <2>4
<1>3. Stream(Flits, g, e, P, H) /\ H \in Nat
  <2>1. CASE hears
    <3>1. P = Tail(polls) /\ H = heard + 1
      BY <2>1 DEF After, One
    <3>2. Stream(Flits, g, e, Tail(polls), heard + 1)
      <4> HIDE DEF e
      <4> QED
        BY <1>1, <1>2, <2>1, StreamHear DEF e
    <3> QED
      BY <3>1, <3>2
  <2>2. CASE ~hears
    BY <1>1, <2>2 DEF After, One
  <2> QED
    BY <2>1, <2>2
<1>4. After(link, Parses) \in Seq(Flit) /\ P \in Seq(Cta)
  <2>1. hears => Tail(polls) \in Seq(Cta)
    BY <1>2, HeadTailProperties
  <2>2. Parses => Tail(link) \in Seq(Flit)
    BY <1>1, HeadTailProperties DEF GoesAlong
  <2> QED
    BY <1>1, <2>1, <2>2 DEF After
<1> HIDE DEF P, H, e
<1>5. \E k : k[0] = q /\ Stream(After(link, Parses) \o owed, k, e, P, H)
  <2>1. CASE Parses
    <3>1. After(link, Parses) \o owed = Tail(Flits) /\ Flits # <<>> /\ q = g[1]
      BY <1>1, <2>1, TailConcat DEF After, Flits, GoesAlong
    <3>2. \E k : k[0] = g[1] /\ Stream(Tail(Flits), k, e, P, H)
      BY <1>1, <1>3, <3>1, StreamTail
    <3> QED
      BY <3>1, <3>2
  <2>2. CASE ~Parses
    BY <1>3, <2>2 DEF After, Flits, GoesAlong
  <2> QED
    BY <2>1, <2>2
<1> QED
  BY <1>4, <1>5 DEF P, H, e

\* One action of the host, or none.
Tick(in, arrived, polled, answered) ==
  /\ in \in Inputs /\ Clock(in, arrived, polled, answered)
  /\ \/ arrived = <<>> /\ polled = <<>> /\ answered = {} /\ UNCHANGED <<owed, writes, resets>>
     \/ /\ owed # <<>> /\ arrived = <<Head(owed)>> /\ polled = <<>> /\ answered = {}
        /\ owed' = Tail(owed) /\ UNCHANGED <<writes, resets>>
     \/ /\ owed = <<>> /\ MayWrite /\ polled = <<>> /\ answered = {}
        /\ arrived = <<[op |-> "WRITE", reg |-> NextReg]>>
        /\ owed' = <<[op |-> "DATA", word |-> IF NextReg = "CTRL" THEN StartWord ELSE NextCta]>>
        /\ writes' = writes + 1 /\ resets' = resets
     \/ /\ owed = <<>> /\ Started > seen /\ resets = 0 /\ Len(polls) < MaxPolls
        /\ arrived = <<[op |-> "READ"]>> /\ polled = <<Started>> /\ answered = {}
        /\ UNCHANGED <<owed, writes, resets>>
     \/ /\ HostResets /\ owed = <<>> /\ Started > seen /\ polls = <<>> /\ resets < 2
        /\ arrived = <<[op |-> "WRITE", reg |-> "CTRL"]>> /\ polled = <<>> /\ answered = {}
        /\ owed' = <<[op |-> "DATA", word |-> IF resets = 0 THEN ResetWord ELSE 0]>>
        /\ resets' = resets + 1 /\ writes' = writes
     \/ \E u \in Unit :
          /\ owed = <<>> /\ u \in asked /\ polled = <<>> /\ answered = {u}
          /\ arrived = <<[op |-> "READ_RESP", burst |-> [unit |-> u, left |-> Beats[u]]]>>
          /\ owed' = BeatsOf(Beats[u]) /\ UNCHANGED <<writes, resets>>

LEMMA NextIsTick ==
  ASSUME Next
  PROVE  \E in, arrived, polled, answered : Tick(in, arrived, polled, answered)
<1>1. PICK in \in Inputs : Step(in)
  BY DEF Next
<1>2. CASE HostRests(in)
  <2>1. Tick(in, <<>>, <<>>, {})
    BY <1>2 DEF HostRests, Tick
  <2> QED
    BY <2>1
<1>3. CASE HostContinues(in)
  <2>1. Tick(in, <<Head(owed)>>, <<>>, {})
    BY <1>3 DEF HostContinues, Tick
  <2> QED
    BY <2>1
<1>4. CASE HostWrites(in)
  <2>1. Tick(in, <<[op |-> "WRITE", reg |-> NextReg]>>, <<>>, {})
    BY <1>4 DEF HostWrites, Tick
  <2> QED
    BY <2>1
<1>5. CASE HostPolls(in)
  <2>1. Tick(in, <<[op |-> "READ"]>>, <<Started>>, {})
    BY <1>5 DEF HostPolls, Tick
  <2> QED
    BY <2>1
<1>6. CASE HostWritesReset(in)
  <2>1. Tick(in, <<[op |-> "WRITE", reg |-> "CTRL"]>>, <<>>, {})
    BY <1>6 DEF HostWritesReset, Tick
  <2> QED
    BY <2>1
<1>7. ASSUME NEW u \in Unit, HostAnswers(in, u)
      PROVE  \E arrived, polled, answered : Tick(in, arrived, polled, answered)
  <2>1. Tick(in, <<[op |-> "READ_RESP", burst |-> [unit |-> u, left |-> Beats[u]]]>>, <<>>, {u})
    BY <1>7 DEF HostAnswers, Tick, BeatsOf
  <2> QED
    BY <2>1
<1> QED
  BY <1>1, <1>2, <1>3, <1>4, <1>5, <1>6, <1>7 DEF Step, HostProceeds

\* The registers in the order of the launch.
LEMMA LaunchRegs ==
  ASSUME NEW n \in Nat
  PROVE  /\ LaunchOrder[(n % 4) + 1] \in Reg
         /\ (LaunchOrder[(n % 4) + 1] = "START_PC" <=> n % 4 = 0)
         /\ (LaunchOrder[(n % 4) + 1] = "THREAD_COUNT" <=> n % 4 = 1)
         /\ (LaunchOrder[(n % 4) + 1] = "CSRX0" <=> n % 4 = 2)
         /\ (LaunchOrder[(n % 4) + 1] = "CTRL" <=> n % 4 = 3)
<1>1. n % 4 = 0 \/ n % 4 = 1 \/ n % 4 = 2 \/ n % 4 = 3
  BY Quarters
<1> QED
  BY <1>1 DEF LaunchOrder, Reg

LEMMA EndPlace ==
  ASSUME HostInv, polls \in Seq(Cta), NEW heard \in Nat
  PROVE  End(heard) \in Place
<1>1. writes \in Nat /\ resets \in Nat /\ Len(polls) \in Nat
  BY HostAssumption, LenProperties DEF HostInv
<1> QED
  BY <1>1 DEF End, Place

\* The flits of a packet are of the host's making.
LEMMA PacketFlits ==
  /\ \A r \in Reg : [op |-> "WRITE", reg |-> r] \in Flit
  /\ [op |-> "READ"] \in Flit
  /\ \A w \in Word : [op |-> "DATA", word |-> w] \in Flit
  /\ \A u \in Unit : /\ [op |-> "READ_RESP", burst |-> [unit |-> u, left |-> Beats[u]]] \in Flit
                    /\ Beats[u] \in Nat \ {0} /\ Beats[u] \in Word
                    /\ BeatsOf(Beats[u]) \in Seq(Flit) /\ Len(BeatsOf(Beats[u])) = Beats[u]
<1>1. ASSUME NEW u \in Unit
      PROVE  /\ Beats[u] \in Nat \ {0} /\ Beats[u] \in Word
             /\ BeatsOf(Beats[u]) \in Seq(Flit) /\ Len(BeatsOf(Beats[u])) = Beats[u]
  <2> DEFINE n == Beats[u]
  <2>1. n \in Nat \ {0} /\ 1 .. n \subseteq Word
    BY BeatsAssumption, WordAssumption
  <2>2. n \in Word
    BY <2>1
  <2> HIDE DEF n
  <2>3. \A i \in 1 .. n : n + 1 - i \in Word
    <3>1. \A i \in 1 .. n : n + 1 - i \in 1 .. n
      BY <2>1
    <3> QED
      BY <2>1, <3>1
  <2>4. \A i \in 1 .. n : [op |-> "DATA", word |-> n + 1 - i] \in Flit
    BY <2>3 DEF Flit
  <2>5. BeatsOf(n) \in Seq(Flit) /\ Len(BeatsOf(n)) = n
    <3>1. BeatsOf(n) \in [1 .. n -> Flit]
      BY <2>4 DEF BeatsOf
    <3> QED
      BY <2>1, <3>1
  <2> QED
    BY <2>1, <2>2, <2>5 DEF n
<1>2. \A u \in Unit : [op |-> "READ_RESP", burst |-> [unit |-> u, left |-> Beats[u]]] \in Flit
  BY <1>1 DEF Flit, Burst
<1>3. \A r \in Reg : [op |-> "WRITE", reg |-> r] \in Flit
  BY DEF Flit
<1>4. [op |-> "READ"] \in Flit
  BY DEF Flit
<1>5. \A w \in Word : [op |-> "DATA", word |-> w] \in Flit
  BY DEF Flit
<1> QED
  BY <1>1, <1>2, <1>3, <1>4, <1>5

\* The parser after a header.
LEMMA WriteHeader ==
  ASSUME NEW e \in Place
  PROVE  /\ LET q == [e EXCEPT !.state = "RX_WR_DATA", !.left = 1, !.sent = @ + 1]
            IN  /\ q \in Place /\ q.state = "RX_WR_DATA" /\ q.left = 1
                /\ q.sent = e.sent + 1 /\ q.resets = e.resets
         /\ LET q == [e EXCEPT !.state = "RX_WR_DATA", !.left = 1, !.resets = @ + 1]
            IN  /\ q \in Place /\ q.state = "RX_WR_DATA" /\ q.left = 1
                /\ q.sent = e.sent /\ q.resets = e.resets + 1
<1>1. e.sent + 1 \in Nat /\ e.resets + 1 \in Nat
  BY Fields
<1> QED
  BY <1>1 DEF Place

LEMMA PollHeader ==
  ASSUME NEW e \in Place
  PROVE  LET q == [e EXCEPT !.polled = @ + 1]
         IN  /\ q \in Place /\ q.state = e.state /\ q.left = e.left
             /\ q.sent = e.sent /\ q.resets = e.resets
<1>1. e.polled + 1 \in Nat
  BY Fields
<1> QED
  BY <1>1 DEF Place

LEMMA RespHeader ==
  ASSUME NEW e \in Place, NEW n \in Nat
  PROVE  LET q == [e EXCEPT !.state = "RX_R_DATA", !.left = n]
         IN  /\ q \in Place /\ q.state = "RX_R_DATA" /\ q.left = n
             /\ q.sent = e.sent /\ q.resets = e.resets
BY DEF Place

\* A flit of the packet that is owed goes to the link.
LEMMA OwedMoves ==
  ASSUME NEW S, NEW s \in Seq(S), NEW t \in Seq(S), t # <<>>
  PROVE  /\ s \o <<Head(t)>> \in Seq(S) /\ Tail(t) \in Seq(S)
         /\ (s \o <<Head(t)>>) \o Tail(t) = s \o t
<1> DEFINE h == <<Head(t)>>
<1>1. h \in Seq(S) /\ Tail(t) \in Seq(S) /\ t \in Seq(S)
  BY HeadTailProperties
<1>2. t = h \o Tail(t)
  <2>1. Len(t) \in Nat \ {0} /\ Len(Tail(t)) = Len(t) - 1 /\ Len(h) = 1 /\ h[1] = t[1]
        /\ \A i \in 1 .. Len(t) - 1 : Tail(t)[i] = t[i + 1]
    BY HeadTailProperties, EmptySeq
  <2> DEFINE u == h \o Tail(t)
  <2> HIDE DEF h
  <2>2. u \in Seq(S) /\ Len(u) = Len(h) + Len(Tail(t)) /\ \A i \in 1 .. Len(h) : u[i] = h[i]
    BY <1>1, ConcatAt
  <2>6. \A j \in 1 .. Len(Tail(t)) : u[Len(h) + j] = Tail(t)[j]
    BY <1>1, ConcatAt
  <2> HIDE DEF u
  <2>3. Len(u) = Len(t)
    BY <2>1, <2>2
  <2>4. ASSUME NEW i \in 1 .. Len(t) PROVE t[i] = u[i]
    <3>1. CASE i = 1
      BY <2>1, <2>2, <3>1
    <3>2. CASE i # 1
      <4> DEFINE j == i - 1
      <4>1. j \in 1 .. Len(t) - 1 /\ i = j + 1 /\ i = Len(h) + j
        BY <2>1, <3>2
      <4> HIDE DEF j
      <4>2. u[i] = Tail(t)[j]
        BY <2>1, <2>6, <4>1
      <4> QED
        BY <2>1, <4>1, <4>2
    <3> QED
      BY <3>1, <3>2
  <2>5. t = u
    BY <2>2, <2>3, <2>4, SeqEqual
  <2> QED
    BY <2>5 DEF u
<1> HIDE DEF h
<1>3. s \o h \in Seq(S)
  BY <1>1, ConcatProperties
<1>4. (s \o h) \o Tail(t) = s \o (h \o Tail(t))
  <2> DEFINE u == Tail(t)
  <2>1. s \in Seq(S) /\ h \in Seq(S) /\ u \in Seq(S)
    BY <1>1
  <2> HIDE DEF u
  <2>2. (s \o h) \o u = s \o (h \o u)
    BY <2>1, ConcatAssociative, SMTT(60)
  <2> QED
    BY <2>2 DEF u
<1> QED
  BY <1>1, <1>2, <1>3, <1>4 DEF h

LEMMA StreamStep ==
  ASSUME NEW g, NEW heard \in Nat, StreamInv(g, heard), HostInv, polls \in Seq(Cta),
         answers # <<>> => heard < g[0].polled,
         NEW in, NEW arrived, NEW polled, NEW answered, Tick(in, arrived, polled, answered)
  PROVE  \E k, q : /\ k[0] = q /\ GoesAlong(g, heard, q)
                  /\ StreamInv(k, heard + One(in.hears))'
<1> DEFINE A == After(link, Parses)
           P == After(polls, in.hears)
           H == heard + One(in.hears)
           e == End(heard)
<1>1. ParserUpdate /\ link' = A \o arrived /\ (arrived # <<>> => Len(link) < LinkDepth)
      /\ polls' = P \o polled /\ in.hears \in BOOLEAN /\ (in.hears => answers # <<>>)
  BY DEF Tick, Clock, RxCycle, Hears, Inputs
<1>2. PICK q : GoesAlong(g, heard, q)
  <2>1. ParserUpdate
    BY <1>1
  <2> QED
    BY <2>1, ParserStep
<1>3. e \in Place /\ H \in Nat
  BY <1>1, EndPlace DEF One
<1>4. /\ A \in Seq(Flit) /\ P \in Seq(Cta)
      /\ \E k : k[0] = q /\ Stream(A \o owed, k, e, P, H)
  <2>1. in.hears \in BOOLEAN /\ (in.hears => heard < g[0].polled) /\ End(heard) \in Place
    BY <1>1, <1>3
  <2>3. /\ After(link, Parses) \in Seq(Flit) /\ After(polls, in.hears) \in Seq(Cta)
        /\ \E k : k[0] = q /\ Stream(After(link, Parses) \o owed, k, End(heard),
                                     After(polls, in.hears), heard + One(in.hears))
    <3> DEFINE h == in.hears
    <3> HIDE DEF A, P, H, e, h
    <3>1. h \in BOOLEAN /\ (h => heard < g[0].polled) /\ End(heard) \in Place
      BY <2>1 DEF h
    <3>2. /\ After(link, Parses) \in Seq(Flit) /\ After(polls, h) \in Seq(Cta)
          /\ \E k : k[0] = q /\ Stream(After(link, Parses) \o owed, k, End(heard),
                                       After(polls, h), heard + One(h))
      BY <1>2, <3>1, StreamTakes
    <3> QED
      BY <3>2 DEF h
  <2> QED
    BY <2>3
<1>5. PICK k0 : k0[0] = q /\ Stream(A \o owed, k0, e, P, H)
  BY <1>4
<1>6. P \in Seq(Nat) /\ Len(P) \in Nat /\ e.polled = H + Len(P)
  <2>1. Cta \subseteq Nat
    BY HostAssumption DEF Cta
  <2> QED
    BY <1>4, <1>5, <2>1, SeqMonotonic, LenProperties DEF Stream
<1>7. owed \in Seq(Flit) /\ Len(A) <= Len(link) /\ Len(link) <= LinkDepth /\ Len(A) \in Nat
      /\ Len(link) \in Nat /\ LinkDepth \in Nat /\ link \in Seq(Flit)
      /\ \A i \in 1 .. Len(owed) : owed[i].op = "DATA"
  <2>1. link \in Seq(Flit) /\ owed \in Seq(Flit) /\ Len(link) <= LinkDepth
        /\ \A i \in 1 .. Len(owed) : owed[i].op = "DATA"
    BY DEF StreamInv
  <2>2. Len(A) <= Len(link)
    BY <1>2, <2>1, HeadTailProperties, LenProperties DEF After, GoesAlong
  <2> QED
    BY <1>4, <2>1, <2>2, LenProperties, DepthsAssumption
<1>8. q.state = state' /\ q.left = beats_left'
  BY <1>2 DEF Moves, GoesAlong
<1>9. /\ e.state = "RX_IDLE" /\ e.left = 0 /\ e.sent = writes /\ e.resets = resets
      /\ writes \in Nat /\ resets \in Nat
  BY HostAssumption DEF End, HostInv
\* What is left to show of each action of the host.
<1>10. ASSUME NEW L, L = (A \o arrived) \o owed', NEW e2 \in Place,
              Reaches(L, q, e2, P \o polled, H), arrived \in Seq(Flit), Len(arrived) <= 1,
              owed' \in Seq(Flit), \A i \in 1 .. Len(owed') : owed'[i].op = "DATA",
              e2.state = "RX_IDLE", e2.left = 0, e2.sent = writes', e2.resets = resets'
       PROVE  \E k : k[0] = q /\ StreamInv(k, H)'
  <2>0. PICK k : k[0] = q /\ Stream(L, k, e2, P \o polled, H)
    BY <1>10 DEF Reaches
  <2>1. e2 = End(H)'
    <3>1. e2.polled = H + Len(polls')
      BY <1>1, <2>0 DEF Stream
    <3> QED
      BY <1>10, <3>1 DEF End, Place
  <2>2. link' \in Seq(Flit) /\ Len(link') = Len(A) + Len(arrived) /\ Len(arrived) \in Nat
    BY <1>1, <1>4, <1>10, ConcatProperties, LenProperties
  <2>3. Len(link') <= LinkDepth
    <3>1. CASE arrived = <<>>
      <4>1. Len(arrived) = 0
        BY <3>1
      <4> QED
        BY <1>7, <2>2, <4>1
    <3>2. CASE arrived # <<>>
      BY <1>1, <1>7, <1>10, <2>2, <3>2
    <3> QED
      BY <3>1, <3>2
  <2>4. Stream(Flits', k, End(H)', polls', H)
    BY <1>1, <1>10, <2>0, <2>1 DEF Flits
  <2> QED
    BY <1>8, <1>10, <2>0, <2>2, <2>3, <2>4 DEF StreamInv
<1> HIDE DEF A, P, H, e
<1>11. ASSUME NEW S, NEW s \in Seq(S), NEW x \in S
       PROVE  s \o <<>> = s /\ <<x>> \in Seq(S) /\ Len(<<x>>) = 1 /\ s \o <<x>> \in Seq(S)
  <2> DEFINE one == <<x>>
  <2>1. one \in Seq(S) /\ Len(one) = 1
    OBVIOUS
  <2> HIDE DEF one
  <2>2. s \o <<>> = s /\ s \o one \in Seq(S)
    BY <2>1, ConcatEmptySeq, ConcatProperties
  <2> QED
    BY <2>1, <2>2 DEF one
<1>12. P \o <<>> = P
  BY <1>6, ConcatEmptySeq
<1>13. Reaches(A \o owed, q, e, P, H)
  BY <1>5 DEF Reaches
<1>14. \E k : k[0] = q /\ StreamInv(k, H)'
  <2>1. CASE arrived = <<>> /\ polled = <<>> /\ UNCHANGED <<owed, writes, resets>>
    <3>1. A \o arrived = A /\ arrived \in Seq(Flit) /\ Len(arrived) <= 1
      BY <1>4, <2>1, ConcatEmptySeq, EmptySeq
    <3>2. Reaches(A \o owed, q, e, P \o polled, H) /\ A \o owed = (A \o arrived) \o owed'
      BY <1>12, <1>13, <2>1, <3>1
    <3>3. owed' \in Seq(Flit) /\ (\A i \in 1 .. Len(owed') : owed'[i].op = "DATA")
          /\ e.sent = writes' /\ e.resets = resets'
      BY <1>7, <1>9, <2>1
    <3> QED
      BY <1>3, <1>9, <1>10, <3>1, <3>2, <3>3
  <2>2. CASE /\ owed # <<>> /\ arrived = <<Head(owed)>> /\ polled = <<>>
             /\ owed' = Tail(owed) /\ UNCHANGED <<writes, resets>>
    <3>1. A \o owed = (A \o arrived) \o owed'
      <4>1. A \in Seq(Flit) /\ owed \in Seq(Flit) /\ owed # <<>>
        BY <1>4, <1>7, <2>2
      <4>2. (A \o <<Head(owed)>>) \o Tail(owed) = A \o owed
        BY <4>1, OwedMoves
      <4> QED
        BY <2>2, <4>2
    <3>2. Tail(owed) \in Seq(Flit) /\ Head(owed) \in Flit /\ Len(Tail(owed)) = Len(owed) - 1
          /\ Len(owed) \in Nat \ {0} /\ \A i \in 1 .. Len(Tail(owed)) : Tail(owed)[i] = owed[i + 1]
      BY <1>7, <2>2, HeadTailProperties, EmptySeq
    <3>3. arrived \in Seq(Flit) /\ Len(arrived) <= 1
      BY <2>2, <3>2
    <3>4. owed' \in Seq(Flit) /\ \A i \in 1 .. Len(owed') : owed'[i].op = "DATA"
      BY <1>7, <2>2, <3>2
    <3>5. Reaches(A \o owed, q, e, P \o polled, H) /\ e.sent = writes' /\ e.resets = resets'
      BY <1>9, <1>12, <1>13, <2>2
    <3> QED
      BY <1>3, <1>9, <1>10, <3>1, <3>3, <3>4, <3>5
  <2>3. ASSUME NEW r \in Reg, NEW w \in Word, NEW q1 \in Place, NEW q2 \in Place,
               owed = <<>>, polled = <<>>, arrived = <<[op |-> "WRITE", reg |-> r]>>,
               owed' = <<[op |-> "DATA", word |-> w]>>,
               TakesWrite(e, [op |-> "WRITE", reg |-> r], q1),
               TakesWData(q1, [op |-> "DATA", word |-> w], q2),
               q2.sent = writes', q2.resets = resets'
        PROVE  \E k : k[0] = q /\ StreamInv(k, H)'
    <3> DEFINE f == [op |-> "WRITE", reg |-> r]
               d == [op |-> "DATA", word |-> w]
               F1 == A \o <<f>>
               F2 == F1 \o <<d>>
    <3>1. f \in Flit /\ d \in Flit /\ f.op = "WRITE" /\ d.op = "DATA"
      BY PacketFlits
    <3>2. A \o owed = A
      BY <1>4, <2>3, ConcatEmptySeq
    <3>3. arrived = <<f>> /\ owed' = <<d>> /\ Takes(e, f, q1) /\ Takes(q1, d, q2)
          /\ q2.state = "RX_IDLE" /\ q2.left = 0
      <4>1. q2.state = "RX_IDLE" /\ q2.left = 0
        BY <2>3 DEF TakesWData, Place
      <4> QED
        BY <2>3, <4>1 DEF Takes
    <3>4. F1 = A \o <<f>> /\ F2 = F1 \o <<d>>
      OBVIOUS
    <3> HIDE DEF f, d, F1, F2
    <3>5. F1 \in Seq(Flit) /\ Reaches(F1, q, q1, P, H)
      <4>1. Reaches(A, q, e, P, H) /\ f.op # "READ"
        BY <1>13, <3>1, <3>2
      <4> QED
        BY <1>3, <1>4, <1>6, <3>1, <3>3, <3>4, <4>1, ReachesByHeader
    <3>6. Reaches(F2, q, q2, P, H)
      <4>1. d.op # "READ"
        BY <3>1
      <4> QED
        BY <1>3, <1>6, <3>1, <3>3, <3>4, <3>5, <4>1, ReachesByHeader
    <3>7. arrived \in Seq(Flit) /\ Len(arrived) <= 1 /\ owed' \in Seq(Flit)
          /\ \A i \in 1 .. Len(owed') : owed'[i].op = "DATA"
      <4>1. <<f>> \in Seq(Flit) /\ <<d>> \in Seq(Flit) /\ Len(<<f>>) = 1 /\ Len(<<d>>) = 1
        BY <1>11, <3>1
      <4> QED
        BY <3>1, <3>3, <4>1
    <3>8. F2 = (A \o arrived) \o owed' /\ Reaches(F2, q, q2, P \o polled, H)
      BY <1>12, <2>3, <3>3, <3>4, <3>6
    <3>9. q2.sent = writes' /\ q2.resets = resets'
      BY <2>3
    <3> QED
      BY <1>10, <3>3, <3>7, <3>8, <3>9
  <2>4. CASE /\ owed = <<>> /\ MayWrite /\ polled = <<>>
             /\ arrived = <<[op |-> "WRITE", reg |-> NextReg]>>
             /\ owed' = <<[op |-> "DATA", word |-> IF NextReg = "CTRL" THEN StartWord ELSE NextCta]>>
             /\ writes' = writes + 1 /\ resets' = resets
    <3> DEFINE q1 == [e EXCEPT !.state = "RX_WR_DATA", !.left = 1, !.sent = @ + 1]
               q2 == [q1 EXCEPT !.state = "RX_IDLE", !.left = 0]
               w == IF NextReg = "CTRL" THEN StartWord ELSE NextCta
    <3>1. resets = 0 /\ writes < 4 * NumCtas
      BY <2>4 DEF MayWrite
    <3>2. NextReg \in Reg
      BY <1>9, LaunchRegs DEF NextReg
    <3>3. w \in Word
      <4>1. NextCta \in 0 .. NumCtas
        BY <1>9, <3>1, HostAssumption, Quarters DEF NextCta
      <4> QED
        BY <4>1, HostAssumption DEF StartWord
    <3>4. /\ q1 \in Place /\ q1.state = "RX_WR_DATA" /\ q1.left = 1 /\ q1.sent = writes + 1
          /\ q1.resets = 0
      <4>1. /\ q1 \in Place /\ q1.state = "RX_WR_DATA" /\ q1.left = 1 /\ q1.sent = e.sent + 1
            /\ q1.resets = e.resets
        BY <1>3, WriteHeader
      <4> HIDE DEF q1
      <4> QED
        BY <1>9, <3>1, <4>1
    <3> HIDE DEF q1
    <3>5. /\ q2 \in Place /\ q2.sent = writes + 1 /\ q2.resets = 0
      BY <3>4 DEF Place
    <3>6. (writes + 1) - 1 = writes
      BY <1>9
    <3>7. LastReg(q1) = NextReg /\ Payload(q1) = w
      BY <3>4, <3>6 DEF LastReg, Payload, RegOf, WordOf, NextReg, NextCta
    <3>8. TakesWrite(e, [op |-> "WRITE", reg |-> NextReg], q1)
      BY <1>9, <3>1, <3>7 DEF TakesWrite, q1
    <3>9. TakesWData(q1, [op |-> "DATA", word |-> w], q2)
      BY <3>4, <3>7 DEF TakesWData
    <3> HIDE DEF q2, w
    <3>10. /\ owed = <<>> /\ polled = <<>> /\ arrived = <<[op |-> "WRITE", reg |-> NextReg]>>
           /\ owed' = <<[op |-> "DATA", word |-> w]>> /\ q2.sent = writes' /\ q2.resets = resets'
      BY <2>4, <3>1, <3>5 DEF w
    <3> QED
      BY <2>3, <3>2, <3>3, <3>4, <3>5, <3>8, <3>9, <3>10
  <2>5. CASE /\ owed = <<>> /\ resets = 0
             /\ arrived = <<[op |-> "READ"]>> /\ polled = <<Started>>
             /\ UNCHANGED <<owed, writes, resets>>
    <3> DEFINE f == [op |-> "READ"]
               q1 == [e EXCEPT !.polled = @ + 1]
               F1 == A \o <<f>>
               P2 == P \o polled
    <3>1. f \in Flit /\ f.op = "READ" /\ arrived = <<f>> /\ F1 = A \o <<f>>
      BY <2>5, PacketFlits
    <3>2. A \o owed = A
      BY <1>4, <2>5, ConcatEmptySeq
    <3>3. /\ q1 \in Place /\ q1.state = "RX_IDLE" /\ q1.left = 0 /\ q1.sent = writes
          /\ q1.resets = resets
      BY <1>3, <1>9, PollHeader
    <3>4. Takes(e, f, q1)
      BY <1>9, <3>1 DEF Takes, TakesRead
    <3>5. Started = e.sent \div 4 /\ Started \in Nat
      BY <1>9, Quarters DEF Started
    <3>6. P2 = Append(P, e.sent \div 4) /\ P2 \in Seq(Nat)
      BY <1>6, <1>11, <2>5, <3>5
    <3> HIDE DEF f, q1, F1, P2
    <3>7. Reaches(F1, q, q1, P2, H)
      <4>1. Reaches(A, q, e, P, H)
        BY <1>13, <3>2
      <4>2. PollsWith(P, e, f, P2)
        BY <3>1, <3>6 DEF PollsWith
      <4> QED
        BY <1>3, <1>4, <1>6, <3>1, <3>3, <3>4, <3>6, <4>1, <4>2, ReachesByPoll
    <3>8. arrived \in Seq(Flit) /\ Len(arrived) <= 1 /\ A \o arrived \in Seq(Flit)
      <4>1. <<f>> \in Seq(Flit) /\ Len(<<f>>) = 1 /\ A \o <<f>> \in Seq(Flit)
        BY <1>4, <1>11, <3>1
      <4> QED
        BY <3>1, <4>1
    <3>9. F1 = (A \o arrived) \o owed'
      BY <2>5, <3>1, <3>8, ConcatEmptySeq
    <3>10. /\ owed' \in Seq(Flit) /\ (\A i \in 1 .. Len(owed') : owed'[i].op = "DATA")
           /\ q1.sent = writes' /\ q1.resets = resets' /\ Reaches(F1, q, q1, P \o polled, H)
      BY <1>7, <2>5, <3>3, <3>7 DEF P2
    <3> QED
      BY <1>10, <3>3, <3>8, <3>9, <3>10
  <2>6. CASE /\ owed = <<>> /\ resets < 2
             /\ arrived = <<[op |-> "WRITE", reg |-> "CTRL"]>> /\ polled = <<>>
             /\ owed' = <<[op |-> "DATA", word |-> IF resets = 0 THEN ResetWord ELSE 0]>>
             /\ resets' = resets + 1 /\ writes' = writes
    <3> DEFINE q1 == [e EXCEPT !.state = "RX_WR_DATA", !.left = 1, !.resets = @ + 1]
               q2 == [q1 EXCEPT !.state = "RX_IDLE", !.left = 0]
               w == IF resets = 0 THEN ResetWord ELSE 0
    <3>1. w \in Word /\ "CTRL" \in Reg
      BY HostAssumption DEF ResetWord, Reg
    <3>2. /\ q1 \in Place /\ q1.state = "RX_WR_DATA" /\ q1.left = 1 /\ q1.sent = writes
          /\ q1.resets = resets + 1
      BY <1>3, <1>9, WriteHeader
    <3> HIDE DEF q1
    <3>3. /\ q2 \in Place /\ q2.sent = writes /\ q2.resets = resets + 1
      BY <3>2 DEF Place
    <3>4. LastReg(q1) = "CTRL" /\ Payload(q1) = w
      <4>1. resets = 0 \/ resets = 1
        BY <1>9, <2>6
      <4> QED
        BY <3>2, <4>1 DEF LastReg, Payload
    <3>5. TakesWrite(e, [op |-> "WRITE", reg |-> "CTRL"], q1)
      BY <1>9, <3>4 DEF TakesWrite, q1
    <3>6. TakesWData(q1, [op |-> "DATA", word |-> w], q2)
      BY <3>2, <3>4 DEF TakesWData
    <3> HIDE DEF q2, w
    <3>7. /\ owed = <<>> /\ polled = <<>> /\ arrived = <<[op |-> "WRITE", reg |-> "CTRL"]>>
          /\ owed' = <<[op |-> "DATA", word |-> w]>> /\ q2.sent = writes' /\ q2.resets = resets'
      BY <2>6, <3>3 DEF w
    <3> QED
      BY <2>3, <3>1, <3>2, <3>3, <3>5, <3>6, <3>7
  <2>7. ASSUME NEW u \in Unit, owed = <<>>, polled = <<>>,
               arrived = <<[op |-> "READ_RESP", burst |-> [unit |-> u, left |-> Beats[u]]]>>,
               owed' = BeatsOf(Beats[u]), UNCHANGED <<writes, resets>>
        PROVE  \E k : k[0] = q /\ StreamInv(k, H)'
    <3> DEFINE f == [op |-> "READ_RESP", burst |-> [unit |-> u, left |-> Beats[u]]]
               n == Beats[u]
               q1 == [e EXCEPT !.state = "RX_R_DATA", !.left = n]
               q2 == Within(q1, 0)
               F1 == A \o <<f>>
               F2 == F1 \o BeatsOf(n)
    <3>1. f \in Flit /\ f.op = "READ_RESP" /\ f.burst.left = n /\ f.burst.unit = u
          /\ arrived = <<f>> /\ n \in Nat \ {0} /\ BeatsOf(n) \in Seq(Flit)
          /\ Len(BeatsOf(n)) = n
      BY <2>7, PacketFlits
    <3>2. A \o owed = A
      BY <1>4, <2>7, ConcatEmptySeq
    <3>3. /\ q1 \in Place /\ q1.state = "RX_R_DATA" /\ q1.left = n /\ q1.sent = writes
          /\ q1.resets = resets
      <4>1. n \in Nat
        BY <3>1
      <4> HIDE DEF n
      <4>2. LET r == [e EXCEPT !.state = "RX_R_DATA", !.left = n]
            IN  /\ r \in Place /\ r.state = "RX_R_DATA" /\ r.left = n
                /\ r.sent = e.sent /\ r.resets = e.resets
        BY <1>3, <4>1, RespHeader
      <4> QED
        BY <1>9, <4>2
    <3>4. Takes(e, f, q1)
      <4> HIDE DEF f
      <4> QED
        BY <1>9, <3>1 DEF Takes, TakesResp
    <3>5. F1 = A \o <<f>> /\ F2 = F1 \o BeatsOf(n) /\ owed' = BeatsOf(n)
      BY <2>7
    <3> HIDE DEF f, n, q1, F1, F2
    <3>6. F1 \in Seq(Flit) /\ Reaches(F1, q, q1, P, H)
      <4>1. Reaches(A, q, e, P, H) /\ f.op # "READ"
        BY <1>13, <3>1, <3>2
      <4> QED
        BY <1>3, <1>4, <1>6, <3>1, <3>3, <3>4, <3>5, <4>1, ReachesByHeader
    <3>7. Reaches(F2, q, q2, P, H)
      <4>1. n > 0
        BY <3>1
      <4> QED
        BY <3>1, <3>3, <3>5, <3>6, <4>1, ReachesByBeats
    <3>8. q2 \in Place /\ q2.state = "RX_IDLE" /\ q2.left = 0 /\ q2.sent = writes /\ q2.resets = resets
      BY <3>3, WithinPlace
    <3> HIDE DEF q2
    <3>9. arrived \in Seq(Flit) /\ Len(arrived) <= 1 /\ owed' \in Seq(Flit)
          /\ \A i \in 1 .. Len(owed') : owed'[i].op = "DATA"
      <4>1. <<f>> \in Seq(Flit) /\ Len(<<f>>) = 1
        BY <1>11, <3>1
      <4>2. \A i \in 1 .. Len(BeatsOf(n)) : BeatsOf(n)[i].op = "DATA"
        BY <3>1 DEF BeatsOf
      <4> QED
        BY <3>1, <3>5, <4>1, <4>2
    <3>10. F2 = (A \o arrived) \o owed' /\ Reaches(F2, q, q2, P \o polled, H)
           /\ q2.sent = writes' /\ q2.resets = resets'
      BY <1>12, <2>7, <3>1, <3>5, <3>7, <3>8
    <3> QED
      BY <1>10, <3>8, <3>9, <3>10
  <2> QED
    BY <2>1, <2>2, <2>4, <2>5, <2>6, <2>7 DEF Tick
<1> QED
  BY <1>2, <1>14 DEF H
-----------------------------------------------------------------------------
(* Writes on their way to the registers. *)

\* What a clock does to the write on its way.
WriteCycle ==
  /\ wr_desc' = With(After(wr_desc, DoWrite), ParsesWrite, Head(link).reg)
  /\ w_data' = With(After(w_data, DoWrite), ParsesWData, Head(link).word)
  /\ write_active' = ((write_active \/ (AwValid /\ AwReady)) /\ ~DoWrite)
  /\ aw_pending' = ((aw_pending /\ ~WValid) \/ (AwValid /\ AwReady))
  /\ aw_idx' = IF AwValid /\ AwReady THEN Head(wr_desc) ELSE aw_idx

LEMMA ClockWrites ==
  ASSUME NEW in, NEW arrived, NEW polled, NEW answered, Clock(in, arrived, polled, answered)
  PROVE  WriteCycle
<1>1. DoWrite <=> (WValid /\ aw_pending)
  BY DEF DoWrite
<1>2. /\ wr_desc' = With(After(wr_desc, WValid /\ aw_pending), ParsesWrite, Head(link).reg)
      /\ w_data' = With(After(w_data, WValid /\ aw_pending), ParsesWData, Head(link).word)
      /\ write_active' = ((write_active \/ (AwValid /\ AwReady)) /\ ~(WValid /\ aw_pending))
  BY DEF Clock, RxCycle
<1>3. wr_desc' = With(After(wr_desc, DoWrite), ParsesWrite, Head(link).reg)
      /\ w_data' = With(After(w_data, DoWrite), ParsesWData, Head(link).word)
  BY <1>1, <1>2 DEF With, After
<1> QED
  BY <1>1, <1>2, <1>3 DEF WriteCycle, Clock, CsrCycle

LEMMA Single ==
  ASSUME NEW x
  PROVE  /\ << x >> # << >> /\ Head(<< x >>) = x /\ Tail(<< x >>) = << >>
         /\ Append(<< >>, x) = << x >>
OBVIOUS

\* A FIFO of at most one item: what is in it after a clock.
LEMMA AfterOne ==
  ASSUME NEW x, NEW y
  PROVE  /\ With(After(<< >>, FALSE), FALSE, y) = << >>
         /\ With(After(<< >>, FALSE), TRUE, y) = << y >>
         /\ With(After(<< x >>, FALSE), FALSE, y) = << x >>
         /\ With(After(<< x >>, TRUE), FALSE, y) = << >>
         /\ With(After(<< x >>, TRUE), TRUE, y) = << y >>
BY Single DEF With, After

\* What the parser does to the last write.
LEMMA MovesWrite ==
  ASSUME NEW p, NEW q, Moves(p, q)
  PROVE  /\ p \in Place /\ q \in Place /\ p.state = state /\ q.state = state'
         /\ ParsesWrite => /\ state = "RX_IDLE" /\ q.state = "RX_WR_DATA" /\ ~ParsesWData
                           /\ Head(link).reg = LastReg(q)
                           /\ \/ p.resets = 0 /\ q.resets = 0 /\ q.sent = p.sent + 1
                              \/ q.resets = p.resets + 1 /\ q.sent = p.sent
         /\ ParsesWData => /\ state = "RX_WR_DATA" /\ q.state = "RX_IDLE"
                           /\ Head(link).word = Payload(p)
         /\ ~ParsesWrite => /\ q.sent = p.sent /\ q.resets = p.resets
                            /\ LastReg(q) = LastReg(p) /\ Payload(q) = Payload(p)
         /\ ~ParsesWrite /\ ~ParsesWData => (q.state = "RX_WR_DATA" <=> p.state = "RX_WR_DATA")
         /\ ParsesRead => state = "RX_IDLE"
<1>1. p \in Place /\ q \in Place /\ p.state = state /\ q.state = state'
  BY DEF Moves
<1>2. ParsesRead => state = "RX_IDLE"
  BY DEF ParsesRead, Header
<1>3. CASE /\ q = p /\ ~ParsesWrite /\ ~ParsesRead /\ ~ParsesResp /\ ~ParsesWData /\ ~ParsesRData
  BY <1>1, <1>2, <1>3
<1>4. CASE /\ TakesWrite(p, Head(link), q)
           /\ ParsesWrite /\ ~ParsesRead /\ ~ParsesResp /\ ~ParsesWData /\ ~ParsesRData
  <2>1. p.state = "RX_IDLE" /\ Head(link).reg = LastReg(q)
    BY <1>4 DEF TakesWrite
  <2>2. CASE p.resets = 0 /\ q = [p EXCEPT !.state = "RX_WR_DATA", !.left = 1, !.sent = @ + 1]
    <3>1. q.state = "RX_WR_DATA" /\ q.resets = p.resets /\ q.sent = p.sent + 1
      BY <1>1, <2>2 DEF Place
    <3> QED
      BY <1>1, <1>4, <2>1, <2>2, <3>1
  <2>3. CASE q = [p EXCEPT !.state = "RX_WR_DATA", !.left = 1, !.resets = @ + 1]
    <3>1. q.state = "RX_WR_DATA" /\ q.resets = p.resets + 1 /\ q.sent = p.sent
      BY <1>1, <2>3 DEF Place
    <3> QED
      BY <1>1, <1>4, <2>1, <3>1
  <2> QED
    BY <1>4, <2>2, <2>3 DEF TakesWrite
<1>5. CASE /\ TakesRead(p, Head(link), q)
           /\ ~ParsesWrite /\ ParsesRead /\ ~ParsesResp /\ ~ParsesWData /\ ~ParsesRData
  <2>1. q.state = p.state /\ q.resets = p.resets /\ q.sent = p.sent
    BY <1>1, <1>5 DEF TakesRead, Place
  <2> QED
    BY <1>1, <1>2, <1>5, <2>1 DEF LastReg, Payload
<1>6. CASE /\ TakesResp(p, Head(link), q)
           /\ ~ParsesWrite /\ ~ParsesRead /\ ParsesResp /\ ~ParsesWData /\ ~ParsesRData
  <2>1. p.state = "RX_IDLE" /\ q.state = "RX_R_DATA" /\ q.resets = p.resets /\ q.sent = p.sent
    BY <1>1, <1>6 DEF TakesResp, Place
  <2> QED
    BY <1>1, <1>6, <2>1 DEF LastReg, Payload
<1>7. CASE /\ TakesWData(p, Head(link), q)
           /\ ~ParsesWrite /\ ~ParsesRead /\ ~ParsesResp /\ ParsesWData /\ ~ParsesRData
  <2>1. /\ p.state = "RX_WR_DATA" /\ q.state = "RX_IDLE" /\ q.resets = p.resets /\ q.sent = p.sent
        /\ Head(link).word = Payload(p)
    BY <1>1, <1>7 DEF TakesWData, Place
  <2> QED
    BY <1>1, <1>7, <2>1 DEF LastReg, Payload
<1>8. CASE /\ TakesRData(p, Head(link), q)
           /\ ~ParsesWrite /\ ~ParsesRead /\ ~ParsesResp /\ ~ParsesWData /\ ParsesRData
  <2>1. /\ p.state = "RX_R_DATA" /\ q.state # "RX_WR_DATA" /\ q.resets = p.resets /\ q.sent = p.sent
    BY <1>1, <1>8 DEF TakesRData, Place
  <2> QED
    BY <1>1, <1>8, <2>1 DEF LastReg, Payload
<1> QED
  BY <1>3, <1>4, <1>5, <1>6, <1>7, <1>8 DEF Moves

LEMMA WriteStep ==
  ASSUME NEW p, NEW q, Moves(p, q), WriteInv(p), WriteCycle
  PROVE  /\ WriteInv(q)'
         /\ Landed(q)' = Landed(p) + One(DoWrite /\ p.resets = 0)
         /\ Resets(q)' = Resets(p) + One(DoWrite /\ p.resets > 0)
         /\ DoWrite => /\ InFlight /\ aw_idx = LastReg(p) /\ Head(w_data) = Payload(p)
                       /\ (p.resets = 0 => p.sent > 0) /\ write_active /\ ~write_active'
         /\ ParsesRead => Landed(q)' = p.sent
<1>1. /\ p \in Place /\ q \in Place /\ p.state = state /\ q.state = state'
      /\ ParsesWrite => /\ state = "RX_IDLE" /\ q.state = "RX_WR_DATA" /\ ~ParsesWData
                        /\ Head(link).reg = LastReg(q)
                        /\ \/ p.resets = 0 /\ q.resets = 0 /\ q.sent = p.sent + 1
                           \/ q.resets = p.resets + 1 /\ q.sent = p.sent
      /\ ParsesWData => /\ state = "RX_WR_DATA" /\ q.state = "RX_IDLE"
                        /\ Head(link).word = Payload(p)
      /\ ~ParsesWrite => /\ q.sent = p.sent /\ q.resets = p.resets
                         /\ LastReg(q) = LastReg(p) /\ Payload(q) = Payload(p)
      /\ ~ParsesWrite /\ ~ParsesWData => (q.state = "RX_WR_DATA" <=> p.state = "RX_WR_DATA")
      /\ ParsesRead => state = "RX_IDLE"
  BY MovesWrite
<1>2. /\ p.sent \in Nat /\ p.resets \in Nat /\ q.sent \in Nat /\ q.resets \in Nat
  BY <1>1, Fields
<1>3. ParsesWData \in BOOLEAN /\ ParsesWrite \in BOOLEAN
  BY DEF ParsesWData, ParsesWrite, Header
\* There is none.
<1>4. CASE /\ state # "RX_WR_DATA" /\ wr_desc = <<>> /\ w_data = <<>> /\ ~write_active /\ ~aw_pending
  <2>1. ~DoWrite /\ ~AwValid /\ ~ParsesWData
    BY <1>1, <1>4 DEF DoWrite, AwValid
  <2>2. w_data' = <<>> /\ ~write_active' /\ ~aw_pending'
    BY <1>4, <2>1, AfterOne DEF WriteCycle, With, After
  <2>3. CASE ParsesWrite
    <3>1. wr_desc' = <<LastReg(q)>>
      BY <1>1, <1>4, <2>1, <2>3, AfterOne, Single DEF WriteCycle, With, After
    <3>2. InFlight' /\ ~InFlight
      BY <1>4, <3>1, Single DEF InFlight
    <3>3. q.resets = 0 => q.sent > 0
      BY <1>1, <1>2, <2>3
    <3>4. ~ParsesRead
      BY <2>3 DEF ParsesRead, ParsesWrite, Header
    <3>5. WriteInv(q)'
      BY <1>1, <2>2, <2>3, <3>1, <3>3 DEF WriteInv
    <3>6. Landed(p) = p.sent /\ Resets(p) = p.resets
      BY <1>2, <3>2 DEF Landed, Resets, One
    <3>7. Landed(q)' = p.sent /\ Resets(q)' = p.resets
      <4>1. CASE p.resets = 0 /\ q.resets = 0 /\ q.sent = p.sent + 1
        BY <1>2, <3>2, <4>1 DEF Landed, Resets, One
      <4>2. CASE q.resets = p.resets + 1 /\ q.sent = p.sent
        BY <1>2, <3>2, <4>2 DEF Landed, Resets, One
      <4> QED
        BY <1>1, <2>3, <4>1, <4>2
    <3> QED
      BY <1>2, <2>1, <3>4, <3>5, <3>6, <3>7 DEF One
  <2>4. CASE ~ParsesWrite
    <3>1. wr_desc' = <<>>
      BY <1>4, <2>1, <2>4 DEF WriteCycle, With, After
    <3>2. ~InFlight' /\ ~InFlight
      BY <1>4, <3>1 DEF InFlight
    <3> QED
      BY <1>1, <1>2, <1>4, <2>1, <2>2, <2>4, <3>1, <3>2 DEF WriteInv, Landed, Resets, One
  <2> QED
    BY <2>3, <2>4
\* Its header waits, or is at the registers without its word.
<1>5. CASE /\ wr_desc = <<LastReg(p)>> /\ (p.resets = 0 => p.sent > 0)
           /\ state = "RX_WR_DATA" /\ w_data = <<>>
           /\ \/ ~write_active /\ ~aw_pending
              \/ write_active /\ aw_pending /\ aw_idx = LastReg(p)
  <2>1. ~DoWrite /\ ~WValid /\ ~ParsesWrite /\ ~ParsesRead
    BY <1>1, <1>5 DEF DoWrite, WValid
  <2>2. wr_desc' = wr_desc /\ wr_desc # <<>> /\ Head(wr_desc) = LastReg(p)
    BY <1>5, <2>1, Single DEF WriteCycle, With, After
  <2>3. write_active' /\ aw_pending' /\ aw_idx' = LastReg(p)
    BY <1>5, <2>1, <2>2 DEF WriteCycle, AwValid, AwReady
  <2>4. w_data' = IF ParsesWData THEN <<Payload(p)>> ELSE <<>>
    BY <1>1, <1>5, <2>1, Single DEF WriteCycle, With, After
  <2>5. InFlight' /\ InFlight
    BY <2>2 DEF InFlight
  <2> QED
    BY <1>1, <1>2, <1>5, <2>1, <2>2, <2>3, <2>4, <2>5 DEF WriteInv, Landed, Resets, One
\* It is at the registers.
<1>6. CASE /\ wr_desc = <<LastReg(p)>> /\ (p.resets = 0 => p.sent > 0)
           /\ write_active /\ aw_pending /\ aw_idx = LastReg(p)
           /\ state # "RX_WR_DATA" /\ w_data = <<Payload(p)>>
  <2>1. DoWrite /\ WValid /\ ~AwValid /\ Head(w_data) = Payload(p) /\ ~ParsesWData /\ InFlight
    BY <1>1, <1>6, Single DEF DoWrite, WValid, AwValid, InFlight
  <2>2. w_data' = <<>> /\ ~write_active' /\ ~aw_pending'
    BY <1>6, <2>1, Single DEF WriteCycle, With, After
  <2>3. CASE ParsesWrite
    <3>1. wr_desc' = <<LastReg(q)>> /\ InFlight'
      <4>1. wr_desc' = <<LastReg(q)>>
        BY <1>1, <1>6, <2>1, <2>3, Single DEF WriteCycle, With, After
      <4> QED
        BY <4>1, Single DEF InFlight
    <3>2. q.resets = 0 => q.sent > 0
      BY <1>1, <1>2, <2>3
    <3>3. ~ParsesRead
      BY <2>3 DEF ParsesRead, ParsesWrite, Header
    <3> QED
      BY <1>1, <1>2, <1>6, <2>1, <2>2, <2>3, <3>1, <3>2, <3>3 DEF WriteInv, Landed, Resets, One
  <2>4. CASE ~ParsesWrite
    <3>1. wr_desc' = <<>> /\ ~InFlight'
      BY <1>6, <2>1, <2>4, Single DEF WriteCycle, With, After, InFlight
    <3> QED
      BY <1>1, <1>2, <1>6, <2>1, <2>2, <2>4, <3>1 DEF WriteInv, Landed, Resets, One
  <2> QED
    BY <2>3, <2>4
<1> QED
  BY <1>1, <1>4, <1>5, <1>6 DEF WriteInv

-----------------------------------------------------------------------------
(* The registers and the core. *)

LEMMA Fourths ==
  ASSUME NEW n \in Nat
  PROVE  /\ n % 4 = 3 => (n + 1) \div 4 = n \div 4 + 1 /\ (n + 1) % 4 = 0
         /\ n % 4 # 3 => (n + 1) \div 4 = n \div 4 /\ (n + 1) % 4 = (n % 4) + 1
         /\ n % 4 = 0 => (n + 3) \div 4 = n \div 4 /\ (n + 2) \div 4 = n \div 4
                          /\ (n + 1) \div 4 = n \div 4
                          /\ (n + 4) \div 4 = n \div 4 + 1
         /\ n % 4 # 0 => (n + 4) \div 4 = (n + 3) \div 4
         /\ n % 4 = 1 => (n + 3) \div 4 = n \div 4 + 1
         /\ n % 4 # 1 => (n + 3) \div 4 = (n + 2) \div 4
         /\ n % 4 = 2 => (n + 2) \div 4 = n \div 4 + 1
         /\ n % 4 # 2 => (n + 2) \div 4 = (n + 1) \div 4
OBVIOUS

LEMMA CtrlValues ==
  ASSUME ctrl \in 0 .. 2
  PROVE  /\ Start <=> ctrl = 1
         /\ CgraReset <=> ctrl = 2
         /\ CtrlKept = IF ctrl = 2 THEN 2 ELSE 0
<1>1. ctrl = 0 \/ ctrl = 1 \/ ctrl = 2
  OBVIOUS
<1> QED
  BY <1>1 DEF Start, CgraReset, CtrlKept

\* The write that lands, if there is one: the next of the launches, or of those that reset.
Lands(p, a, z, a2, z2) ==
  /\ a \in Nat /\ z \in Nat
  /\ \/ ~DoWrite /\ a2 = a /\ z2 = z
     \/ /\ DoWrite /\ write_active /\ ~write_active' /\ z = 0
        /\ aw_idx = RegOf(a + 1) /\ Head(w_data) = WordOf(a + 1) /\ a2 = a + 1 /\ z2 = z
     \/ /\ DoWrite /\ write_active /\ ~write_active'
        /\ aw_idx = "CTRL" /\ Head(w_data) = (IF z = 0 THEN ResetWord ELSE 0)
        /\ a2 = a /\ z2 = z + 1

LEMMA LandsOne ==
  ASSUME NEW p, NEW q, Moves(p, q), WriteInv(p), WriteCycle
  PROVE  Lands(p, Landed(p), Resets(p), Landed(q)', Resets(q)')
<1>1. /\ Landed(q)' = Landed(p) + One(DoWrite /\ p.resets = 0)
      /\ Resets(q)' = Resets(p) + One(DoWrite /\ p.resets > 0)
      /\ DoWrite => /\ InFlight /\ aw_idx = LastReg(p) /\ Head(w_data) = Payload(p)
                    /\ (p.resets = 0 => p.sent > 0) /\ write_active /\ ~write_active'
  BY WriteStep
<1>2. p.sent \in Nat /\ p.resets \in Nat
  BY Fields DEF Moves
<1>3. Landed(p) \in Nat /\ Resets(p) \in Nat
  <2>1. InFlight /\ p.resets = 0 => p.sent > 0
    BY DEF WriteInv, InFlight
  <2> QED
    BY <1>2, <2>1 DEF Landed, Resets, One
<1>4. CASE ~DoWrite
  BY <1>1, <1>3, <1>4 DEF Lands, One
<1>5. CASE DoWrite /\ p.resets = 0
  <2>1. Landed(p) + 1 = p.sent /\ Resets(p) = 0
    BY <1>1, <1>2, <1>5 DEF Landed, Resets, One
  <2>2. aw_idx = RegOf(p.sent) /\ Head(w_data) = WordOf(p.sent)
    BY <1>1, <1>5 DEF LastReg, Payload
  <2>3. Landed(q)' = Landed(p) + 1 /\ Resets(q)' = Resets(p)
    BY <1>1, <1>3, <1>5, <2>1 DEF One
  <2> QED
    BY <1>1, <1>3, <1>5, <2>1, <2>2, <2>3 DEF Lands
<1>6. CASE DoWrite /\ p.resets > 0
  <2>1. Resets(p) = p.resets - 1
    BY <1>1, <1>2, <1>6 DEF Resets, One
  <2>2. aw_idx = "CTRL" /\ Head(w_data) = IF p.resets = 1 THEN ResetWord ELSE 0
    BY <1>1, <1>2, <1>6 DEF LastReg, Payload
  <2>3. Landed(q)' = Landed(p) /\ Resets(q)' = Resets(p) + 1
    BY <1>1, <1>2, <1>3, <1>6 DEF One
  <2>4. p.resets = 1 <=> Resets(p) = 0
    BY <1>2, <2>1
  <2> QED
    BY <1>1, <1>3, <1>6, <2>2, <2>3, <2>4 DEF Lands
<1> QED
  BY <1>2, <1>4, <1>5, <1>6

LEMMA CsrStep ==
  ASSUME NEW p, NEW a, NEW z, NEW a2, NEW z2, Lands(p, a, z, a2, z2), CsrInv(a, z),
         NEW complete_i, NEW r_ready, CsrCycle(complete_i, r_ready),
         add_fire' => Start
  PROVE  /\ CsrInv(a2, z2)'
         /\ Start' <=> a2 = a + 1 /\ a % 4 = 3
         /\ Start => a2 = a
         /\ a2 \in {a, a + 1}
<1>1. /\ ctrl' = Written("CTRL", CtrlKept)
      /\ start_pc' = Written("START_PC", start_pc)
      /\ thread_count' = Written("THREAD_COUNT", thread_count)
      /\ csrX' = Written("CSRX0", csrX)
  BY DEF CsrCycle
<1>2. /\ start_pc = (a + 3) \div 4 /\ thread_count = (a + 2) \div 4 /\ csrX = (a + 1) \div 4
      /\ ctrl \in 0 .. 2 /\ (ctrl = 2 <=> z = 1)
      /\ (Start => a % 4 = 0 /\ z = 0 /\ ~write_active /\ ~add_fire)
      /\ (add_fire => a % 4 = 0 /\ z = 0)
  BY DEF CsrInv
<1>3. (Start <=> ctrl = 1) /\ CtrlKept = IF ctrl = 2 THEN 2 ELSE 0
  BY <1>2, CtrlValues
<1>4. a \in Nat /\ z \in Nat
  BY DEF Lands
<1>5. CASE ~DoWrite /\ a2 = a /\ z2 = z
  <2>1. /\ ctrl' = CtrlKept /\ start_pc' = start_pc /\ thread_count' = thread_count /\ csrX' = csrX
    BY <1>1, <1>5 DEF Written
  <2>2. ctrl' \in 0 .. 2 /\ (ctrl' = 2 <=> z2 = 1) /\ ctrl' # 1
    BY <1>2, <1>3, <1>5, <2>1
  <2>3. ~Start'
    <3>1. ctrl' = 0 \/ ctrl' = 2
      BY <2>2
    <3> QED
      BY <3>1 DEF Start
  <2> QED
    BY <1>2, <1>4, <1>5, <2>1, <2>2, <2>3 DEF CsrInv
<1>6. CASE /\ DoWrite /\ write_active /\ ~write_active' /\ z = 0
           /\ aw_idx = RegOf(a + 1) /\ Head(w_data) = WordOf(a + 1) /\ a2 = a + 1 /\ z2 = z
  <2>1. ~Start /\ ~add_fire'
    BY <1>2, <1>6
  <2>2. (a + 1) - 1 = a
    BY <1>4
  <2>3. aw_idx = LaunchOrder[(a % 4) + 1]
        /\ Head(w_data) = IF aw_idx = "CTRL" THEN StartWord ELSE (a \div 4) + 1
    BY <1>6, <2>2 DEF RegOf, WordOf
  <2>4. /\ (aw_idx = "START_PC" <=> a % 4 = 0) /\ (aw_idx = "THREAD_COUNT" <=> a % 4 = 1)
        /\ (aw_idx = "CSRX0" <=> a % 4 = 2) /\ (aw_idx = "CTRL" <=> a % 4 = 3)
    BY <1>4, <2>3, LaunchRegs
  <2>5. /\ start_pc' = IF a % 4 = 0 THEN a \div 4 + 1 ELSE start_pc
        /\ thread_count' = IF a % 4 = 1 THEN a \div 4 + 1 ELSE thread_count
        /\ csrX' = IF a % 4 = 2 THEN a \div 4 + 1 ELSE csrX
        /\ ctrl' = IF a % 4 = 3 THEN 1 ELSE CtrlKept
    BY <1>1, <1>6, <2>3, <2>4 DEF Written, StartWord
  <2>6. start_pc' = (a2 + 3) \div 4
    BY <1>2, <1>4, <1>6, <2>5, Fourths
  <2>7. thread_count' = (a2 + 2) \div 4
    BY <1>2, <1>4, <1>6, <2>5, Fourths
  <2>8. csrX' = (a2 + 1) \div 4
    BY <1>2, <1>4, <1>6, <2>5, Fourths
  <2>9. ctrl' \in 0 .. 2 /\ ctrl' # 2 /\ z2 # 1 /\ (ctrl' = 1 <=> a % 4 = 3)
    BY <1>2, <1>3, <1>6, <2>5
  <2>10. Start' <=> a % 4 = 3
    <3>1. ctrl' = 0 \/ ctrl' = 1
      BY <2>9
    <3>2. Start' <=> ctrl' = 1
      BY <3>1 DEF Start
    <3> QED
      BY <2>9, <3>2
  <2>11. a % 4 = 3 => a2 % 4 = 0
    BY <1>4, <1>6, Fourths
  <2> QED
    BY <1>6, <2>1, <2>6, <2>7, <2>8, <2>9, <2>10, <2>11 DEF CsrInv
<1>7. CASE /\ DoWrite /\ write_active /\ ~write_active'
           /\ aw_idx = "CTRL" /\ Head(w_data) = (IF z = 0 THEN ResetWord ELSE 0)
           /\ a2 = a /\ z2 = z + 1
  <2>1. ~Start /\ ~add_fire'
    BY <1>2, <1>7
  <2>2. /\ start_pc' = start_pc /\ thread_count' = thread_count /\ csrX' = csrX
        /\ ctrl' = IF z = 0 THEN 2 ELSE 0
    BY <1>1, <1>7 DEF Written, ResetWord
  <2>3. ctrl' \in 0 .. 2 /\ (ctrl' = 2 <=> z2 = 1) /\ ~Start' /\ a2 # a + 1
    <3>1. ctrl' = 0 \/ ctrl' = 2
      BY <2>2
    <3> QED
      BY <1>4, <1>7, <2>2, <3>1 DEF Start
  <2> QED
    BY <1>2, <1>7, <2>1, <2>2, <2>3 DEF CsrInv
<1> QED
  BY <1>5, <1>6, <1>7 DEF Lands

\* A CTA is only started when the host knows of the end of the one before.
LEMMA StartsIdle ==
  ASSUME NEW a \in Nat, a <= writes, writes \in Nat, writes <= 4 * seen + 6, CoreInv(a)
  PROVE  /\ Start \/ add_fire => /\ launched = seen /\ done = seen
                                 /\ a \div 4 = seen + 1 /\ cta = NoCta /\ ~cta_out
         /\ ~(Start \/ add_fire) => a \div 4 = launched
         /\ a \div 4 <= seen + 1
         /\ a \div 4 = seen + 1 => a % 4 # 3
<1>1. /\ launched \in Nat /\ done \in Nat /\ seen \in Nat
      /\ a \div 4 = launched + One(Start \/ add_fire)
      /\ seen <= done /\ done <= launched
      /\ cta # NoCta => launched = done + 1
      /\ cta_out => launched = done + 1
  BY DEF CoreInv
<1>2. a \div 4 \in Nat /\ a % 4 \in 0 .. 3 /\ a = 4 * (a \div 4) + (a % 4)
  BY Quarters
<1>3. a <= 4 * seen + 6
  BY <1>1
<1> DEFINE n == a \div 4
           r == a % 4
<1>4. n \in Nat /\ r \in 0 .. 3 /\ 4 * n + r <= 4 * seen + 6
  BY <1>2, <1>3
<1>5. n = launched + One(Start \/ add_fire)
  BY <1>1
<1> HIDE DEF n, r
<1>6. n <= seen + 1 /\ (n = seen + 1 => r # 3)
  BY <1>1, <1>4
<1>7. CASE Start \/ add_fire
  <2>1. n = launched + 1
    BY <1>5, <1>7 DEF One
  <2>2. launched = seen /\ done = seen /\ n = seen + 1
    BY <1>1, <1>6, <2>1
  <2> QED
    BY <1>1, <1>6, <1>7, <2>2 DEF n, r
<1>8. CASE ~(Start \/ add_fire)
  <2>1. n = launched
    BY <1>1, <1>5, <1>8 DEF One
  <2> QED
    BY <1>6, <1>8, <2>1 DEF n, r
<1> QED
  BY <1>7, <1>8

LEMMA CoreStep ==
  ASSUME NEW a \in Nat, NEW z, NEW a2, a <= writes, writes \in Nat, writes <= 4 * seen + 6,
         CsrInv(a, z), CoreInv(a), a2 \in {a, a + 1},
         Start' <=> a2 = a + 1 /\ a % 4 = 3, Start => a2 = a,
         NEW asks, NEW completes, NEW r_ready, CoreCycle(asks, completes, r_ready),
         complete' <=> cta_out \/ (complete /\ ~Start),
         seen' \in Nat, seen' <= done
  PROVE  CoreInv(a2)'
<1>1. /\ launched \in Nat /\ done \in Nat /\ seen \in Nat
      /\ seen <= done /\ done <= launched /\ launched <= done + 1
      /\ cta # NoCta =>
           cta = [start_pc |-> launched, thread_count |-> launched] /\ launched = done + 1 /\ ~cta_out
      /\ cta_out => launched = done + 1
      /\ complete /\ ~Start => done = a \div 4
  BY DEF CoreInv
<1>2. /\ Start \/ add_fire => /\ launched = seen /\ done = seen
                              /\ a \div 4 = seen + 1 /\ cta = NoCta /\ ~cta_out
      /\ ~(Start \/ add_fire) => a \div 4 = launched
  BY StartsIdle
<1>3. /\ start_pc = (a + 3) \div 4 /\ thread_count = (a + 2) \div 4
      /\ ctrl \in 0 .. 2 /\ (ctrl = 2 <=> z = 1)
      /\ (Start => a % 4 = 0 /\ z = 0 /\ ~add_fire) /\ (add_fire => a % 4 = 0 /\ z = 0)
  BY DEF CsrInv
<1>4. (Start \/ add_fire) => ~CgraReset
  BY <1>3, CtrlValues
<1>5. /\ completes => cta # NoCta /\ ~cta_out
      /\ CgraReset => ~add_fire' /\ cta' = NoCta /\ ~cta_out' /\ launched' = launched
      /\ ~CgraReset => /\ (add_fire' <=> Start /\ cta = NoCta /\ ~add_fire)
                       /\ cta' = (IF add_fire THEN Sampled ELSE IF completes THEN NoCta ELSE cta)
                       /\ launched' = (IF add_fire THEN launched + 1 ELSE launched)
                       /\ (cta_out' <=> completes)
      /\ done' = IF cta_out THEN done + 1 ELSE done
  BY DEF CoreCycle, CoreReset, CtaUpdate, AddFire, DispatchReady, MayComplete
<1>6. a2 \in Nat /\ a2 \div 4 = (IF Start' THEN a \div 4 + 1 ELSE a \div 4) /\ a \div 4 \in Nat
  <2>1. CASE a2 = a
    <3>1. ~Start'
      BY <2>1
    <3> QED
      BY <2>1, <3>1, Quarters
  <2>2. CASE a2 = a + 1
    BY <2>2, Fourths, Quarters
  <2> QED
    BY <2>1, <2>2
\* The start.
<1>7. CASE Start
  <2>1. /\ launched = seen /\ done = seen /\ a \div 4 = seen + 1 /\ cta = NoCta /\ ~cta_out
        /\ ~add_fire /\ ~completes /\ a2 = a /\ ~Start' /\ ~CgraReset
    BY <1>2, <1>3, <1>4, <1>5, <1>7
  <2>2. add_fire' /\ launched' = launched /\ cta' = NoCta /\ ~cta_out' /\ done' = done /\ ~complete'
    BY <1>5, <1>7, <2>1
  <2> QED
    BY <1>1, <2>1, <2>2 DEF CoreInv, One
\* The dispatch data is read.
<1>8. CASE add_fire
  <2>1. /\ launched = seen /\ done = seen /\ a \div 4 = seen + 1 /\ cta = NoCta /\ ~cta_out
        /\ ~Start /\ ~completes /\ ~CgraReset /\ a % 4 = 0
    BY <1>2, <1>3, <1>4, <1>5, <1>8
  <2>2. ~complete
    BY <1>1, <2>1
  <2>3. Sampled = [start_pc |-> launched + 1, thread_count |-> launched + 1]
    BY <1>3, <2>1, Fourths DEF Sampled
  <2>4. /\ ~add_fire' /\ launched' = launched + 1 /\ cta' = Sampled /\ ~cta_out' /\ done' = done
        /\ ~complete' /\ ~Start'
    BY <1>5, <1>8, <2>1, <2>2
  <2>5. a2 \div 4 = launched'
    BY <1>6, <2>1, <2>4
  <2> QED
    BY <1>1, <2>1, <2>3, <2>4, <2>5 DEF CoreInv, One
<1>9. CASE ~Start /\ ~add_fire
  <2>1. a \div 4 = launched /\ ~add_fire' /\ launched' = launched /\ (cta_out' => completes)
    BY <1>2, <1>5, <1>9
  <2>2. a2 \div 4 = launched' + One(Start' \/ add_fire')
    BY <1>1, <1>6, <2>1 DEF One
  <2>3. cta' # NoCta =>
          /\ cta' = [start_pc |-> launched', thread_count |-> launched'] /\ launched' = done' + 1
          /\ ~cta_out'
    BY <1>1, <1>5, <1>9, <2>1
  <2>4. cta_out' => launched' = done' + 1
    BY <1>1, <1>5, <1>9, <2>1
  <2>5. done' \in Nat /\ done <= done' /\ done' <= launched' /\ launched' <= done' + 1
    BY <1>1, <1>5, <2>1
  <2>6. complete' /\ ~Start' => done' = a2 \div 4
    BY <1>1, <1>5, <1>6, <1>9, <2>1
  <2>7. seen' <= done'
    BY <1>1, <2>5
  <2> QED
    BY <1>1, <2>1, <2>2, <2>3, <2>4, <2>5, <2>6, <2>7 DEF CoreInv
<1> QED
  BY <1>7, <1>8, <1>9
-----------------------------------------------------------------------------
(* The polls. *)

LEMMA OneNat ==
  ASSUME NEW b \in BOOLEAN
  PROVE  One(b) \in 0 .. 1 /\ (b => One(b) = 1) /\ (~b => One(b) = 0)
BY DEF One

\* u has the items of s but the first o of them, and then those of t.
Shifted(u, s, o, t) ==
  /\ Len(u) = Len(s) - o + Len(t) /\ o <= Len(s)
  /\ \A j \in 1 .. Len(s) - o : u[j] = s[j + o]
  /\ \A j \in 1 .. Len(t) : u[Len(s) - o + j] = t[j]

\* What is in a FIFO after a clock.
LEMMA AfterAt ==
  ASSUME NEW S, NEW s \in Seq(S), NEW t \in Seq(S), NEW taken \in BOOLEAN, taken => s # << >>
  PROVE  After(s, taken) \o t \in Seq(S) /\ Shifted(After(s, taken) \o t, s, One(taken), t)
<1> DEFINE v == After(s, taken)
           o == One(taken)
           n == Len(s)
           u == v \o t
<1>1. n \in Nat /\ o \in 0 .. 1
  BY OneNat, LenProperties
<1>2. o <= n /\ v \in Seq(S) /\ Len(v) = n - o /\ \A j \in 1 .. n - o : v[j] = s[j + o]
  <2>1. CASE taken
    <3>1. o = 1 /\ v = Tail(s)
      BY <2>1 DEF After, One
    <3>2. /\ n \in Nat \ {0} /\ Tail(s) \in Seq(S) /\ Len(Tail(s)) = n - 1
          /\ \A j \in 1 .. n - 1 : Tail(s)[j] = s[j + 1]
      BY <2>1, HeadTailProperties, EmptySeq, LenProperties
    <3> HIDE DEF v, o, n
    <3> QED
      BY <3>1, <3>2
  <2>2. CASE ~taken
    <3>1. o = 0 /\ v = s
      BY <2>2 DEF After, One
    <3> HIDE DEF v, o
    <3>2. \A j \in 1 .. n - o : v[j] = s[j + o]
      <4>1. \A j \in 1 .. n - o : j + o = j
        BY <1>1, <3>1
      <4> QED
        BY <3>1, <4>1
    <3> QED
      BY <1>1, <3>1, <3>2
  <2> QED
    BY <2>1, <2>2
<1> HIDE DEF v, o, n
<1>3. u \in Seq(S) /\ Len(u) = Len(v) + Len(t)
  BY <1>2, ConcatAt
<1>4. \A j \in 1 .. Len(v) : u[j] = v[j]
  BY <1>2, ConcatAt
<1>5. \A j \in 1 .. Len(t) : u[Len(v) + j] = t[j]
  BY <1>2, ConcatAt
<1> HIDE DEF u
<1>6. \A j \in 1 .. n - o : u[j] = s[j + o]
  BY <1>2, <1>4
<1>7. /\ u \in Seq(S) /\ Len(u) = n - o + Len(t) /\ o <= n
      /\ \A j \in 1 .. n - o : u[j] = s[j + o]
      /\ \A j \in 1 .. Len(t) : u[n - o + j] = t[j]
  BY <1>2, <1>3, <1>5, <1>6
<1> QED
  BY <1>7 DEF u, v, o, n, Shifted

\* u has the items of s but the first, if that is taken, and then x, if that is pushed.
Cycled(u, s, taken, pushed, x) ==
  /\ Len(u) = Len(s) - One(taken) + One(pushed) /\ One(taken) <= Len(s)
  /\ \A j \in 1 .. Len(s) - One(taken) : u[j] = s[j + One(taken)]
  /\ pushed => u[Len(s) - One(taken) + 1] = x

LEMMA WithAt ==
  ASSUME NEW S, NEW s \in Seq(S), NEW taken \in BOOLEAN, taken => s # << >>,
         NEW pushed \in BOOLEAN, NEW x, pushed => x \in S
  PROVE  /\ With(After(s, taken), pushed, x) \in Seq(S)
         /\ Cycled(With(After(s, taken), pushed, x), s, taken, pushed, x)
<1> DEFINE last == << x >>
           t == IF pushed THEN last ELSE << >>
           v == After(s, taken)
           u == With(v, pushed, x)
           w == v \o t
           n == Len(s) - One(taken)
<1>1. (pushed => last \in Seq(S)) /\ Len(last) = 1 /\ last[1] = x /\ << >> \in Seq(S)
  OBVIOUS
<1>2. v \in Seq(S) /\ (pushed => v \o last = Append(v, x))
  <2>1. v \in Seq(S)
    BY HeadTailProperties DEF After
  <2> HIDE DEF v
  <2> QED
    BY <2>1
<1> HIDE DEF last, v
<1>3. t \in Seq(S) /\ Len(t) = One(pushed) /\ (pushed => t[1] = x /\ 1 \in 1 .. Len(t))
  <2>1. CASE pushed
    <3>1. t = last /\ One(pushed) = 1
      BY <2>1 DEF One
    <3> HIDE DEF t
    <3>2. t \in Seq(S) /\ Len(t) = 1 /\ t[1] = x
      BY <1>1, <2>1, <3>1
    <3> QED
      BY <3>1, <3>2
  <2>2. CASE ~pushed
    <3>1. t = << >> /\ One(pushed) = 0 /\ Len(<< >>) = 0
      BY <2>2 DEF One
    <3> HIDE DEF t
    <3> QED
      BY <1>1, <2>2, <3>1
  <2> QED
    BY <2>1, <2>2
<1>4. u = w
  <2>1. CASE pushed
    BY <1>2, <2>1 DEF With
  <2>2. CASE ~pushed
    BY <1>2, <2>2, ConcatEmptySeq DEF With
  <2> QED
    BY <2>1, <2>2
<1> HIDE DEF t
<1>5. /\ w \in Seq(S) /\ Len(w) = n + Len(t) /\ One(taken) <= Len(s)
      /\ \A j \in 1 .. n : w[j] = s[j + One(taken)]
      /\ \A j \in 1 .. Len(t) : w[n + j] = t[j]
  <2>1. t \in Seq(S)
    BY <1>3
  <2>2. After(s, taken) \o t \in Seq(S) /\ Shifted(After(s, taken) \o t, s, One(taken), t)
    BY <2>1, AfterAt
  <2> QED
    BY <2>2 DEF v, Shifted
<1> HIDE DEF w, u, n
<1>6. /\ u \in Seq(S) /\ Len(u) = n + One(pushed) /\ One(taken) <= Len(s)
      /\ \A j \in 1 .. n : u[j] = s[j + One(taken)]
      /\ pushed => u[n + 1] = x
  BY <1>3, <1>4, <1>5
<1> QED
  BY <1>6 DEF u, n, v, Cycled

\* A clock of the registers and the host as far as the polls are concerned.
PollCycle(hears, taken, polled) ==
  /\ hears \in BOOLEAN /\ taken \in BOOLEAN /\ polled \in Seq(Nat)
  /\ (taken => ar_pending) /\ (hears => answers # <<>>)
  /\ polls' = After(polls, hears) \o polled
  /\ answers' = With(After(answers, hears), taken, complete)
  /\ ar_pending' = ((ar_pending /\ ~taken) \/ (ArValid /\ ArReady))
  /\ rd_desc' = With(After(rd_desc, ArValid /\ ArReady), ParsesRead, "STATUS")

\* What the stream, the registers and the core say of the polls in a clock.
PollsMove(p, q, heard, a, a2) ==
  /\ polls \in Seq(Nat) /\ ar_pending \in BOOLEAN /\ complete \in BOOLEAN
  /\ p.polled <= heard + Len(polls) /\ q.polled <= heard + Len(polls)
  /\ q.polled = p.polled + One(ParsesRead)
  /\ ParsesRead => 4 * polls[p.polled - heard + 1] <= a2
  /\ a2 \in {a, a + 1} /\ (Start' => a2 = a + 1)
  /\ done \in Nat /\ done' \in Nat /\ done <= done'
  /\ complete /\ ~Start => done = a \div 4
  /\ Start => a \div 4 = done + 1 /\ a % 4 = 0

LEMMA PollStep ==
  ASSUME NEW p \in Place, NEW q \in Place, NEW heard \in Nat, NEW a \in Nat, NEW a2,
         PollInv(p, a, heard), PollsMove(p, q, heard, a, a2),
         NEW hears, NEW taken, NEW polled, PollCycle(hears, taken, polled)
  PROVE  PollInv(q, a2, heard + One(hears))'
<1> DEFINE n == Len(answers)
           m == Len(polls)
           r == Len(rd_desc)
           c == p.polled - heard
           o == One(hears)
           t == One(taken)
           w == One(ar_pending)
           fire == ArValid /\ ArReady
           b == One(fire)
           x == One(ParsesRead)
<1>1. /\ answers \in Seq(BOOLEAN) /\ rd_desc \in Seq({"STATUS"})
      /\ p.polled = heard + n + w + r
      /\ \A j \in 1 .. n : answers[j] => polls[j] <= done
      /\ ar_pending /\ Start => 4 * polls[n + 1] < a
      /\ \A j \in 1 .. c : 4 * polls[j] <= a
  BY DEF PollInv
<1>2. /\ hears \in BOOLEAN /\ taken \in BOOLEAN /\ fire \in BOOLEAN /\ ParsesRead \in BOOLEAN
      /\ polled \in Seq(Nat) /\ (taken => ar_pending) /\ (hears => answers # << >>)
      /\ (fire => rd_desc # << >> /\ ~ar_pending)
      /\ (ar_pending' <=> (ar_pending /\ ~taken) \/ fire)
  BY DEF PollCycle, ArValid, ArReady, ParsesRead, Header
<1>0. /\ polls \in Seq(Nat) /\ ar_pending \in BOOLEAN /\ complete \in BOOLEAN
      /\ p.polled <= heard + m /\ q.polled <= heard + m /\ q.polled = p.polled + x
      /\ ParsesRead => 4 * polls[c + 1] <= a2
      /\ a2 \in {a, a + 1} /\ (Start' => a2 = a + 1)
      /\ done \in Nat /\ done' \in Nat /\ done <= done'
      /\ complete /\ ~Start => done = a \div 4
      /\ Start => a \div 4 = done + 1 /\ a % 4 = 0
  BY DEF PollsMove
<1>3. /\ n \in Nat /\ m \in Nat /\ r \in Nat /\ w \in 0 .. 1 /\ t \in 0 .. 1 /\ b \in 0 .. 1
      /\ o \in 0 .. 1 /\ x \in 0 .. 1 /\ p.polled \in Nat /\ q.polled \in Nat
  BY <1>0, <1>1, <1>2, OneNat, LenProperties, Fields
<1>4. c = n + w + r /\ c + x <= m /\ c \in Nat
  <2>1. p.polled = heard + n + w + r /\ q.polled <= heard + m /\ q.polled = p.polled + x
    BY <1>0, <1>1
  <2> HIDE DEF m, x, n, w, r
  <2> QED
    BY <1>3, <2>1
<1>5. o <= n /\ answers' \in Seq(BOOLEAN) /\ Len(answers') = n - o + t
      /\ (\A j \in 1 .. n - o : answers'[j] = answers[j + o])
      /\ (taken => answers'[n - o + 1] = complete)
  <2>1. Cycled(With(After(answers, hears), taken, complete), answers, hears, taken, complete)
        /\ With(After(answers, hears), taken, complete) \in Seq(BOOLEAN)
    BY <1>0, <1>1, <1>2, WithAt
  <2>2. Cycled(answers', answers, hears, taken, complete) /\ answers' \in Seq(BOOLEAN)
    BY <2>1 DEF PollCycle
  <2> QED
    BY <2>2 DEF Cycled
<1>6. rd_desc' \in Seq({"STATUS"}) /\ Len(rd_desc') = r - b + x
  <2>1. Cycled(With(After(rd_desc, fire), ParsesRead, "STATUS"), rd_desc, fire, ParsesRead, "STATUS")
        /\ With(After(rd_desc, fire), ParsesRead, "STATUS") \in Seq({"STATUS"})
    <3> HIDE DEF fire
    <3> QED
      BY <1>1, <1>2, WithAt
  <2>2. Cycled(rd_desc', rd_desc, fire, ParsesRead, "STATUS") /\ rd_desc' \in Seq({"STATUS"})
    BY <2>1 DEF PollCycle
  <2> QED
    BY <2>2 DEF Cycled
<1>7. \A j \in 1 .. m - o : polls'[j] = polls[j + o]
  <2>1. polls # << >> \/ ~hears
    <3>1. hears => n # 0
      BY <1>1, <1>2, EmptySeq
    <3>2. m # 0 => polls # << >>
      OBVIOUS
    <3> HIDE DEF m, n, w, r, c, x
    <3> QED
      BY <1>3, <1>4, <3>1, <3>2
  <2>2. Shifted(After(polls, hears) \o polled, polls, o, polled)
    BY <1>0, <1>2, <2>1, AfterAt
  <2> QED
    BY <2>2 DEF Shifted, PollCycle
<1>8. \A j \in 1 .. m : polls[j] \in Nat
  BY <1>0, ElementOfSeq
<1>9. (fire => r > 0 /\ b = 1 /\ w = 0) /\ (~fire => b = 0) /\ (taken => t = 1 /\ w = 1)
      /\ (~taken => t = 0) /\ (ar_pending => w = 1) /\ (~ar_pending => w = 0)
  <2>1. fire => r # 0
    BY <1>1, <1>2, EmptySeq
  <2>2. (fire => b = 1) /\ (~fire => b = 0)
    BY DEF One
  <2>3. (taken => t = 1) /\ (~taken => t = 0)
    BY DEF One
  <2>4. (ar_pending => w = 1) /\ (~ar_pending => w = 0)
    BY DEF One
  <2> HIDE DEF fire, b, t, w, r
  <2> QED
    BY <1>2, <1>3, <2>1, <2>2, <2>3, <2>4
<1>10. One(ar_pending)' = w - t + b
  <2>1. One(ar_pending)' = IF ar_pending' THEN 1 ELSE 0
    BY DEF One
  <2> HIDE DEF w, t, b, fire, r
  <2> QED
    BY <1>2, <1>9, <2>1
<1>11. ar_pending' => ~taken /\ n + 1 <= c
  <2> HIDE DEF w, t, b, fire, r, c, n
  <2> QED
    BY <1>2, <1>3, <1>4, <1>9
<1>12. q.polled - (heard + o) = c - o + x /\ q.polled = heard + o + Len(answers') + One(ar_pending)' + Len(rd_desc')
  <2>1. /\ q.polled = p.polled + x /\ p.polled = heard + n + w + r /\ Len(answers') = n - o + t
        /\ Len(rd_desc') = r - b + x /\ One(ar_pending)' = w - t + b
    BY <1>0, <1>1, <1>5, <1>6, <1>10
  <2>2. c = p.polled - heard
    OBVIOUS
  <2> HIDE DEF w, t, b, fire, r, n, o, x, c
  <2> QED
    BY <1>3, <2>1, <2>2
<1> HIDE DEF n, m, r, o, t, w, fire, b, x, c
<1>13. ASSUME NEW j \in 1 .. Len(answers'), answers'[j]
       PROVE  polls'[j] <= done'
  <2>1. CASE j \in 1 .. n - o
    <3>1. j + o \in 1 .. n /\ j \in 1 .. m - o /\ j + o \in 1 .. m
      BY <1>3, <1>4, <2>1
    <3>2. polls[j + o] <= done /\ polls'[j] = polls[j + o] /\ polls[j + o] \in Nat
      BY <1>1, <1>5, <1>7, <1>8, <1>13, <2>1, <3>1
    <3> QED
      BY <1>0, <3>2, AtMostThrough
  <2>2. CASE j \notin 1 .. n - o
    <3>1. taken /\ j = n - o + 1 /\ n + 1 \in 1 .. c /\ j \in 1 .. m - o /\ j + o = n + 1 /\ n + 1 \in 1 .. m
      BY <1>3, <1>4, <1>5, <1>9, <2>2
    <3>2. complete /\ ar_pending
      BY <1>2, <1>5, <1>13, <3>1
    <3> DEFINE k == polls[n + 1]
    <3>3. k \in Nat /\ 4 * k <= a /\ (Start => 4 * k < a)
      BY <1>1, <1>8, <3>1, <3>2
    <3>4. polls'[j] = k
      BY <1>7, <3>1
    <3> HIDE DEF k
    <3>5. k <= done
      BY <1>0, <3>2, <3>3, Quarters
    <3> QED
      BY <1>0, <3>3, <3>4, <3>5, AtMostThrough
  <2> QED
    BY <2>1, <2>2
<1>14. ASSUME ar_pending', Start'
       PROVE  4 * polls'[Len(answers') + 1] < a2
  <2>1. n + 1 \in 1 .. c /\ Len(answers') + 1 \in 1 .. m - o /\ (Len(answers') + 1) + o = n + 1
        /\ n + 1 \in 1 .. m
    BY <1>3, <1>4, <1>5, <1>9, <1>11, <1>14
  <2>2. 4 * polls[n + 1] <= a /\ polls[n + 1] \in Nat /\ a2 = a + 1
    BY <1>0, <1>1, <1>8, <1>14, <2>1
  <2>3. polls'[Len(answers') + 1] = polls[n + 1]
    BY <1>7, <2>1
  <2> QED
    BY <1>0, <2>2, <2>3
<1>15. ASSUME NEW j \in 1 .. q.polled - (heard + o)
       PROVE  4 * polls'[j] <= a2
  <2>1. j \in 1 .. m - o /\ j + o \in 1 .. m /\ j + o \in 1 .. c + x
    BY <1>3, <1>4, <1>12
  <2>2. polls'[j] = polls[j + o] /\ polls[j + o] \in Nat
    BY <1>7, <1>8, <2>1
  <2>3. CASE j + o \in 1 .. c
    <3>1. 4 * polls[j + o] <= a
      BY <1>1, <2>3
    <3> QED
      BY <1>0, <2>2, <3>1
  <2>4. CASE j + o \notin 1 .. c
    <3>1. x = 1 /\ j + o = c + 1
      BY <1>3, <1>4, <2>1, <2>4
    <3>2. ParsesRead
      BY <3>1 DEF x, One
    <3>3. 4 * polls[j + o] <= a2
      BY <1>0, <3>1, <3>2
    <3> QED
      BY <2>2, <3>3
  <2> QED
    BY <2>3, <2>4
<1> QED
  BY <1>5, <1>6, <1>12, <1>13, <1>14, <1>15 DEF PollInv, o
-----------------------------------------------------------------------------
(* The beats. *)

LEMMA RestIs ==
  ASSUME NEW r \in Rest
  PROVE  r.left \in Nat /\ r.next \in Nat /\ r.next > 0 /\ r = [left |-> r.left, next |-> r.next]
BY DEF Rest

\* A beat goes on to the next burst, or not.
LEMMA ReplaysOn ==
  ASSUME NEW r \in Rest, NEW beat, NEW R, NEW q \in Rest, Replays(r, beat, R, q)
  PROVE  r.next <= q.next
<1>1. r.next \in Nat
  BY DEF Rest
<1>2. CASE r.left > 0
  BY <1>1, <1>2 DEF Replays
<1>3. CASE ~(r.left > 0)
  BY <1>1, <1>3 DEF Replays
<1> QED
  BY <1>2, <1>3

\* The next burst goes on the channel.
LEMMA ReplayStart ==
  ASSUME NEW D \in Seq(Nat), D # <<>>, NEW S, NEW R \in Seq(S), R # <<>>,
         \A i \in 1 .. Len(R) : R[i].left \in Nat /\ R[i].left > 0,
         NEW last \in Rest, Replay(D, R, 0, last)
  PROVE  /\ last.next > 1
         /\ Replay(D, Tail(R), Head(R).left, [left |-> last.left, next |-> last.next - 1])
<1> DEFINE n == Len(D)
           m == Len(R)
<1>1. n \in Nat \ {0} /\ m \in Nat \ {0} /\ Len(Tail(R)) = m - 1 /\ Head(R) = R[1]
      /\ \A i \in 1 .. m - 1 : Tail(R)[i] = R[i + 1]
  BY LenProperties, EmptySeq, HeadTailProperties
<1>2. PICK h \in [0 .. n -> Rest] :
        /\ h[0] = [left |-> 0, next |-> 1] /\ h[n] = last
        /\ \A i \in 1 .. n : Replays(h[i - 1], D[i], R, h[i])
        /\ \A i, j \in 0 .. n : i <= j => h[i].next <= h[j].next
  BY DEF Replay
<1> DEFINE k == [i \in 0 .. n |-> IF i = 0 THEN [left |-> R[1].left, next |-> 1]
                                 ELSE [left |-> h[i].left, next |-> h[i].next - 1]]
           T == Tail(R)
<1> HIDE DEF n, m
<1>3. /\ 0 \in 0 .. n /\ 1 \in 1 .. n /\ 1 - 1 = 0 /\ 1 \in 0 .. n /\ n \in 1 .. n /\ n \in 0 .. n
      /\ 1 \in 1 .. m
  BY <1>1
<1>4. h[1] = [left |-> D[1] - 1, next |-> 2] /\ D[1] = R[1].left
  <2>1. Replays(h[0], D[1], R, h[1])
    BY <1>2, <1>3
  <2>2. h[0].left = 0 /\ h[0].next = 1
    BY <1>2
  <2> QED
    BY <2>1, <2>2 DEF Replays
<1>5. \A i \in 1 .. n : h[i] \in Rest /\ h[i].left \in Nat /\ h[i].next \in Nat /\ h[i].next > 1
  <2> TAKE i \in 1 .. n
  <2>1. i \in 0 .. n /\ 1 \in 0 .. n /\ 1 <= i
    BY <1>1
  <2>2. h[i] \in Rest /\ h[1].next <= h[i].next
    BY <1>2, <2>1
  <2>3. h[1].next = 2
    BY <1>4
  <2> QED
    BY <2>2, <2>3, RestIs
<1>6. R[1].left \in Nat /\ R[1].left > 0
  <2>1. 1 \in 1 .. Len(R)
    BY <1>3 DEF m
  <2> QED
    BY <2>1
<1>7. /\ k \in [0 .. n -> Rest] /\ k[0] = [left |-> R[1].left, next |-> 1]
      /\ \A i \in 1 .. n : k[i] = [left |-> h[i].left, next |-> h[i].next - 1]
  <2>1. k[0] = [left |-> R[1].left, next |-> 1]
    BY <1>3
  <2>2. ASSUME NEW i \in 1 .. n PROVE k[i] = [left |-> h[i].left, next |-> h[i].next - 1]
    <3>1. i \in 0 .. n /\ i # 0
      BY <1>1
    <3> QED
      BY <3>1
  <2>3. ASSUME NEW i \in 0 .. n PROVE k[i] \in Rest
    <3>1. CASE i = 0
      BY <1>6, <2>1, <3>1 DEF Rest
    <3>2. CASE i # 0
      <4>1. i \in 1 .. n
        BY <1>1, <3>2
      <4>2. h[i].left \in Nat /\ h[i].next - 1 \in Nat \ {0}
        BY <1>5, <4>1
      <4> QED
        BY <2>2, <4>1, <4>2 DEF Rest
    <3> QED
      BY <3>1, <3>2
  <2> QED
    BY <2>1, <2>2, <2>3
<1> HIDE DEF k
<1>8. ASSUME NEW i \in 1 .. n
      PROVE  Replays(k[i - 1], D[i], T, k[i])
  <2>1. CASE i = 1
    <3>1. i - 1 = 0 /\ k[i] = [left |-> D[1] - 1, next |-> 1]
      <4>1. k[1] = [left |-> h[1].left, next |-> h[1].next - 1]
        BY <1>3, <1>7
      <4>2. h[1].left = D[1] - 1 /\ h[1].next - 1 = 1
        BY <1>4
      <4> QED
        BY <2>1, <4>1, <4>2
    <3>2. k[i - 1].left = R[1].left /\ k[i - 1].next = 1 /\ D[i] = R[1].left
      BY <1>4, <1>7, <2>1, <3>1
    <3> QED
      BY <1>4, <1>6, <3>1, <3>2 DEF Replays
  <2>2. CASE i # 1
    <3>1. i - 1 \in 1 .. n
      BY <1>1, <2>2
    <3> DEFINE r == h[i - 1]
    <3>2. /\ Replays(r, D[i], R, h[i]) /\ r \in Rest /\ r.left \in Nat /\ r.next \in Nat /\ r.next > 1
          /\ k[i - 1] = [left |-> r.left, next |-> r.next - 1]
          /\ k[i] = [left |-> h[i].left, next |-> h[i].next - 1]
      BY <1>2, <1>5, <1>7, <3>1
    <3> HIDE DEF r
    <3>3. k[i - 1].left = r.left /\ k[i - 1].next = r.next - 1
      BY <3>2
    <3>4. CASE r.left > 0
      <4>1. D[i] = r.left /\ h[i].left = r.left - 1 /\ h[i].next = r.next
        BY <3>2, <3>4 DEF Replays
      <4> QED
        BY <3>2, <3>3, <3>4, <4>1 DEF Replays
    <3>5. CASE ~(r.left > 0)
      <4>1. r.next \in 1 .. m /\ D[i] = R[r.next].left /\ h[i].left = D[i] - 1 /\ h[i].next = r.next + 1
        BY <3>2, <3>5, SMTT(30) DEF Replays, m
      <4>2. r.next - 1 \in 1 .. m - 1 /\ (r.next - 1) + 1 = r.next /\ (r.next + 1) - 1 = (r.next - 1) + 1
        <5> DEFINE z == r.next
        <5>1. z \in 1 .. m /\ z > 1 /\ z \in Nat /\ m \in Nat
          BY <1>1, <3>2, <4>1
        <5> HIDE DEF z
        <5>2. z - 1 \in 1 .. m - 1 /\ (z - 1) + 1 = z /\ (z + 1) - 1 = (z - 1) + 1
          BY <5>1
        <5> QED
          BY <5>2 DEF z
      <4>3. T[r.next - 1] = R[r.next] /\ Len(T) = m - 1
        BY <1>1, <4>2
      <4>4. k[i] = [left |-> D[i] - 1, next |-> (r.next - 1) + 1]
        BY <3>2, <4>1, <4>2
      <4> HIDE DEF T
      <4> QED
        BY <3>3, <3>5, <4>1, <4>2, <4>3, <4>4 DEF Replays
    <3> QED
      BY <3>4, <3>5
  <2> QED
    BY <2>1, <2>2
<1>9. ASSUME NEW i \in 0 .. n, NEW j \in 0 .. n, i <= j
      PROVE  k[i].next <= k[j].next
  <2>1. CASE i = 0
    <3>1. k[j] \in Rest /\ k[i].next = 1
      BY <1>7, <2>1
    <3>2. k[j].next \in Nat /\ k[j].next > 0
      BY <3>1, RestIs
    <3> QED
      BY <3>1, <3>2
  <2>2. CASE i # 0
    <3>1. i \in 1 .. n /\ j \in 1 .. n
      BY <1>1, <1>9, <2>2
    <3>2. h[i].next <= h[j].next /\ h[i].next \in Nat /\ h[j].next \in Nat
      <4>1. h[i].next \in Nat /\ h[j].next \in Nat
        BY <1>5, <3>1
      <4>2. h[i].next <= h[j].next
        BY <1>2, <1>9
      <4> QED
        BY <4>1, <4>2
    <3>3. k[i].next = h[i].next - 1 /\ k[j].next = h[j].next - 1
      <4>1. k[i] = [left |-> h[i].left, next |-> h[i].next - 1]
        BY <1>7, <3>1
      <4>2. k[j] = [left |-> h[j].left, next |-> h[j].next - 1]
        BY <1>7, <3>1
      <4> QED
        BY <4>1, <4>2
    <3> QED
      BY <3>2, <3>3
  <2> QED
    BY <2>1, <2>2
<1>10. last.next > 1 /\ k[n] = [left |-> last.left, next |-> last.next - 1]
  BY <1>2, <1>3, <1>5, <1>7
<1>11. k[0] = [left |-> Head(R).left, next |-> 1]
  BY <1>1, <1>7
<1> QED
  BY <1>7, <1>8, <1>9, <1>10, <1>11 DEF Replay, n, T

\* The first beat is taken.
LEMMA ReplayTake ==
  ASSUME NEW D \in Seq(Nat), D # <<>>, NEW R, NEW b \in Nat, b > 0, NEW last, Replay(D, R, b, last)
  PROVE  Head(D) = b /\ Replay(Tail(D), R, b - 1, last)
<1> DEFINE n == Len(D)
           T == Tail(D)
<1>1. n \in Nat \ {0} /\ Len(T) = n - 1 /\ Head(D) = D[1]
      /\ \A i \in 1 .. n - 1 : T[i] = D[i + 1]
  BY LenProperties, EmptySeq, HeadTailProperties
<1>2. PICK h \in [0 .. n -> Rest] :
        /\ h[0] = [left |-> b, next |-> 1] /\ h[n] = last
        /\ \A i \in 1 .. n : Replays(h[i - 1], D[i], R, h[i])
        /\ \A i, j \in 0 .. n : i <= j => h[i].next <= h[j].next
  BY DEF Replay
<1> DEFINE k == [i \in 0 .. n - 1 |-> h[i + 1]]
<1> HIDE DEF n, T
<1>3. D[1] = b /\ h[1] = [left |-> b - 1, next |-> 1]
  <2>1. 1 \in 1 .. n /\ 1 - 1 = 0
    BY <1>1
  <2>2. Replays(h[0], D[1], R, h[1]) /\ h[0].left = b /\ h[0].next = 1
    BY <1>2, <2>1
  <2> QED
    BY <2>2 DEF Replays
<1>4. k \in [0 .. n - 1 -> Rest] /\ \A i \in 0 .. n - 1 : k[i] = h[i + 1]
  <2>1. \A i \in 0 .. n - 1 : i + 1 \in 0 .. n
    BY <1>1
  <2> QED
    BY <1>2, <2>1
<1> HIDE DEF k
<1>5. ASSUME NEW i \in 1 .. n - 1
      PROVE  Replays(k[i - 1], T[i], R, k[i])
  <2>1. /\ i + 1 \in 1 .. n /\ (i + 1) - 1 = i /\ i - 1 \in 0 .. n - 1 /\ (i - 1) + 1 = i
        /\ i \in 0 .. n - 1
    BY <1>1
  <2>2. k[i - 1] = h[i] /\ k[i] = h[i + 1] /\ T[i] = D[i + 1]
    BY <1>1, <1>4, <2>1
  <2>3. Replays(h[i], D[i + 1], R, h[i + 1])
    BY <1>2, <2>1
  <2> QED
    BY <2>2, <2>3
<1>8. ASSUME NEW i \in 0 .. n - 1, NEW j \in 0 .. n - 1, i <= j
      PROVE  k[i].next <= k[j].next
  <2>1. i + 1 \in 0 .. n /\ j + 1 \in 0 .. n /\ i + 1 <= j + 1
    BY <1>1, <1>8
  <2> QED
    BY <1>2, <1>4, <2>1
<1>6. k[0] = [left |-> b - 1, next |-> 1] /\ k[n - 1] = last
  <2>1. 0 \in 0 .. n - 1 /\ 0 + 1 = 1 /\ n - 1 \in 0 .. n - 1 /\ (n - 1) + 1 = n
    BY <1>1
  <2> QED
    BY <1>2, <1>3, <1>4, <2>1
<1>7. Replay(T, R, b - 1, last)
  BY <1>1, <1>4, <1>5, <1>6, <1>8 DEF Replay
<1> QED
  BY <1>1, <1>3, <1>7 DEF T

\* A beat comes in at the end.
LEMMA ReplayBeat ==
  ASSUME NEW S, NEW D \in Seq(S), NEW R, NEW b, NEW last \in Rest, Replay(D, R, b, last),
         NEW x \in S, NEW q \in Rest, Replays(last, x, R, q)
  PROVE  Replay(Append(D, x), R, b, q)
<1> DEFINE n == Len(D)
           E == Append(D, x)
<1>1. n \in Nat /\ Len(E) = n + 1 /\ E[n + 1] = x /\ \A i \in 1 .. n : E[i] = D[i]
  BY LenProperties, AppendProperties
<1>2. PICK h \in [0 .. n -> Rest] :
        /\ h[0] = [left |-> b, next |-> 1] /\ h[n] = last
        /\ \A i \in 1 .. n : Replays(h[i - 1], D[i], R, h[i])
        /\ \A i, j \in 0 .. n : i <= j => h[i].next <= h[j].next
  BY DEF Replay
<1> DEFINE k == [i \in 0 .. n + 1 |-> IF i <= n THEN h[i] ELSE q]
<1> HIDE DEF n, E
<1>3. k \in [0 .. n + 1 -> Rest] /\ k[n + 1] = q /\ \A i \in 0 .. n : k[i] = h[i]
  BY <1>1, <1>2
<1> HIDE DEF k
<1>4. ASSUME NEW i \in 1 .. n + 1
      PROVE  Replays(k[i - 1], E[i], R, k[i])
  <2>1. CASE i \in 1 .. n
    <3>1. i - 1 \in 0 .. n /\ i \in 0 .. n
      BY <1>1, <2>1
    <3> QED
      BY <1>1, <1>2, <1>3, <2>1, <3>1
  <2>2. CASE i \notin 1 .. n
    <3>1. i = n + 1 /\ i - 1 = n /\ n \in 0 .. n
      BY <1>1, <2>2
    <3> QED
      BY <1>1, <1>2, <1>3, <3>1
  <2> QED
    BY <2>1, <2>2
<1>5. ASSUME NEW i \in 0 .. n + 1, NEW j \in 0 .. n + 1, i <= j
      PROVE  k[i].next <= k[j].next
  <2>1. CASE j \in 0 .. n
    <3>1. i \in 0 .. n
      BY <1>1, <1>5, <2>1
    <3> QED
      BY <1>2, <1>3, <1>5, <2>1, <3>1
  <2>2. CASE i \in 0 .. n /\ j \notin 0 .. n
    <3>1. j = n + 1 /\ n \in 0 .. n /\ i <= n
      BY <1>1, <2>2
    <3>2. k[i] = h[i] /\ k[j] = q /\ h[i].next <= last.next /\ h[i] \in Rest
      BY <1>2, <1>3, <2>2, <3>1
    <3>3. last.next <= q.next
      BY ReplaysOn
    <3>4. h[i].next \in Nat /\ last.next \in Nat /\ q.next \in Nat
      BY <3>2, RestIs
    <3>5. h[i].next <= q.next
      BY <3>2, <3>3, <3>4, AtMostThrough
    <3> QED
      BY <3>2, <3>5
  <2>3. CASE i \notin 0 .. n
    <3>1. i = n + 1 /\ j = n + 1
      BY <1>1, <1>5, <2>3
    <3>2. q.next \in Nat
      BY RestIs
    <3>3. q.next <= q.next
      BY <3>2
    <3> QED
      BY <1>3, <3>1, <3>3
  <2> QED
    BY <2>1, <2>2, <2>3
<1>6. k[0] = [left |-> b, next |-> 1]
  <2>1. 0 \in 0 .. n
    BY <1>1
  <2> QED
    BY <1>2, <1>3, <2>1
<1>7. Replay(E, R, b, q)
  BY <1>1, <1>3, <1>4, <1>5, <1>6 DEF Replay
<1> QED
  BY <1>7 DEF E

\* A further burst does not change those before.
LEMMA ReplayBurst ==
  ASSUME NEW D, NEW S, NEW R \in Seq(S), NEW b, NEW last, Replay(D, R, b, last), NEW y \in S
  PROVE  Replay(D, Append(R, y), b, last)
<1> DEFINE n == Len(D)
           A == Append(R, y)
<1>1. Len(R) \in Nat /\ Len(A) = Len(R) + 1 /\ \A i \in 1 .. Len(R) : A[i] = R[i]
  BY LenProperties, AppendProperties
<1>2. PICK h \in [0 .. n -> Rest] :
        /\ h[0] = [left |-> b, next |-> 1] /\ h[n] = last
        /\ \A i \in 1 .. n : Replays(h[i - 1], D[i], R, h[i])
        /\ \A i, j \in 0 .. n : i <= j => h[i].next <= h[j].next
  BY DEF Replay
<1> HIDE DEF A
<1>3. ASSUME NEW r, NEW x, NEW q, Replays(r, x, R, q)
      PROVE  Replays(r, x, A, q)
  <2>1. CASE r.left > 0
    BY <1>3, <2>1 DEF Replays
  <2>2. CASE ~(r.left > 0)
    <3>1. r.next \in 1 .. Len(R) /\ x = R[r.next].left /\ q = [left |-> x - 1, next |-> r.next + 1]
      BY <1>3, <2>2 DEF Replays
    <3>2. r.next \in 1 .. Len(A) /\ A[r.next] = R[r.next]
      BY <1>1, <3>1
    <3> QED
      BY <2>2, <3>1, <3>2 DEF Replays
  <2> QED
    BY <2>1, <2>2
<1>4. \A i \in 1 .. n : Replays(h[i - 1], D[i], A, h[i])
  BY <1>2, <1>3
<1>5. Replay(D, A, b, last)
  BY <1>2, <1>4 DEF Replay
<1> QED
  BY <1>5 DEF A

\* What the parser does to the beats.
BeatMoves ==
  /\ ParsesResp => /\ state = "RX_IDLE" /\ state' = "RX_R_DATA" /\ ~ParsesRData
                   /\ beats_left' = Head(link).burst.left
                   /\ Head(link).burst.left = Beats[Head(link).burst.unit]
  /\ ParsesRData => /\ state = "RX_R_DATA" /\ beats_left \in Nat /\ beats_left > 0
                    /\ Head(link).word = beats_left /\ beats_left' = beats_left - 1
                    /\ state' = IF beats_left = 1 THEN "RX_IDLE" ELSE "RX_R_DATA"
  /\ ~ParsesResp /\ ~ParsesRData =>
       /\ (state' = "RX_R_DATA" <=> state = "RX_R_DATA")
       /\ (state = "RX_R_DATA" => beats_left' = beats_left)

LEMMA MovesBeat ==
  ASSUME NEW p, NEW q, Moves(p, q)
  PROVE  BeatMoves
<1>1. /\ p \in Place /\ q \in Place /\ p.state = state /\ q.state = state'
      /\ p.left = beats_left /\ q.left = beats_left'
  BY DEF Moves
<1>2. p.left \in Nat
  BY <1>1, Fields
<1>3. CASE /\ q = p /\ ~ParsesWrite /\ ~ParsesRead /\ ~ParsesResp /\ ~ParsesWData /\ ~ParsesRData
  BY <1>1, <1>3 DEF BeatMoves
<1>4. CASE /\ TakesWrite(p, Head(link), q)
           /\ ParsesWrite /\ ~ParsesRead /\ ~ParsesResp /\ ~ParsesWData /\ ~ParsesRData
  <2>1. p.state = "RX_IDLE" /\ q.state = "RX_WR_DATA"
    BY <1>1, <1>4 DEF TakesWrite, Place
  <2> QED
    BY <1>1, <1>4, <2>1 DEF BeatMoves
<1>5. CASE /\ TakesRead(p, Head(link), q)
           /\ ~ParsesWrite /\ ParsesRead /\ ~ParsesResp /\ ~ParsesWData /\ ~ParsesRData
  <2>1. p.state = "RX_IDLE" /\ q.state = "RX_IDLE"
    BY <1>1, <1>5 DEF TakesRead, Place
  <2> QED
    BY <1>1, <1>5, <2>1 DEF BeatMoves
<1>6. CASE /\ TakesResp(p, Head(link), q)
           /\ ~ParsesWrite /\ ~ParsesRead /\ ParsesResp /\ ~ParsesWData /\ ~ParsesRData
  <2> DEFINE f == Head(link)
  <2>1. /\ p.state = "RX_IDLE" /\ f.burst.left = Beats[f.burst.unit]
        /\ q = [p EXCEPT !.state = "RX_R_DATA", !.left = f.burst.left]
    BY <1>6 DEF TakesResp
  <2> HIDE DEF f
  <2>2. q.state = "RX_R_DATA" /\ q.left = f.burst.left
    BY <1>1, <2>1 DEF Place
  <2> QED
    BY <1>1, <1>6, <2>1, <2>2 DEF BeatMoves, f
<1>7. CASE /\ TakesWData(p, Head(link), q)
           /\ ~ParsesWrite /\ ~ParsesRead /\ ~ParsesResp /\ ParsesWData /\ ~ParsesRData
  <2>1. p.state = "RX_WR_DATA" /\ q.state = "RX_IDLE"
    BY <1>1, <1>7 DEF TakesWData, Place
  <2> QED
    BY <1>1, <1>7, <2>1 DEF BeatMoves
<1>8. CASE /\ TakesRData(p, Head(link), q)
           /\ ~ParsesWrite /\ ~ParsesRead /\ ~ParsesResp /\ ~ParsesWData /\ ParsesRData
  <2> DEFINE f == Head(link)
  <2>1. /\ p.state = "RX_R_DATA" /\ p.left > 0 /\ f.word = p.left
        /\ q = [p EXCEPT !.state = IF p.left = 1 THEN "RX_IDLE" ELSE @, !.left = @ - 1]
    BY <1>8 DEF TakesRData
  <2> HIDE DEF f
  <2>2. q.state = (IF p.left = 1 THEN "RX_IDLE" ELSE "RX_R_DATA") /\ q.left = p.left - 1
    BY <1>1, <2>1 DEF Place
  <2> QED
    BY <1>1, <1>2, <1>8, <2>1, <2>2 DEF BeatMoves, f
<1> QED
  BY <1>3, <1>4, <1>5, <1>6, <1>7, <1>8 DEF Moves

\* A clock of the R channel; fires: a beat is taken from it.
BeatCycle(fires) ==
  /\ fires \in BOOLEAN /\ (fires => RValid)
  /\ r_desc' = With(After(r_desc, RStarts), ParsesResp, Head(link).burst)
  /\ r_data' = With(After(r_data, fires), ParsesRData, Head(link).word)
  /\ r_burst' = IF fires THEN [RBurst EXCEPT !.left = @ - 1] ELSE IF RStarts THEN RBurst ELSE r_burst

LEMMA BurstsAre ==
  ASSUME BurstsInv
  PROVE  /\ r_data \in Seq(Nat) /\ r_burst.left \in Nat /\ r_burst.unit \in Unit
         /\ \A i \in 1 .. Len(r_desc) :
              r_desc[i].left \in Nat /\ r_desc[i].left > 0 /\ r_desc[i].unit \in Unit
<1>1. Word \subseteq Nat
  BY WordAssumption
<1>2. r_data \in Seq(Nat) /\ r_burst.left \in Nat /\ r_burst.unit \in Unit
  BY <1>1, SeqMonotonic DEF BurstsInv, Burst
<1>3. ASSUME NEW i \in 1 .. Len(r_desc)
      PROVE  r_desc[i].left \in Nat /\ r_desc[i].left > 0 /\ r_desc[i].unit \in Unit
  <2>1. r_desc[i] \in Burst /\ r_desc[i].left = Beats[r_desc[i].unit]
    BY ElementOfSeq DEF BurstsInv
  <2>2. r_desc[i].unit \in Unit
    BY <2>1 DEF Burst
  <2>3. Beats[r_desc[i].unit] \in Nat \ {0}
    BY <2>2, BeatsAssumption
  <2> QED
    BY <2>1, <2>2, <2>3
<1> QED
  BY <1>2, <1>3

\* The burst on the channel, when the next has started if it does, and its first beat.
LEMMA BeatFirst ==
  ASSUME BurstsInv, BeatInv
  PROVE  LET R1 == After(r_desc, RStarts)
             b == IF RStarts THEN Head(r_desc).left ELSE r_burst.left
         IN  /\ b \in Nat /\ R1 \in Seq(Burst)
             /\ RValid => b = RBurst.left /\ b > 0 /\ r_data # <<>> /\ Head(r_data) = b
             /\ \E last \in Rest : Replay(r_data, R1, b, last) /\ Behind(last, R1, state, beats_left)
<1> DEFINE R1 == After(r_desc, RStarts)
           b == IF RStarts THEN Head(r_desc).left ELSE r_burst.left
<1>1. /\ r_data \in Seq(Nat) /\ r_burst.left \in Nat /\ r_desc \in Seq(Burst)
      /\ \A i \in 1 .. Len(r_desc) : r_desc[i].left \in Nat /\ r_desc[i].left > 0
  BY BurstsAre DEF BurstsInv
<1>2. PICK last \in Rest :
        Replay(r_data, r_desc, r_burst.left, last) /\ Behind(last, r_desc, state, beats_left)
  BY DEF BeatInv
<1>3. /\ b \in Nat /\ R1 \in Seq(Burst) /\ (RValid => b = RBurst.left /\ b > 0 /\ r_data # <<>>)
      /\ \E last2 \in Rest : Replay(r_data, R1, b, last2) /\ Behind(last2, R1, state, beats_left)
  <2>1. CASE ~RStarts
    <3>1. b = r_burst.left /\ R1 = r_desc
      BY <2>1 DEF After
    <3>2. RValid => r_burst.left > 0 /\ r_data # <<>> /\ RBurst = r_burst
      BY <2>1 DEF RValid, RBurst
    <3> HIDE DEF R1, b
    <3> QED
      BY <1>1, <1>2, <3>1, <3>2
  <2>2. CASE RStarts
    <3>1. /\ b = Head(r_desc).left /\ R1 = Tail(r_desc) /\ RBurst = Head(r_desc)
          /\ r_burst.left = 0 /\ r_desc # <<>> /\ r_data # <<>>
      BY <2>2 DEF After, RStarts, RBurst
    <3>2. /\ Len(r_desc) \in Nat \ {0} /\ Head(r_desc) = r_desc[1] /\ R1 \in Seq(Burst)
          /\ Len(R1) = Len(r_desc) - 1 /\ \A i \in 1 .. Len(r_desc) - 1 : R1[i] = r_desc[i + 1]
      BY <1>1, <3>1, LenProperties, EmptySeq, HeadTailProperties
    <3> DEFINE last2 == [left |-> last.left, next |-> last.next - 1]
    <3>3. last.next > 1 /\ Replay(r_data, R1, b, last2)
      BY <1>1, <1>2, <3>1, ReplayStart
    <3>4. last2 \in Rest
      BY <3>3 DEF Rest
    <3> DEFINE m == Len(r_desc)
    <3>5. Behind(last2, R1, state, beats_left)
      <4>1. CASE state # "RX_R_DATA"
        <5>1. last.left = 0 /\ last.next = m + 1
          BY <1>2, <4>1 DEF Behind
        <5>2. last.next - 1 = Len(R1) + 1
          BY <3>2, <5>1
        <5> QED
          BY <4>1, <5>1, <5>2 DEF Behind
      <4>2. CASE state = "RX_R_DATA" /\ last = [left |-> beats_left, next |-> m + 1]
        <5>1. last.left = beats_left /\ last.next - 1 = Len(R1) + 1
          BY <3>2, <4>2
        <5> QED
          BY <4>2, <5>1 DEF Behind
      <4>3. CASE state = "RX_R_DATA" /\ last = [left |-> 0, next |-> m] /\ beats_left = r_desc[m].left
        <5>1. last.left = 0 /\ last.next = m
          BY <4>3
        <5>2. last.next - 1 = Len(R1) /\ Len(R1) > 0 /\ Len(R1) \in 1 .. m - 1 /\ Len(R1) + 1 = m
          BY <3>2, <3>3, <5>1
        <5>3. R1[Len(R1)] = r_desc[m]
          BY <3>2, <5>2
        <5> QED
          BY <4>3, <5>1, <5>2, <5>3 DEF Behind
      <4> QED
        BY <1>2, <4>1, <4>2, <4>3 DEF Behind
    <3>6. b \in Nat /\ b > 0
      <4>1. 1 \in 1 .. Len(r_desc)
        BY <3>2
      <4> QED
        BY <1>1, <3>1, <3>2, <4>1
    <3> HIDE DEF R1, b, last2
    <3> QED
      BY <3>1, <3>2, <3>3, <3>4, <3>5, <3>6
  <2> QED
    BY <2>1, <2>2
<1> HIDE DEF R1, b
<1>4. RValid => Head(r_data) = b
  BY <1>1, <1>3, ReplayTake
<1> QED
  BY <1>3, <1>4 DEF R1, b

\* The beats that are there stay those of the bursts the parser has handed over.
LEMMA BeatStep ==
  ASSUME BurstsInv, BeatInv, BeatMoves, NEW fires, BeatCycle(fires),
         ParsesResp => Head(link).burst \in Burst, ParsesRData => Head(link).word \in Word
  PROVE  BeatInv'
<1> DEFINE R1 == After(r_desc, RStarts)
           b == IF RStarts THEN Head(r_desc).left ELSE r_burst.left
           D1 == After(r_data, fires)
           b1 == IF fires THEN b - 1 ELSE b
           y == Head(link).burst
           x == Head(link).word
<1>1. /\ b \in Nat /\ R1 \in Seq(Burst)
      /\ RValid => b = RBurst.left /\ b > 0 /\ r_data # <<>> /\ Head(r_data) = b
      /\ \E last \in Rest : Replay(r_data, R1, b, last) /\ Behind(last, R1, state, beats_left)
  BY BeatFirst
<1>2. /\ fires \in BOOLEAN /\ (fires => RValid)
      /\ r_desc' = With(R1, ParsesResp, y) /\ r_data' = With(D1, ParsesRData, x)
      /\ r_burst' = IF fires THEN [RBurst EXCEPT !.left = @ - 1] ELSE IF RStarts THEN RBurst ELSE r_burst
  BY DEF BeatCycle
<1>3. r_data \in Seq(Nat) /\ r_desc \in Seq(Burst) /\ r_burst \in Burst /\ Word \subseteq Nat
  BY BurstsAre, WordAssumption DEF BurstsInv
<1>4. RStarts => RBurst = Head(r_desc) /\ RBurst \in Burst
  BY <1>3, HeadTailProperties DEF RStarts, RBurst
<1>5. ~RStarts /\ RValid => RBurst = r_burst
  BY DEF RValid, RBurst
<1>6. r_burst'.left = b1
  <2>1. CASE fires
    <3>1. RBurst \in Burst /\ RBurst.left = b
      BY <1>1, <1>2, <1>3, <1>4, <1>5, <2>1
    <3>2. r_burst' = [RBurst EXCEPT !.left = @ - 1]
      BY <1>2, <2>1
    <3> HIDE DEF b
    <3>3. r_burst'.left = b - 1
      BY <3>1, <3>2 DEF Burst
    <3> QED
      BY <2>1, <3>3
  <2>2. CASE ~fires
    BY <1>2, <1>4, <2>2
  <2> QED
    BY <2>1, <2>2
<1> HIDE DEF b, R1
<1>7. PICK last \in Rest : Replay(r_data, R1, b, last) /\ Behind(last, R1, state, beats_left)
  BY <1>1
<1>8. D1 \in Seq(Nat) /\ Replay(D1, R1, b1, last)
  <2>1. CASE fires
    <3>1. b > 0 /\ r_data # <<>>
      BY <1>1, <1>2, <2>1
    <3>2. Replay(Tail(r_data), R1, b - 1, last) /\ Tail(r_data) \in Seq(Nat)
      BY <1>1, <1>3, <1>7, <3>1, ReplayTake, HeadTailProperties
    <3> QED
      BY <2>1, <3>2 DEF After
  <2>2. CASE ~fires
    BY <1>3, <1>7, <2>2 DEF After
  <2> QED
    BY <2>1, <2>2
<1> HIDE DEF D1, b1
<1>9. \E q \in Rest : Replay(r_data', r_desc', b1, q) /\ Behind(q, r_desc', state', beats_left')
  <2>1. CASE ParsesResp
    <3>1. /\ state = "RX_IDLE" /\ state' = "RX_R_DATA" /\ ~ParsesRData /\ beats_left' = y.left
          /\ y \in Burst
      BY <2>1 DEF BeatMoves
    <3> HIDE DEF y
    <3>2. r_desc' = Append(R1, y) /\ r_data' = D1
      BY <1>2, <2>1, <3>1 DEF With
    <3>3. Replay(r_data', r_desc', b1, last)
      BY <1>1, <1>8, <3>1, <3>2, ReplayBurst
    <3>4. Len(r_desc') = Len(R1) + 1 /\ r_desc'[Len(R1) + 1] = y /\ Len(R1) \in Nat
      BY <1>1, <3>1, <3>2, AppendProperties, LenProperties
    <3>5. last = [left |-> 0, next |-> Len(R1) + 1]
      BY <1>7, <3>1 DEF Behind
    <3>6. Behind(last, r_desc', state', beats_left')
      BY <3>1, <3>4, <3>5 DEF Behind
    <3> QED
      BY <1>7, <3>3, <3>6
  <2>2. CASE ParsesRData
    <3>1. /\ state = "RX_R_DATA" /\ beats_left \in Nat /\ beats_left > 0 /\ x = beats_left
          /\ beats_left' = beats_left - 1 /\ x \in Nat
          /\ state' = IF beats_left = 1 THEN "RX_IDLE" ELSE "RX_R_DATA"
      BY <1>3, <2>2 DEF BeatMoves
    <3> HIDE DEF x
    <3>2. ~ParsesResp
      BY <2>2, <3>1 DEF BeatMoves
    <3>3. r_desc' = R1 /\ r_data' = Append(D1, x)
      BY <1>2, <2>2, <3>2 DEF With
    <3> DEFINE q == [left |-> beats_left - 1, next |-> Len(R1) + 1]
    <3>4. Len(R1) \in Nat
      BY <1>1, LenProperties
    <3>5. q \in Rest
      BY <3>1, <3>4 DEF Rest
    <3>6. Replays(last, x, R1, q)
      <4>1. CASE last = [left |-> beats_left, next |-> Len(R1) + 1]
        <5>1. last.left = beats_left /\ last.next = Len(R1) + 1
          BY <4>1
        <5> QED
          BY <3>1, <5>1 DEF Replays
      <4>2. CASE last = [left |-> 0, next |-> Len(R1)] /\ Len(R1) > 0 /\ beats_left = R1[Len(R1)].left
        <5>1. last.left = 0 /\ last.next = Len(R1) /\ Len(R1) \in 1 .. Len(R1)
          BY <3>4, <4>2
        <5> QED
          BY <3>1, <4>2, <5>1 DEF Replays
      <4> QED
        BY <1>7, <3>1, <4>1, <4>2 DEF Behind
    <3>7. Replay(r_data', r_desc', b1, q)
      BY <1>8, <3>1, <3>3, <3>5, <3>6, ReplayBeat
    <3>8. Behind(q, r_desc', state', beats_left')
      BY <3>1, <3>3 DEF Behind
    <3> QED
      BY <3>5, <3>7, <3>8
  <2>3. CASE ~ParsesResp /\ ~ParsesRData
    <3>1. r_desc' = R1 /\ r_data' = D1
      BY <1>2, <2>3 DEF With
    <3>2. (state' = "RX_R_DATA" <=> state = "RX_R_DATA") /\ (state = "RX_R_DATA" => beats_left' = beats_left)
      BY <2>3 DEF BeatMoves
    <3>3. Behind(last, r_desc', state', beats_left')
      BY <1>7, <3>1, <3>2 DEF Behind
    <3> QED
      BY <1>7, <1>8, <3>1, <3>3
  <2> QED
    BY <2>1, <2>2, <2>3
<1> QED
  BY <1>6, <1>9 DEF BeatInv

-----------------------------------------------------------------------------
(* The FIFOs do not run over. *)

\* What the parser takes for a header of a burst or for a beat is one.
LEMMA MovesFlit ==
  ASSUME NEW p, NEW q, Moves(p, q), link \in Seq(Flit)
  PROVE  /\ ParsesResp => /\ Head(link).burst \in Burst
                          /\ Head(link).burst.left = Beats[Head(link).burst.unit]
         /\ ParsesRData => Head(link).word \in Word
         /\ ParsesWrite => Head(link).reg \in Reg
<1> DEFINE f == Head(link)
<1>1. Parses => f \in Flit
  BY HeadTailProperties DEF Parses, ParsesWrite, ParsesRead, ParsesResp, ParsesWData, ParsesRData, Header
<1>2. ASSUME ParsesResp PROVE f.burst \in Burst /\ f.burst.left = Beats[f.burst.unit]
  <2>1. TakesResp(p, f, q)
    BY <1>2 DEF Moves
  <2>2. f \in Flit /\ f.op = "READ_RESP" /\ f.burst.left = Beats[f.burst.unit]
    BY <1>1, <1>2, <2>1 DEF Parses, TakesResp
  <2> QED
    BY <2>2 DEF Flit
<1>3. ASSUME ParsesRData PROVE f.word \in Word
  <2>1. TakesRData(p, f, q)
    BY <1>3 DEF Moves
  <2>2. f \in Flit /\ f.op = "DATA"
    BY <1>1, <1>3, <2>1 DEF Parses, TakesRData
  <2> QED
    BY <2>2 DEF Flit
<1>4. ASSUME ParsesWrite PROVE f.reg \in Reg
  <2>1. f \in Flit /\ f.op = "WRITE"
    BY <1>1, <1>4 DEF Parses, ParsesWrite, Header
  <2> QED
    BY <2>1 DEF Flit
<1> QED
  BY <1>2, <1>3, <1>4

\* A FIFO that takes an item only when it has room keeps to its depth.
LEMMA CycledFits ==
  ASSUME NEW S, NEW s \in Seq(S), NEW u \in Seq(S), NEW taken \in BOOLEAN, NEW pushed \in BOOLEAN,
         NEW x, Cycled(u, s, taken, pushed, x), NEW depth \in Nat, Len(s) <= depth,
         pushed => Len(s) < depth
  PROVE  Len(u) <= depth
<1>1. Len(s) \in Nat /\ Len(u) = Len(s) - One(taken) + One(pushed)
  BY LenProperties DEF Cycled
<1>2. /\ One(taken) \in 0 .. 1 /\ One(pushed) \in 0 .. 1 /\ (~pushed => One(pushed) = 0)
  BY OneNat
<1> QED
  BY <1>1, <1>2

\* What holds of all items of a FIFO and of the new one holds of all afterwards.
LEMMA CycledItem ==
  ASSUME NEW S, NEW s \in Seq(S), NEW u, NEW taken \in BOOLEAN, NEW pushed \in BOOLEAN,
         NEW x, Cycled(u, s, taken, pushed, x), NEW i \in 1 .. Len(u)
  PROVE  (\E j \in 1 .. Len(s) : u[i] = s[j]) \/ (pushed /\ u[i] = x)
<1>1. /\ Len(s) \in Nat /\ Len(u) = Len(s) - One(taken) + One(pushed) /\ One(taken) <= Len(s)
      /\ \A j \in 1 .. Len(s) - One(taken) : u[j] = s[j + One(taken)]
      /\ pushed => u[Len(s) - One(taken) + 1] = x
  BY LenProperties DEF Cycled
<1>2. /\ One(taken) \in 0 .. 1 /\ One(pushed) \in 0 .. 1 /\ (~pushed => One(pushed) = 0)
  BY OneNat
<1>3. CASE i <= Len(s) - One(taken)
  <2>1. i \in 1 .. Len(s) - One(taken) /\ i + One(taken) \in 1 .. Len(s)
    BY <1>1, <1>2, <1>3
  <2> QED
    BY <1>1, <2>1
<1>4. CASE ~(i <= Len(s) - One(taken))
  <2>1. One(pushed) # 0 /\ i = Len(s) - One(taken) + 1
    BY <1>1, <1>2, <1>4
  <2> QED
    BY <1>1, <1>2, <2>1
<1> QED
  BY <1>3, <1>4

\* Words a count of beats can be.
LEMMA BeatWords ==
  ASSUME NEW u \in Unit, NEW n \in Nat, n <= Beats[u]
  PROVE  n \in Word
<1>1. 0 \in Word /\ 1 .. Beats[u] \subseteq Word /\ Beats[u] \in Nat
  BY HostAssumption, WordAssumption, BeatsAssumption
<1>2. n = 0 \/ n \in 1 .. Beats[u]
  BY <1>1
<1> QED
  BY <1>1, <1>2

LEMMA FifoStep ==
  ASSUME FifoInv, rd_desc \in Seq({"STATUS"}), link \in Seq(Flit),
         NEW p, NEW q, Moves(p, q), NEW fires, BeatCycle(fires),
         rd_desc' = With(After(rd_desc, ArValid /\ ArReady), ParsesRead, "STATUS")
  PROVE  FifoInv'
<1> DEFINE y == Head(link).burst
           x == Head(link).word
<1>1. /\ BurstsInv /\ r_burst.left <= Beats[r_burst.unit]
      /\ Len(r_desc) <= RDescDepth /\ Len(r_data) <= RDataDepth /\ Len(rd_desc) <= RdDescDepth
      /\ RDescDepth \in Nat /\ RDataDepth \in Nat /\ RdDescDepth \in Nat
      /\ r_desc \in Seq(Burst) /\ r_data \in Seq(Word) /\ r_burst \in Burst
      /\ \A i \in 1 .. Len(r_desc) : r_desc[i].left = Beats[r_desc[i].unit]
  BY DepthsAssumption DEF FifoInv, BurstsInv
<1>2. /\ fires \in BOOLEAN /\ (fires => RValid)
      /\ r_desc' = With(After(r_desc, RStarts), ParsesResp, y)
      /\ r_data' = With(After(r_data, fires), ParsesRData, x)
      /\ r_burst' = IF fires THEN [RBurst EXCEPT !.left = @ - 1] ELSE IF RStarts THEN RBurst ELSE r_burst
  BY DEF BeatCycle
<1>3. /\ ParsesResp => y \in Burst /\ y.left = Beats[y.unit]
      /\ ParsesRData => x \in Word
  BY MovesFlit
<1>4. ParsesResp \in BOOLEAN /\ ParsesRData \in BOOLEAN /\ ParsesRead \in BOOLEAN /\ RStarts \in BOOLEAN
  BY DEF ParsesResp, ParsesRData, ParsesRead, RStarts
<1>5. /\ ParsesResp => Len(r_desc) < RDescDepth
      /\ ParsesRData => Len(r_data) < RDataDepth
      /\ ParsesRead => Len(rd_desc) < RdDescDepth
      /\ RStarts => r_desc # <<>>
      /\ RValid => r_data # <<>>
      /\ ArValid => rd_desc # <<>>
  BY DEF ParsesResp, ParsesRData, ParsesRead, RStarts, RValid, ArValid
<1> HIDE DEF y, x
<1>6. r_desc' \in Seq(Burst) /\ Cycled(r_desc', r_desc, RStarts, ParsesResp, y)
  BY <1>1, <1>2, <1>3, <1>4, <1>5, WithAt
<1>7. r_data' \in Seq(Word) /\ Cycled(r_data', r_data, fires, ParsesRData, x)
  BY <1>1, <1>2, <1>3, <1>4, <1>5, WithAt
<1>8. Len(r_desc') <= RDescDepth /\ Len(r_data') <= RDataDepth
  BY <1>1, <1>2, <1>4, <1>5, <1>6, <1>7, CycledFits
<1>9. Len(rd_desc') <= RdDescDepth
  <2> DEFINE t == ArValid /\ ArReady
  <2>1. t \in BOOLEAN /\ (t => rd_desc # <<>>) /\ "STATUS" \in {"STATUS"}
    BY <1>5 DEF ArValid
  <2> HIDE DEF t
  <2>2. rd_desc' = With(After(rd_desc, t), ParsesRead, "STATUS")
    BY DEF t
  <2>3. rd_desc' \in Seq({"STATUS"}) /\ Cycled(rd_desc', rd_desc, t, ParsesRead, "STATUS")
    BY <1>4, <2>1, <2>2, WithAt
  <2> QED
    BY <1>1, <1>4, <1>5, <2>1, <2>3, CycledFits
<1>10. ASSUME NEW i \in 1 .. Len(r_desc')
       PROVE  r_desc'[i].left = Beats[r_desc'[i].unit]
  <2>1. (\E j \in 1 .. Len(r_desc) : r_desc'[i] = r_desc[j]) \/ (ParsesResp /\ r_desc'[i] = y)
    BY <1>1, <1>4, <1>6, CycledItem
  <2>2. CASE \E j \in 1 .. Len(r_desc) : r_desc'[i] = r_desc[j]
    BY <1>1, <2>2
  <2>3. CASE ParsesResp /\ r_desc'[i] = y
    BY <1>3, <2>3
  <2> QED
    BY <2>1, <2>2, <2>3
<1>11. r_burst' \in Burst /\ r_burst'.left <= Beats[r_burst'.unit]
  <2>1. RStarts => RBurst \in Burst /\ RBurst.left = Beats[RBurst.unit]
    <3> HAVE RStarts
    <3>1. RBurst = r_desc[1] /\ 1 \in 1 .. Len(r_desc)
      BY <1>1, LenProperties, EmptySeq, HeadTailProperties DEF RStarts, RBurst
    <3> QED
      BY <1>1, <3>1, ElementOfSeq
  <2>2. ~RStarts /\ RValid => RBurst = r_burst
    BY DEF RValid, RBurst
  <2>3. RStarts \/ RValid => RBurst \in Burst /\ RBurst.left <= Beats[RBurst.unit]
    <3>1. RStarts => RBurst.left <= Beats[RBurst.unit]
      <4> HAVE RStarts
      <4>1. RBurst.unit \in Unit /\ RBurst.left = Beats[RBurst.unit]
        BY <2>1 DEF Burst
      <4>2. Beats[RBurst.unit] \in Nat
        BY <4>1, BeatsAssumption
      <4> QED
        BY <4>1, <4>2
    <3> QED
      BY <1>1, <2>1, <2>2, <3>1
  <2>4. RValid => RBurst.left > 0
    <3> HAVE RValid
    <3>1. CASE RStarts
      <4>1. RBurst.unit \in Unit /\ RBurst.left = Beats[RBurst.unit]
        BY <2>1, <3>1 DEF Burst
      <4> QED
        BY <4>1, BeatsAssumption
    <3>2. CASE ~RStarts
      BY <2>2, <3>2 DEF RValid
    <3> QED
      BY <3>1, <3>2
  <2>5. CASE fires
    <3>1. /\ RBurst \in Burst /\ RBurst.left <= Beats[RBurst.unit] /\ RBurst.left > 0
          /\ r_burst' = [RBurst EXCEPT !.left = @ - 1]
      BY <1>2, <2>3, <2>4, <2>5
    <3>2. /\ RBurst.unit \in Unit /\ RBurst.left \in Nat /\ RBurst.left - 1 \in Nat
          /\ Beats[RBurst.unit] \in Nat
      <4>1. RBurst.unit \in Unit /\ RBurst.left \in Word
        BY <3>1 DEF Burst
      <4> QED
        BY <3>1, <4>1, WordAssumption, BeatsAssumption
    <3>3. RBurst.left - 1 <= Beats[RBurst.unit]
      BY <3>1, <3>2
    <3>4. RBurst.left - 1 \in Word
      BY <3>2, <3>3, BeatWords
    <3> DEFINE r == RBurst
    <3> HIDE DEF r
    <3>5. /\ r \in Burst /\ r_burst' = [r EXCEPT !.left = @ - 1] /\ r.left - 1 \in Word
          /\ r.left - 1 <= Beats[r.unit]
      BY <3>1, <3>3, <3>4 DEF r
    <3>6. r_burst' = [unit |-> r.unit, left |-> r.left - 1] /\ r.unit \in Unit
      BY <3>5 DEF Burst
    <3>7. r_burst'.unit = r.unit /\ r_burst'.left = r.left - 1
      BY <3>6
    <3> QED
      BY <3>5, <3>6, <3>7 DEF Burst
  <2>6. CASE ~fires /\ RStarts
    BY <1>2, <2>3, <2>6
  <2>7. CASE ~fires /\ ~RStarts
    BY <1>1, <1>2, <2>7
  <2> QED
    BY <2>5, <2>6, <2>7
<1>12. beats_left' \in Nat /\ \E u \in Unit : beats_left' <= Beats[u]
  <2>1. /\ p \in Place /\ q \in Place /\ p.left = beats_left /\ q.left = beats_left'
        /\ p.left \in Nat /\ q.left \in Nat
    BY Fields DEF Moves
  <2>2. PICK u \in Unit : beats_left <= Beats[u]
    BY DEF FifoInv
  <2>3. Beats[u] \in Nat /\ Beats[u] > 0
    BY BeatsAssumption
  <2>4. beats_left' <= beats_left \/ beats_left' = 1 \/ (ParsesResp /\ beats_left' = y.left)
    <3> DEFINE f == Head(link)
    <3>1. CASE q = p
      BY <2>1, <3>1
    <3>2. CASE TakesWrite(p, f, q)
      BY <2>1, <3>2 DEF TakesWrite, Place
    <3>3. CASE TakesRead(p, f, q)
      <4>1. q.left = p.left
        BY <2>1, <3>3 DEF TakesRead, Place
      <4> QED
        BY <2>1, <4>1
    <3>4. CASE TakesResp(p, f, q) /\ ParsesResp
      <4>1. q.left = f.burst.left
        BY <2>1, <3>4 DEF TakesResp, Place
      <4> QED
        BY <2>1, <3>4, <4>1 DEF y
    <3>5. CASE TakesWData(p, f, q)
      <4>1. q.left = 0
        BY <2>1, <3>5 DEF TakesWData, Place
      <4> QED
        BY <2>1, <4>1
    <3>6. CASE TakesRData(p, f, q)
      <4>1. q.left = p.left - 1
        BY <2>1, <3>6 DEF TakesRData, Place
      <4> QED
        BY <2>1, <4>1
    <3> HIDE DEF f
    <3> QED
      BY <3>1, <3>2, <3>3, <3>4, <3>5, <3>6 DEF Moves, f
  <2>5. CASE beats_left' <= beats_left
    <3>1. beats_left' <= Beats[u]
      BY <2>1, <2>2, <2>3, <2>5, AtMostThrough
    <3> QED
      BY <2>1, <3>1
  <2>6. CASE beats_left' = 1
    BY <2>1, <2>3, <2>6
  <2>7. CASE ParsesResp /\ beats_left' = y.left
    <3>1. y.unit \in Unit /\ beats_left' = Beats[y.unit]
      BY <1>3, <2>7 DEF Burst
    <3>2. Beats[y.unit] <= Beats[y.unit]
      BY <3>1, BeatsAssumption
    <3> QED
      BY <2>1, <3>1, <3>2
  <2> QED
    BY <2>4, <2>5, <2>6, <2>7
<1> QED
  BY <1>6, <1>7, <1>8, <1>9, <1>10, <1>11, <1>12 DEF FifoInv, BurstsInv

LEMMA LastRegIs ==
  ASSUME NEW p \in Place, p.resets = 0 => p.sent > 0
  PROVE  LastReg(p) \in Reg
<1>1. CASE p.resets = 0
  <2>1. p.sent - 1 \in Nat
    BY <1>1, Fields
  <2> QED
    BY <1>1, <2>1, LaunchRegs DEF LastReg, RegOf
<1>2. CASE p.resets # 0
  BY <1>2 DEF LastReg, Reg
<1> QED
  BY <1>1, <1>2

\* The polls the host has under way.
LEMMA PollsFit ==
  ASSUME SignalInv, HostInv, NEW hears \in BOOLEAN, hears => polls # <<>>,
         seen \in Nat, NEW polled,
         polled = <<>> \/ (polled = <<Started>> /\ Started > seen /\ Len(polls) < MaxPolls),
         polls' = After(polls, hears) \o polled
  PROVE  /\ polled \in Seq(Cta) /\ polls' \in Seq(Cta) /\ Len(polls') <= MaxPolls
         /\ Shifted(polls', polls, One(hears), polled)
<1>1. polls \in Seq(Cta) /\ Len(polls) <= MaxPolls /\ MaxPolls \in Nat /\ writes \in 0 .. 4 * NumCtas
      /\ NumCtas \in Nat
  BY HostAssumption DEF SignalInv, HostInv
<1>2. polled \in Seq(Cta) /\ (Len(polled) = 0 \/ (Len(polled) = 1 /\ Len(polls) < MaxPolls))
  <2>1. CASE polled = <<>>
    BY <2>1
  <2>2. CASE polled = <<Started>> /\ Started > seen /\ Len(polls) < MaxPolls
    <3>1. Started \in Nat /\ 4 * Started <= writes
      BY <1>1, Quarters DEF Started
    <3>2. Started \in Cta
      BY <1>1, <2>2, <3>1 DEF Cta
    <3>3. << Started >> \in Seq(Cta) /\ Len(<< Started >>) = 1
      BY <3>2
    <3> QED
      BY <2>2, <3>3
  <2> QED
    BY <2>1, <2>2
<1>3. polls' \in Seq(Cta) /\ Shifted(polls', polls, One(hears), polled)
  BY <1>1, <1>2, AfterAt
<1>4. Len(polls') = Len(polls) - One(hears) + Len(polled) /\ One(hears) \in 0 .. 1 /\ Len(polls) \in Nat
  BY <1>1, <1>3, OneNat, LenProperties DEF Shifted
<1>5. Len(polls') <= MaxPolls
  <2>1. ASSUME NEW n \in Nat, NEW o \in 0 .. 1, NEW l, l = 0 \/ (l = 1 /\ n < MaxPolls), n <= MaxPolls
        PROVE  n - o + l <= MaxPolls
    BY <1>1, <2>1
  <2> QED
    BY <1>1, <1>2, <1>4, <2>1
<1> QED
  BY <1>2, <1>3, <1>5

LEMMA SignalStep ==
  ASSUME SignalInv, polls' \in Seq(Cta), Len(polls') <= MaxPolls,
         NEW p \in Place, WriteInv(p), WriteCycle,
         NEW in \in Inputs, NEW answered, asked' = (asked \ answered) \cup in.asks,
         NEW r_ready, CoreCycle(in.asks, in.completes, r_ready), CsrCycle(cta_out, in.taken)
  PROVE  SignalInv'
<1>1. in.asks \subseteq Unit /\ in.completes \in BOOLEAN /\ in.taken \in BOOLEAN
  <2>1. in.asks \in {{}} \cup {{u} : u \in Unit} /\ in.completes \in BOOLEAN /\ in.taken \in BOOLEAN
    BY DEF Inputs
  <2> QED
    BY <2>1
<1>2. asked' \subseteq Unit
  BY <1>1 DEF SignalInv
<1>3. /\ in.asks # {} => reads < MaxReads
      /\ IF CgraReset THEN CoreReset
         ELSE add_fire' = AddFire /\ cta_out' = in.completes /\ ReadUpdate(in.asks, r_ready)
  BY DEF CoreCycle
<1>4. waits' \subseteq Unit /\ reads' \in 0 .. MaxReads
  <2>1. MaxReads \in Nat
    BY HostAssumption
  <2>2. CASE CgraReset
    BY <1>3, <2>1, <2>2 DEF CoreReset
  <2>3. CASE ~CgraReset
    <3>1. /\ waits' = (waits \ Answered(r_ready)) \cup in.asks
          /\ reads' = IF add_fire THEN 0 ELSE reads + (IF in.asks = {} THEN 0 ELSE 1)
      BY <1>3, <2>3 DEF ReadUpdate
    <3>2. waits' \subseteq Unit
      BY <1>1, <3>1 DEF SignalInv
    <3>3. reads \in 0 .. MaxReads
      BY DEF SignalInv
    <3>4. reads' \in 0 .. MaxReads
      BY <1>3, <2>1, <3>1, <3>3
    <3> QED
      BY <3>2, <3>4
  <2> QED
    BY <2>2, <2>3
<1>5. add_fire' \in BOOLEAN /\ cta_out' \in BOOLEAN
  BY <1>1, <1>3 DEF CoreReset, AddFire, Start, DispatchReady
<1>6. complete' \in BOOLEAN /\ ar_pending' \in BOOLEAN
  BY DEF CsrCycle, CompleteUpdate, ArValid
<1>7. aw_pending' \in BOOLEAN /\ write_active' \in BOOLEAN
  BY DEF WriteCycle, AwValid, DoWrite
<1>8. aw_idx' \in Reg
  <2>1. CASE AwValid /\ AwReady
    <3>1. wr_desc = <<LastReg(p)>> /\ (p.resets = 0 => p.sent > 0)
      BY <2>1 DEF WriteInv, AwValid
    <3>2. LastReg(p) \in Reg
      BY <3>1, LastRegIs
    <3>3. Head(wr_desc) = LastReg(p)
      BY <3>1
    <3> QED
      BY <2>1, <3>2, <3>3 DEF WriteCycle
  <2>2. CASE ~(AwValid /\ AwReady)
    BY <2>2 DEF WriteCycle, SignalInv
  <2> QED
    BY <2>1, <2>2
<1> QED
  BY <1>2, <1>4, <1>5, <1>6, <1>7, <1>8 DEF SignalInv

-----------------------------------------------------------------------------
(* The polls on the link. *)

PollsOf(F) == {i \in DOMAIN F : F[i].op = "READ"}

LEMMA PollsOfTail ==
  ASSUME NEW F \in Seq(Flit), F # <<>>
  PROVE  Cardinality(PollsOf(Tail(F))) = Cardinality(PollsOf(F)) - One(Head(F).op = "READ")
<1> DEFINE n == Len(F)
           S == PollsOf(F)
           T == PollsOf(Tail(F))
           f == [i \in T |-> i + 1]
<1>1. /\ n \in Nat \ {0} /\ Len(Tail(F)) = n - 1 /\ Head(F) = F[1] /\ Tail(F) \in Seq(Flit)
      /\ \A i \in 1 .. n - 1 : Tail(F)[i] = F[i + 1]
  BY LenProperties, EmptySeq, HeadTailProperties
<1>2. /\ S = {i \in 1 .. n : F[i].op = "READ"}
      /\ T = {i \in 1 .. n - 1 : F[i + 1].op = "READ"}
  <2>1. DOMAIN F = 1 .. n /\ DOMAIN Tail(F) = 1 .. n - 1
    BY <1>1, LenProperties
  <2> QED
    BY <1>1, <2>1 DEF PollsOf
<1> HIDE DEF n, S, T
<1>3. IsFiniteSet(S) /\ IsFiniteSet(T)
  <2>1. IsFiniteSet(1 .. n) /\ IsFiniteSet(1 .. n - 1)
    BY <1>1, FS_Interval
  <2>2. S \in SUBSET (1 .. n) /\ T \in SUBSET (1 .. n - 1)
    BY <1>2
  <2> QED
    BY <2>1, <2>2, FS_Subset
<1>4. f \in Bijection(T, S \ {1})
  <2>1. ASSUME NEW i \in T PROVE i + 1 \in S \ {1} /\ i \in Nat
    BY <1>1, <1>2
  <2>2. f \in [T -> S \ {1}]
    BY <2>1
  <2>3. f \in Injection(T, S \ {1})
    <3>1. ASSUME NEW i \in T, NEW j \in T, f[i] = f[j] PROVE i = j
      BY <2>1, <3>1
    <3> QED
      BY <2>2, <3>1 DEF Injection, IsInjective
  <2>4. ASSUME NEW j \in S \ {1} PROVE \E i \in T : f[i] = j
    <3>1. j - 1 \in T /\ (j - 1) + 1 = j
      BY <1>1, <1>2
    <3> QED
      BY <3>1
  <2> QED
    BY <2>2, <2>3, <2>4 DEF Bijection, Surjection
<1>5. Cardinality(S \ {1}) = Cardinality(T)
  <2>1. ExistsBijection(T, S \ {1})
    BY <1>4 DEF ExistsBijection
  <2> QED
    BY <1>3, <2>1, FS_Bijection
<1>6. Cardinality(S \ {1}) = IF 1 \in S THEN Cardinality(S) - 1 ELSE Cardinality(S)
  BY <1>3, FS_RemoveElement
<1>7. 1 \in S <=> Head(F).op = "READ"
  BY <1>1, <1>2
<1>8. Cardinality(S) \in Nat
  BY <1>3, FS_CardinalityType
<1> QED
  BY <1>5, <1>6, <1>7, <1>8 DEF One, S, T

LEMMA PollsOfAppend ==
  ASSUME NEW F \in Seq(Flit), NEW x \in Flit
  PROVE  Cardinality(PollsOf(F \o << x >>)) = Cardinality(PollsOf(F)) + One(x.op = "READ")
<1> DEFINE n == Len(F)
           E == F \o << x >>
           S == PollsOf(F)
           T == PollsOf(E)
<1>1. n \in Nat /\ Len(E) = n + 1 /\ E \in Seq(Flit) /\ E[n + 1] = x /\ \A i \in 1 .. n : E[i] = F[i]
  <2> DEFINE one == << x >>
  <2>1. one \in Seq(Flit) /\ Len(one) = 1 /\ one[1] = x
    OBVIOUS
  <2> HIDE DEF one
  <2>2. n \in Nat
    BY LenProperties
  <2> QED
    BY <2>1, <2>2, ConcatProperties DEF one
<1> HIDE DEF E
<1>2. S = {i \in 1 .. n : F[i].op = "READ"} /\ T = {i \in 1 .. n + 1 : E[i].op = "READ"}
  <2>1. DOMAIN F = 1 .. n /\ DOMAIN E = 1 .. n + 1
    BY <1>1, LenProperties
  <2> QED
    BY <1>1, <2>1 DEF PollsOf
<1> HIDE DEF n, S, T
<1>3. IsFiniteSet(S)
  <2>1. IsFiniteSet(1 .. n)
    BY <1>1, FS_Interval
  <2>2. S \in SUBSET (1 .. n)
    BY <1>2
  <2> QED
    BY <2>1, <2>2, FS_Subset
<1>4. Cardinality(S) \in Nat
  BY <1>3, FS_CardinalityType
<1>5. CASE x.op = "READ"
  <2>1. T = S \cup {n + 1} /\ n + 1 \notin S
    BY <1>1, <1>2, <1>5
  <2>2. Cardinality(T) = Cardinality(S) + 1
    BY <1>3, <2>1, FS_AddElement
  <2> QED
    BY <1>5, <2>2 DEF One, S, T, E
<1>6. CASE x.op # "READ"
  <2>1. T = S
    BY <1>1, <1>2, <1>6
  <2> QED
    BY <1>4, <1>6, <2>1 DEF One, S, T, E
<1> QED
  BY <1>5, <1>6

\* A clock of the link: the parser takes a flit, one arrives.
LEMMA PollsOfClock ==
  ASSUME link \in Seq(Flit), Parses => link # <<>>, NEW arrived,
         arrived = <<>> \/ (\E x \in Flit : arrived = << x >>), NEW n, n \in 0 .. 1,
         \A x \in Flit : arrived = << x >> => (x.op = "READ" <=> n = 1),
         arrived = <<>> => n = 0,
         link' = After(link, Parses) \o arrived
  PROVE  /\ Cardinality(PollsOf(link)) \in Nat
         /\ Cardinality(PollsOf(link)') = Cardinality(PollsOf(link))
                                           - One(Parses /\ Head(link).op = "READ") + n
<1> DEFINE A == After(link, Parses)
<1>1. Cardinality(PollsOf(link)) \in Nat
  <2>1. IsFiniteSet(1 .. Len(link))
    BY LenProperties, FS_Interval
  <2>2. PollsOf(link) \in SUBSET (1 .. Len(link))
    BY LenProperties DEF PollsOf
  <2> QED
    BY <2>1, <2>2, FS_Subset, FS_CardinalityType
<1>2. /\ A \in Seq(Flit)
      /\ Cardinality(PollsOf(A)) = Cardinality(PollsOf(link)) - One(Parses /\ Head(link).op = "READ")
  <2>1. CASE Parses
    <3>1. A = Tail(link) /\ Tail(link) \in Seq(Flit)
      BY <2>1, HeadTailProperties DEF After
    <3> HIDE DEF A
    <3>2. Cardinality(PollsOf(A)) = Cardinality(PollsOf(link)) - One(Head(link).op = "READ")
      BY <2>1, <3>1, PollsOfTail
    <3> QED
      BY <2>1, <3>1, <3>2 DEF One
  <2>2. CASE ~Parses
    <3>1. A = link
      BY <2>2 DEF After
    <3> HIDE DEF A
    <3> QED
      BY <1>1, <2>2, <3>1 DEF One
  <2> QED
    BY <2>1, <2>2
<1>3. link' = A \o arrived
  OBVIOUS
<1> HIDE DEF A
<1>4. One(Parses /\ Head(link).op = "READ") \in 0 .. 1
  BY DEF One
<1>5. Cardinality(PollsOf(link')) = Cardinality(PollsOf(A)) + n
  <2>1. CASE arrived = <<>>
    <3>1. link' = A /\ n = 0
      BY <1>2, <1>3, <2>1, ConcatEmptySeq
    <3>2. Cardinality(PollsOf(A)) \in Int
      BY <1>1, <1>2, <1>4
    <3> QED
      BY <3>1, <3>2
  <2>2. CASE \E x \in Flit : arrived = << x >>
    <3>1. PICK x \in Flit : arrived = << x >>
      BY <2>2
    <3>2. x.op = "READ" <=> n = 1
      BY <3>1
    <3>3. One(x.op = "READ") = n
      BY <3>2 DEF One
    <3> QED
      BY <1>2, <1>3, <3>1, <3>3, PollsOfAppend
  <2> QED
    BY <2>1, <2>2
<1> QED
  BY <1>1, <1>2, <1>5 DEF PollsOf

-----------------------------------------------------------------------------
(* A step of the host and the chip. *)

\* What the parser has taken is no more than what the host has sent.
LEMMA Bounds ==
  ASSUME NEW g, NEW heard \in Nat, StreamInv(g, heard), HostInv
  PROVE  /\ g[0] \in Place /\ g[0].sent <= writes /\ g[0].resets <= resets
         /\ heard <= g[0].polled /\ g[0].polled <= heard + Len(polls)
         /\ link # <<>> => g[1].polled <= heard + Len(polls)
<1> DEFINE F == Flits
           n == Len(F)
<1>1. /\ link \in Seq(Flit) /\ owed \in Seq(Flit) /\ Stream(F, g, End(heard), polls, heard)
  BY DEF StreamInv
<1>2. F \in Seq(Flit) /\ n = Len(link) + Len(owed) /\ Len(link) \in Nat /\ Len(owed) \in Nat
      /\ (link # <<>> => Len(link) > 0)
  BY <1>1, ConcatProperties, LenProperties, EmptySeq DEF Flits
<1> HIDE DEF F
<1>3. /\ g \in [0 .. n -> Place] /\ g[n] = End(heard) /\ heard <= g[0].polled
      /\ \A i, j \in 0 .. n : i <= j =>
           g[i].sent <= g[j].sent /\ g[i].resets <= g[j].resets /\ g[i].polled <= g[j].polled
  BY <1>1 DEF Stream, Follows
<1> HIDE DEF n
<1>4. n \in Nat /\ 0 \in 0 .. n /\ n \in 0 .. n /\ 0 <= n /\ (link # <<>> => 1 \in 0 .. n /\ 1 <= n)
  BY <1>2
<1>5. g[n].sent = writes /\ g[n].resets = resets /\ g[n].polled = heard + Len(polls)
  BY <1>3 DEF End
<1> QED
  BY <1>3, <1>4, <1>5

\* What the host sends; polled: the poll that it sends with it.
LEMMA TickSends ==
  ASSUME NEW g, NEW heard, StreamInv(g, heard), HostInv,
         NEW in, NEW arrived, NEW polled, NEW answered, Tick(in, arrived, polled, answered)
  PROVE  /\ arrived = <<>> \/ (\E x \in Flit : arrived = << x >>)
         /\ polled = <<>> \/ (polled = <<Started>> /\ Started > seen /\ Len(polls) < MaxPolls)
         /\ \A x \in Flit : arrived = << x >> => (x.op = "READ" <=> polled # <<>>)
         /\ arrived = <<>> => polled = <<>>
         /\ polled # <<>> => resets = 0 /\ resets' = 0
<1>1. owed \in Seq(Flit) /\ \A i \in 1 .. Len(owed) : owed[i].op = "DATA"
  BY DEF StreamInv
<1>2. CASE arrived = <<>> /\ polled = <<>>
  BY <1>2, Single
<1>3. ASSUME NEW x \in Flit, arrived = << x >>, x.op # "READ", polled = <<>>
      PROVE  /\ arrived = <<>> \/ (\E y \in Flit : arrived = << y >>)
             /\ \A y \in Flit : arrived = << y >> => (y.op = "READ" <=> polled # <<>>)
             /\ arrived = <<>> => polled = <<>>
  <2>1. \A y \in Flit : arrived = << y >> => y = x
    BY <1>3, Single
  <2> QED
    BY <1>3, <2>1
<1>4. CASE owed # <<>> /\ arrived = <<Head(owed)>> /\ polled = <<>>
  <2>1. Head(owed) = owed[1] /\ 1 \in 1 .. Len(owed) /\ Head(owed) \in Flit
    BY <1>1, <1>4, HeadTailProperties, EmptySeq, LenProperties
  <2>2. Head(owed).op = "DATA"
    BY <1>1, <2>1
  <2> QED
    BY <1>3, <1>4, <2>1, <2>2
<1>5. CASE polled = <<>> /\ arrived = <<[op |-> "WRITE", reg |-> NextReg]>>
  <2>1. writes \in Nat
    BY HostAssumption DEF HostInv
  <2>2. NextReg \in Reg
    BY <2>1, LaunchRegs DEF NextReg
  <2>3. [op |-> "WRITE", reg |-> NextReg] \in Flit
    BY <2>2, PacketFlits
  <2> QED
    BY <1>3, <1>5, <2>3
<1>6. CASE /\ Started > seen /\ resets = 0 /\ Len(polls) < MaxPolls
           /\ arrived = <<[op |-> "READ"]>> /\ polled = <<Started>>
           /\ UNCHANGED <<owed, writes, resets>>
  <2> DEFINE r == [op |-> "READ"]
  <2>1. r \in Flit /\ r.op = "READ" /\ polled # <<>> /\ resets' = 0
    BY <1>6, PacketFlits, Single
  <2> HIDE DEF r
  <2>2. arrived = << r >> /\ arrived # <<>>
    BY <1>6, Single DEF r
  <2>3. \A x \in Flit : arrived = << x >> => x = r
    BY <2>2, Single
  <2> QED
    BY <1>6, <2>1, <2>2, <2>3
<1>7. CASE polled = <<>> /\ arrived = <<[op |-> "WRITE", reg |-> "CTRL"]>>
  <2>1. [op |-> "WRITE", reg |-> "CTRL"] \in Flit
    BY PacketFlits DEF Reg
  <2> QED
    BY <1>3, <1>7, <2>1
<1>8. CASE \E u \in Unit :
             /\ polled = <<>>
             /\ arrived = <<[op |-> "READ_RESP", burst |-> [unit |-> u, left |-> Beats[u]]]>>
  <2>1. PICK u \in Unit :
          /\ polled = <<>>
          /\ arrived = <<[op |-> "READ_RESP", burst |-> [unit |-> u, left |-> Beats[u]]]>>
    BY <1>8
  <2>2. [op |-> "READ_RESP", burst |-> [unit |-> u, left |-> Beats[u]]] \in Flit
    BY PacketFlits
  <2> QED
    BY <1>3, <2>1, <2>2
<1> QED
  BY <1>2, <1>4, <1>5, <1>6, <1>7, <1>8 DEF Tick

\* The host is at most two writes of the next CTA but one ahead of what it has seen.
LEMMA WritesAhead ==
  ASSUME NEW w \in Nat, NEW s \in Nat, NEW s2 \in Nat, s <= s2, NEW n \in Nat,
         w <= 4 * n, w <= 4 * s + 6, NEW w2,
         \/ w2 = w
         \/ /\ w2 = w + 1 /\ w < 4 * n
            /\ w \div 4 + 1 = s + 1 \/ w % 4 = 0 \/ w % 4 = 1
  PROVE  w2 \in 0 .. 4 * n /\ w2 <= 4 * s2 + 6
<1>1. w \div 4 \in Nat /\ w % 4 \in 0 .. 3 /\ w = 4 * (w \div 4) + (w % 4)
  BY Quarters
<1>2. CASE w2 = w
  BY <1>2
<1>3. CASE w2 = w + 1 /\ w < 4 * n /\ (w \div 4 + 1 = s + 1 \/ w % 4 = 0 \/ w % 4 = 1)
  <2>1. w + 1 <= 4 * s + 6
    BY <1>1, <1>3
  <2> QED
    BY <1>3, <2>1
<1> QED
  BY <1>2, <1>3

\* The writes and the resets of the host.
LEMMA HostStep ==
  ASSUME HostInv, seen \in Nat, seen' \in Nat, seen <= seen', NEW hears \in BOOLEAN,
         hears => polls # <<>>,
         NEW in, NEW arrived, NEW polled, NEW answered, Tick(in, arrived, polled, answered),
         polled # <<>> => resets' = 0, polls' = After(polls, hears) \o polled
  PROVE  HostInv'
<1>1. /\ writes \in Nat /\ NumCtas \in Nat /\ writes <= 4 * NumCtas /\ writes <= 4 * seen + 6
      /\ resets \in 0 .. 2 /\ (resets > 0 => polls = <<>>)
  BY HostAssumption DEF HostInv
<1>2. resets' = resets \/ (resets' = resets + 1 /\ resets < 2 /\ polls = <<>> /\ polled = <<>>)
  BY DEF Tick
<1>3. resets' \in 0 .. 2
  BY <1>1, <1>2
<1>4. resets' > 0 => polls' = <<>>
  <2> HAVE resets' > 0
  <2>1. polled = <<>> /\ polls = <<>>
    <3>1. resets' # 0
      OBVIOUS
    <3> QED
      BY <1>1, <1>2, <3>1
  <2>2. ~hears
    BY <2>1
  <2>3. After(polls, hears) = <<>>
    BY <2>1, <2>2 DEF After
  <2>4. <<>> \o <<>> = <<>>
    BY EmptySeq, ConcatEmptySeq
  <2> QED
    BY <2>1, <2>3, <2>4
<1>5. writes' = writes \/ (writes' = writes + 1 /\ MayWrite)
  BY DEF Tick
<1>6. writes' \in 0 .. 4 * NumCtas /\ writes' <= 4 * seen' + 6
  <2>1. ASSUME MayWrite
        PROVE  writes < 4 * NumCtas /\ (writes \div 4 + 1 = seen + 1 \/ writes % 4 = 0 \/ writes % 4 = 1)
    BY <1>1, <2>1, LaunchRegs DEF MayWrite, NextCta, NextReg
  <2>2. \/ writes' = writes
        \/ /\ writes' = writes + 1 /\ writes < 4 * NumCtas
           /\ writes \div 4 + 1 = seen + 1 \/ writes % 4 = 0 \/ writes % 4 = 1
    BY <1>5, <2>1
  <2> QED
    BY <1>1, <2>2, WritesAhead
<1> QED
  BY <1>3, <1>4, <1>6 DEF HostInv

\* What the host knows is never ahead of the core, and the answer it hears is to a poll.
LEMMA SeenStep ==
  ASSUME NEW p \in Place, NEW a, NEW heard \in Nat, PollInv(p, a, heard), CoreInv(a),
         p.polled <= heard + Len(polls), polls \in Seq(Cta),
         NEW hears \in BOOLEAN, Hears(hears)
  PROVE  /\ seen' \in Nat /\ seen <= seen' /\ seen' <= done
         /\ hears => polls # <<>> /\ answers # <<>>
         /\ answers # <<>> => heard < p.polled
<1>1. /\ seen \in Nat /\ done \in Nat /\ seen <= done
  BY DEF CoreInv
<1>2. /\ answers \in Seq(BOOLEAN) /\ rd_desc \in Seq({"STATUS"})
      /\ p.polled = heard + Len(answers) + One(ar_pending) + Len(rd_desc)
      /\ \A j \in 1 .. Len(answers) : answers[j] => polls[j] <= done
  BY DEF PollInv
<1>3. /\ Len(answers) \in Nat /\ Len(rd_desc) \in Nat /\ Len(polls) \in Nat /\ One(ar_pending) \in 0 .. 1
      /\ p.polled \in Nat
      /\ (answers # <<>> => Len(answers) > 0 /\ Head(answers) = answers[1])
      /\ (Len(polls) > 0 => polls # <<>> /\ Head(polls) = polls[1] /\ polls[1] \in Cta)
  <2>1. One(ar_pending) \in 0 .. 1
    BY DEF One
  <2>2. Len(answers) \in Nat /\ Len(rd_desc) \in Nat /\ Len(polls) \in Nat /\ p.polled \in Nat
    BY <1>2, LenProperties, Fields
  <2>3. answers # <<>> => Len(answers) > 0 /\ Head(answers) = answers[1]
    BY <1>2, <2>2, EmptySeq, HeadTailProperties
  <2>4. Len(polls) > 0 => polls # <<>> /\ Head(polls) = polls[1] /\ polls[1] \in Cta
    BY <2>2, EmptySeq, HeadTailProperties, ElementOfSeq
  <2> QED
    BY <2>1, <2>2, <2>3, <2>4
<1>4. answers # <<>> => heard < p.polled /\ Len(polls) > 0
  <2> HAVE answers # <<>>
  <2>1. heard < p.polled
    BY <1>2, <1>3
  <2> QED
    BY <1>3, <2>1
<1>5. (hears => answers # <<>>)
      /\ seen' = IF hears /\ Head(answers) /\ Head(polls) > seen THEN Head(polls) ELSE seen
  BY DEF Hears
<1>8. (hears => polls # <<>> /\ answers # <<>>) /\ (answers # <<>> => heard < p.polled)
  BY <1>3, <1>4, <1>5
<1>6. CASE hears /\ Head(answers) /\ Head(polls) > seen
  <2>1. /\ seen' = Head(polls) /\ Head(polls) = polls[1] /\ polls[1] \in Cta
        /\ Len(answers) > 0 /\ Head(answers) = answers[1]
    BY <1>3, <1>4, <1>5, <1>6
  <2>6. 1 \in 1 .. Len(answers)
    BY <1>3, <2>1
  <2>7. answers[1]
    BY <1>6, <2>1
  <2>2. polls[1] <= done
    BY <1>2, <2>6, <2>7
  <2>3. seen' \in Nat
    BY <2>1, HostAssumption DEF Cta
  <2>4. seen < seen'
    BY <1>6, <2>1
  <2>5. seen <= seen'
    BY <1>1, <2>3, <2>4
  <2> QED
    BY <1>8, <2>1, <2>2, <2>3, <2>5
<1>7. CASE ~(hears /\ Head(answers) /\ Head(polls) > seen)
  <2>1. seen' = seen
    BY <1>5, <1>7
  <2>2. seen' \in Nat /\ seen <= seen' /\ seen' <= done
    BY <1>1, <2>1
  <2> QED
    BY <1>8, <2>2
<1> QED
  BY <1>6, <1>7

\* The parser takes a poll for a poll.
LEMMA MovesRead ==
  ASSUME NEW p, NEW q, Moves(p, q)
  PROVE  /\ ParsesRead <=> Parses /\ Head(link).op = "READ"
         /\ q.polled = p.polled + One(ParsesRead)
         /\ ParsesRead \in BOOLEAN
<1> DEFINE f == Head(link)
<1>1. p \in Place /\ q \in Place
  BY DEF Moves
<1>2. p.polled \in Nat
  BY <1>1, Fields
<1>9. ParsesRead \in BOOLEAN
  BY DEF ParsesRead
<1>10. (ParsesRead => One(ParsesRead) = 1) /\ (~ParsesRead => One(ParsesRead) = 0)
  BY DEF One
<1>3. CASE q = p /\ ~ParsesWrite /\ ~ParsesRead /\ ~ParsesResp /\ ~ParsesWData /\ ~ParsesRData
  <2>1. ~Parses /\ q.polled = p.polled + 0
    BY <1>2, <1>3 DEF Parses
  <2> QED
    BY <1>3, <1>9, <1>10, <2>1
<1>4. CASE TakesWrite(p, f, q) /\ ~ParsesRead
  <2>1. f.op = "WRITE" /\ Takes(p, f, q)
    BY <1>4 DEF TakesWrite, Takes
  <2>2. q.polled = p.polled
    BY <1>1, <2>1, TakesMoves
  <2>3. q.polled = p.polled + 0
    BY <1>2, <2>2
  <2> QED
    BY <1>4, <1>9, <1>10, <2>1, <2>3
<1>5. CASE TakesRead(p, f, q) /\ ParsesRead
  <2>1. f.op = "READ" /\ Takes(p, f, q)
    BY <1>5 DEF TakesRead, Takes
  <2>2. q.polled = p.polled + 1
    BY <1>1, <2>1, TakesMoves
  <2> QED
    BY <1>5, <1>9, <1>10, <2>1, <2>2 DEF Parses
<1>6. CASE TakesResp(p, f, q) /\ ~ParsesRead
  <2>1. f.op = "READ_RESP" /\ Takes(p, f, q)
    BY <1>6 DEF TakesResp, Takes
  <2>2. q.polled = p.polled
    BY <1>1, <2>1, TakesMoves
  <2>3. q.polled = p.polled + 0
    BY <1>2, <2>2
  <2> QED
    BY <1>6, <1>9, <1>10, <2>1, <2>3
<1>7. CASE TakesWData(p, f, q) /\ ~ParsesRead
  <2>1. f.op = "DATA" /\ Takes(p, f, q)
    BY <1>7 DEF TakesWData, Takes
  <2>2. q.polled = p.polled
    BY <1>1, <2>1, TakesMoves
  <2>3. q.polled = p.polled + 0
    BY <1>2, <2>2
  <2> QED
    BY <1>7, <1>9, <1>10, <2>1, <2>3
<1>8. CASE TakesRData(p, f, q) /\ ~ParsesRead
  <2>1. f.op = "DATA" /\ Takes(p, f, q)
    BY <1>8 DEF TakesRData, Takes
  <2>2. q.polled = p.polled
    BY <1>1, <2>1, TakesMoves
  <2>3. q.polled = p.polled + 0
    BY <1>2, <2>2
  <2> QED
    BY <1>8, <1>9, <1>10, <2>1, <2>3
<1> HIDE DEF f
<1> QED
  BY <1>3, <1>4, <1>5, <1>6, <1>7, <1>8, <1>9 DEF Moves, f

\* The polls under way are divided among the link, the FIFO, the registers and the way back;
\* a clock takes some from one of these to the next.
Shares(all, onlink, queued, pending, back) ==
  /\ onlink \in Nat /\ queued \in Nat /\ pending \in Nat /\ back \in Nat
  /\ all = onlink + queued + pending + back

Transfers(heard, taken, asked_, parsed, sent) ==
  {heard, taken, asked_, parsed, sent} \subseteq 0 .. 1

LEMMA SharesKept ==
  ASSUME NEW l, NEW c, NEW r, NEW b, NEW o, Shares(l, c, r, b, o),
         NEW h, NEW k, NEW s, NEW m, NEW n, Transfers(h, k, s, m, n)
  PROVE  l - h + n = (c - m + n) + (r - s + m) + (b - k + s) + (o - h + k)
BY DEF Shares, Transfers

\* A poll on its way goes from one place to the next.
LEMMA PollsKeep ==
  ASSUME PollsAnsweredOnce, link \in Seq(Flit), polls \in Seq(Cta), ar_pending \in BOOLEAN,
         answers \in Seq(BOOLEAN), rd_desc \in Seq({"STATUS"}), complete \in BOOLEAN,
         NEW p, NEW q, Moves(p, q), NEW arrived,
         arrived = <<>> \/ (\E x \in Flit : arrived = << x >>),
         NEW hears, NEW taken, NEW polled, PollCycle(hears, taken, polled),
         Len(polled) \in 0 .. 1,
         \A x \in Flit : arrived = << x >> => (x.op = "READ" <=> Len(polled) = 1),
         arrived = <<>> => Len(polled) = 0,
         link' = After(link, Parses) \o arrived,
         Shifted(polls', polls, One(hears), polled)
  PROVE  PollsAnsweredOnce'
<1> DEFINE C == Cardinality(PollsOf(link))
           t == ArValid /\ ArReady
<1>1. /\ hears \in BOOLEAN /\ taken \in BOOLEAN /\ (taken => ar_pending) /\ (hears => answers # <<>>)
      /\ answers' = With(After(answers, hears), taken, complete)
      /\ ar_pending' = ((ar_pending /\ ~taken) \/ t)
      /\ rd_desc' = With(After(rd_desc, t), ParsesRead, "STATUS")
  BY DEF PollCycle
<1>2. t \in BOOLEAN /\ (t => ~ar_pending /\ rd_desc # <<>>)
  BY DEF ArValid, ArReady
<1>3. ParsesRead \in BOOLEAN /\ (ParsesRead <=> Parses /\ Head(link).op = "READ")
  BY MovesRead
<1> HIDE DEF t
<1>4. C \in Nat /\ Cardinality(PollsOf(link)') = C - One(ParsesRead) + Len(polled)
  <2>1. Parses => link # <<>>
    BY DEF Parses, ParsesWrite, ParsesRead, ParsesResp, ParsesWData, ParsesRData, Header
  <2>2. One(ParsesRead) = One(Parses /\ Head(link).op = "READ")
    BY <1>3 DEF One
  <2>3. PICK n : n = Len(polled)
    OBVIOUS
  <2>4. /\ Cardinality(PollsOf(link)) \in Nat
        /\ Cardinality(PollsOf(link)') = Cardinality(PollsOf(link))
                                           - One(Parses /\ Head(link).op = "READ") + n
    BY <2>1, <2>3, PollsOfClock
  <2> QED
    BY <2>2, <2>3, <2>4
<1>5. Len(answers') = Len(answers) - One(hears) + One(taken)
  <2>1. taken => complete \in BOOLEAN
    OBVIOUS
  <2>2. PICK c : c = complete
    OBVIOUS
  <2>3. Cycled(With(After(answers, hears), taken, c), answers, hears, taken, c)
    BY <1>1, <2>1, <2>2, WithAt
  <2> QED
    BY <1>1, <2>2, <2>3 DEF Cycled
<1>6. Len(rd_desc') = Len(rd_desc) - One(t) + One(ParsesRead)
  <2>1. "STATUS" \in {"STATUS"}
    OBVIOUS
  <2>2. Cycled(With(After(rd_desc, t), ParsesRead, "STATUS"), rd_desc, t, ParsesRead, "STATUS")
    BY <1>2, <1>3, <2>1, WithAt
  <2> QED
    BY <1>1, <2>2 DEF Cycled
<1>7. Len(polls') = Len(polls) - One(hears) + Len(polled)
  BY DEF Shifted
<1>8. One(ar_pending') = One(ar_pending) - One(taken) + One(t)
  BY <1>1, <1>2 DEF One
<1>9. /\ Len(polls) = C + Len(rd_desc) + One(ar_pending) + Len(answers)
      /\ Len(polls) \in Nat /\ Len(rd_desc) \in Nat /\ Len(answers) \in Nat
  BY LenProperties DEF PollsAnsweredOnce, PollsOf, One
<1>10. /\ One(hears) \in 0 .. 1 /\ One(taken) \in 0 .. 1 /\ One(t) \in 0 .. 1 /\ One(ParsesRead) \in 0 .. 1
       /\ One(ar_pending) \in 0 .. 1
  BY DEF One
<1> HIDE DEF C
<1>11. Len(polls') = Cardinality(PollsOf(link)') + Len(rd_desc') + One(ar_pending') + Len(answers')
  <2>1. Shares(Len(polls), C, Len(rd_desc), One(ar_pending), Len(answers))
    BY <1>4, <1>9, <1>10 DEF Shares
  <2>2. Transfers(One(hears), One(taken), One(t), One(ParsesRead), Len(polled))
    BY <1>10 DEF Transfers
  <2>3. Len(polls) - One(hears) + Len(polled)
          = (C - One(ParsesRead) + Len(polled)) + (Len(rd_desc) - One(t) + One(ParsesRead))
              + (One(ar_pending) - One(taken) + One(t)) + (Len(answers) - One(hears) + One(taken))
    BY <2>1, <2>2, SharesKept
  <2> QED
    BY <1>4, <1>5, <1>6, <1>7, <1>8, <2>3
<1> QED
  BY <1>11 DEF PollsAnsweredOnce, PollsOf, One

-----------------------------------------------------------------------------
(* The inductive invariant. *)

\* g is the run of the parser, p the place it is at, heard the polls the host has heard of,
\* a and z the writes and the resets that have landed.
InvAt(g, p, heard, a, z) ==
  /\ heard \in Nat /\ StreamInv(g, heard) /\ p = g[0] /\ WriteInv(p)
  /\ a = Landed(p) /\ z = Resets(p)
  /\ CsrInv(a, z) /\ CoreInv(a) /\ HostInv /\ PollInv(p, a, heard)
  /\ BeatInv /\ FifoInv /\ SignalInv /\ PollsAnsweredOnce

Inv == \E g, p, heard, a, z : InvAt(g, p, heard, a, z)

\* The writes that have landed were sent.
LEMMA LandedSent ==
  ASSUME NEW g, NEW p, NEW heard, NEW a, NEW z, InvAt(g, p, heard, a, z)
  PROVE  /\ p \in Place /\ a \in Nat /\ a <= writes /\ z \in Nat /\ z <= resets /\ writes \in Nat
         /\ writes <= 4 * seen + 6 /\ heard <= p.polled /\ p.polled <= heard + Len(polls)
         /\ link # <<>> => g[1].polled <= heard + Len(polls)
         /\ writes <= 4 * NumCtas /\ resets <= 2
<1>1. heard \in Nat /\ StreamInv(g, heard) /\ p = g[0] /\ WriteInv(p) /\ HostInv
  BY DEF InvAt
<1>2. /\ p \in Place /\ p.sent <= writes /\ p.resets <= resets /\ heard <= p.polled
      /\ p.polled <= heard + Len(polls)
      /\ link # <<>> => g[1].polled <= heard + Len(polls)
  BY <1>1, Bounds
<1>3. p.sent \in Nat /\ p.resets \in Nat
  BY <1>2, Fields
<1>4. writes \in Nat /\ resets \in Nat /\ writes <= 4 * seen + 6 /\ writes <= 4 * NumCtas /\ resets <= 2
  BY <1>1, HostAssumption DEF HostInv
<1>5. a = p.sent - One(InFlight /\ p.resets = 0) /\ z = p.resets - One(InFlight /\ p.resets > 0)
  BY DEF InvAt, Landed, Resets
<1>6. InFlight /\ p.resets = 0 => p.sent > 0
  BY <1>1 DEF InFlight, WriteInv
<1>7. a \in Nat /\ a <= p.sent /\ z \in Nat /\ z <= p.resets
  <2>1. CASE InFlight /\ p.resets = 0
    <3>1. a = p.sent - 1 /\ z = p.resets - 0
      BY <1>5, <2>1 DEF One
    <3> QED
      BY <1>3, <1>6, <2>1, <3>1
  <2>2. CASE InFlight /\ p.resets > 0
    <3>1. a = p.sent - 0 /\ z = p.resets - 1
      BY <1>5, <2>2 DEF One
    <3> QED
      BY <1>3, <2>2, <3>1
  <2>3. CASE ~InFlight
    <3>1. a = p.sent - 0 /\ z = p.resets - 0
      BY <1>5, <2>3 DEF One
    <3> QED
      BY <1>3, <3>1
  <2> QED
    BY <1>3, <2>1, <2>2, <2>3
<1>8. a <= writes /\ z <= resets
  <2>1. a <= writes
    BY <1>2, <1>3, <1>4, <1>7, AtMostThrough
  <2>2. z <= resets
    BY <1>2, <1>3, <1>4, <1>7, AtMostThrough
  <2> QED
    BY <2>1, <2>2
<1> QED
  BY <1>2, <1>4, <1>7, <1>8

\* What happens in a clock, in terms of the parts of the invariant.
Ticks(in, arrived, polled, r, fires) ==
  /\ WriteCycle /\ BeatCycle(fires) /\ PollCycle(in.hears, in.taken, polled)
  /\ CsrCycle(cta_out, in.taken) /\ CoreCycle(in.asks, in.completes, r)
  /\ Hears(in.hears) /\ link' = After(link, Parses) \o arrived

LEMMA TickTicks ==
  ASSUME SignalInv, HostInv, seen \in Nat,
         NEW in, NEW arrived, NEW polled, NEW answered, Tick(in, arrived, polled, answered),
         polled = <<>> \/ (polled = <<Started>> /\ Started > seen /\ Len(polls) < MaxPolls)
  PROVE  /\ \E r, fires : Ticks(in, arrived, polled, r, fires)
         /\ in \in Inputs /\ in.hears \in BOOLEAN /\ in.taken \in BOOLEAN
         /\ asked' = (asked \ answered) \cup in.asks
         /\ polls' = After(polls, in.hears) \o polled
         /\ complete' <=> cta_out \/ (complete /\ ~Start)
<1>1. in \in Inputs /\ Clock(in, arrived, polled, answered)
  BY DEF Tick
<1>2. in.hears \in BOOLEAN /\ in.taken \in BOOLEAN
  BY <1>1 DEF Inputs
<1>3. WriteCycle
  BY <1>1, ClockWrites
<1>4. \E fires : BeatCycle(fires)
  <2>1. BeatCycle(RValid /\ RReady(in.bank_ready))
    <3>1. (RValid /\ RReady(in.bank_ready)) \in BOOLEAN
      BY DEF RValid, RReady, RStarts
    <3> QED
      BY <1>1, <3>1 DEF Clock, RxCycle, BeatCycle
  <2> QED
    BY <2>1
<1>5. \E r : CoreCycle(in.asks, in.completes, r)
  BY <1>1 DEF Clock
<1>6. /\ CsrCycle(cta_out, in.taken) /\ Hears(in.hears) /\ link' = After(link, Parses) \o arrived
      /\ polls' = After(polls, in.hears) \o polled /\ asked' = (asked \ answered) \cup in.asks
  BY <1>1 DEF Clock, RxCycle
<1>7. polled \in Seq(Nat)
  <2>1. writes \in Nat
    BY HostAssumption DEF HostInv
  <2>2. Started \in Nat
    BY <2>1, Quarters DEF Started
  <2>3. << >> \in Seq(Nat) /\ << Started >> \in Seq(Nat)
    BY <2>2, EmptySeq
  <2> QED
    BY <2>3
<1>8. PollCycle(in.hears, in.taken, polled)
  BY <1>1, <1>2, <1>7 DEF Clock, RxCycle, CsrCycle, Hears, PollCycle
<1>9. complete' <=> cta_out \/ (complete /\ ~Start)
  BY <1>6 DEF CsrCycle, CompleteUpdate
<1>10. \E r, fires : Ticks(in, arrived, polled, r, fires)
  BY <1>3, <1>4, <1>5, <1>6, <1>8 DEF Ticks
<1> QED
  BY <1>1, <1>2, <1>6, <1>9, <1>10

\* A step keeps the invariant; what the host knows is not ahead of the core it knew.
LEMMA InvStep ==
  ASSUME NEW g, NEW p, NEW heard, NEW a, NEW z, InvAt(g, p, heard, a, z), Next
  PROVE  Inv' /\ seen' \in Nat /\ seen <= seen' /\ seen' <= done
<1>1. /\ heard \in Nat /\ StreamInv(g, heard) /\ p = g[0] /\ WriteInv(p) /\ a = Landed(p) /\ z = Resets(p)
      /\ CsrInv(a, z) /\ CoreInv(a) /\ HostInv /\ PollInv(p, a, heard)
      /\ BeatInv /\ FifoInv /\ SignalInv /\ PollsAnsweredOnce
  BY DEF InvAt
<1>2. /\ p \in Place /\ a \in Nat /\ a <= writes /\ writes \in Nat /\ writes <= 4 * seen + 6
      /\ p.polled <= heard + Len(polls) /\ (link # <<>> => g[1].polled <= heard + Len(polls))
  BY LandedSent
<1>3. /\ polls \in Seq(Cta) /\ link \in Seq(Flit) /\ BurstsInv
      /\ answers \in Seq(BOOLEAN) /\ rd_desc \in Seq({"STATUS"})
      /\ ar_pending \in BOOLEAN /\ complete \in BOOLEAN
      /\ seen \in Nat /\ done \in Nat
  BY <1>1 DEF SignalInv, StreamInv, PollInv, FifoInv, CoreInv
<1>4. PICK in, arrived, polled, answered : Tick(in, arrived, polled, answered)
  BY NextIsTick
<1>5. /\ arrived = <<>> \/ (\E x \in Flit : arrived = << x >>)
      /\ polled = <<>> \/ (polled = <<Started>> /\ Started > seen /\ Len(polls) < MaxPolls)
      /\ \A x \in Flit : arrived = << x >> => (x.op = "READ" <=> polled # <<>>)
      /\ arrived = <<>> => polled = <<>>
      /\ polled # <<>> => resets = 0 /\ resets' = 0
  BY <1>1, <1>4, TickSends
<1>6. /\ \E r, fires : Ticks(in, arrived, polled, r, fires)
      /\ in \in Inputs /\ in.hears \in BOOLEAN /\ in.taken \in BOOLEAN
      /\ asked' = (asked \ answered) \cup in.asks
      /\ polls' = After(polls, in.hears) \o polled
      /\ complete' <=> cta_out \/ (complete /\ ~Start)
  BY <1>1, <1>3, <1>4, <1>5, TickTicks
<1>7. PICK r, fires : Ticks(in, arrived, polled, r, fires)
  BY <1>6
<1>8. /\ WriteCycle /\ BeatCycle(fires) /\ PollCycle(in.hears, in.taken, polled)
      /\ CsrCycle(cta_out, in.taken) /\ CoreCycle(in.asks, in.completes, r)
      /\ Hears(in.hears) /\ link' = After(link, Parses) \o arrived
  BY <1>7 DEF Ticks
<1>9. /\ seen' \in Nat /\ seen <= seen' /\ seen' <= done
      /\ in.hears => polls # <<>> /\ answers # <<>>
      /\ answers # <<>> => heard < p.polled
  <2>1. PICK h \in BOOLEAN : h = in.hears
    BY <1>6
  <2>2. Hears(h)
    BY <1>8, <2>1
  <2>3. /\ seen' \in Nat /\ seen <= seen' /\ seen' <= done
        /\ h => polls # <<>> /\ answers # <<>>
        /\ answers # <<>> => heard < p.polled
    BY <1>1, <1>2, <1>3, <2>2, SeenStep
  <2> QED
    BY <2>1, <2>3
<1>10. PICK H : H = heard + One(in.hears)
  OBVIOUS
<1>11. PICK k, q : k[0] = q /\ GoesAlong(g, heard, q) /\ StreamInv(k, H)'
  BY <1>1, <1>3, <1>4, <1>9, <1>10, StreamStep
<1>12. Moves(p, q)
  BY <1>1, <1>11 DEF GoesAlong
<1>13. q \in Place
  BY <1>12 DEF Moves
<1>14. /\ WriteInv(q)' /\ (ParsesRead => Landed(q)' = p.sent)
  BY <1>1, <1>8, <1>12, WriteStep
<1>15. PICK a2, z2 : a2 = Landed(q)' /\ z2 = Resets(q)'
  OBVIOUS
<1>16. Lands(p, a, z, a2, z2)
  BY <1>1, <1>8, <1>12, <1>15, LandsOne
<1>17. /\ CsrInv(a2, z2)' /\ (Start' <=> a2 = a + 1 /\ a % 4 = 3) /\ (Start => a2 = a)
       /\ a2 \in {a, a + 1}
  <2>1. add_fire' => Start
    BY <1>8 DEF CoreCycle, CoreReset, AddFire
  <2>2. PICK c, t : CsrCycle(c, t)
    BY <1>8
  <2> QED
    BY <1>1, <1>16, <2>1, <2>2, CsrStep
<1>18. CoreInv(a2)'
  BY <1>1, <1>2, <1>6, <1>8, <1>9, <1>17, CoreStep
<1>19. HostInv'
  <2>1. polled # <<>> => resets' = 0
    BY <1>5
  <2>2. PICK h \in BOOLEAN : h = in.hears
    BY <1>6
  <2>3. (h => polls # <<>>) /\ polls' = After(polls, h) \o polled
    BY <1>6, <1>9, <2>2
  <2> QED
    BY <1>1, <1>3, <1>4, <1>9, <2>1, <2>3, HostStep
<1>20. /\ polled \in Seq(Cta) /\ polls' \in Seq(Cta) /\ Len(polls') <= MaxPolls
       /\ Shifted(polls', polls, One(in.hears), polled)
  <2>1. PICK h \in BOOLEAN : h = in.hears
    BY <1>6
  <2>2. (h => polls # <<>>) /\ polls' = After(polls, h) \o polled
    BY <1>6, <1>9, <2>1
  <2>3. /\ polled \in Seq(Cta) /\ polls' \in Seq(Cta) /\ Len(polls') <= MaxPolls
        /\ Shifted(polls', polls, One(h), polled)
    BY <1>1, <1>3, <1>5, <2>2, PollsFit
  <2> QED
    BY <2>1, <2>3
<1>21. PollsMove(p, q, heard, a, a2)
  <2>1. polls \in Seq(Nat)
    <3>1. Cta \subseteq Nat
      BY HostAssumption DEF Cta
    <3> QED
      BY <1>3, <3>1, SeqMonotonic
  <2>2. q.polled = p.polled + One(ParsesRead) /\ (ParsesRead => Parses /\ Head(link).op = "READ")
    BY <1>12, MovesRead
  <2>3. q.polled <= heard + Len(polls)
    <3>1. CASE Parses
      BY <1>2, <1>11, <3>1 DEF GoesAlong
    <3>2. CASE ~Parses
      BY <1>1, <1>2, <1>11, <3>2 DEF GoesAlong
    <3> QED
      BY <3>1, <3>2
  <2>4. ParsesRead => 4 * polls[p.polled - heard + 1] <= a2
    <3> HAVE ParsesRead
    <3>1. polls[p.polled - heard + 1] = p.sent \div 4
      BY <1>1, <1>11, <2>2 DEF GoesAlong
    <3>2. a2 = p.sent /\ p.sent \in Nat
      BY <1>2, <1>14, <1>15, Fields
    <3>3. 4 * (p.sent \div 4) <= p.sent
      BY <3>2
    <3> QED
      BY <3>1, <3>2, <3>3
  <2>5. done' \in Nat /\ done <= done'
    <3>1. done' = IF cta_out THEN done + 1 ELSE done
      BY <1>8 DEF CoreCycle
    <3> QED
      BY <1>3, <3>1
  <2>6. complete /\ ~Start => done = a \div 4
    BY <1>1 DEF CoreInv
  <2>7. Start => a \div 4 = done + 1 /\ a % 4 = 0
    <3> HAVE Start
    <3>1. launched = seen /\ done = seen /\ a \div 4 = seen + 1
      BY <1>1, <1>2, StartsIdle
    <3>2. a % 4 = 0
      BY <1>1 DEF CsrInv
    <3> QED
      BY <3>1, <3>2
  <2> QED
    BY <1>2, <1>3, <1>17, <2>1, <2>2, <2>3, <2>4, <2>5, <2>6, <2>7 DEF PollsMove
<1>22. PollInv(q, a2, H)'
  <2>1. PICK h, t : PollCycle(h, t, polled) /\ h = in.hears
    BY <1>8
  <2>2. PollInv(q, a2, heard + One(h))'
    BY <1>1, <1>2, <1>13, <1>21, <2>1, PollStep
  <2> QED
    BY <1>10, <2>1, <2>2
<1>23. /\ ParsesResp => Head(link).burst \in Burst
       /\ ParsesRData => Head(link).word \in Word
  BY <1>3, <1>12, MovesFlit
<1>24. BeatInv'
  BY <1>1, <1>3, <1>8, <1>12, <1>23, MovesBeat, BeatStep
<1>25. FifoInv'
  <2>1. rd_desc' = With(After(rd_desc, ArValid /\ ArReady), ParsesRead, "STATUS")
    BY <1>8 DEF PollCycle
  <2> QED
    BY <1>1, <1>3, <1>8, <1>12, <2>1, FifoStep
<1>26. SignalInv'
  BY <1>1, <1>2, <1>6, <1>8, <1>20, SignalStep
<1>27. PollsAnsweredOnce'
  <2>1. PICK h, t : PollCycle(h, t, polled) /\ h = in.hears
    BY <1>8
  <2>2. Shifted(polls', polls, One(h), polled)
    BY <1>20, <2>1
  <2>3. /\ Len(polled) \in 0 .. 1
        /\ \A x \in Flit : arrived = << x >> => (x.op = "READ" <=> Len(polled) = 1)
        /\ arrived = <<>> => Len(polled) = 0
    <3>1. polled # <<>> => Len(polled) = 1
      BY <1>5
    <3>2. polled = <<>> => Len(polled) = 0
      OBVIOUS
    <3> QED
      BY <1>5, <3>1, <3>2
  <2> QED
    BY <1>1, <1>3, <1>5, <1>8, <1>12, <2>1, <2>2, <2>3, PollsKeep
<1>28. InvAt(k, q, H, a2, z2)'
  <2>1. H \in Nat
    BY <1>1, <1>6, <1>10 DEF One
  <2> QED
    BY <1>11, <1>14, <1>15, <1>17, <1>18, <1>19, <1>22, <1>24, <1>25, <1>26, <1>27, <2>1 DEF InvAt
<1> QED
  BY <1>9, <1>28 DEF Inv

LEMMA InvInit ==
  ASSUME Init
  PROVE  Inv
<1> DEFINE p == [state |-> "RX_IDLE", left |-> 0, sent |-> 0, resets |-> 0, polled |-> 0]
           g == [i \in 0 .. 0 |-> p]
<1>1. /\ link = <<>> /\ state = "RX_IDLE" /\ beats_left = 0
      /\ wr_desc = <<>> /\ w_data = <<>> /\ rd_desc = <<>> /\ r_desc = <<>> /\ r_data = <<>>
      /\ write_active = FALSE /\ r_burst = [unit |-> "mfetch", left |-> 0]
      /\ aw_pending = FALSE /\ aw_idx = "CTRL" /\ ctrl = 0
      /\ start_pc = 0 /\ thread_count = 0 /\ csrX = 0 /\ complete = FALSE /\ ar_pending = FALSE
      /\ writes = 0 /\ owed = <<>> /\ polls = <<>> /\ seen = 0 /\ resets = 0
      /\ asked = {} /\ answers = <<>>
      /\ add_fire = FALSE /\ cta = NoCta /\ cta_out = FALSE
      /\ waits = {} /\ reads = 0 /\ launched = 0 /\ done = 0
  BY DEF Init, RxInit, CsrInit
<1>2. /\ NumCtas \in Nat \ {0} /\ MaxPolls \in Nat /\ MaxReads \in Nat /\ 0 \in Word
      /\ LinkDepth \in Nat /\ RdDescDepth \in Nat /\ RDescDepth \in Nat /\ RDataDepth \in Nat
      /\ Beats \in [Unit -> Nat \ {0}]
  BY HostAssumption, DepthsAssumption, BeatsAssumption
<1>3. \A S : <<>> \in Seq(S) /\ Len(<<>>) = 0
  BY EmptySeq
<1>4. p \in Place /\ g \in [0 .. 0 -> Place] /\ g[0] = p
  BY DEF Place
<1>5. p.state = "RX_IDLE" /\ p.left = 0 /\ p.sent = 0 /\ p.resets = 0 /\ p.polled = 0
  OBVIOUS
<1>6. p = End(0)
  BY <1>1, <1>3 DEF End
<1> HIDE DEF p, g
<1>7. StreamInv(g, 0)
  <2>1. Flits = <<>>
    BY <1>1, <1>3, ConcatEmptySeq DEF Flits
  <2>2. g \in [0 .. Len(Flits) -> Place] /\ Len(Flits) = 0 /\ 1 .. Len(Flits) = {} /\ 1 .. Len(owed) = {}
        /\ Len(link) <= LinkDepth
    BY <1>1, <1>2, <1>3, <1>4, <2>1
  <2>3. ASSUME NEW i \in 0 .. Len(Flits), NEW j \in 0 .. Len(Flits), i <= j
        PROVE  g[i].sent <= g[j].sent /\ g[i].resets <= g[j].resets /\ g[i].polled <= g[j].polled
    <3>1. i = 0 /\ j = 0
      BY <2>2
    <3> QED
      BY <1>4, <1>5, <3>1
  <2>4. 0 <= g[0].polled /\ End(0).polled = 0 + Len(polls)
    BY <1>1, <1>3, <1>4, <1>5, <1>6
  <2>5. Stream(Flits, g, End(0), polls, 0)
    BY <1>4, <1>6, <2>2, <2>3, <2>4 DEF Stream, Follows
  <2> QED
    BY <1>1, <1>3, <1>4, <1>5, <2>2, <2>5 DEF StreamInv
<1>8. WriteInv(p)
  BY <1>1 DEF WriteInv
<1>9. Landed(p) = 0 /\ Resets(p) = 0
  BY <1>1, <1>5 DEF Landed, Resets, InFlight, One
<1>10. ~Start
  BY <1>1 DEF Start
<1>11. CsrInv(0, 0) /\ CoreInv(0)
  <2>1. CsrInv(0, 0)
    BY <1>1, <1>10 DEF CsrInv
  <2>2. CoreInv(0)
    BY <1>1, <1>10 DEF CoreInv, One
  <2> QED
    BY <2>1, <2>2
<1>12. HostInv
  BY <1>1, <1>2 DEF HostInv
<1>13. PollInv(p, 0, 0)
  <2>1. 1 .. Len(answers) = {} /\ 1 .. p.polled - 0 = {}
    BY <1>1, <1>3, <1>5
  <2> QED
    BY <1>1, <1>3, <1>5, <1>10, <2>1 DEF PollInv, One
<1>14. FifoInv
  <2>1. 1 .. Len(r_desc) = {}
    BY <1>1, <1>3
  <2>2. r_burst \in Burst /\ r_burst.left <= Beats[r_burst.unit]
    <3>1. "mfetch" \in Unit
      BY DEF Unit
    <3>2. Beats["mfetch"] \in Nat
      BY <1>2, <3>1
    <3> QED
      BY <1>1, <1>2, <3>1, <3>2 DEF Burst
  <2>3. \E u \in Unit : beats_left <= Beats[u]
    <3>1. "mfetch" \in Unit /\ Beats["mfetch"] \in Nat
      BY <1>2 DEF Unit
    <3> QED
      BY <1>1, <3>1
  <2> QED
    BY <1>1, <1>2, <1>3, <2>1, <2>2, <2>3 DEF FifoInv, BurstsInv
<1>15. BeatInv
  <2> DEFINE last == [left |-> 0, next |-> 1]
             h == [i \in 0 .. 0 |-> last]
  <2>1. last \in Rest /\ h \in [0 .. 0 -> Rest] /\ h[0] = last /\ last.next = 1
    BY DEF Rest
  <2>2. Len(r_data) = 0 /\ Len(r_desc) = 0 /\ 1 .. Len(r_data) = {} /\ r_burst.left = 0
    BY <1>1, <1>3
  <2> HIDE DEF h
  <2>3. ASSUME NEW i \in 0 .. Len(r_data), NEW j \in 0 .. Len(r_data) PROVE h[i].next <= h[j].next
    <3>1. i = 0 /\ j = 0
      BY <2>2
    <3> QED
      BY <2>1, <3>1
  <2>4. Replay(r_data, r_desc, r_burst.left, last)
    BY <2>1, <2>2, <2>3 DEF Replay
  <2>5. Behind(last, r_desc, state, beats_left)
    BY <1>1, <2>2 DEF Behind
  <2> QED
    BY <2>1, <2>4, <2>5 DEF BeatInv
<1>16. SignalInv
  <2>1. asked \subseteq Unit /\ waits \subseteq Unit /\ aw_idx \in Reg
    BY <1>1 DEF Reg
  <2>2. reads \in 0 .. MaxReads
    BY <1>1, <1>2
  <2>3. polls \in Seq(Cta) /\ Len(polls) = 0
    BY <1>1, <1>3
  <2>4. Len(polls) <= MaxPolls
    BY <1>2, <2>3
  <2>5. {aw_pending, complete, ar_pending, write_active, add_fire, cta_out} \subseteq BOOLEAN
    BY <1>1
  <2> QED
    BY <2>1, <2>2, <2>3, <2>4, <2>5 DEF SignalInv
<1>17. PollsAnsweredOnce
  <2>1. {i \in DOMAIN link : link[i].op = "READ"} = {}
    BY <1>1, <1>3
  <2>2. Cardinality({}) = 0
    BY FS_EmptySet
  <2> QED
    BY <1>1, <1>3, <2>1, <2>2 DEF PollsAnsweredOnce
<1>18. InvAt(g, p, 0, 0, 0)
  BY <1>4, <1>7, <1>8, <1>9, <1>11, <1>12, <1>13, <1>14, <1>15, <1>16, <1>17 DEF InvAt
<1> QED
  BY <1>18 DEF Inv

LEMMA InvStutter ==
  ASSUME Inv, UNCHANGED vars
  PROVE  Inv'
<1>1. PICK g, p, heard, a, z : InvAt(g, p, heard, a, z)
  BY DEF Inv
<1>2. UNCHANGED vars
  OBVIOUS
<1>3. /\ UNCHANGED <<link, state, beats_left, wr_desc, w_data, rd_desc, r_desc, r_data, write_active>>
      /\ UNCHANGED <<r_burst, aw_pending, aw_idx, ctrl, start_pc, thread_count, csrX, complete>>
      /\ UNCHANGED <<ar_pending, writes, owed, polls, seen, resets, asked, answers, add_fire, cta>>
      /\ UNCHANGED <<cta_out, waits, reads, launched, done>>
  BY <1>2 DEF vars, rx_vars, csr_vars, host_vars, core_vars
<1>4. StreamInv(g, heard)'
  BY <1>1, <1>3 DEF InvAt, StreamInv, Flits, End
<1>5. WriteInv(p)'
  BY <1>1, <1>3 DEF InvAt, WriteInv
<1>6. Landed(p)' = Landed(p) /\ Resets(p)' = Resets(p)
  BY <1>3 DEF Landed, Resets, InFlight
<1>7. CsrInv(a, z)' /\ CoreInv(a)' /\ HostInv'
  BY <1>1, <1>3 DEF InvAt, CsrInv, CoreInv, HostInv, Start
<1>8. PollInv(p, a, heard)'
  BY <1>1, <1>3 DEF InvAt, PollInv, Start
<1>9. BeatInv'
  BY <1>1, <1>3 DEF InvAt, BeatInv
<1>10. FifoInv'
  BY <1>1, <1>3 DEF InvAt, FifoInv, BurstsInv
<1>11. SignalInv'
  BY <1>1, <1>3 DEF InvAt, SignalInv
<1>12. PollsAnsweredOnce'
  BY <1>1, <1>3 DEF InvAt, PollsAnsweredOnce
<1>13. InvAt(g, p, heard, a, z)'
  BY <1>1, <1>4, <1>5, <1>6, <1>7, <1>8, <1>9, <1>10, <1>11, <1>12 DEF InvAt
<1> QED
  BY <1>13 DEF Inv

\* The invariant holds in every state.
THEOREM Invariance == Spec => []Inv
<1>1. Init => Inv
  BY InvInit
<1>2. Inv /\ [Next]_vars => Inv'
  <2> SUFFICES ASSUME Inv, [Next]_vars PROVE Inv'
    OBVIOUS
  <2>1. CASE Next
    BY <2>1, InvStep DEF Inv
  <2>2. CASE UNCHANGED vars
    BY <2>2, InvStutter
  <2> QED
    BY <2>1, <2>2
<1> QED
  BY <1>1, <1>2, PTL DEF Spec

-----------------------------------------------------------------------------
(* What the invariant says of a state. *)

\* In numbers: the registers and the counters of the core.
LEMMA InvCounts ==
  ASSUME NEW g, NEW p, NEW heard, NEW a, NEW z, InvAt(g, p, heard, a, z)
  PROVE  /\ seen \in 0 .. NumCtas /\ done \in 0 .. NumCtas /\ launched \in 0 .. NumCtas
         /\ seen <= done /\ done <= launched /\ launched <= done + 1 /\ launched <= seen + 1
         /\ (a + 3) \div 4 \in 0 .. NumCtas /\ (a + 2) \div 4 \in 0 .. NumCtas
         /\ (a + 1) \div 4 \in 0 .. NumCtas
         /\ Start \/ add_fire => /\ launched = seen /\ done = seen /\ seen < NumCtas
                                 /\ cta = NoCta /\ ~cta_out
         /\ cta # NoCta => (a + 1) \div 4 = launched
<1>1. /\ a \in Nat /\ a <= 4 * NumCtas /\ a <= writes /\ writes \in Nat /\ writes <= 4 * seen + 6
      /\ NumCtas \in Nat
  <2>1. a \in Nat /\ a <= writes /\ writes \in Nat /\ writes <= 4 * seen + 6 /\ writes <= 4 * NumCtas
    BY LandedSent
  <2>2. NumCtas \in Nat /\ 4 * NumCtas \in Nat
    BY HostAssumption
  <2>3. a <= 4 * NumCtas
    BY <2>1, <2>2, AtMostThrough
  <2> QED
    BY <2>1, <2>2, <2>3
<1>2. CoreInv(a)
  BY DEF InvAt
<1>3. /\ Start \/ add_fire => /\ launched = seen /\ done = seen
                              /\ a \div 4 = seen + 1 /\ cta = NoCta /\ ~cta_out
      /\ ~(Start \/ add_fire) => a \div 4 = launched
      /\ a \div 4 <= seen + 1
      /\ a \div 4 = seen + 1 => a % 4 # 3
  BY <1>1, <1>2, StartsIdle
<1>4. /\ launched \in Nat /\ done \in Nat /\ seen \in Nat
      /\ seen <= done /\ done <= launched /\ launched <= done + 1
      /\ cta # NoCta => launched = done + 1
  BY <1>2 DEF CoreInv
<1>5. /\ a \div 4 \in Nat /\ a \div 4 <= NumCtas
      /\ (a + 3) \div 4 \in 0 .. NumCtas /\ (a + 2) \div 4 \in 0 .. NumCtas
      /\ (a + 1) \div 4 \in 0 .. NumCtas
  <2>1. \A b \in Nat : b <= 4 * NumCtas + 3 => b \div 4 \in 0 .. NumCtas
    <3> TAKE b \in Nat
    <3> HAVE b <= 4 * NumCtas + 3
    <3>1. b \div 4 \in Nat /\ b = 4 * (b \div 4) + (b % 4) /\ b % 4 \in 0 .. 3
      BY Quarters
    <3> QED
      BY <1>1, <3>1
  <2>2. a + 1 \in Nat /\ a + 2 \in Nat /\ a + 3 \in Nat /\ a <= 4 * NumCtas + 3
        /\ a + 1 <= 4 * NumCtas + 3 /\ a + 2 <= 4 * NumCtas + 3 /\ a + 3 <= 4 * NumCtas + 3
    BY <1>1
  <2>3. /\ a \div 4 \in 0 .. NumCtas /\ (a + 3) \div 4 \in 0 .. NumCtas
        /\ (a + 2) \div 4 \in 0 .. NumCtas /\ (a + 1) \div 4 \in 0 .. NumCtas
    BY <1>1, <2>1, <2>2
  <2> QED
    BY <2>3
<1> DEFINE d == a \div 4
           m == a % 4
           c == (a + 1) \div 4
<1>6. m # 3 => c = d
  BY <1>1, Fourths
<1>7. /\ d \in Nat /\ d <= NumCtas /\ d <= seen + 1 /\ (d = seen + 1 => m # 3)
      /\ Start \/ add_fire => launched = seen /\ done = seen /\ d = seen + 1 /\ cta = NoCta /\ ~cta_out
      /\ ~(Start \/ add_fire) => d = launched
  BY <1>3, <1>5
<1> HIDE DEF d, m, c
<1>8. launched <= NumCtas /\ launched <= seen + 1 /\ (Start \/ add_fire => seen < NumCtas)
  <2>1. CASE Start \/ add_fire
    BY <1>1, <1>4, <1>7, <2>1
  <2>2. CASE ~(Start \/ add_fire)
    BY <1>1, <1>4, <1>7, <2>2
  <2> QED
    BY <2>1, <2>2
<1>9. seen <= NumCtas /\ done <= NumCtas
  BY <1>1, <1>4, <1>8
<1>10. ASSUME cta # NoCta PROVE c = launched
  <2>1. ~(Start \/ add_fire) /\ launched = done + 1
    BY <1>4, <1>7, <1>10
  <2>2. d = launched
    BY <1>7, <2>1
  <2>3. d = seen + 1
    BY <1>4, <1>7, <2>1, <2>2
  <2> QED
    BY <1>6, <1>7, <2>2, <2>3
<1> QED
  BY <1>3, <1>4, <1>5, <1>8, <1>9, <1>10 DEF c

\* The word on its way to the registers fits in a data flit.
LEMMA PayloadWord ==
  ASSUME NEW p \in Place, p.resets = 0 => p.sent > 0, p.sent <= writes, writes \in Nat,
         writes <= 4 * NumCtas
  PROVE  Payload(p) \in Word
<1>1. 0 \in Word /\ 1 \in Word /\ 2 \in Word /\ 0 .. NumCtas \subseteq Word /\ NumCtas \in Nat
  <2>1. 0 .. 3 \subseteq Word /\ 0 .. NumCtas \subseteq Word /\ NumCtas \in Nat
    BY HostAssumption
  <2>2. 0 \in 0 .. 3 /\ 1 \in 0 .. 3 /\ 2 \in 0 .. 3
    OBVIOUS
  <2> QED
    BY <2>1, <2>2
<1>2. CASE p.resets # 0
  BY <1>1, <1>2 DEF Payload, ResetWord
<1>3. CASE p.resets = 0
  <2>1. PICK n : n = p.sent - 1
    OBVIOUS
  <2>2. n \in Nat /\ n + 1 <= 4 * NumCtas
    <3>1. p.sent \in Nat /\ p.sent > 0 /\ p.sent <= 4 * NumCtas
      BY <1>1, <1>3, Fields, AtMostThrough
    <3> QED
      BY <1>1, <2>1, <3>1
  <2>3. n \div 4 + 1 \in 0 .. NumCtas
    <3>1. n \div 4 \in Nat /\ n = 4 * (n \div 4) + (n % 4) /\ n % 4 \in 0 .. 3
      BY <2>2, Quarters
    <3> QED
      BY <1>1, <2>2, <3>1
  <2>4. Payload(p) = StartWord \/ Payload(p) = n \div 4 + 1
    BY <1>3, <2>1 DEF Payload, WordOf
  <2> QED
    BY <1>1, <2>3, <2>4 DEF StartWord
<1> QED
  BY <1>2, <1>3

LEMMA InvTypes ==
  ASSUME Inv
  PROVE  TypeOK
<1>1. PICK g, p, heard, a, z : InvAt(g, p, heard, a, z)
  BY DEF Inv
<1>2. /\ heard \in Nat /\ StreamInv(g, heard) /\ p = g[0] /\ WriteInv(p)
      /\ CsrInv(a, z) /\ CoreInv(a) /\ HostInv /\ PollInv(p, a, heard) /\ FifoInv /\ SignalInv
  BY <1>1 DEF InvAt
<1>3. p \in Place /\ writes \in Nat /\ writes <= 4 * NumCtas
  BY <1>1, LandedSent
<1>4. p.sent <= writes
  BY <1>2, Bounds
<1>5. /\ 0 .. NumCtas \subseteq Word /\ 0 .. 3 \subseteq Word /\ NumCtas \in Nat
      /\ WrDescDepth \in Nat /\ WrDescDepth > 0 /\ WDataDepth \in Nat /\ WDataDepth > 0
  BY HostAssumption, DepthsAssumption
<1>6. /\ seen \in 0 .. NumCtas /\ done \in 0 .. NumCtas /\ launched \in 0 .. NumCtas
      /\ (a + 3) \div 4 \in 0 .. NumCtas /\ (a + 2) \div 4 \in 0 .. NumCtas
      /\ (a + 1) \div 4 \in 0 .. NumCtas
  BY <1>1, InvCounts
<1>7. wr_desc \in Seq(Reg) /\ Len(wr_desc) <= 1 /\ w_data \in Seq(Word) /\ Len(w_data) <= 1
  <2>1. CASE wr_desc = <<>> /\ w_data = <<>>
    BY <2>1, EmptySeq
  <2>2. CASE /\ wr_desc = << LastReg(p) >> /\ (p.resets = 0 => p.sent > 0)
             /\ w_data = <<>> \/ w_data = << Payload(p) >>
    <3>1. LastReg(p) \in Reg /\ Payload(p) \in Word
      BY <1>3, <1>4, <2>2, LastRegIs, PayloadWord
    <3>2. wr_desc \in Seq(Reg) /\ Len(wr_desc) <= 1
      BY <2>2, <3>1
    <3>3. CASE w_data = <<>>
      BY <3>2, <3>3, EmptySeq
    <3>4. CASE w_data = << Payload(p) >>
      BY <3>1, <3>2, <3>4
    <3> QED
      BY <2>2, <3>2, <3>3, <3>4
  <2> QED
    BY <1>2, <2>1, <2>2 DEF WriteInv
<1>8. RxTypeOK
  <2>1. link \in Seq(Flit) /\ Len(link) <= LinkDepth /\ g[0].state = state
    BY <1>2 DEF StreamInv
  <2>2. state \in {"RX_IDLE", "RX_WR_DATA", "RX_R_DATA"}
    BY <1>2, <1>3, <2>1, Fields
  <2>3. beats_left \in Word
    BY <1>2, BeatWords DEF FifoInv
  <2>4. Len(wr_desc) <= WrDescDepth /\ Len(w_data) <= WDataDepth
    <3>1. Len(wr_desc) \in Nat /\ Len(w_data) \in Nat
      BY <1>7, LenProperties
    <3> QED
      BY <1>5, <1>7, <3>1
  <2>5. /\ rd_desc \in Seq({"STATUS"}) /\ Len(rd_desc) <= RdDescDepth
        /\ r_desc \in Seq(Burst) /\ Len(r_desc) <= RDescDepth
        /\ r_data \in Seq(Word) /\ Len(r_data) <= RDataDepth
        /\ r_burst \in Burst
    BY <1>2 DEF FifoInv, BurstsInv, PollInv
  <2>6. write_active \in BOOLEAN
    BY <1>2 DEF SignalInv
  <2> QED
    BY <1>7, <2>1, <2>2, <2>3, <2>4, <2>5, <2>6 DEF RxTypeOK
<1>9. CsrTypeOK
  <2>1. ctrl \in 0 .. 2
    BY <1>2 DEF CsrInv
  <2>2. ctrl \in 0 .. 3
    BY <2>1
  <2>3. start_pc \in Word /\ thread_count \in Word /\ csrX \in Word
    BY <1>2, <1>5, <1>6 DEF CsrInv
  <2> QED
    BY <1>2, <2>2, <2>3 DEF CsrTypeOK, SignalInv
<1>10. /\ writes \in 0 .. 4 * NumCtas /\ resets \in 0 .. 2
       /\ owed \in Seq(Flit) /\ answers \in Seq(BOOLEAN)
  BY <1>2 DEF HostInv, StreamInv, PollInv
<1>11. cta \in CtaInfo
  <2>1. cta = NoCta \/ cta = [start_pc |-> launched, thread_count |-> launched]
    BY <1>2 DEF CoreInv
  <2>2. 0 \in Word /\ launched \in Word
    BY <1>5, <1>6
  <2> QED
    BY <2>1, <2>2 DEF NoCta, CtaInfo
<1>12. /\ polls \in Seq(Cta) /\ Len(polls) <= MaxPolls /\ asked \subseteq Unit /\ waits \subseteq Unit
       /\ reads \in 0 .. MaxReads /\ add_fire \in BOOLEAN /\ cta_out \in BOOLEAN
  BY <1>2 DEF SignalInv
<1> QED
  BY <1>6, <1>8, <1>9, <1>10, <1>11, <1>12 DEF TypeOK

\* The flit in front of the parser is what the parser takes it for.
LEMMA InvParser ==
  ASSUME Inv, link # <<>>
  PROVE  state = "RX_IDLE" <=> Head(link).op # "DATA"
<1>1. PICK g, p, heard, a, z : InvAt(g, p, heard, a, z)
  BY DEF Inv
<1>2. /\ heard \in Nat /\ link \in Seq(Flit) /\ owed \in Seq(Flit)
      /\ Stream(Flits, g, End(heard), polls, heard) /\ g[0].state = state
  BY <1>1 DEF InvAt, StreamInv
<1>3. Flits \in Seq(Flit) /\ Flits # <<>> /\ Head(Flits) = Head(link)
  BY <1>2, ConcatProperties, TailConcat DEF Flits
<1>4. Takes(g[0], Head(link), g[1])
  BY <1>2, <1>3, StreamTail
<1> DEFINE f == Head(link)
           q == g[0]
<1>5. \/ q.state = "RX_IDLE" /\ f.op \in {"WRITE", "READ", "READ_RESP"}
      \/ q.state \in {"RX_WR_DATA", "RX_R_DATA"} /\ f.op = "DATA"
  BY <1>4 DEF Takes, TakesWrite, TakesRead, TakesResp, TakesWData, TakesRData
<1> HIDE DEF f, q
<1>6. q.state = state
  BY <1>2 DEF q
<1> QED
  BY <1>5, <1>6 DEF f

LEMMA InvInStep ==
  ASSUME Inv
  PROVE  InStep
<1>1. TypeOK
  BY InvTypes
<1>2. link # <<>> => (state = "RX_IDLE" <=> Head(link).op # "DATA")
  BY InvParser
<1>3. RValid => Head(r_data) = RBurst.left
  <2>1. BurstsInv /\ BeatInv
    BY DEF Inv, InvAt, FifoInv
  <2> QED
    BY <2>1, BeatFirst
<1>4. PollsAnsweredOnce
  BY DEF Inv, InvAt
<1> QED
  BY <1>1, <1>2, <1>3, <1>4 DEF InStep

LEMMA InvLaunches ==
  ASSUME Inv
  PROVE  LaunchesAsWritten
<1>1. PICK g, p, heard, a, z : InvAt(g, p, heard, a, z)
  BY DEF Inv
<1>2. csrX = (a + 1) \div 4
      /\ (cta # NoCta => cta = [start_pc |-> launched, thread_count |-> launched])
  BY <1>1 DEF InvAt, CsrInv, CoreInv
<1>3. cta # NoCta => (a + 1) \div 4 = launched
  BY <1>1, InvCounts
<1> QED
  BY <1>2, <1>3 DEF LaunchesAsWritten

\* Nothing on the link, in its FIFOs or in the registers is mistaken or lost, for any number of
\* CTAs, of polls under way and of beats, and any depth of the FIFOs.
THEOREM StaysInStep == Spec => []InStep
<1>1. Inv => InStep
  BY InvInStep
<1> QED
  BY <1>1, Invariance, PTL

\* Each CTA runs with what the host wrote for it, although the host writes ahead.
THEOREM RunsAsWritten == Spec => []LaunchesAsWritten
<1>1. Inv => LaunchesAsWritten
  BY InvLaunches
<1> QED
  BY <1>1, Invariance, PTL

-----------------------------------------------------------------------------
(* The CTAs run one after the other. *)

LEMMA SequenceStep ==
  ASSUME Inv, Next
  PROVE  CS!SequenceNext \/ UNCHANGED CS!sequence_vars
<1>1. PICK g, p, heard, a, z : InvAt(g, p, heard, a, z)
  BY DEF Inv
<1>2. /\ seen \in Nat /\ done \in Nat /\ launched \in Nat
      /\ seen <= done /\ done <= launched /\ launched <= done + 1 /\ launched <= seen + 1
      /\ Start \/ add_fire => launched = seen /\ done = seen /\ seen < NumCtas /\ ~cta_out
  BY <1>1, InvCounts
<1>3. cta_out => launched = done + 1
  BY <1>1 DEF InvAt, CoreInv
<1>4. seen' \in Nat /\ seen <= seen' /\ seen' <= done
  BY <1>1, InvStep
<1>5. PICK in, arrived, polled, answered : Tick(in, arrived, polled, answered)
  BY NextIsTick
<1>6. /\ done' = (IF cta_out THEN done + 1 ELSE done)
      /\ launched' = launched \/ (add_fire /\ launched' = launched + 1)
  BY <1>5 DEF Tick, Clock, CoreCycle, CtaUpdate, CoreReset
<1>7. resets \in Nat /\ (resets' = resets \/ resets' = resets + 1)
  BY <1>1, <1>5 DEF InvAt, HostInv, Tick
<1>8. (resets > 0)' \in BOOLEAN /\ (resets > 0 => (resets > 0)')
  BY <1>7
<1>9. CASE add_fire /\ launched' = launched + 1
  <2>1. seen' = seen /\ done' = done
    BY <1>2, <1>4, <1>6, <1>9
  <2> QED
    BY <1>2, <1>8, <1>9, <2>1 DEF CS!SequenceNext, CS!LaunchCta
<1>10. CASE launched' = launched /\ cta_out
  <2>1. done' = done + 1 /\ done < launched
    BY <1>2, <1>3, <1>6, <1>10
  <2>2. seen' = seen
    BY <1>2, <1>3, <1>4, <1>10
  <2> QED
    BY <1>8, <1>10, <2>1, <2>2 DEF CS!SequenceNext, CS!CompleteCta
<1>11. CASE launched' = launched /\ ~cta_out /\ seen' # seen
  <2>1. done' = done /\ seen' = seen + 1 /\ seen < done
    BY <1>2, <1>4, <1>6, <1>11
  <2> QED
    BY <1>8, <1>11, <2>1 DEF CS!SequenceNext, CS!SeeCompletion
<1>12. CASE launched' = launched /\ ~cta_out /\ seen' = seen
  <2>1. done' = done
    BY <1>6, <1>12
  <2>2. CASE (resets > 0)'
    BY <1>8, <1>12, <2>1, <2>2 DEF CS!SequenceNext, CS!Abandon, CS!counts
  <2>3. CASE ~(resets > 0)'
    <3>1. (resets > 0)' = (resets > 0)
      BY <1>8, <2>3
    <3> QED
      BY <1>12, <2>1, <3>1 DEF CS!sequence_vars, CS!counts
  <2> QED
    BY <2>2, <2>3
<1> QED
  BY <1>6, <1>9, <1>10, <1>11, <1>12

\* The link, the registers and the core implement the sequence of CTAs: each is launched once
\* and when the one before is known to be done, and the host learns of no end that is not one.
THEOREM SequenceImplemented == Spec => CS!SequenceSafe
<1>1. Init => CS!SequenceInit
  BY DEF Init, CS!SequenceInit
<1>2. Inv /\ [Next]_vars => [CS!SequenceNext]_(CS!sequence_vars)
  <2>1. ASSUME Inv, Next PROVE CS!SequenceNext \/ UNCHANGED CS!sequence_vars
    BY <2>1, SequenceStep
  <2>2. ASSUME UNCHANGED vars PROVE UNCHANGED CS!sequence_vars
    BY <2>2 DEF vars, core_vars, host_vars, CS!sequence_vars, CS!counts
  <2> QED
    BY <2>1, <2>2
<1> QED
  BY <1>1, <1>2, Invariance, PTL DEF Spec, CS!SequenceSafe
=============================================================================
