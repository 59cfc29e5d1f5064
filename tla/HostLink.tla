------------------------------ MODULE HostLink ------------------------------
(***************************************************************************)
(* A host that runs CTAs one after the other, over the one link into the   *)
(* chip: it writes the registers of a CTA, starts it and polls the status  *)
(* register until it is complete, and on the same link it answers the      *)
(* reads of the core.  A write is not answered.  Behind the link are the   *)
(* control registers and cta_controller; the rest of the core reads and    *)
(* completes when it likes.                                                *)
(***************************************************************************)
EXTENDS ControlRegs, FiniteSets

CONSTANTS
  NumCtas,     \* CTAs the host runs
  MaxPolls,    \* polls the host has under way
  MaxReads,    \* reads of a CTA
  WriteAhead,  \* the host writes the PC and the thread count of the next CTA early
  HostResets   \* the host may reset the core while a CTA runs

ASSUME HostAssumption ==
  /\ NumCtas \in Nat \ {0} /\ 0 .. NumCtas \subseteq Word /\ 0 .. 3 \subseteq Word
  /\ MaxPolls \in Nat \ {0} /\ MaxReads \in Nat
  /\ WriteAhead \in BOOLEAN /\ HostResets \in BOOLEAN

Cta == 1 .. NumCtas

VARIABLES
  writes,   \* writes sent of those the host has to send
  owed,     \* the rest of the packet being sent
  polls,    \* the CTAs of the polls under way
  seen,     \* CTAs whose completion the host has seen
  resets,   \* writes sent of those that reset the core
  asked,    \* units whose read the host has to answer
  answers,  \* answers to polls on their way to the host
  add_fire, \* add_cta_fire_q
  cta,      \* the active CTA, as the core has sampled it
  cta_out,  \* output_buffer_valid_q: the completion is told
  waits,    \* units that wait for a read
  reads,    \* reads of the CTA so far
  launched, done  \* CTAs that became active, that were completed

host_vars == <<writes, owed, polls, seen, resets, asked, answers>>
core_vars == <<add_fire, cta, cta_out, waits, reads, launched, done>>
vars == <<rx_vars, csr_vars, host_vars, core_vars>>

CtaInfo == [start_pc : Word, thread_count : Word]
NoCta == [start_pc |-> 0, thread_count |-> 0]

\* What the host writes for a CTA, in this order; the registers get its number.
LaunchOrder == <<"START_PC", "THREAD_COUNT", "CSRX0", "CTRL">>

TypeOK ==
  /\ RxTypeOK /\ CsrTypeOK
  /\ writes \in 0 .. 4 * NumCtas
  /\ owed \in Seq(Flit) /\ polls \in Seq(Cta) /\ Len(polls) <= MaxPolls
  /\ seen \in 0 .. NumCtas /\ resets \in 0 .. 2
  /\ asked \subseteq Unit /\ answers \in Seq(BOOLEAN)
  /\ add_fire \in BOOLEAN /\ cta \in CtaInfo /\ cta_out \in BOOLEAN
  /\ waits \subseteq Unit /\ reads \in 0 .. MaxReads
  /\ launched \in 0 .. NumCtas /\ done \in 0 .. NumCtas

Init ==
  /\ RxInit /\ CsrInit
  /\ writes = 0 /\ owed = <<>> /\ polls = <<>> /\ seen = 0 /\ resets = 0
  /\ asked = {} /\ answers = <<>>
  /\ add_fire = FALSE /\ cta = NoCta /\ cta_out = FALSE
  /\ waits = {} /\ reads = 0
  /\ launched = 0 /\ done = 0

-----------------------------------------------------------------------------
(* The core. *)

DispatchReady == cta = NoCta

\* cta_controller takes a start that finds it ready.
AddFire == Start /\ DispatchReady /\ ~add_fire

\* pop_fire: the return has been seen, and no e-block or read is left.
MayComplete == cta # NoCta /\ ~cta_out /\ waits = {}

Sampled == [start_pc |-> start_pc, thread_count |-> thread_count]

CtaUpdate_NotLatched(completes) ==
  /\ cta' = IF completes THEN NoCta ELSE IF add_fire \/ cta # NoCta THEN Sampled ELSE cta
  /\ launched' = IF add_fire THEN launched + 1 ELSE launched

\* The dispatch data, which the control registers give, is read a clock after the handshake.
CtaUpdate(completes) ==
  /\ cta' = IF add_fire THEN Sampled ELSE IF completes THEN NoCta ELSE cta
  /\ launched' = IF add_fire THEN launched + 1 ELSE launched

\* The last beat ends the wait of its unit.
Answered(r_ready) == IF r_ready /\ RLast THEN {RBurst.unit} ELSE {}

ReadUpdate(asks, r_ready) ==
  /\ waits' = (waits \ Answered(r_ready)) \cup asks
  /\ reads' = IF add_fire THEN 0 ELSE reads + (IF asks = {} THEN 0 ELSE 1)

CoreReset ==
  /\ add_fire' = FALSE /\ cta' = NoCta /\ cta_out' = FALSE /\ waits' = {} /\ reads' = 0
  /\ UNCHANGED launched

\* One clock of the core; asks: the unit whose read the link takes.
CoreCycle(asks, completes, r_ready) ==
  /\ asks # {} => cta # NoCta /\ ~completes /\ asks \cap waits = {} /\ reads < MaxReads
  /\ completes => MayComplete
  /\ IF CgraReset THEN CoreReset
     ELSE /\ add_fire' = AddFire
          /\ CtaUpdate(completes)
          /\ cta_out' = completes
          /\ ReadUpdate(asks, r_ready)
  /\ done' = IF cta_out THEN done + 1 ELSE done

-----------------------------------------------------------------------------

\* r_ready of the unit that the read on the R channel is for.  The fetch units take beats
\* while they wait; the value of a load may have to wait for its register bank.
RReady(bank_ready) ==
  RValid /\ RBurst.unit \in waits /\ (RBurst.unit = "dfetch" => bank_ready)

\* What happens beside the host's sending: the link takes the request of a unit, the CTA
\* completes, a bank takes a load, the adapter takes the answer to a poll, the host gets one.
Inputs == [asks : {{}} \cup {{u} : u \in Unit}, completes : BOOLEAN, bank_ready : BOOLEAN,
           taken : BOOLEAN, hears : BOOLEAN]

\* An answer tells the host of the CTA it polled for.
Hears(hears) ==
  /\ hears => answers # <<>>
  /\ seen' = IF hears /\ Head(answers) /\ Head(polls) > seen THEN Head(polls) ELSE seen

\* One clock; arrived: the flit the host sends, polled: the CTA it polls for with it,
\* answered: the unit it begins to answer with it.
Clock(in, arrived, polled, answered) ==
  /\ in.taken => ar_pending
  /\ RxCycle(arrived, AwReady, aw_pending, ArReady, RReady(in.bank_ready))
  /\ CsrCycle(cta_out, in.taken)
  /\ CoreCycle(in.asks, in.completes, RReady(in.bank_ready))
  /\ Hears(in.hears)
  /\ polls' = After(polls, in.hears) \o polled
  /\ answers' = With(After(answers, in.hears), in.taken, complete)
  /\ asked' = (asked \ answered) \cup in.asks

-----------------------------------------------------------------------------
(* The host. *)

NextCta == (writes \div 4) + 1
NextReg == LaunchOrder[(writes % 4) + 1]
Started == writes \div 4

\* Registers that are sampled at the launch may be written while the CTA before runs.
MayWrite ==
  /\ writes < 4 * NumCtas /\ resets = 0
  /\ \/ NextCta = seen + 1
     \/ WriteAhead /\ NextReg \in {"START_PC", "THREAD_COUNT"}

HostRests(in) ==
  /\ Clock(in, <<>>, <<>>, {})
  /\ UNCHANGED <<owed, writes, resets>>

\* A packet is sent without another between its flits.
HostContinues(in) ==
  /\ owed # <<>>
  /\ Clock(in, <<Head(owed)>>, <<>>, {})
  /\ owed' = Tail(owed)
  /\ UNCHANGED <<writes, resets>>

HostWrites(in) ==
  /\ owed = <<>> /\ MayWrite
  /\ Clock(in, <<[op |-> "WRITE", reg |-> NextReg]>>, <<>>, {})
  /\ owed' = <<[op |-> "DATA", word |-> IF NextReg = "CTRL" THEN StartWord ELSE NextCta]>>
  /\ writes' = writes + 1
  /\ UNCHANGED resets

HostPolls(in) ==
  /\ owed = <<>> /\ Started > seen /\ resets = 0 /\ Len(polls) < MaxPolls
  /\ Clock(in, <<[op |-> "READ"]>>, <<Started>>, {})
  /\ UNCHANGED <<owed, writes, resets>>

\* The beats of a burst are numbered down to one.
HostAnswers(in, u) ==
  /\ owed = <<>> /\ u \in asked
  /\ Clock(in, <<[op |-> "READ_RESP", burst |-> [unit |-> u, left |-> Beats[u]]]>>, <<>>, {u})
  /\ owed' = [i \in 1 .. Beats[u] |-> [op |-> "DATA", word |-> Beats[u] + 1 - i]]
  /\ UNCHANGED <<writes, resets>>

\* The reset bit is written, and then cleared.
HostWritesReset(in) ==
  /\ HostResets /\ owed = <<>> /\ Started > seen /\ polls = <<>> /\ resets < 2
  /\ Clock(in, <<[op |-> "WRITE", reg |-> "CTRL"]>>, <<>>, {})
  /\ owed' = <<[op |-> "DATA", word |-> IF resets = 0 THEN ResetWord ELSE 0]>>
  /\ resets' = resets + 1
  /\ UNCHANGED writes

-----------------------------------------------------------------------------

HostProceeds(in) ==
  HostContinues(in) \/ HostWrites(in) \/ HostPolls(in) \/ HostWritesReset(in)

Step(in) == HostRests(in) \/ HostProceeds(in) \/ \E u \in Unit : HostAnswers(in, u)

Next == \E in \in Inputs : Step(in)

Spec == Init /\ [][Next]_vars

\* The clock runs; the host goes on with its program and answers the reads; the CTA ends,
\* the banks take loads, and answers reach the host.
LiveSpec ==
  /\ Spec
  /\ WF_vars(Next)
  /\ WF_vars(\E in \in Inputs : HostProceeds(in))
  /\ WF_vars(\E in \in Inputs, u \in Unit : HostAnswers(in, u))
  /\ WF_vars(\E in \in Inputs : in.completes /\ Step(in))
  /\ WF_vars(\E in \in Inputs : in.bank_ready /\ Step(in))
  /\ WF_vars(\E in \in Inputs : in.taken /\ Step(in))
  /\ WF_vars(\E in \in Inputs : in.hears /\ Step(in))

-----------------------------------------------------------------------------
(* Properties. *)

\* A CTA runs with the PC, the thread count and, for as long as it runs, with the arguments
\* the host wrote for it, although the dispatch data is read a clock late, and the
\* arguments are never latched.
LaunchesAsWritten ==
  cta # NoCta =>
    /\ cta = [start_pc |-> launched, thread_count |-> launched]
    /\ csrX = launched

\* Each poll has one answer: it is on the link, waits for the registers or is on its way back.
PollsAnsweredOnce ==
  Len(polls) = Cardinality({i \in DOMAIN link : link[i].op = "READ"}) + Len(rd_desc)
                 + (IF ar_pending THEN 1 ELSE 0) + Len(answers)

\* Nothing runs over; the parser takes headers for headers and beats for beats, and the last
\* beat of a burst is the one handed over as the last; and no poll is lost or answered twice.
InStep ==
  /\ TypeOK
  /\ link # <<>> => (state = "RX_IDLE" <=> Head(link).op # "DATA")
  /\ RValid => Head(r_data) = RBurst.left
  /\ PollsAnsweredOnce

\* The CTAs run one after the other, and the host learns of the end of each.  So a poll never
\* tells of the CTA before: the start that was sent before the poll has cleared the
\* completion, although nothing holds the read back until the write is done.
CS == INSTANCE CtaSequence WITH abandoned <- resets > 0
RunsInSequence == CS!SequenceSpec

\* Whatever is in front of the parser is taken sometime: the link is not stopped for good.
\* axi_link_rx.sv says that its FIFOs are there so that the parser can keep making progress.
LinkGoesOn == (link # <<>>) ~> Parses
=============================================================================
