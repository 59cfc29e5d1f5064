------------------------- MODULE SimtKernel_proofs -------------------------
(***************************************************************************)
(* For any kernel, structured or not, any number of threads and any depth: *)
(* the entries of the SIMT stack nest, in every clock of an update, and as *)
(* long as nothing is written to a full stack, it knows where every thread *)
(* is.  Where the regions of the kernel nest, there is room for what is    *)
(* written, and the threads meet at every join and at the return.          *)
(***************************************************************************)
EXTENDS SimtKernel, SequenceTheorems, TLAPS

-----------------------------------------------------------------------------
(* Types and phases. *)

\* What each state of the controller takes for granted.
Phases ==
  /\ launched = {} => state = "Idle" /\ stack = <<>>
  /\ out_valid => stack # <<>> /\ top = Last(stack)
  /\ state = "ReadTop" => out_valid
  /\ state \in {"ModifyTop", "PushFirst", "PopStack"} => stack # <<>>
  /\ state = "InitPush" => stack = <<>>
  /\ state = "PushFirst" => plan.push # <<>>
  /\ state = "PushSecond" => Len(plan.push) = 2

\* The update was submitted for the entry that is still on top.
UpdateFitsTop ==
  state = "ReadTop" /\ update.diverges =>
    update.taken \subseteq top.mask /\ update.taken \notin {{}, top.mask}

Inv == TypeOK /\ Phases /\ UpdateFitsTop

LEMMA TopOfStack ==
  ASSUME NEW S, NEW s \in Seq(S), s # <<>>
  PROVE  /\ Len(s) \in Nat \ {0} /\ Len(s) \in DOMAIN s /\ DOMAIN s = 1 .. Len(s)
         /\ Last(s) = s[Len(s)] /\ Last(s) \in S
BY LenProperties, EmptySeq DEF Last

LEMMA BelowTop ==
  ASSUME NEW S, NEW s \in Seq(S), s # <<>>
  PROVE  /\ Front(s) \in Seq(S) /\ Len(Front(s)) = Len(s) - 1
         /\ \A i \in 1 .. Len(s) - 1 : Front(s)[i] = s[i]
<1>1. Len(s) \in Nat \ {0} /\ \A i \in 1 .. Len(s) : s[i] \in S
  BY LenProperties, EmptySeq
<1>2. Front(s) = [i \in 1 .. (Len(s) - 1) |-> s[i]]
  BY <1>1 DEF Front, SubSeq
<1>3. Len(s) - 1 \in Nat
  BY <1>1
<1>4. [i \in 1 .. (Len(s) - 1) |-> s[i]] \in Seq(S)
  BY <1>1, <1>3, SeqDef
<1> QED
  BY <1>1, <1>2, <1>3, <1>4

LEMMA AtMostTwo ==
  ASSUME NEW S, NEW s \in Seq(S), Len(s) <= 2
  PROVE  /\ Len(s) = 0 \/ Len(s) = 1 \/ Len(s) = 2
         /\ s = <<>> <=> Len(s) = 0
<1>1. Len(s) \in Nat
  OBVIOUS
<1>2. \A n \in Nat : n <= 2 => n = 0 \/ n = 1 \/ n = 2
  OBVIOUS
<1>3. s = <<>> <=> Len(s) = 0
  BY EmptySeq
<1> QED
  BY <1>1, <1>2, <1>3, Zenon

\* In Idle the stack only reads its top.
LEMMA IdleClock ==
  ASSUME Inv, state = "Idle", NEW init, NEW update_in, SimtCycle(init, update_in)
  PROVE  /\ stack' = stack /\ plan' = plan
         /\ out_valid' <=> stack # <<>>
         /\ stack # <<>> => top' = Last(stack)
         /\ stack = <<>> => top' = top
         /\ init # {} => state' = "InitPush" /\ init_q' \in init /\ update' = update
         /\ init = {} => init_q' = init_q
         /\ init = {} /\ update_in # {} => state' = "ReadTop" /\ update' \in update_in
         /\ init = {} /\ update_in = {} => state' = "Idle" /\ update' = update
BY DEF SimtCycle, StackUpdate, NextState, Reading, InitFire, UpdateFire, UpdateReady

\* Elsewhere no request is taken.
LEMMA WorkingClock ==
  ASSUME Inv, Working
  PROVE  /\ launched # {} /\ UNCHANGED <<code, launched, tpc, update, init_q>>
         /\ out_valid' = (state \in {"ReadTop", "FinalRead"} /\ stack # <<>>)
         /\ state \in {"ReadTop", "FinalRead"} => stack' = stack
         /\ out_valid' => top' = Last(stack)
         /\ ~out_valid' => top' = top
         /\ state # "ReadTop" => plan' = plan
BY DEF Inv, Phases, Working, SimtCycle, StackUpdate, Reading, InitFire, UpdateFire, UpdateReady

\* What is decided in ReadTop.
LEMMA DecideForms ==
  ASSUME TypeOK, UpdateFitsTop, state = "ReadTop"
  PROVE  \/ /\ update.diverges /\ Decide.modify /\ ~Decide.pop
            /\ Decide.top = [top EXCEPT !.pc = update.reconv]
            /\ Decide.push = PushesDivergent
         \/ /\ ~update.diverges /\ ~Decide.pop /\ Decide.modify
            /\ Decide.top = [top EXCEPT !.pc = update.next] /\ Decide.push = <<>>
         \/ /\ ~update.diverges /\ Decide.pop /\ update.next = top.reconv
            /\ Decide.push = <<>> /\ ~Decide.modify
<1>1. update \in Update /\ top \in Entry
  BY DEF TypeOK, SimtTypeOK
<1>2. CASE update.diverges
  <2>1. Diverged
    BY <1>1, <1>2 DEF UpdateFitsTop, Diverged, Taken, NotTaken, Update, Entry
  <2> QED
    BY <1>2, <2>1 DEF Decide
<1>3. CASE ~update.diverges
  BY <1>3 DEF Decide, NextPC, NoPlan
<1> QED
  BY <1>2, <1>3

LEMMA EntriesTyped ==
  ASSUME TypeOK, UpdateFitsTop, state = "ReadTop"
  PROVE  /\ Decide \in Plan /\ Len(Decide.push) <= 2
         /\ PushesDivergent \in Seq(Entry) /\ (Len(PushesDivergent) = 1 \/ Len(PushesDivergent) = 2)
<1>1. update \in Update /\ top \in Entry /\ EndPC \in PC
  BY NumBlocksAssumption DEF TypeOK, SimtTypeOK, EndPC, PC
<1>2. /\ PathEntry(update.next, Taken) \in Entry
      /\ PathEntry(update.not_taken_pc, NotTaken) \in Entry
  BY <1>1 DEF PathEntry, Taken, NotTaken, Update, Entry
<1>3. /\ PushesDivergent \in Seq(Entry) /\ Len(PushesDivergent) <= 2
      /\ (Len(PushesDivergent) = 1 \/ Len(PushesDivergent) = 2)
  BY <1>2 DEF PushesDivergent
<1>4. NoEntry \in Entry /\ <<>> \in Seq(Entry) /\ Len(<<>>) = 0
  BY <1>1, EmptySeq DEF NoEntry, Entry
<1>5. \A pc \in PC : [top EXCEPT !.pc = pc] \in Entry
  BY <1>1 DEF Entry
<1>6. NextPC \in PC
  BY <1>1 DEF NextPC, Update
<1>7. CASE update.diverges /\ Diverged
  <2> DEFINE e == [top EXCEPT !.pc = update.reconv]
  <2>1. Decide = [pop |-> FALSE, modify |-> TRUE, top |-> e, push |-> PushesDivergent]
    BY <1>7 DEF Decide
  <2>2. e \in Entry
    BY <1>1, <1>5 DEF Update
  <2> HIDE DEF e
  <2>3. Decide \in Plan /\ Decide.push = PushesDivergent
    BY <1>3, <2>1, <2>2 DEF Plan
  <2> QED
    BY <1>3, <2>3
<1>8. CASE ~(update.diverges /\ Diverged)
  <2>1. NoPlan \in Plan /\ NoPlan.push = <<>>
    BY <1>4 DEF NoPlan, Plan
  <2>2. [NoPlan EXCEPT !.pop = TRUE] \in Plan /\ [NoPlan EXCEPT !.pop = TRUE].push = NoPlan.push
    BY <2>1 DEF Plan
  <2>3. \A e \in Entry : LET d == [NoPlan EXCEPT !.modify = TRUE, !.top = e]
                         IN  d \in Plan /\ d.push = NoPlan.push
    BY <2>1 DEF Plan
  <2> DEFINE e == [top EXCEPT !.pc = NextPC]
  <2>4. e \in Entry
    BY <1>5, <1>6
  <2> HIDE DEF e
  <2>5. \/ Decide = NoPlan
        \/ Decide = [NoPlan EXCEPT !.pop = TRUE]
        \/ Decide = [NoPlan EXCEPT !.modify = TRUE, !.top = e]
    BY <1>8 DEF Decide, e
  <2>6. Decide \in Plan /\ Decide.push = <<>>
    BY <2>1, <2>2, <2>3, <2>4, <2>5
  <2>7. Len(Decide.push) <= 2
    BY <1>4, <2>6
  <2> QED
    BY <1>3, <2>6, <2>7
<1> QED
  BY <1>7, <1>8

\* The update of a block fits the entry it was run for.
LEMMA UpdateTyped ==
  ASSUME TypeOK, Settled, top.pc # EndPC, NEW taken \in SUBSET top.mask
  PROVE  LET u == StackUpdateFor(code[top.pc], top.pc, top.mask, taken)
         IN  /\ u \in Update
             /\ u.diverges => u.taken \subseteq top.mask /\ u.taken \notin {{}, top.mask}
<1>1. top \in Entry /\ EndPC \in PC
  BY NumBlocksAssumption DEF TypeOK, SimtTypeOK, EndPC, PC
<1>2. top.pc \in 1 .. NumBlocks /\ top.pc + 1 \in PC
  BY <1>1, NumBlocksAssumption DEF Entry, EndPC, PC
<1>3. code[top.pc] \in Block
  BY <1>2 DEF TypeOK
<1> DEFINE b == code[top.pc]
           pc == top.pc
<1> HIDE DEF b, pc
<1>4. b \in Block /\ pc + 1 \in PC /\ top.mask \in SUBSET Thread
  BY <1>1, <1>2, <1>3 DEF b, pc, Entry
<1>5. \A next \in PC : Uniform(next) \in Update /\ ~Uniform(next).diverges
  BY <1>1 DEF Uniform, NoUpdate, Update
<1>6. \A x \in BOOLEAN : Successor(b, pc, x) \in PC
  BY <1>1, <1>4 DEF Successor, Block
<1>7. StackUpdateFor(b, pc, top.mask, taken) \in Update
      /\ (StackUpdateFor(b, pc, top.mask, taken).diverges =>
            /\ StackUpdateFor(b, pc, top.mask, taken).taken \subseteq top.mask
            /\ StackUpdateFor(b, pc, top.mask, taken).taken \notin {{}, top.mask})
  <2>1. CASE b.kind # "branch" \/ taken = {} \/ taken = top.mask
    BY <1>5, <1>6, <2>1 DEF StackUpdateFor
  <2>2. CASE ~(b.kind # "branch" \/ taken = {} \/ taken = top.mask)
    <3> DEFINE u == [diverges |-> TRUE, next |-> b.target, taken |-> taken,
                     not_taken_pc |-> pc + 1, reconv |-> b.reconv]
    <3>1. StackUpdateFor(b, pc, top.mask, taken) = u
      BY <2>2 DEF StackUpdateFor
    <3>2. u \in Update
      BY <1>4 DEF Block, Update
    <3>3. u.taken = taken
      OBVIOUS
    <3> QED
      BY <2>2, <3>1, <3>2, <3>3
  <2> QED
    BY <2>1, <2>2
<1> QED
  BY <1>7 DEF b, pc

LEMMA StackTyped ==
  ASSUME Inv, NEW init, NEW update_in, SimtCycle(init, update_in)
  PROVE  stack' \in Seq(Entry) /\ Len(stack') <= Depth
<1>1. /\ stack \in Seq(Entry) /\ Len(stack) \in 0 .. Depth /\ plan \in Plan
      /\ init_q \in [pc : PC, threads : 0 .. NumThreads] /\ EndPC \in PC
  BY NumBlocksAssumption DEF Inv, TypeOK, SimtTypeOK, EndPC, PC
<1>2. \A e \in Entry : PushOn(e) \in Seq(Entry) /\ Len(PushOn(e)) <= Depth
  <2> TAKE e \in Entry
  <2>1. Append(stack, e) \in Seq(Entry) /\ Len(Append(stack, e)) = Len(stack) + 1
    BY <1>1, AppendProperties
  <2> QED
    BY <1>1, <2>1, DepthAssumption DEF PushOn, Full
<1>3. FirstEntry \in Entry
  BY <1>1, NumThreadsAssumption DEF FirstEntry, Entry, Thread
<1>4. stack # <<>> => /\ [stack EXCEPT ![Len(stack)] = plan.top] \in Seq(Entry)
                      /\ Len([stack EXCEPT ![Len(stack)] = plan.top]) = Len(stack)
  <2>1. plan.top \in Entry
    BY <1>1 DEF Plan
  <2> QED
    BY <1>1, <2>1, TopOfStack, ExceptSeq
<1>5. stack # <<>> => Front(stack) \in Seq(Entry) /\ Len(Front(stack)) = Len(stack) - 1
  BY <1>1, BelowTop
<1>6. state \in {"PushFirst", "PushSecond"} => \A i \in 1 .. Len(plan.push) : plan.push[i] \in Entry
  BY <1>1 DEF Plan
<1>7. state = "PushFirst" => 1 \in 1 .. Len(plan.push)
  BY <1>1, EmptySeq DEF Inv, Phases, Plan
<1>8. state = "PushSecond" => 2 \in 1 .. Len(plan.push)
  BY DEF Inv, Phases
<1>9. \/ stack' = stack
      \/ stack # <<>> /\ stack' = [stack EXCEPT ![Len(stack)] = plan.top]
      \/ state = "PushFirst" /\ stack' = PushOn(plan.push[1])
      \/ state = "PushSecond" /\ stack' = PushOn(plan.push[2])
      \/ stack' = PushOn(FirstEntry)
      \/ stack # <<>> /\ stack' = Front(stack)
  BY DEF SimtCycle, StackUpdate
<1>10. state = "PushFirst" => plan.push[1] \in Entry
  BY <1>6, <1>7
<1>11. state = "PushSecond" => plan.push[2] \in Entry
  BY <1>6, <1>8
<1>12. CASE stack' = stack \/ (stack # <<>> /\ stack' = Front(stack))
  BY <1>1, <1>5, <1>12, DepthAssumption
<1>13. CASE stack # <<>> /\ stack' = [stack EXCEPT ![Len(stack)] = plan.top]
  BY <1>1, <1>4, <1>13
<1>14. CASE \E e \in Entry : stack' = PushOn(e)
  BY <1>2, <1>14
<1> QED
  BY <1>3, <1>9, <1>10, <1>11, <1>12, <1>13, <1>14

LEMMA InvInit == Init => Inv
<1> SUFFICES ASSUME Init PROVE Inv
  OBVIOUS
<1>1. EndPC \in PC /\ 1 \in PC /\ 0 \in 0 .. NumThreads
  BY NumBlocksAssumption, NumThreadsAssumption DEF EndPC, PC
<1>2. NoEntry \in Entry /\ NoUpdate \in Update
  BY <1>1 DEF NoEntry, Entry, NoUpdate, Update
<1>3. NoPlan \in Plan /\ Len(NoPlan.push) <= 2
  BY <1>2, EmptySeq DEF NoPlan, Plan
<1>4. stack \in Seq(Entry) /\ Len(stack) <= Depth
  BY DepthAssumption, EmptySeq DEF Init, SimtInit
<1>5. init_q \in [pc : PC, threads : 0 .. NumThreads]
  BY <1>1 DEF Init, SimtInit
<1>6. SimtTypeOK
  BY <1>2, <1>3, <1>4, <1>5 DEF Init, SimtInit, SimtTypeOK
<1>7. code \in [1 .. NumBlocks -> Block] /\ tpc \in [Thread -> PC] /\ launched \subseteq Thread
  BY <1>1, KernelsAssumption DEF Init
<1> QED
  BY <1>6, <1>7 DEF Init, SimtInit, Inv, TypeOK, Phases, UpdateFitsTop

\* A clock of the stack keeps its types, whoever gives the request.
LEMMA SimtTyped ==
  ASSUME Inv, NEW init, NEW update_in, SimtCycle(init, update_in),
         init \subseteq [pc : PC, threads : 0 .. NumThreads], update_in \subseteq Update
  PROVE  SimtTypeOK'
<1>1. stack' \in Seq(Entry) /\ Len(stack') <= Depth
  BY StackTyped
<1>2. top' \in Entry
  BY TopOfStack DEF Inv, TypeOK, SimtTypeOK, SimtCycle, Reading
<1>3. init_q' \in [pc : PC, threads : 0 .. NumThreads]
  BY DEF Inv, TypeOK, SimtTypeOK, SimtCycle
<1>4. update' \in Update
  BY DEF Inv, TypeOK, SimtTypeOK, SimtCycle
<1>5. plan' \in Plan /\ Len(plan'.push) <= 2
  BY EntriesTyped DEF Inv, TypeOK, SimtTypeOK, SimtCycle
<1>6. state' \in {"Idle", "ReadTop", "ModifyTop", "PushFirst", "PushSecond",
                  "PopStack", "InitPush", "FinalRead"}
  BY DEF Inv, TypeOK, SimtTypeOK, SimtCycle, NextState
<1>7. out_valid' \in BOOLEAN
  BY DEF SimtCycle, Reading
<1> QED
  BY <1>1, <1>2, <1>3, <1>4, <1>5, <1>6, <1>7 DEF SimtTypeOK

LEMMA LaunchKeepsInv == Inv /\ Launch => Inv'
<1> SUFFICES ASSUME Inv, Launch PROVE Inv'
  OBVIOUS
<1>1. PICK threads \in 1 .. NumThreads :
        /\ launched' = 0 .. threads - 1
        /\ tpc' = [t \in Thread |-> IF t < threads THEN 1 ELSE EndPC]
        /\ SimtCycle({[pc |-> 1, threads |-> threads]}, {})
  BY DEF Launch
<1> DEFINE init == {[pc |-> 1, threads |-> threads]}
<1>2. init \subseteq [pc : PC, threads : 0 .. NumThreads] /\ {} \subseteq Update /\ init # {}
  BY NumBlocksAssumption, NumThreadsAssumption DEF PC, EndPC
<1>3. SimtCycle(init, {})
  BY <1>1
<1> HIDE DEF init
<1>4. SimtTypeOK'
  BY <1>2, <1>3, SimtTyped
<1>5. TypeOK'
  <2>1. 1 \in PC /\ EndPC \in PC
    BY NumBlocksAssumption DEF PC, EndPC
  <2>2. launched' \subseteq Thread
    BY <1>1, NumThreadsAssumption DEF Thread
  <2> QED
    BY <1>1, <1>4, <2>1, <2>2 DEF Launch, TypeOK, Inv
<1>6. stack = <<>> /\ state = "Idle"
  BY DEF Launch, Inv, Phases
<1>7. stack' = <<>> /\ ~out_valid' /\ state' = "InitPush"
  BY <1>2, <1>3, <1>6, IdleClock
<1>8. launched' # {}
  <2>1. 0 \in 0 .. threads - 1
    OBVIOUS
  <2> QED
    BY <1>1, <2>1
<1> QED
  BY <1>5, <1>7, <1>8 DEF Inv, Phases, UpdateFitsTop

LEMMA RunBlockKeepsInv == Inv /\ RunBlock => Inv'
<1> SUFFICES ASSUME Inv, RunBlock PROVE Inv'
  OBVIOUS
<1>1. PICK taken \in SUBSET top.mask :
        /\ tpc' = [t \in Thread |->
                     IF t \in top.mask THEN Successor(code[top.pc], top.pc, t \in taken)
                     ELSE tpc[t]]
        /\ SimtCycle({}, {StackUpdateFor(code[top.pc], top.pc, top.mask, taken)})
  BY DEF RunBlock
<1> DEFINE u == StackUpdateFor(code[top.pc], top.pc, top.mask, taken)
<1>2. u \in Update /\ (u.diverges => u.taken \subseteq top.mask /\ u.taken \notin {{}, top.mask})
  BY UpdateTyped DEF RunBlock, Inv
<1>3. SimtCycle({}, {u})
  BY <1>1
<1> HIDE DEF u
<1>4. {} \subseteq [pc : PC, threads : 0 .. NumThreads] /\ {u} \subseteq Update
  BY <1>2
<1>5. SimtTypeOK'
  BY <1>3, <1>4, SimtTyped
<1>6. state = "Idle" /\ stack # <<>> /\ top = Last(stack) /\ launched # {}
  BY DEF RunBlock, Settled, TopValid, Inv, Phases
<1>7. stack' = stack /\ out_valid' /\ top' = top /\ state' = "ReadTop" /\ update' = u
  BY <1>3, <1>6, IdleClock
<1>8. TypeOK'
  <2>1. top.pc \in 1 .. NumBlocks /\ top.pc + 1 \in PC /\ EndPC \in PC
    BY NumBlocksAssumption DEF RunBlock, Inv, TypeOK, SimtTypeOK, Entry, PC, EndPC
  <2>2. code[top.pc] \in Block
    BY <2>1 DEF Inv, TypeOK
  <2>3. \A t \in Thread : Successor(code[top.pc], top.pc, t \in taken) \in PC
    BY <2>1, <2>2 DEF Successor, Block
  <2>4. tpc' \in [Thread -> PC]
    BY <1>1, <2>3 DEF Inv, TypeOK
  <2> QED
    BY <1>5, <2>4 DEF RunBlock, TypeOK, Inv
<1>9. Phases'
  BY <1>6, <1>7 DEF Phases, RunBlock
<1>10. UpdateFitsTop'
  BY <1>2, <1>7 DEF UpdateFitsTop
<1> QED
  BY <1>8, <1>9, <1>10 DEF Inv

LEMMA RetireKeepsInv == Inv /\ Retire => Inv'
<1> SUFFICES ASSUME Inv, Retire PROVE Inv'
  OBVIOUS
<1>1. SimtCycle({}, {}) /\ state = "Idle" /\ stack = <<>>
  BY DEF Retire
<1>2. SimtTypeOK'
  BY <1>1, SimtTyped
<1>3. stack' = <<>> /\ ~out_valid' /\ state' = "Idle"
  BY <1>1, IdleClock
<1> QED
  BY <1>2, <1>3 DEF Inv, TypeOK, Phases, UpdateFitsTop, Retire

LEMMA WorkingKeepsInv == Inv /\ Working => Inv'
<1> SUFFICES ASSUME Inv, Working PROVE Inv'
  OBVIOUS
<1>1. SimtCycle({}, {})
  BY DEF Working
<1>2. SimtTypeOK'
  BY <1>1, SimtTyped
<1>3. TypeOK'
  BY <1>2, WorkingClock DEF Inv, TypeOK
<1>4. UpdateFitsTop' /\ Phases'
  <2>1. CASE state = "ReadTop"
    <3>1. out_valid /\ stack # <<>> /\ stack' = stack /\ out_valid' /\ top' = Last(stack)
          /\ plan' = Decide
      BY <2>1, <1>1, WorkingClock DEF Inv, Phases, SimtCycle
    <3>2. state' = IF Decide.pop THEN "PopStack" ELSE "ModifyTop"
      BY <2>1, <3>1, <1>1, DecideForms DEF Inv, SimtCycle, NextState
    <3> QED
      BY <3>1, <3>2, WorkingClock DEF Phases, UpdateFitsTop
  <2>2. CASE state = "ModifyTop"
    <3>1. ~out_valid' /\ plan' = plan
          /\ state' = IF plan.push # <<>> THEN "PushFirst" ELSE "FinalRead"
      BY <2>2, <1>1, WorkingClock DEF SimtCycle, NextState
    <3>2. stack' # <<>>
      <4>1. stack # <<>> /\ stack \in Seq(Entry) /\ plan.top \in Entry
        BY <2>2 DEF Inv, Phases, TypeOK, SimtTypeOK, Plan
      <4>2. Len([stack EXCEPT ![Len(stack)] = plan.top]) = Len(stack)
            /\ Len(stack) \in Nat \ {0}
        BY <4>1, TopOfStack, ExceptSeq
      <4>3. stack' = stack \/ stack' = [stack EXCEPT ![Len(stack)] = plan.top]
        BY <2>2, <1>1 DEF SimtCycle, StackUpdate
      <4> QED
        BY <4>1, <4>2, <4>3
    <3> QED
      BY <3>1, <3>2, WorkingClock DEF Phases, UpdateFitsTop
  <2>3. CASE state = "PushFirst"
    <3>1. ~out_valid' /\ plan' = plan
          /\ state' = IF Len(plan.push) = 2 THEN "PushSecond" ELSE "FinalRead"
      BY <2>3, <1>1, WorkingClock DEF SimtCycle, NextState
    <3> QED
      BY <3>1, WorkingClock DEF Phases, UpdateFitsTop
  <2>4. CASE state \in {"PushSecond", "PopStack", "InitPush"}
    <3>1. ~out_valid' /\ state' = "FinalRead"
      BY <2>4, <1>1, WorkingClock DEF SimtCycle, NextState
    <3> QED
      BY <3>1, WorkingClock DEF Phases, UpdateFitsTop
  <2>5. CASE state = "FinalRead"
    <3>1. stack' = stack /\ state' \in {"Idle", "FinalRead"}
      BY <2>5, <1>1, WorkingClock DEF SimtCycle, NextState
    <3> QED
      BY <2>5, <3>1, WorkingClock DEF Phases, UpdateFitsTop
  <2> QED
    BY <2>1, <2>2, <2>3, <2>4, <2>5 DEF Inv, TypeOK, SimtTypeOK, Working
<1> QED
  BY <1>3, <1>4 DEF Inv

LEMMA InvStep == Inv /\ [Next]_vars => Inv'
<1> SUFFICES ASSUME Inv, [Next]_vars PROVE Inv'
  OBVIOUS
<1>1. CASE Next
  BY <1>1, LaunchKeepsInv, RunBlockKeepsInv, RetireKeepsInv, WorkingKeepsInv DEF Next
<1>2. CASE UNCHANGED vars
  BY <1>2 DEF vars, simt_vars, Inv, TypeOK, SimtTypeOK, Phases, UpdateFitsTop
<1> QED
  BY <1>1, <1>2

\* The invariant of the stack and its controller holds always.
THEOREM InvAlways == Spec => []Inv
BY InvInit, InvStep, PTL DEF Spec

\* The types hold for every kernel: the controller never computes an entry that is none, and
\* the stack pointer stays within the RAM (SimtKernel.tla).
THEOREM TypesKept == Spec => []TypeOK
<1>1. Inv => TypeOK
  BY DEF Inv
<1> QED
  BY <1>1, InvAlways, PTL

-----------------------------------------------------------------------------
(* Nesting. *)

Nests(mask, entries) ==
  \A i \in DOMAIN entries : mask \subseteq entries[i].mask \/ mask \cap entries[i].mask = {}

Nested(entries) ==
  \A i, j \in DOMAIN entries : i < j =>
    entries[j].mask \subseteq entries[i].mask \/ entries[j].mask \cap entries[i].mask = {}

\* The entries that are still to be written nest with those that are on the stack.
PlanNests ==
  /\ state \in {"ModifyTop", "PushFirst"} =>
       /\ \A i \in 1 .. Len(plan.push) : plan.push[i].mask \subseteq Last(stack).mask
       /\ Len(plan.push) = 2 => plan.push[1].mask \cap plan.push[2].mask = {}
  /\ state = "ModifyTop" => plan.top.mask = Last(stack).mask
  /\ state = "PushSecond" => Nests(plan.push[2].mask, stack)

NestInv == Nested(stack) /\ PlanNests

LEMMA PartNests ==
  ASSUME NEW s \in Seq(Entry), s # <<>>, Nested(s), NEW mask \in SUBSET Last(s).mask
  PROVE  Nests(mask, s)
<1>1. Len(s) \in Nat \ {0} /\ DOMAIN s = 1 .. Len(s) /\ Last(s) = s[Len(s)]
  BY TopOfStack
<1>2. ASSUME NEW i \in DOMAIN s
      PROVE  mask \subseteq s[i].mask \/ mask \cap s[i].mask = {}
  <2>1. CASE i = Len(s)
    BY <1>1, <2>1
  <2>2. CASE i < Len(s)
    <3>1. s[Len(s)].mask \subseteq s[i].mask \/ s[Len(s)].mask \cap s[i].mask = {}
      BY <1>1, <1>2, <2>2 DEF Nested
    <3> QED
      BY <1>1, <3>1
  <2> QED
    BY <1>1, <1>2, <2>1, <2>2
<1> QED
  BY <1>2 DEF Nests

LEMMA AppendNests ==
  ASSUME NEW s \in Seq(Entry), NEW e \in Entry, Nested(s), Nests(e.mask, s)
  PROVE  Nested(Append(s, e))
<1>1. /\ Append(s, e) \in Seq(Entry) /\ Len(Append(s, e)) = Len(s) + 1 /\ Len(s) \in Nat
      /\ \A i \in 1 .. Len(s) : Append(s, e)[i] = s[i]
      /\ Append(s, e)[Len(s) + 1] = e
  BY AppendProperties
<1>2. DOMAIN s = 1 .. Len(s) /\ DOMAIN Append(s, e) = 1 .. Len(s) + 1
  BY <1>1, LenProperties
<1> DEFINE r == Append(s, e)
           n == Len(s)
<1> HIDE DEF r, n
<1>3. n \in Nat /\ DOMAIN s = 1 .. n /\ DOMAIN r = 1 .. n + 1 /\ r[n + 1] = e
      /\ \A i \in 1 .. n : r[i] = s[i]
  BY <1>1, <1>2 DEF r, n
<1>4. ASSUME NEW i \in DOMAIN r, NEW j \in DOMAIN r, i < j
      PROVE  r[j].mask \subseteq r[i].mask \/ r[j].mask \cap r[i].mask = {}
  <2>1. i \in 1 .. n /\ i \in DOMAIN s /\ r[i] = s[i]
    BY <1>3, <1>4
  <2>2. CASE j \in 1 .. n
    BY <1>3, <1>4, <2>1, <2>2 DEF Nested
  <2>3. CASE j = n + 1
    BY <1>3, <2>1, <2>3 DEF Nests
  <2> QED
    BY <1>3, <1>4, <2>2, <2>3
<1> QED
  BY <1>4 DEF r, Nested

LEMMA ModifyNests ==
  ASSUME NEW s \in Seq(Entry), s # <<>>, Nested(s), NEW e \in Entry, e.mask = Last(s).mask
  PROVE  LET r == [s EXCEPT ![Len(s)] = e]
         IN  Nested(r) /\ r \in Seq(Entry) /\ r # <<>> /\ Last(r) = e
<1> DEFINE r == [s EXCEPT ![Len(s)] = e]
<1>1. Len(s) \in Nat \ {0} /\ DOMAIN s = 1 .. Len(s) /\ Last(s) = s[Len(s)]
      /\ Len(s) \in 1 .. Len(s)
  BY TopOfStack
<1>2. r \in Seq(Entry) /\ Len(r) = Len(s) /\ DOMAIN r = DOMAIN s
      /\ r[Len(s)] = e /\ \A i \in 1 .. Len(s) : i # Len(s) => r[i] = s[i]
  BY <1>1, ExceptSeq
<1> HIDE DEF r
<1>3. \A i \in DOMAIN s : r[i].mask = s[i].mask
  BY <1>1, <1>2
<1>4. Nested(r)
  BY <1>2, <1>3 DEF Nested
<1>5. r # <<>>
  BY <1>1, <1>2, EmptySeq
<1>6. Last(r) = e
  BY <1>2, <1>5, TopOfStack
<1> QED
  BY <1>2, <1>4, <1>5, <1>6 DEF r

LEMMA FrontNests ==
  ASSUME NEW s \in Seq(Entry), s # <<>>, Nested(s)
  PROVE  Nested(Front(s))
<1>1. Len(s) \in Nat \ {0} /\ DOMAIN s = 1 .. Len(s)
  BY TopOfStack
<1>2. Front(s) \in Seq(Entry) /\ Len(Front(s)) = Len(s) - 1
      /\ \A i \in 1 .. Len(s) - 1 : Front(s)[i] = s[i]
  BY BelowTop
<1>3. DOMAIN Front(s) = 1 .. Len(s) - 1
  BY <1>2, LenProperties
<1>4. \A i \in DOMAIN Front(s) : i \in DOMAIN s /\ Front(s)[i] = s[i]
  BY <1>1, <1>2, <1>3
<1> QED
  BY <1>4 DEF Nested

\* The paths of a divergent branch are disjoint parts of the top.
LEMMA PathsOfTop ==
  ASSUME TypeOK, UpdateFitsTop, state = "ReadTop"
  PROVE  /\ Decide.modify => Decide.top.mask = top.mask
         /\ \A i \in 1 .. Len(Decide.push) : Decide.push[i].mask \subseteq top.mask
         /\ Len(Decide.push) = 2 => Decide.push[1].mask \cap Decide.push[2].mask = {}
<1>1. top \in Entry /\ update \in Update
  BY DEF TypeOK, SimtTypeOK
<1>2. \A pc : [top EXCEPT !.pc = pc].mask = top.mask
  BY <1>1 DEF Entry
<1>3. Taken \subseteq top.mask /\ NotTaken \subseteq top.mask /\ Taken \cap NotTaken = {}
  BY DEF Taken, NotTaken
<1>4. \A pc, mask : PathEntry(pc, mask).mask = mask
  BY DEF PathEntry
<1>5. Decide.modify => Decide.top.mask = top.mask
  BY <1>2, DecideForms
<1>6. CASE Decide.push = PushesDivergent
  <2>1. CASE update.next # update.reconv /\ update.not_taken_pc # update.reconv
    <3>1. Decide.push = <<PathEntry(update.next, Taken), PathEntry(update.not_taken_pc, NotTaken)>>
      BY <1>6, <2>1 DEF PushesDivergent
    <3>2. Len(Decide.push) = 2 /\ Decide.push[1].mask = Taken /\ Decide.push[2].mask = NotTaken
      BY <1>4, <3>1
    <3>3. \A i \in 1 .. Len(Decide.push) : Decide.push[i].mask \subseteq top.mask
      <4>1. \A i \in 1 .. 2 : i = 1 \/ i = 2
        OBVIOUS
      <4> QED
        BY <1>3, <3>2, <4>1
    <3> QED
      BY <1>3, <1>5, <3>2, <3>3
  <2>2. CASE update.next = update.reconv \/ update.not_taken_pc = update.reconv
    <3>1. \E pc, mask : Decide.push = <<PathEntry(pc, mask)>> /\ mask \subseteq top.mask
      BY <1>3, <1>6, <2>2 DEF PushesDivergent
    <3>2. Len(Decide.push) = 1 /\ Decide.push[1].mask \subseteq top.mask
      BY <1>4, <3>1
    <3>3. \A i \in 1 .. Len(Decide.push) : i = 1
      BY <3>2
    <3> QED
      BY <1>5, <3>2, <3>3
  <2> QED
    BY <2>1, <2>2
<1>7. CASE Decide.push = <<>>
  <2>1. Len(Decide.push) = 0
    BY <1>7
  <2>2. 1 .. Len(Decide.push) = {}
    BY <2>1
  <2> QED
    BY <1>5, <2>1, <2>2
<1> QED
  BY <1>6, <1>7, DecideForms

LEMMA NestWorking == Inv /\ NestInv /\ Working => NestInv'
<1> SUFFICES ASSUME Inv, NestInv, Working PROVE NestInv'
  OBVIOUS
<1>1. SimtCycle({}, {})
  BY DEF Working
<1>2. /\ stack \in Seq(Entry) /\ plan \in Plan /\ FirstEntry \in Entry
      /\ state \in {"Idle", "ReadTop", "ModifyTop", "PushFirst", "PushSecond",
                    "PopStack", "InitPush", "FinalRead"}
  <2>1. FirstEntry \in Entry
    BY NumThreadsAssumption, NumBlocksAssumption
       DEF Inv, TypeOK, SimtTypeOK, FirstEntry, Entry, Thread, PC, EndPC
  <2> QED
    BY <2>1 DEF Inv, TypeOK, SimtTypeOK
<1>3. CASE state = "ReadTop"
  <2>1. stack' = stack /\ plan' = Decide /\ top = Last(stack)
    BY <1>3, <1>1, WorkingClock DEF Inv, Phases, SimtCycle
  <2>2. \/ state' = "ModifyTop" /\ Decide.modify
        \/ state' = "PopStack"
    BY <1>1, <1>3, DecideForms DEF Inv, Phases, SimtCycle, NextState
  <2>3. /\ Decide.modify => Decide.top.mask = top.mask
        /\ \A i \in 1 .. Len(Decide.push) : Decide.push[i].mask \subseteq top.mask
        /\ Len(Decide.push) = 2 => Decide.push[1].mask \cap Decide.push[2].mask = {}
    BY <1>3, PathsOfTop DEF Inv
  <2> QED
    BY <2>1, <2>2, <2>3 DEF NestInv, PlanNests
<1>4. CASE state = "ModifyTop"
  <2>1. plan' = plan /\ stack # <<>> /\ plan.top \in Entry /\ state' \in {"PushFirst", "FinalRead"}
    BY <1>1, <1>2, <1>4, WorkingClock DEF Inv, Phases, Plan, SimtCycle, NextState
  <2>2. stack' = stack \/ stack' = [stack EXCEPT ![Len(stack)] = plan.top]
    BY <1>1, <1>4 DEF SimtCycle, StackUpdate
  <2>3. plan.top.mask = Last(stack).mask
    BY <1>4 DEF NestInv, PlanNests
  <2>4. Nested(stack') /\ Last(stack').mask = Last(stack).mask
    BY <1>2, <2>1, <2>2, <2>3, ModifyNests DEF NestInv
  <2> QED
    BY <1>4, <2>1, <2>4 DEF NestInv, PlanNests
<1>5. CASE state = "PushFirst"
  <2>1. /\ plan' = plan /\ stack # <<>> /\ plan.push \in Seq(Entry) /\ plan.push # <<>>
        /\ state' = IF Len(plan.push) = 2 THEN "PushSecond" ELSE "FinalRead"
    BY <1>1, <1>2, <1>5, WorkingClock DEF Inv, Phases, Plan, SimtCycle, NextState
  <2> DEFINE e == plan.push[1]
  <2>2. e \in Entry /\ e.mask \subseteq Last(stack).mask
    <3>1. 1 \in 1 .. Len(plan.push)
      BY <2>1, EmptySeq
    <3> QED
      BY <1>5, <2>1, <3>1 DEF NestInv, PlanNests
  <2>3. stack' = stack \/ stack' = Append(stack, e)
    BY <1>1, <1>5 DEF SimtCycle, StackUpdate, PushOn
  <2> HIDE DEF e
  <2>4. Nested(stack')
    BY <1>2, <2>1, <2>2, <2>3, PartNests, AppendNests DEF NestInv
  <2>5. ASSUME Len(plan.push) = 2 PROVE Nests(plan.push[2].mask, stack')
    <3> DEFINE f == plan.push[2]
    <3>1. f.mask \subseteq Last(stack).mask
      <4>1. 2 \in 1 .. Len(plan.push)
        BY <2>5
      <4> QED
        BY <1>5, <4>1 DEF NestInv, PlanNests
    <3>2. e.mask \cap f.mask = {}
      BY <1>5, <2>5 DEF NestInv, PlanNests, e
    <3> HIDE DEF f
    <3>3. Nests(f.mask, stack)
      BY <1>2, <2>1, <3>1, PartNests DEF NestInv
    <3>4. CASE stack' = Append(stack, e)
      <4>1. /\ Append(stack, e) \in Seq(Entry) /\ Len(Append(stack, e)) = Len(stack) + 1
            /\ \A i \in 1 .. Len(stack) : Append(stack, e)[i] = stack[i]
            /\ Append(stack, e)[Len(stack) + 1] = e /\ Len(stack) \in Nat
        BY <1>2, <2>2, AppendProperties
      <4>2. DOMAIN stack = 1 .. Len(stack) /\ DOMAIN Append(stack, e) = 1 .. Len(stack) + 1
        BY <1>2, <4>1, LenProperties
      <4>3. \A i \in DOMAIN stack' : (i \in DOMAIN stack /\ stack'[i] = stack[i]) \/ stack'[i] = e
        BY <3>4, <4>1, <4>2
      <4>4. Nests(f.mask, stack')
        BY <3>2, <3>3, <4>3 DEF Nests
      <4> QED
        BY <4>4 DEF f
    <3> QED
      BY <2>3, <3>3, <3>4 DEF f
  <2> QED
    BY <2>1, <2>4, <2>5 DEF NestInv, PlanNests
<1>6. CASE state = "PushSecond"
  <2>1. state' = "FinalRead"
    BY <1>1, <1>6 DEF SimtCycle, NextState
  <2>2. Len(plan.push) = 2
    BY <1>6 DEF Inv, Phases
  <2>3. 2 \in 1 .. Len(plan.push)
    BY <2>2
  <2> DEFINE f == plan.push[2]
  <2>4. f \in Entry /\ Nests(f.mask, stack)
    <3>1. plan.push \in Seq(Entry)
      BY <1>2 DEF Plan
    <3> QED
      BY <1>6, <2>3, <3>1 DEF NestInv, PlanNests
  <2>5. stack' = stack \/ stack' = Append(stack, f)
    BY <1>1, <1>6 DEF SimtCycle, StackUpdate, PushOn
  <2> HIDE DEF f
  <2>6. Nested(stack')
    BY <1>2, <2>4, <2>5, AppendNests DEF NestInv
  <2> QED
    BY <2>1, <2>6 DEF NestInv, PlanNests
<1>7. CASE state = "InitPush"
  <2>1. state' = "FinalRead" /\ stack = <<>>
    BY <1>1, <1>7 DEF Inv, Phases, SimtCycle, NextState
  <2>2. stack' = stack \/ stack' = Append(stack, FirstEntry)
    BY <1>1, <1>7 DEF SimtCycle, StackUpdate, PushOn
  <2>3. Nests(FirstEntry.mask, stack)
    BY <2>1 DEF Nests
  <2>4. Nested(stack')
    BY <1>2, <2>2, <2>3, AppendNests DEF NestInv
  <2> QED
    BY <2>1, <2>4 DEF NestInv, PlanNests
<1>8. CASE state = "PopStack"
  <2>1. state' = "FinalRead" /\ stack # <<>>
    BY <1>1, <1>8 DEF Inv, Phases, SimtCycle, NextState
  <2>2. stack' = Front(stack)
    BY <1>1, <1>8, <2>1 DEF SimtCycle, StackUpdate
  <2> QED
    BY <1>2, <2>1, <2>2, FrontNests DEF NestInv, PlanNests
<1>9. CASE state = "FinalRead"
  <2>1. state' \in {"Idle", "FinalRead"} /\ stack' = stack
    BY <1>1, <1>9, WorkingClock DEF SimtCycle, NextState
  <2> QED
    BY <2>1 DEF NestInv, PlanNests
<1> QED
  BY <1>2, <1>3, <1>4, <1>5, <1>6, <1>7, <1>8, <1>9 DEF Working

LEMMA NestStep == Inv /\ NestInv /\ [Next]_vars => NestInv'
<1> SUFFICES ASSUME Inv, NestInv, [Next]_vars PROVE NestInv'
  OBVIOUS
<1>1. CASE Launch \/ RunBlock \/ Retire
  <2>1. PICK init, update_in : SimtCycle(init, update_in)
    BY <1>1 DEF Launch, RunBlock, Retire
  <2>2. state = "Idle"
    BY <1>1 DEF Launch, InitReady, RunBlock, Settled, Retire
  <2>3. stack' = stack /\ state' \in {"InitPush", "ReadTop", "Idle"}
    BY <2>1, <2>2, IdleClock
  <2> QED
    BY <2>3 DEF NestInv, PlanNests
<1>2. CASE Working
  BY <1>2, NestWorking
<1>3. CASE UNCHANGED vars
  BY <1>3 DEF vars, simt_vars, NestInv, PlanNests
<1> QED
  BY <1>1, <1>2, <1>3 DEF Next

LEMMA NestInit == Init => NestInv
BY DEF Init, SimtInit, NestInv, Nested, PlanNests

\* The entries of the SIMT stack nest in every clock: for any kernel, while the two paths of
\* a branch are pushed one after the other, and also when the stack is full and drops entries
\* (SimtStack.tla, PushesDivergent and StackUpdate).
THEOREM EntriesNest == Spec => []MasksNest
<1>1. NestInv => MasksNest
  BY DEF NestInv, Nested, MasksNest
<1> QED
  BY <1>1, InvAlways, NestInit, NestStep, PTL DEF Spec

-----------------------------------------------------------------------------
(* Where the stack says the threads are. *)

\* Of the first n entries, the highest that holds t has pc; EndPC if none holds it.
Leads(entries, n, t, pc) ==
  \/ pc = EndPC /\ \A i \in 1 .. n : t \notin entries[i].mask
  \/ \E i \in 1 .. n : /\ t \in entries[i].mask /\ entries[i].pc = pc
                       /\ \A j \in 1 .. n : i < j => t \notin entries[j].mask

Where(entries, t, pc) == Leads(entries, Len(entries), t, pc)

\* When an entry is popped, its threads stand where the entry below takes them up.
Joined(entries) ==
  \A i \in DOMAIN entries : \A t \in entries[i].mask :
    Leads(entries, i - 1, t, entries[i].reconv)

LEMMA LeadsTop ==
  ASSUME NEW s, NEW n \in Nat \ {0}, NEW t, NEW pc
  PROVE  /\ t \in s[n].mask => (Leads(s, n, t, pc) <=> s[n].pc = pc)
         /\ t \notin s[n].mask => (Leads(s, n, t, pc) <=> Leads(s, n - 1, t, pc))
<1>1. n \in 1 .. n /\ n - 1 \in Nat /\ \A i \in 1 .. n : i \in 1 .. n - 1 \/ i = n
  OBVIOUS
<1>2. \A i \in 1 .. n - 1 : i \in 1 .. n /\ i < n /\ i # n
  OBVIOUS
<1>3. \A i \in 1 .. n : ~(n < i)
  OBVIOUS
<1>4. CASE t \in s[n].mask
  BY <1>1, <1>2, <1>3, <1>4 DEF Leads
<1>5. CASE t \notin s[n].mask
  <2>1. (\A i \in 1 .. n : t \notin s[i].mask) <=> (\A i \in 1 .. n - 1 : t \notin s[i].mask)
    BY <1>1, <1>2, <1>5
  <2>2. \A i : (\A j \in 1 .. n : i < j => t \notin s[j].mask)
               <=> (\A j \in 1 .. n - 1 : i < j => t \notin s[j].mask)
    BY <1>1, <1>2, <1>5
  <2> QED
    BY <1>1, <1>2, <1>5, <2>1, <2>2 DEF Leads
<1> QED
  BY <1>4, <1>5

LEMMA LeadsSame ==
  ASSUME NEW s, NEW r, NEW n \in Nat, \A i \in 1 .. n : r[i] = s[i], NEW t, NEW pc
  PROVE  Leads(r, n, t, pc) <=> Leads(s, n, t, pc)
BY DEF Leads

LEMMA AppendJoined ==
  ASSUME NEW s \in Seq(Entry), NEW e \in Entry, Joined(s),
         \A t \in e.mask : Where(s, t, e.reconv)
  PROVE  /\ Joined(Append(s, e))
         /\ \A t, pc : t \in e.mask => (Where(Append(s, e), t, pc) <=> e.pc = pc)
         /\ \A t, pc : t \notin e.mask => (Where(Append(s, e), t, pc) <=> Where(s, t, pc))
<1> DEFINE r == Append(s, e)
           n == Len(s)
<1>1. /\ Len(r) = n + 1 /\ n \in Nat /\ DOMAIN r = 1 .. n + 1 /\ DOMAIN s = 1 .. n
      /\ \A i \in 1 .. n : r[i] = s[i]
      /\ r[n + 1] = e
  BY AppendProperties, LenProperties
<1> HIDE DEF r
<1>2. \A t, pc : Leads(r, n, t, pc) <=> Where(s, t, pc)
  BY <1>1, LeadsSame DEF Where
<1> HIDE DEF n
<1>3. n + 1 \in Nat \ {0} /\ (n + 1) - 1 = n
  BY <1>1
<1>4. \A t, pc : t \in e.mask => (Where(r, t, pc) <=> e.pc = pc)
  BY <1>1, <1>3, LeadsTop DEF Where
<1>5. \A t, pc : t \notin e.mask => (Where(r, t, pc) <=> Where(s, t, pc))
  BY <1>1, <1>2, <1>3, LeadsTop DEF Where
<1>6. ASSUME NEW i \in DOMAIN r, NEW t \in r[i].mask PROVE Leads(r, i - 1, t, r[i].reconv)
  <2>1. CASE i \in 1 .. n
    <3>1. \A j \in 1 .. i - 1 : r[j] = s[j]
      BY <1>1, <2>1
    <3>2. i - 1 \in Nat /\ r[i] = s[i] /\ i \in DOMAIN s
      BY <1>1, <2>1
    <3>3. Leads(s, i - 1, t, s[i].reconv)
      BY <1>6, <3>2 DEF Joined
    <3> QED
      BY <3>1, <3>2, <3>3, LeadsSame
  <2>2. CASE i = n + 1
    <3>1. r[i] = e /\ i - 1 = n
      BY <1>1, <2>2
    <3> QED
      BY <1>2, <1>6, <3>1
  <2> QED
    BY <1>1, <1>6, <2>1, <2>2
<1> QED
  BY <1>4, <1>5, <1>6 DEF r, Joined

LEMMA ModifyJoined ==
  ASSUME NEW s \in Seq(Entry), s # <<>>, Joined(s), NEW e \in Entry,
         e.mask = Last(s).mask, e.reconv = Last(s).reconv
  PROVE  LET r == [s EXCEPT ![Len(s)] = e]
         IN  /\ r \in Seq(Entry) /\ r # <<>> /\ Joined(r)
             /\ \A t, pc : t \in e.mask => (Where(r, t, pc) <=> e.pc = pc)
             /\ \A t, pc : t \notin e.mask => (Where(r, t, pc) <=> Where(s, t, pc))
<1> DEFINE r == [s EXCEPT ![Len(s)] = e]
           n == Len(s)
<1>1. n \in Nat \ {0} /\ n \in 1 .. n /\ DOMAIN s = 1 .. n /\ Last(s) = s[n]
  BY TopOfStack
<1>2. r \in Seq(Entry) /\ Len(r) = n /\ DOMAIN r = 1 .. n
      /\ r[n] = e /\ \A i \in 1 .. n : i # n => r[i] = s[i]
  BY <1>1, ExceptSeq, LenProperties
<1> HIDE DEF r, n
<1>3. n - 1 \in Nat /\ \A i \in 1 .. n - 1 : r[i] = s[i]
  BY <1>1, <1>2
<1>4. \A t, pc : t \in e.mask => (Where(r, t, pc) <=> e.pc = pc)
  BY <1>1, <1>2, LeadsTop DEF Where
<1>5. \A t, pc : t \notin e.mask => (Where(r, t, pc) <=> Where(s, t, pc))
  <2>1. \A t, pc : Leads(r, n - 1, t, pc) <=> Leads(s, n - 1, t, pc)
    BY <1>3, LeadsSame
  <2>2. \A t, pc : t \notin e.mask => (Leads(r, n, t, pc) <=> Leads(r, n - 1, t, pc))
    BY <1>1, <1>2, LeadsTop
  <2>3. \A t, pc : t \notin e.mask => (Leads(s, n, t, pc) <=> Leads(s, n - 1, t, pc))
    BY <1>1, LeadsTop
  <2> QED
    BY <1>2, <2>1, <2>2, <2>3 DEF Where, n
<1>6. ASSUME NEW i \in DOMAIN r, NEW t \in r[i].mask PROVE Leads(r, i - 1, t, r[i].reconv)
  <2>1. i - 1 \in Nat /\ i \in DOMAIN s /\ \A j \in 1 .. i - 1 : r[j] = s[j]
    BY <1>1, <1>2, <1>6
  <2>2. r[i].mask = s[i].mask /\ r[i].reconv = s[i].reconv
    BY <1>1, <1>2, <1>6
  <2>3. Leads(s, i - 1, t, s[i].reconv)
    BY <1>6, <2>1, <2>2 DEF Joined
  <2> QED
    BY <2>1, <2>2, <2>3, LeadsSame
<1>7. r # <<>>
  BY <1>1, <1>2, EmptySeq
<1> QED
  BY <1>2, <1>4, <1>5, <1>6, <1>7 DEF r, Joined

LEMMA FrontJoined ==
  ASSUME NEW s \in Seq(Entry), s # <<>>, Joined(s)
  PROVE  /\ Joined(Front(s))
         /\ \A t : t \in Last(s).mask => Where(Front(s), t, Last(s).reconv)
         /\ \A t, pc : t \notin Last(s).mask => (Where(Front(s), t, pc) <=> Where(s, t, pc))
<1> DEFINE r == Front(s)
           n == Len(s)
<1>1. n \in Nat \ {0} /\ n \in DOMAIN s /\ DOMAIN s = 1 .. n /\ Last(s) = s[n]
  BY TopOfStack
<1>2. r \in Seq(Entry) /\ Len(r) = n - 1 /\ DOMAIN r = 1 .. n - 1 /\ \A i \in 1 .. n - 1 : r[i] = s[i]
  BY BelowTop, LenProperties
<1> HIDE DEF r, n
<1>3. n - 1 \in Nat
  BY <1>1
<1>4. \A t, pc : Where(r, t, pc) <=> Leads(s, n - 1, t, pc)
  BY <1>2, <1>3, LeadsSame DEF Where
<1>5. \A t : t \in Last(s).mask => Leads(s, n - 1, t, Last(s).reconv)
  BY <1>1 DEF Joined
<1>6. \A t, pc : t \notin Last(s).mask => (Leads(s, n, t, pc) <=> Leads(s, n - 1, t, pc))
  BY <1>1, LeadsTop
<1>7. ASSUME NEW i \in DOMAIN r, NEW t \in r[i].mask PROVE Leads(r, i - 1, t, r[i].reconv)
  <2>1. i - 1 \in Nat /\ i \in DOMAIN s /\ r[i] = s[i] /\ \A j \in 1 .. i - 1 : r[j] = s[j]
    BY <1>1, <1>2, <1>7
  <2>2. Leads(s, i - 1, t, s[i].reconv)
    BY <1>7, <2>1 DEF Joined
  <2> QED
    BY <2>1, <2>2, LeadsSame
<1> QED
  BY <1>4, <1>5, <1>6, <1>7 DEF r, n, Joined, Where

\* The entries of a plan on top of others.
Pushed(entries) ==
  CASE plan.push = <<>>   -> entries
    [] Len(plan.push) = 1 -> Append(entries, plan.push[1])
    [] OTHER              -> Append(Append(entries, plan.push[1]), plan.push[2])

\* The stack that the controller is working towards.
Target ==
  CASE state = "ModifyTop"  -> Pushed([stack EXCEPT ![Len(stack)] = plan.top])
    [] state = "PushFirst"  -> Pushed(stack)
    [] state = "PushSecond" -> Append(stack, plan.push[2])
    [] state = "InitPush"   -> Append(stack, FirstEntry)
    [] state = "PopStack"   -> Front(stack)
    [] OTHER                -> stack

Fits(entries, where) == Joined(entries) /\ \A t \in Thread : Where(entries, t, where[t])

\* Where a thread of the top goes, by the update that is submitted for it.
Going(u, t) == IF u.diverges /\ t \notin u.taken THEN u.not_taken_pc ELSE u.next

PathInv ==
  /\ state # "ReadTop" => Fits(Target, tpc)
  /\ state = "ReadTop" =>
       /\ Joined(stack)
       /\ \A t \in Thread : IF t \in top.mask THEN tpc[t] = Going(update, t)
                            ELSE Where(stack, t, tpc[t])

\* The decision table: what it plans takes every thread of the top where it goes.
LEMMA PlanFits ==
  ASSUME TypeOK, UpdateFitsTop, state = "ReadTop", stack # <<>>, top = Last(stack), PathInv
  PROVE  /\ Decide.pop => Fits(Front(stack), tpc)
         /\ Decide.modify =>
              LET base == [stack EXCEPT ![Len(stack)] = Decide.top]
              IN  /\ Decide.push = <<>> => Fits(base, tpc)
                  /\ Len(Decide.push) = 1 => Fits(Append(base, Decide.push[1]), tpc)
                  /\ Len(Decide.push) = 2 =>
                       Fits(Append(Append(base, Decide.push[1]), Decide.push[2]), tpc)
<1>1. /\ stack \in Seq(Entry) /\ top \in Entry /\ update \in Update /\ Joined(stack)
      /\ \A t \in Thread : IF t \in top.mask THEN tpc[t] = Going(update, t)
                           ELSE Where(stack, t, tpc[t])
  BY DEF PathInv, TypeOK, SimtTypeOK
<1>2. top.mask \subseteq Thread
  BY <1>1 DEF Entry
<1>3. ASSUME Decide.pop PROVE Fits(Front(stack), tpc)
  <2>1. ~update.diverges /\ update.next = top.reconv
    BY <1>3, DecideForms
  <2>2. \A t \in top.mask : tpc[t] = top.reconv
    BY <1>1, <1>2, <2>1 DEF Going
  <2>3. /\ Joined(Front(stack))
        /\ \A t : t \in top.mask => Where(Front(stack), t, top.reconv)
        /\ \A t, pc : t \notin top.mask => (Where(Front(stack), t, pc) <=> Where(stack, t, pc))
    BY <1>1, FrontJoined
  <2> QED
    BY <1>1, <2>2, <2>3 DEF Fits
<1> DEFINE e == Decide.top
           base == [stack EXCEPT ![Len(stack)] = e]
<1>4. ASSUME Decide.modify
      PROVE  /\ e \in Entry /\ e.mask = top.mask /\ e.reconv = top.reconv
             /\ base \in Seq(Entry) /\ Joined(base)
             /\ \A t, pc : t \in top.mask => (Where(base, t, pc) <=> e.pc = pc)
             /\ \A t, pc : t \notin top.mask => (Where(base, t, pc) <=> Where(stack, t, pc))
  <2>1. e \in Entry
    BY EntriesTyped DEF Plan
  <2>2. e.mask = top.mask /\ e.reconv = top.reconv
    <3>1. \A pc : [top EXCEPT !.pc = pc].mask = top.mask /\ [top EXCEPT !.pc = pc].reconv = top.reconv
      BY <1>1 DEF Entry
    <3> QED
      BY <1>4, <3>1, DecideForms
  <2> HIDE DEF e
  <2>3. /\ base \in Seq(Entry) /\ Joined(base)
        /\ \A t, pc : t \in e.mask => (Where(base, t, pc) <=> e.pc = pc)
        /\ \A t, pc : t \notin e.mask => (Where(base, t, pc) <=> Where(stack, t, pc))
    BY <1>1, <2>1, <2>2, ModifyJoined
  <2> QED
    BY <2>1, <2>2, <2>3
<1>5. ASSUME Decide.modify, ~update.diverges
      PROVE  Decide.push = <<>> /\ Fits(base, tpc)
  <2>1. Decide.push = <<>> /\ e = [top EXCEPT !.pc = update.next]
    BY <1>5, DecideForms
  <2>2. e.pc = update.next
    BY <1>1, <2>1 DEF Entry
  <2>3. \A t \in top.mask : tpc[t] = e.pc
    BY <1>1, <1>2, <1>5, <2>2 DEF Going
  <2> HIDE DEF e, base
  <2> QED
    BY <1>1, <1>4, <1>5, <2>1, <2>3 DEF Fits
<1>6. ASSUME update.diverges
      PROVE  /\ e.pc = update.reconv /\ Decide.push = PushesDivergent
             /\ \A t \in Taken : tpc[t] = update.next
             /\ \A t \in NotTaken : tpc[t] = update.not_taken_pc
             /\ top.mask = Taken \cup NotTaken /\ Taken \cap NotTaken = {}
  <2>1. e = [top EXCEPT !.pc = update.reconv] /\ Decide.push = PushesDivergent
    BY <1>6, DecideForms
  <2>2. e.pc = update.reconv
    BY <1>1, <2>1 DEF Entry
  <2>3. /\ \A t \in Taken : tpc[t] = update.next
        /\ \A t \in NotTaken : tpc[t] = update.not_taken_pc
    BY <1>1, <1>2, <1>6 DEF Going, Taken, NotTaken
  <2> QED
    BY <2>1, <2>2, <2>3 DEF Taken, NotTaken
<1>7. \A pc, mask : /\ PathEntry(pc, mask).pc = pc /\ PathEntry(pc, mask).mask = mask
                    /\ PathEntry(pc, mask).reconv = update.reconv
  BY DEF PathEntry
<1>8. \A i \in 1 .. Len(Decide.push) : Decide.push[i] \in Entry
  BY EntriesTyped DEF Plan
<1> HIDE DEF e, base
\* One of the paths starts at the join.
<1>9. ASSUME Decide.modify, update.diverges,
             NEW pc, NEW mask \in SUBSET top.mask,
             Decide.push = <<PathEntry(pc, mask)>>,
             \A t \in mask : tpc[t] = pc,
             \A t \in top.mask \ mask : tpc[t] = update.reconv
      PROVE  Len(Decide.push) = 1 /\ Fits(Append(base, Decide.push[1]), tpc)
  <2> DEFINE p == PathEntry(pc, mask)
  <2>1. Len(Decide.push) = 1 /\ Decide.push[1] = p /\ 1 \in 1 .. Len(Decide.push)
    BY <1>9
  <2>2. p \in Entry /\ p.mask = mask /\ p.pc = pc /\ p.reconv = update.reconv
    BY <1>7, <1>8, <2>1
  <2> HIDE DEF p
  <2>3. \A t \in p.mask : Where(base, t, p.reconv)
    BY <1>4, <1>6, <1>9, <2>2
  <2>4. /\ Joined(Append(base, p))
        /\ \A t, q : t \in p.mask => (Where(Append(base, p), t, q) <=> p.pc = q)
        /\ \A t, q : t \notin p.mask => (Where(Append(base, p), t, q) <=> Where(base, t, q))
    BY <1>4, <1>9, <2>2, <2>3, AppendJoined
  <2>5. \A t \in Thread : Where(Append(base, p), t, tpc[t])
    BY <1>1, <1>4, <1>6, <1>9, <2>2, <2>4
  <2> QED
    BY <2>1, <2>4, <2>5 DEF Fits
\* Both paths are pushed.
<1>10. ASSUME Decide.modify, update.diverges,
              Decide.push = <<PathEntry(update.next, Taken), PathEntry(update.not_taken_pc, NotTaken)>>
       PROVE  /\ Len(Decide.push) = 2
              /\ Fits(Append(Append(base, Decide.push[1]), Decide.push[2]), tpc)
  <2> DEFINE p == PathEntry(update.next, Taken)
             q == PathEntry(update.not_taken_pc, NotTaken)
             mid == Append(base, p)
  <2>1. Len(Decide.push) = 2 /\ Decide.push[1] = p /\ Decide.push[2] = q
    BY <1>10
  <2>2. 1 \in 1 .. Len(Decide.push) /\ 2 \in 1 .. Len(Decide.push)
    BY <2>1
  <2>3. /\ p \in Entry /\ p.mask = Taken /\ p.pc = update.next /\ p.reconv = update.reconv
        /\ q \in Entry /\ q.mask = NotTaken /\ q.pc = update.not_taken_pc
        /\ q.reconv = update.reconv
    BY <1>7, <1>8, <2>1, <2>2
  <2> HIDE DEF p, q
  <2>4. \A t \in top.mask : Where(base, t, update.reconv)
    BY <1>4, <1>6, <1>10
  <2>5. \A t \in p.mask : Where(base, t, p.reconv)
    BY <1>6, <1>10, <2>3, <2>4
  <2>6. /\ mid \in Seq(Entry) /\ Joined(mid)
        /\ \A t, pc : t \in Taken => (Where(mid, t, pc) <=> update.next = pc)
        /\ \A t, pc : t \notin Taken => (Where(mid, t, pc) <=> Where(base, t, pc))
    BY <1>4, <1>10, <2>3, <2>5, AppendJoined, AppendProperties
  <2> HIDE DEF mid
  <2>7. \A t \in q.mask : Where(mid, t, q.reconv)
    BY <1>6, <1>10, <2>3, <2>4, <2>6
  <2>8. /\ Joined(Append(mid, q))
        /\ \A t, pc : t \in NotTaken => (Where(Append(mid, q), t, pc) <=> update.not_taken_pc = pc)
        /\ \A t, pc : t \notin NotTaken => (Where(Append(mid, q), t, pc) <=> Where(mid, t, pc))
    BY <2>3, <2>6, <2>7, AppendJoined
  <2>9. ASSUME NEW t \in Thread PROVE Where(Append(mid, q), t, tpc[t])
    <3>1. CASE t \in NotTaken
      BY <1>6, <1>10, <2>8, <3>1
    <3>2. CASE t \in Taken
      BY <1>6, <1>10, <2>6, <2>8, <3>2
    <3>3. CASE t \notin top.mask
      BY <1>1, <1>4, <1>6, <1>10, <2>6, <2>8, <3>3
    <3> QED
      BY <1>6, <1>10, <3>1, <3>2, <3>3
  <2> QED
    BY <2>1, <2>8, <2>9 DEF Fits, mid
<1> QED
  <2>1. CASE update.diverges /\ Decide.modify
    <3>1. CASE update.next # update.reconv /\ update.not_taken_pc # update.reconv
      BY <1>3, <1>6, <1>10, <2>1, <3>1, EmptySeq DEF PushesDivergent, base, e
    <3>2. CASE update.next = update.reconv
      <4>1. Decide.push = <<PathEntry(update.not_taken_pc, NotTaken)>>
        BY <1>6, <2>1, <3>2 DEF PushesDivergent
      <4>2. Len(Decide.push) = 1 /\ Fits(Append(base, Decide.push[1]), tpc)
        BY <1>6, <1>9, <2>1, <3>2, <4>1
      <4> QED
        BY <1>3, <4>1, <4>2, EmptySeq DEF base, e
    <3>3. CASE update.next # update.reconv /\ update.not_taken_pc = update.reconv
      <4>1. Decide.push = <<PathEntry(update.next, Taken)>>
        BY <1>6, <2>1, <3>3 DEF PushesDivergent
      <4>2. Len(Decide.push) = 1 /\ Fits(Append(base, Decide.push[1]), tpc)
        BY <1>6, <1>9, <2>1, <3>3, <4>1
      <4> QED
        BY <1>3, <4>1, <4>2, EmptySeq DEF base, e
    <3> QED
      BY <3>1, <3>2, <3>3
  <2>2. CASE ~update.diverges /\ Decide.modify
    <3>1. Len(Decide.push) = 0
      BY <1>5, <2>2
    <3> QED
      BY <1>3, <1>5, <2>2, <3>1 DEF base, e
  <2>3. CASE ~Decide.modify
    BY <1>3, <2>3
  <2> QED
    BY <2>1, <2>2, <2>3

\* As long as nothing is dropped, the controller works towards the same stack in every clock
\* after the one in which it decides.
LEMMA TargetKept ==
  ASSUME Inv, RoomToWrite, Working, state # "ReadTop"
  PROVE  Target' = Target /\ state' # "ReadTop"
<1>1. SimtCycle({}, {})
  BY DEF Working
<1>2. /\ plan \in Plan /\ Len(plan.push) <= 2 /\ plan.push \in Seq(Entry)
      /\ state \in {"Idle", "ReadTop", "ModifyTop", "PushFirst", "PushSecond",
                    "PopStack", "InitPush", "FinalRead"}
  BY DEF Inv, TypeOK, SimtTypeOK, Plan
<1>3. plan' = plan /\ init_q' = init_q
  BY WorkingClock
<1>4. state \in {"ModifyTop", "PushFirst", "PushSecond", "InitPush"} => ~Full
  <2>1. stack = <<>> => Len(stack) = 0
    BY EmptySeq
  <2> QED
    BY <2>1, DepthAssumption DEF RoomToWrite, Full, Inv, Phases
<1>5. Target' = Target /\ state' # "ReadTop"
  <2>1. CASE state = "ModifyTop"
    <3>1. /\ stack' = [stack EXCEPT ![Len(stack)] = plan.top]
          /\ state' = IF plan.push # <<>> THEN "PushFirst" ELSE "FinalRead"
      BY <1>1, <1>4, <2>1 DEF Inv, Phases, SimtCycle, StackUpdate, NextState
    <3> QED
      BY <1>3, <2>1, <3>1 DEF Target, Pushed
  <2>2. CASE state = "PushFirst"
    <3>1. /\ stack' = Append(stack, plan.push[1]) /\ plan.push # <<>>
          /\ state' = IF Len(plan.push) = 2 THEN "PushSecond" ELSE "FinalRead"
      BY <1>1, <1>4, <2>2 DEF Inv, Phases, SimtCycle, StackUpdate, PushOn, NextState
    <3>2. Len(plan.push) = 1 \/ Len(plan.push) = 2
      BY <1>2, <3>1, AtMostTwo, Zenon
    <3> QED
      BY <1>3, <2>2, <3>1, <3>2 DEF Target, Pushed
  <2>3. CASE state = "PushSecond"
    <3>1. stack' = Append(stack, plan.push[2]) /\ state' = "FinalRead"
      BY <1>1, <1>4, <2>3 DEF SimtCycle, StackUpdate, PushOn, NextState
    <3> QED
      BY <2>3, <3>1 DEF Target
  <2>4. CASE state = "InitPush"
    <3>1. stack' = Append(stack, FirstEntry) /\ state' = "FinalRead"
      BY <1>1, <1>4, <2>4 DEF SimtCycle, StackUpdate, PushOn, NextState
    <3> QED
      BY <2>4, <3>1 DEF Target
  <2>5. CASE state = "PopStack"
    <3>1. stack' = Front(stack) /\ state' = "FinalRead"
      BY <1>1, <2>5 DEF Inv, Phases, SimtCycle, StackUpdate, NextState
    <3> QED
      BY <2>5, <3>1 DEF Target
  <2>6. CASE state = "FinalRead"
    <3>1. stack' = stack /\ state' \in {"Idle", "FinalRead"}
      BY <1>1, <2>6, WorkingClock DEF SimtCycle, NextState
    <3> QED
      BY <2>6, <3>1 DEF Target
  <2> QED
    BY <1>2, <2>1, <2>2, <2>3, <2>4, <2>5, <2>6 DEF Working
<1> QED
  BY <1>5

\* As long as nothing is dropped, a clock of the controller leads to the same stack.
LEMMA PathWorking ==
  ASSUME Inv, PathInv, RoomToWrite, Working
  PROVE  PathInv'
<1>1. SimtCycle({}, {}) /\ tpc' = tpc
  BY DEF Working
<1>2. /\ plan \in Plan /\ Len(plan.push) <= 2 /\ plan.push \in Seq(Entry)
      /\ state \in {"Idle", "ReadTop", "ModifyTop", "PushFirst", "PushSecond",
                    "PopStack", "InitPush", "FinalRead"}
  BY DEF Inv, TypeOK, SimtTypeOK, Plan
<1>3. CASE state = "ReadTop"
  <2>1. /\ stack' = stack /\ plan' = Decide /\ stack # <<>> /\ top = Last(stack)
        /\ plan'.push \in Seq(Entry) /\ Len(plan'.push) <= 2
    BY <1>1, <1>3, WorkingClock, EntriesTyped DEF Inv, Phases, SimtCycle, Plan
  <2>2. \/ state' = "ModifyTop" /\ Decide.modify
        \/ state' = "PopStack" /\ Decide.pop
    BY <1>1, <1>3, DecideForms DEF Inv, Phases, SimtCycle, NextState
  <2> DEFINE base == [stack EXCEPT ![Len(stack)] = Decide.top]
  <2>3. /\ Decide.pop => Fits(Front(stack), tpc)
        /\ Decide.modify =>
             /\ Decide.push = <<>> => Fits(base, tpc)
             /\ Len(Decide.push) = 1 => Fits(Append(base, Decide.push[1]), tpc)
             /\ Len(Decide.push) = 2 =>
                  Fits(Append(Append(base, Decide.push[1]), Decide.push[2]), tpc)
    BY <1>3, <2>1, PlanFits DEF Inv
  <2>4. CASE state' = "PopStack" /\ Decide.pop
    <3>1. Target' = Front(stack)
      BY <2>1, <2>4 DEF Target
    <3> QED
      BY <1>1, <2>3, <2>4, <3>1 DEF PathInv, Fits
  <2>5. CASE state' = "ModifyTop" /\ Decide.modify
    <3>1. Len(Decide.push) = 0 \/ Len(Decide.push) = 1 \/ Len(Decide.push) = 2
      BY <2>1, AtMostTwo, Zenon
    <3>2. Len(Decide.push) = 0 => Decide.push = <<>>
      BY <2>1, AtMostTwo, Zenon
    <3>3. Target' = CASE Decide.push = <<>>   -> base
                      [] Len(Decide.push) = 1 -> Append(base, Decide.push[1])
                      [] OTHER -> Append(Append(base, Decide.push[1]), Decide.push[2])
      BY <2>1, <2>5 DEF Target, Pushed
    <3> HIDE DEF base
    <3>4. Fits(Target', tpc)
      BY <2>3, <2>5, <3>1, <3>2, <3>3, EmptySeq
    <3> QED
      BY <1>1, <2>5, <3>4 DEF PathInv, Fits
  <2> QED
    BY <2>2, <2>4, <2>5
<1>4. CASE state # "ReadTop"
  <2>1. Target' = Target /\ state' # "ReadTop"
    BY <1>4, TargetKept
  <2> QED
    BY <1>1, <1>4, <2>1 DEF PathInv, Fits
<1> QED
  BY <1>3, <1>4

\* The update that the branch handler submits says where the threads of the top go.
LEMMA UpdateMovesThreads ==
  ASSUME NEW block, NEW pc, NEW mask, NEW taken \in SUBSET mask,
         block.kind # "branch" => taken = {}, NEW t \in mask
  PROVE  Successor(block, pc, t \in taken) = Going(StackUpdateFor(block, pc, mask, taken), t)
<1>1. \A next : Uniform(next).next = next /\ ~Uniform(next).diverges
  BY DEF Uniform, NoUpdate
<1>2. CASE block.kind # "branch" \/ taken = {} \/ taken = mask
  <2>1. Going(StackUpdateFor(block, pc, mask, taken), t) = Successor(block, pc, taken # {})
    BY <1>1, <1>2 DEF StackUpdateFor, Going
  <2>2. (t \in taken) <=> (taken # {})
    BY <1>2
  <2>3. (t \in taken) = (taken # {})
    BY <2>2
  <2> QED
    BY <2>1, <2>3
<1>3. CASE ~(block.kind # "branch" \/ taken = {} \/ taken = mask)
  <2> DEFINE u == [diverges |-> TRUE, next |-> block.target, taken |-> taken,
                   not_taken_pc |-> pc + 1, reconv |-> block.reconv]
  <2>1. StackUpdateFor(block, pc, mask, taken) = u
    BY <1>3 DEF StackUpdateFor
  <2>2. Going(u, t) = IF t \in taken THEN block.target ELSE pc + 1
    BY DEF Going
  <2>3. Successor(block, pc, t \in taken) = IF t \in taken THEN block.target ELSE pc + 1
    BY <1>3 DEF Successor
  <2> QED
    BY <2>1, <2>2, <2>3
<1> QED
  BY <1>2, <1>3

LEMMA PathRequests ==
  ASSUME Inv, PathInv, Launch \/ RunBlock \/ Retire
  PROVE  PathInv'
<1>1. state = "Idle" /\ Joined(stack) /\ \A t \in Thread : Where(stack, t, tpc[t])
  <2>1. state = "Idle"
    BY DEF Launch, InitReady, RunBlock, Settled, Retire
  <2>2. Target = stack
    BY <2>1 DEF Target
  <2> QED
    BY <2>1, <2>2 DEF PathInv, Fits
<1>2. CASE Launch
  <2>1. PICK threads \in 1 .. NumThreads :
          /\ tpc' = [t \in Thread |-> IF t < threads THEN 1 ELSE EndPC]
          /\ SimtCycle({[pc |-> 1, threads |-> threads]}, {})
    BY <1>2 DEF Launch
  <2> DEFINE init == {[pc |-> 1, threads |-> threads]}
  <2>2. SimtCycle(init, {}) /\ init # {}
    BY <2>1
  <2> HIDE DEF init
  <2>3. stack' = stack /\ state' = "InitPush" /\ init_q' \in init
    BY <1>1, <2>2, IdleClock
  <2>4. stack = <<>> /\ init_q' = [pc |-> 1, threads |-> threads]
    BY <1>2, <2>3 DEF Launch, Inv, Phases, init
  <2> DEFINE e == [pc |-> 1, reconv |-> EndPC, mask |-> 0 .. threads - 1]
  <2>5. Target' = Append(<<>>, e)
    BY <2>3, <2>4 DEF Target, FirstEntry
  <2>6. e \in Entry /\ e.pc = 1 /\ e.reconv = EndPC /\ e.mask = 0 .. threads - 1
    BY NumThreadsAssumption, NumBlocksAssumption DEF Entry, PC, EndPC, Thread
  <2> HIDE DEF e
  <2>7. <<>> \in Seq(Entry) /\ Joined(<<>>) /\ \A t : Where(<<>>, t, EndPC)
    BY EmptySeq DEF Joined, Where, Leads
  <2>8. /\ Joined(Append(<<>>, e))
        /\ \A t, pc : t \in e.mask => (Where(Append(<<>>, e), t, pc) <=> e.pc = pc)
        /\ \A t, pc : t \notin e.mask => (Where(Append(<<>>, e), t, pc) <=> Where(<<>>, t, pc))
    BY <2>6, <2>7, AppendJoined
  <2>9. \A t \in Thread : t \in e.mask <=> t < threads
    BY <2>6, NumThreadsAssumption DEF Thread
  <2>10. \A t \in Thread : tpc'[t] = IF t \in e.mask THEN e.pc ELSE EndPC
    BY <2>1, <2>6, <2>9
  <2>11. Fits(Target', tpc')
    BY <2>5, <2>7, <2>8, <2>10 DEF Fits
  <2> QED
    BY <2>3, <2>11 DEF PathInv
<1>3. CASE RunBlock
  <2>1. PICK taken \in SUBSET top.mask :
          /\ code[top.pc].kind # "branch" => taken = {}
          /\ tpc' = [t \in Thread |->
                       IF t \in top.mask THEN Successor(code[top.pc], top.pc, t \in taken)
                       ELSE tpc[t]]
          /\ SimtCycle({}, {StackUpdateFor(code[top.pc], top.pc, top.mask, taken)})
    BY <1>3 DEF RunBlock
  <2> DEFINE u == StackUpdateFor(code[top.pc], top.pc, top.mask, taken)
  <2>2. \A t \in top.mask : Successor(code[top.pc], top.pc, t \in taken) = Going(u, t)
    BY <2>1, UpdateMovesThreads
  <2>3. SimtCycle({}, {u})
    BY <2>1
  <2>4. stack # <<>> /\ top = Last(stack)
    BY <1>3 DEF RunBlock, Settled, TopValid, Inv, Phases
  <2> HIDE DEF u
  <2>5. stack' = stack /\ state' = "ReadTop" /\ update' = u /\ top' = top
    BY <1>1, <2>3, <2>4, IdleClock
  <2>6. \A t \in Thread : IF t \in top.mask THEN tpc'[t] = Going(u, t) ELSE tpc'[t] = tpc[t]
    BY <2>1, <2>2
  <2> QED
    BY <1>1, <2>5, <2>6 DEF PathInv
<1>4. CASE Retire
  <2>1. stack' = stack /\ state' = "Idle" /\ tpc' = tpc
    BY <1>1, <1>4, IdleClock DEF Retire
  <2>2. Target' = stack
    BY <2>1 DEF Target
  <2> QED
    BY <1>1, <2>1, <2>2 DEF PathInv, Fits
<1> QED
  BY <1>2, <1>3, <1>4

LEMMA PathStep == Inv /\ PathInv /\ RoomToWrite /\ [Next]_vars => PathInv'
<1> SUFFICES ASSUME Inv, PathInv, RoomToWrite, [Next]_vars PROVE PathInv'
  OBVIOUS
<1>1. CASE UNCHANGED vars
  BY <1>1 DEF vars, simt_vars, PathInv, Target, Pushed, FirstEntry
<1> QED
  BY <1>1, PathRequests, PathWorking DEF Next

LEMMA PathInit == Init => PathInv
<1> SUFFICES ASSUME Init PROVE PathInv
  OBVIOUS
<1>1. state = "Idle" /\ stack = <<>> /\ tpc = [t \in Thread |-> EndPC]
  BY DEF Init, SimtInit
<1>2. Joined(<<>>) /\ \A t : Where(<<>>, t, EndPC)
  BY EmptySeq DEF Joined, Where, Leads
<1>3. Fits(stack, tpc)
  BY <1>1, <1>2 DEF Fits
<1>4. Target = stack
  BY <1>1 DEF Target
<1> QED
  BY <1>1, <1>3, <1>4 DEF PathInv

\* Nothing is lost while there is room: for any kernel, structured or not, and any way its
\* threads branch, as long as the controller never writes to a full stack it knows whenever
\* it is at rest where every thread is (SimtStack.tla, Decide).
THEOREM PathsKept == Spec /\ []RoomToWrite => []PathsOnStack
<1>1. ASSUME Inv, PathInv PROVE PathsOnStack
  <2> SUFFICES ASSUME state = "Idle", NEW t \in Unfinished
               PROVE  /\ \E i \in DOMAIN stack : t \in stack[i].mask
                      /\ stack[Level(t)].pc = tpc[t]
    BY DEF PathsOnStack
  <2>1. t \in Thread /\ tpc[t] # EndPC /\ stack \in Seq(Entry)
    BY <1>1 DEF Unfinished, Inv, TypeOK, SimtTypeOK
  <2>2. Target = stack
    BY DEF Target
  <2>3. Leads(stack, Len(stack), t, tpc[t])
    BY <1>1, <2>1, <2>2 DEF PathInv, Fits, Where
  <2>4. PICK i \in 1 .. Len(stack) :
          /\ t \in stack[i].mask /\ stack[i].pc = tpc[t]
          /\ \A j \in 1 .. Len(stack) : i < j => t \notin stack[j].mask
    BY <2>1, <2>3 DEF Leads
  <2>5. DOMAIN stack = 1 .. Len(stack) /\ Len(stack) \in Nat
    BY <2>1, LenProperties
  <2>6. Level(t) = i
    <3> DEFINE S == {j \in DOMAIN stack : t \in stack[j].mask}
    <3>1. i \in S /\ \A j \in S : i >= j
      BY <2>4, <2>5
    <3>2. \A k \in S : (\A j \in S : k >= j) => k = i
      BY <2>5, <3>1
    <3>3. Max(S) = i
      BY <3>1, <3>2 DEF Max
    <3> QED
      BY <3>3 DEF Level
  <2> QED
    BY <2>4, <2>5, <2>6
<1> QED
  BY <1>1, InvAlways, PathInit, PathStep, PTL DEF Spec
-----------------------------------------------------------------------------
(* Kernels whose regions nest. *)

\* The entry at place i of the stack: the first is that of the CTA, any other holds threads
\* inside the region of a branch, and the higher it is the smaller that region.
InRegion(e, i) ==
  IF i = 1 THEN e.pc \in 1 .. NumBlocks /\ e.reconv = EndPC /\ e.mask = launched
  ELSE /\ e.mask # {}
       /\ \E p \in 1 .. NumBlocks :
            /\ code[p].kind = "branch" /\ e.reconv = code[p].reconv
            /\ p < e.pc /\ e.pc < e.reconv /\ e.reconv + i <= NumBlocks + p + 2

AllInRegion(entries) == \A i \in DOMAIN entries : InRegion(entries[i], i)

\* The entries that are still to be pushed fit above n others.
PushesFit(n) ==
  /\ n + Len(plan.push) <= NumBlocks
  /\ \A i \in DOMAIN plan.push : InRegion(plan.push[i], n + i)

RegionInv ==
  /\ WellNested(code)
  /\ AllInRegion(stack)
  /\ state = "ReadTop" =>
       \E taken \in SUBSET top.mask :
         update = StackUpdateFor(code[top.pc], top.pc, top.mask, taken)
  /\ state = "ModifyTop" =>
       /\ InRegion(plan.top, Len(stack)) /\ Len(stack) < NumBlocks
       /\ PushesFit(Len(stack))
  /\ state = "PushFirst" => PushesFit(Len(stack))
  /\ state = "PushSecond" =>
       Len(stack) < NumBlocks /\ InRegion(plan.push[2], Len(stack) + 1)
  /\ state = "InitPush" => init_q.pc = 1 /\ launched = 0 .. init_q.threads - 1

\* Where a block leads.
LEMMA Leading ==
  ASSUME NEW kernel \in [1 .. NumBlocks -> Block], WellNested(kernel), NEW q \in 1 .. NumBlocks
  PROVE  /\ q = NumBlocks <=> kernel[q].kind = "return"
         /\ \A s \in Successors(kernel, q) : s \in PC /\ s # q
         /\ kernel[q].kind = "branch" =>
              /\ kernel[q].reconv \in 1 .. NumBlocks
              /\ kernel[q].target \in q + 1 .. kernel[q].reconv
              /\ q + 1 <= kernel[q].reconv /\ q + 2 <= kernel[q].reconv
              /\ kernel[q].target # kernel[q].reconv \/ q + 1 # kernel[q].reconv
<1>1. /\ Structured(kernel) /\ kernel[q] \in Block /\ q \in Nat /\ NumBlocks \in Nat \ {0}
      /\ q \notin Successors(kernel, q)
  BY NumBlocksAssumption DEF WellNested
<1>2. /\ kernel[q].kind \in {"linear", "jump", "branch", "return"}
      /\ kernel[q].target \in PC /\ kernel[q].reconv \in PC
  BY <1>1 DEF Block
<1>3. q = NumBlocks <=> kernel[q].kind = "return"
  BY <1>1 DEF Structured
<1>4. \A taken \in BOOLEAN : Successor(kernel[q], q, taken) \in PC
  BY <1>1, <1>2, <1>3 DEF Successor, PC, EndPC
<1>5. \A s \in Successors(kernel, q) : s \in PC /\ s # q
  BY <1>1, <1>4 DEF Successors
<1>6. ASSUME kernel[q].kind = "branch"
      PROVE  /\ kernel[q].reconv \in 1 .. NumBlocks
             /\ kernel[q].target \in q + 1 .. kernel[q].reconv
             /\ q + 1 <= kernel[q].reconv /\ q + 2 <= kernel[q].reconv
             /\ kernel[q].target # kernel[q].reconv \/ q + 1 # kernel[q].reconv
  <2>1. Closed(kernel, q)
    BY <1>1, <1>3, <1>6 DEF Structured
  <2>2. \A s \in Successors(kernel, q) : q < s /\ s <= kernel[q].reconv
    BY <2>1 DEF Closed
  <2>3. kernel[q].target \in Successors(kernel, q) /\ q + 1 \in Successors(kernel, q)
    <3>1. /\ Successor(kernel[q], q, TRUE) = kernel[q].target
          /\ Successor(kernel[q], q, FALSE) = q + 1
      BY <1>6 DEF Successor
    <3> QED
      BY <3>1 DEF Successors
  <2>4. /\ kernel[q].reconv <= NumBlocks
        /\ kernel[q].target # kernel[q].reconv \/ q + 1 # kernel[q].reconv
    BY <1>6 DEF WellNested
  <2> QED
    BY <1>1, <1>2, <2>2, <2>3, <2>4 DEF PC, EndPC
<1> QED
  BY <1>3, <1>5, <1>6

\* What is inside a region stays there, and joins there.
LEMMA InsideRegion ==
  ASSUME NEW kernel \in [1 .. NumBlocks -> Block], WellNested(kernel),
         NEW p \in 1 .. NumBlocks, kernel[p].kind = "branch",
         NEW q, q \in PC, p < q, q < kernel[p].reconv
  PROVE  /\ q \in 1 .. NumBlocks
         /\ \A s \in Successors(kernel, q) : p < s /\ s <= kernel[p].reconv
         /\ kernel[q].kind = "branch" => kernel[q].reconv < kernel[p].reconv
<1>1. Structured(kernel) /\ NumBlocks \in Nat \ {0} /\ kernel[p].reconv \in 1 .. NumBlocks
  BY NumBlocksAssumption, Leading DEF WellNested
<1>2. p # NumBlocks
  BY Leading
<1>3. Closed(kernel, p) /\ JoinsInside(kernel, p)
  BY <1>1, <1>2 DEF Structured
<1>4. q \in Inside(kernel, p)
  BY <1>1 DEF Inside, PC, EndPC
<1> QED
  BY <1>3, <1>4 DEF Closed, JoinsInside, Inside

\* The entry on top goes on inside its region, unless it has come to its join; if it goes on,
\* the region has more than one block.
LEMMA MovesInside ==
  ASSUME TypeOK, WellNested(code), NEW n \in Nat \ {0}, NEW e \in Entry, InRegion(e, n),
         NEW s \in Successors(code, e.pc), s # e.reconv
  PROVE  InRegion([e EXCEPT !.pc = s], n) /\ n < NumBlocks
<1>1. /\ code \in [1 .. NumBlocks -> Block] /\ NumBlocks \in Nat \ {0}
      /\ e.pc \in PC /\ e.reconv \in PC
  BY NumBlocksAssumption DEF TypeOK, Entry
<1> DEFINE f == [e EXCEPT !.pc = s]
<1>2. f.pc = s /\ f.reconv = e.reconv /\ f.mask = e.mask
  BY DEF Entry
<1> HIDE DEF f
<1>3. CASE n = 1
  <2>1. e.pc \in 1 .. NumBlocks /\ e.reconv = EndPC /\ e.mask = launched
    BY <1>3 DEF InRegion
  <2>2. s \in PC /\ s # e.pc
    BY <1>1, <2>1, Leading
  <2>3. s \in 1 .. NumBlocks
    BY <1>1, <2>1, <2>2 DEF PC, EndPC
  <2>4. InRegion(f, n)
    BY <1>2, <1>3, <2>1, <2>3 DEF InRegion
  <2> QED
    BY <1>1, <1>3, <2>1, <2>2, <2>3, <2>4 DEF f
<1>4. CASE n # 1
  <2>1. PICK p \in 1 .. NumBlocks :
          /\ code[p].kind = "branch" /\ e.reconv = code[p].reconv
          /\ p < e.pc /\ e.pc < e.reconv /\ e.reconv + n <= NumBlocks + p + 2
    BY <1>4 DEF InRegion
  <2>2. e.pc \in 1 .. NumBlocks /\ p < s /\ s <= e.reconv
    BY <1>1, <2>1, InsideRegion
  <2>3. s \in PC /\ s # e.pc
    BY <1>1, <2>2, Leading
  <2>4. s < e.reconv
    BY <1>1, <2>2, <2>3 DEF PC, EndPC
  <2>5. InRegion(f, n)
    BY <1>2, <1>4, <2>1, <2>2, <2>4 DEF InRegion
  <2>6. n < NumBlocks
    BY <1>1, <2>1, <2>2, <2>3, <2>4 DEF PC, EndPC
  <2> QED
    BY <2>5, <2>6 DEF f
<1> QED
  BY <1>3, <1>4

\* Where a branch diverges, its join is inside the region of the entry, and its paths are
\* inside its own, which leaves room for both.
LEMMA DivergesInside ==
  ASSUME TypeOK, WellNested(code), NEW n \in Nat \ {0}, NEW e \in Entry, InRegion(e, n),
         code[e.pc].kind = "branch"
  PROVE  /\ InRegion([e EXCEPT !.pc = code[e.pc].reconv], n) /\ n + 2 <= NumBlocks
         /\ \A x \in Entry, i \in {1, 2} :
              /\ x.reconv = code[e.pc].reconv /\ x.pc \in {code[e.pc].target, e.pc + 1}
              /\ x.pc # x.reconv /\ x.mask # {}
              => InRegion(x, n + i)
<1>1. /\ code \in [1 .. NumBlocks -> Block] /\ NumBlocks \in Nat \ {0}
      /\ e.pc \in PC /\ e.reconv \in PC
  BY NumBlocksAssumption DEF TypeOK, Entry
<1> DEFINE q == e.pc
           join == code[q].reconv
           f == [e EXCEPT !.pc = join]
<1>2. f.pc = join /\ f.reconv = e.reconv /\ f.mask = e.mask
  BY DEF Entry
<1>3. q \in 1 .. NumBlocks
  <2>1. CASE n = 1
    BY <2>1 DEF InRegion
  <2>2. CASE n # 1
    BY <1>1, <2>2, InsideRegion DEF InRegion
  <2> QED
    BY <2>1, <2>2
<1>4. /\ join \in 1 .. NumBlocks /\ q + 2 <= join
      /\ code[q].target \in q + 1 .. join
  BY <1>1, <1>3, Leading
<1>5. join + n + 2 <= NumBlocks + q + 2 /\ InRegion(f, n)
  <2>1. CASE n = 1
    <3>1. e.reconv = EndPC /\ e.mask = launched
      BY <2>1 DEF InRegion
    <3>2. InRegion(f, n)
      BY <1>2, <1>4, <2>1, <3>1 DEF InRegion
    <3> QED
      BY <1>1, <1>3, <1>4, <2>1, <3>2
  <2>2. CASE n # 1
    <3>1. PICK p \in 1 .. NumBlocks :
            /\ code[p].kind = "branch" /\ e.reconv = code[p].reconv
            /\ p < q /\ q < e.reconv /\ e.reconv + n <= NumBlocks + p + 2
      BY <2>2 DEF InRegion
    <3>2. join < e.reconv
      BY <1>1, <3>1, InsideRegion
    <3> HIDE DEF q, join, f
    <3>3. p < join
      BY <1>3, <1>4, <3>1
    <3>4. InRegion(f, n)
      BY <1>2, <2>2, <3>1, <3>2, <3>3 DEF InRegion
    <3>5. join + n + 2 <= NumBlocks + q + 2
      BY <1>1, <1>3, <1>4, <3>1, <3>2 DEF PC, EndPC
    <3> QED
      BY <3>4, <3>5
  <2> QED
    BY <2>1, <2>2
<1> HIDE DEF f
<1>6. ASSUME NEW x \in Entry, NEW i \in {1, 2}, x.reconv = join,
             x.pc \in {code[q].target, q + 1}, x.pc # x.reconv, x.mask # {}
      PROVE  InRegion(x, n + i)
  <2>1. n + i # 1 /\ code[q].kind = "branch"
    OBVIOUS
  <2> HIDE DEF q, join
  <2>2. q < x.pc /\ x.pc < x.reconv
    BY <1>3, <1>4, <1>6
  <2>3. x.reconv + (n + i) <= NumBlocks + q + 2
    BY <1>1, <1>3, <1>4, <1>5, <1>6
  <2> QED
    BY <1>3, <1>6, <2>1, <2>2, <2>3 DEF InRegion, join
<1>7. n + 2 <= NumBlocks
  BY <1>1, <1>3, <1>4, <1>5
<1> QED
  BY <1>5, <1>6, <1>7 DEF f

\* What the decision table plans fits as well.
LEMMA PlansInside ==
  ASSUME Inv, RegionInv, state = "ReadTop", Decide.modify
  PROVE  /\ InRegion(Decide.top, Len(stack)) /\ Len(stack) < NumBlocks
         /\ Len(stack) + Len(Decide.push) <= NumBlocks
         /\ \A i \in DOMAIN Decide.push : InRegion(Decide.push[i], Len(stack) + i)
<1> DEFINE n == Len(stack)
           block == code[top.pc]
<1>1. /\ TypeOK /\ UpdateFitsTop /\ top \in Entry /\ stack # <<>> /\ top = Last(stack)
      /\ stack \in Seq(Entry) /\ code \in [1 .. NumBlocks -> Block] /\ NumBlocks \in Nat
  BY NumBlocksAssumption DEF Inv, Phases, TypeOK, SimtTypeOK
<1>2. n \in Nat \ {0} /\ InRegion(top, n) /\ WellNested(code)
  BY <1>1, TopOfStack DEF RegionInv, AllInRegion
<1>3. PICK taken \in SUBSET top.mask : update = StackUpdateFor(block, top.pc, top.mask, taken)
  BY DEF RegionInv
<1> HIDE DEF n
<1>4. CASE block.kind # "branch" \/ taken = {} \/ taken = top.mask
  <2> DEFINE s == Successor(block, top.pc, taken # {})
  <2>1. update = Uniform(s)
    BY <1>3, <1>4 DEF StackUpdateFor
  <2>2. s \in Successors(code, top.pc)
    BY DEF Successors
  <2> HIDE DEF s
  <2>3. ~update.diverges /\ update.next = s
    BY <2>1 DEF Uniform, NoUpdate
  <2>4. Decide.top = [top EXCEPT !.pc = s] /\ Decide.push = <<>>
    BY <1>1, <2>3, DecideForms
  <2>5. s # top.reconv
    BY <2>3 DEF Decide, NextPC, NoPlan
  <2>6. InRegion([top EXCEPT !.pc = s], n) /\ n < NumBlocks
    BY <1>1, <1>2, <2>2, <2>5, MovesInside
  <2>7. Len(Decide.push) = 0 /\ DOMAIN Decide.push = {}
    BY <2>4
  <2> QED
    BY <1>1, <1>2, <2>4, <2>6, <2>7 DEF n
<1>5. CASE ~(block.kind # "branch" \/ taken = {} \/ taken = top.mask)
  <2>1. /\ update.diverges /\ update.next = block.target /\ update.not_taken_pc = top.pc + 1
        /\ update.reconv = block.reconv
    BY <1>3, <1>5 DEF StackUpdateFor
  <2>2. Decide.top = [top EXCEPT !.pc = block.reconv] /\ Decide.push = PushesDivergent
    BY <1>1, <2>1, DecideForms
  <2>3. /\ InRegion([top EXCEPT !.pc = block.reconv], n) /\ n + 2 <= NumBlocks
        /\ \A x \in Entry, i \in {1, 2} :
             /\ x.reconv = block.reconv /\ x.pc \in {block.target, top.pc + 1}
             /\ x.pc # x.reconv /\ x.mask # {}
             => InRegion(x, n + i)
    BY <1>1, <1>2, <1>5, DivergesInside
  <2>4. block.target # block.reconv \/ top.pc + 1 # block.reconv
    <3>1. top.pc \in 1 .. NumBlocks
      <4>1. CASE n = 1
        BY <1>2, <4>1 DEF InRegion
      <4>2. CASE n # 1
        BY <1>1, <1>2, <4>2, InsideRegion DEF InRegion, Entry
      <4> QED
        BY <4>1, <4>2
    <3> QED
      BY <1>1, <1>2, <1>5, <3>1, Leading
  <2> HIDE DEF block
  <2> DEFINE push == PushesDivergent
  <2>5. /\ push \in Seq(Entry) /\ (Len(push) = 1 \/ Len(push) = 2)
        /\ DOMAIN push = 1 .. Len(push) /\ \A i \in DOMAIN push : push[i] \in Entry
    BY <1>1, EntriesTyped, LenProperties, ElementOfSeq
  <2>6. \A i \in DOMAIN push :
          /\ push[i].reconv = update.reconv /\ push[i].pc \in {update.next, update.not_taken_pc}
          /\ push[i].pc # update.reconv /\ push[i].mask # {}
    <3>1. /\ \A pc, mask : /\ PathEntry(pc, mask).pc = pc /\ PathEntry(pc, mask).mask = mask
                           /\ PathEntry(pc, mask).reconv = update.reconv
          /\ Taken # {} /\ NotTaken # {}
      BY <1>1, <2>1 DEF PathEntry, UpdateFitsTop, Taken, NotTaken
    <3>2. CASE update.next # update.reconv /\ update.not_taken_pc # update.reconv
      <4>1. push = <<PathEntry(update.next, Taken), PathEntry(update.not_taken_pc, NotTaken)>>
        BY <3>2 DEF PushesDivergent
      <4> HIDE DEF push
      <4>2. DOMAIN push = {1, 2}
        BY <4>1
      <4> QED
        BY <3>1, <3>2, <4>1, <4>2
    <3>3. CASE update.next = update.reconv
      <4>1. push = <<PathEntry(update.not_taken_pc, NotTaken)>>
        BY <3>3 DEF PushesDivergent
      <4> HIDE DEF push
      <4>2. DOMAIN push = {1}
        BY <4>1
      <4> QED
        BY <2>1, <2>4, <3>1, <3>3, <4>1, <4>2
    <3>4. CASE update.next # update.reconv /\ update.not_taken_pc = update.reconv
      <4>1. push = <<PathEntry(update.next, Taken)>>
        BY <3>4 DEF PushesDivergent
      <4> HIDE DEF push
      <4>2. DOMAIN push = {1}
        BY <4>1
      <4> QED
        BY <3>1, <3>4, <4>1, <4>2
    <3> QED
      BY <3>2, <3>3, <3>4
  <2> HIDE DEF push
  <2>7. \A i \in DOMAIN push : InRegion(push[i], n + i)
    <3>1. \A i \in DOMAIN push : i \in {1, 2}
      BY <2>5
    <3> QED
      BY <2>1, <2>3, <2>5, <2>6, <3>1
  <2>8. n + Len(push) <= NumBlocks /\ n < NumBlocks
    <3>1. n + 2 <= NumBlocks /\ n \in Nat /\ NumBlocks \in Nat
      BY <1>1, <1>2, <2>3
    <3>2. n + 1 <= NumBlocks /\ n < NumBlocks
      BY <3>1
    <3>3. CASE Len(push) = 1
      BY <3>2, <3>3
    <3>4. CASE Len(push) = 2
      BY <3>1, <3>2, <3>4
    <3> QED
      BY <2>5, <3>3, <3>4
  <2> QED
    BY <2>2, <2>3, <2>7, <2>8 DEF n, push
<1> QED
  BY <1>4, <1>5

\* The entries after a write to the stack.
LEMMA WritesInside ==
  ASSUME NEW s \in Seq(Entry), NEW e \in Entry, AllInRegion(s)
  PROVE  /\ InRegion(e, Len(s) + 1) => AllInRegion(Append(s, e))
         /\ s # <<>> /\ InRegion(e, Len(s)) => AllInRegion([s EXCEPT ![Len(s)] = e])
         /\ s # <<>> => AllInRegion(Front(s))
<1>1. Len(s) \in Nat /\ DOMAIN s = 1 .. Len(s)
  BY LenProperties
<1>2. ASSUME InRegion(e, Len(s) + 1) PROVE AllInRegion(Append(s, e))
  <2> DEFINE r == Append(s, e)
  <2>1. /\ DOMAIN r = 1 .. Len(s) + 1 /\ r[Len(s) + 1] = e
        /\ \A i \in 1 .. Len(s) : r[i] = s[i]
    BY <1>1, AppendProperties
  <2> HIDE DEF r
  <2>2. \A i \in 1 .. Len(s) + 1 : i \in 1 .. Len(s) \/ i = Len(s) + 1
    BY <1>1
  <2>3. AllInRegion(r)
    BY <1>1, <1>2, <2>1, <2>2 DEF AllInRegion
  <2> QED
    BY <2>3 DEF r
<1>3. ASSUME s # <<>>, InRegion(e, Len(s)) PROVE AllInRegion([s EXCEPT ![Len(s)] = e])
  <2> DEFINE r == [s EXCEPT ![Len(s)] = e]
  <2>1. DOMAIN r = DOMAIN s /\ \A i \in DOMAIN s : r[i] = IF i = Len(s) THEN e ELSE s[i]
    OBVIOUS
  <2> HIDE DEF r
  <2>2. AllInRegion(r)
    BY <1>3, <2>1 DEF AllInRegion
  <2> QED
    BY <2>2 DEF r
<1>4. ASSUME s # <<>> PROVE AllInRegion(Front(s))
  <2>1. /\ Front(s) \in Seq(Entry) /\ Len(Front(s)) = Len(s) - 1
        /\ \A i \in 1 .. Len(s) - 1 : Front(s)[i] = s[i]
    BY <1>4, BelowTop
  <2>2. DOMAIN Front(s) = 1 .. Len(s) - 1
    BY <2>1, LenProperties
  <2>3. \A i \in 1 .. Len(s) - 1 : i \in DOMAIN s
    BY <1>1
  <2> QED
    BY <2>1, <2>2, <2>3 DEF AllInRegion
<1> QED
  BY <1>2, <1>3, <1>4

\* Regions are those of the kernel and of the CTA.
LEMMA SameRegions ==
  ASSUME code' = code, launched' = launched
  PROVE  /\ AllInRegion(stack)' <=> AllInRegion(stack')
         /\ PushesFit(Len(stack))' <=>
              /\ Len(stack') + Len(plan'.push) <= NumBlocks
              /\ \A i \in DOMAIN plan'.push : InRegion(plan'.push[i], Len(stack') + i)
         /\ InRegion(plan.top, Len(stack))' <=> InRegion(plan'.top, Len(stack'))
         /\ InRegion(plan.push[2], Len(stack) + 1)' <=> InRegion(plan'.push[2], Len(stack') + 1)
BY DEF AllInRegion, PushesFit, InRegion

\* A clock of the controller, with room for an entry for each block.
LEMMA RegionWorking ==
  ASSUME NumBlocks <= Depth, Inv, RegionInv, Working
  PROVE  RegionInv'
<1>1. /\ SimtCycle({}, {}) /\ code' = code /\ launched' = launched /\ init_q' = init_q
      /\ state # "Idle" /\ (state # "ReadTop" => plan' = plan)
      /\ state \in {"ReadTop", "FinalRead"} => stack' = stack
  BY WorkingClock DEF Working
<1>2. /\ plan \in Plan /\ Len(plan.push) <= 2 /\ plan.push \in Seq(Entry) /\ plan.top \in Entry
      /\ stack \in Seq(Entry) /\ Len(stack) \in Nat /\ Len(stack) <= Depth
      /\ NumBlocks \in Nat /\ Depth \in Nat \ {0}
      /\ state \in {"Idle", "ReadTop", "ModifyTop", "PushFirst", "PushSecond",
                    "PopStack", "InitPush", "FinalRead"}
  BY NumBlocksAssumption, DepthAssumption, LenProperties DEF Inv, TypeOK, SimtTypeOK, Plan
<1>3. DOMAIN plan.push = 1 .. Len(plan.push) /\ \A i \in DOMAIN plan.push : plan.push[i] \in Entry
  BY <1>2, LenProperties, ElementOfSeq
<1>4. WellNested(code)' /\ AllInRegion(stack)
  BY <1>1 DEF RegionInv
<1>5. CASE state = "ReadTop"
  <2>1. stack' = stack /\ plan' = Decide
    BY <1>1, <1>5 DEF SimtCycle, Inv, Phases
  <2>2. \/ state' = "ModifyTop" /\ Decide.modify
        \/ state' = "PopStack"
    BY <1>1, <1>5, DecideForms DEF Inv, Phases, SimtCycle, NextState
  <2>3. AllInRegion(stack)'
    BY <1>1, <1>4, <2>1, SameRegions
  <2>4. CASE state' = "ModifyTop" /\ Decide.modify
    <3>1. /\ InRegion(Decide.top, Len(stack)) /\ Len(stack) < NumBlocks
          /\ Len(stack) + Len(Decide.push) <= NumBlocks
          /\ \A i \in DOMAIN Decide.push : InRegion(Decide.push[i], Len(stack) + i)
      BY <1>5, <2>4, PlansInside
    <3>2. InRegion(plan.top, Len(stack))' /\ PushesFit(Len(stack))'
      BY <1>1, <2>1, <3>1, SameRegions
    <3> QED
      BY <1>4, <2>1, <2>3, <2>4, <3>1, <3>2 DEF RegionInv
  <2>5. CASE state' = "PopStack"
    BY <1>4, <2>3, <2>5 DEF RegionInv
  <2> QED
    BY <2>2, <2>4, <2>5
<1>6. CASE state = "ModifyTop"
  <2>1. /\ stack # <<>> /\ InRegion(plan.top, Len(stack)) /\ Len(stack) < NumBlocks
        /\ PushesFit(Len(stack))
    BY <1>6 DEF RegionInv, Inv, Phases
  <2>2. /\ stack' = [stack EXCEPT ![Len(stack)] = plan.top]
        /\ state' = IF plan.push # <<>> THEN "PushFirst" ELSE "FinalRead"
    BY <1>1, <1>2, <1>6, <2>1 DEF SimtCycle, StackUpdate, NextState, Full
  <2>3. AllInRegion(stack)' /\ Len(stack') = Len(stack)
    <3>1. AllInRegion(stack')
      BY <1>2, <1>4, <2>1, <2>2, WritesInside
    <3>2. Len(stack') = Len(stack)
      BY <1>2, <2>2, LenProperties
    <3> QED
      BY <1>1, <3>1, <3>2, SameRegions
  <2>4. PushesFit(Len(stack))'
    BY <1>1, <1>6, <2>1, <2>3, SameRegions DEF PushesFit
  <2> QED
    BY <1>4, <2>2, <2>3, <2>4 DEF RegionInv
<1>7. CASE state = "PushFirst"
  <2>1. plan.push # <<>> /\ PushesFit(Len(stack))
    BY <1>7 DEF RegionInv, Inv, Phases
  <2>2. Len(plan.push) = 1 \/ Len(plan.push) = 2
    BY <1>2, <2>1, AtMostTwo, Zenon
  <2>3. InRegion(plan.push[1], Len(stack) + 1) /\ plan.push[1] \in Entry /\ Len(stack) < NumBlocks
    BY <1>2, <1>3, <2>1, <2>2 DEF PushesFit
  <2>4. /\ stack' = Append(stack, plan.push[1])
        /\ state' = IF Len(plan.push) = 2 THEN "PushSecond" ELSE "FinalRead"
    BY <1>1, <1>2, <1>7, <2>3 DEF SimtCycle, StackUpdate, NextState, PushOn, Full
  <2>5. AllInRegion(stack)' /\ Len(stack') = Len(stack) + 1
    <3>1. AllInRegion(stack')
      BY <1>2, <1>4, <2>3, <2>4, WritesInside
    <3>2. Len(stack') = Len(stack) + 1
      BY <1>2, <2>4, AppendProperties
    <3> QED
      BY <1>1, <3>1, <3>2, SameRegions
  <2>6. ASSUME Len(plan.push) = 2
        PROVE  Len(stack') < NumBlocks /\ InRegion(plan.push[2], Len(stack) + 1)'
    <3>1. InRegion(plan.push[2], Len(stack) + 2) /\ Len(stack) + 2 <= NumBlocks
      BY <1>3, <2>1, <2>6 DEF PushesFit
    <3>2. Len(stack') + 1 = Len(stack) + 2
      BY <1>2, <2>5
    <3> QED
      BY <1>1, <1>2, <1>7, <2>5, <3>1, <3>2, SameRegions
  <2> QED
    BY <1>4, <2>4, <2>5, <2>6 DEF RegionInv
<1>8. CASE state = "PushSecond"
  <2>1. Len(plan.push) = 2 /\ Len(stack) < NumBlocks /\ InRegion(plan.push[2], Len(stack) + 1)
    BY <1>8 DEF RegionInv, Inv, Phases
  <2>2. plan.push[2] \in Entry
    BY <1>3, <2>1
  <2>3. stack' = Append(stack, plan.push[2]) /\ state' = "FinalRead"
    BY <1>1, <1>2, <1>8, <2>1 DEF SimtCycle, StackUpdate, NextState, PushOn, Full
  <2>4. AllInRegion(stack')
    BY <1>2, <1>4, <2>1, <2>2, <2>3, WritesInside
  <2> QED
    BY <1>1, <1>4, <2>3, <2>4, SameRegions DEF RegionInv
<1>9. CASE state = "InitPush"
  <2>1. stack = <<>> /\ init_q.pc = 1 /\ launched = 0 .. init_q.threads - 1
    BY <1>9 DEF RegionInv, Inv, Phases
  <2>2. Len(stack) = 0
    BY <2>1, EmptySeq
  <2>3. stack' = Append(stack, FirstEntry) /\ state' = "FinalRead"
    BY <1>1, <1>2, <1>9, <2>2 DEF SimtCycle, StackUpdate, NextState, PushOn, Full
  <2>4. FirstEntry \in Entry /\ InRegion(FirstEntry, Len(stack) + 1)
    <3>1. FirstEntry = [pc |-> 1, reconv |-> EndPC, mask |-> launched]
      BY <2>1 DEF FirstEntry
    <3>2. launched \subseteq Thread /\ EndPC \in PC /\ 1 \in PC /\ 1 \in 1 .. NumBlocks
      BY NumBlocksAssumption DEF Inv, TypeOK, EndPC, PC
    <3> QED
      BY <2>2, <3>1, <3>2 DEF Entry, InRegion
  <2>5. AllInRegion(stack')
    BY <1>2, <1>4, <2>3, <2>4, WritesInside
  <2> QED
    BY <1>1, <1>4, <2>3, <2>5, SameRegions DEF RegionInv
<1>10. CASE state = "PopStack"
  <2>1. stack # <<>> /\ stack' = Front(stack) /\ state' = "FinalRead"
    BY <1>1, <1>10 DEF Inv, Phases, SimtCycle, StackUpdate, NextState
  <2>2. AllInRegion(stack')
    <3>1. PICK e \in Entry : TRUE
      BY <1>2
    <3> QED
      BY <1>2, <1>4, <2>1, <3>1, WritesInside
  <2> QED
    BY <1>1, <1>4, <2>1, <2>2, SameRegions DEF RegionInv
<1>11. CASE state = "FinalRead"
  <2>1. stack' = stack /\ state' \in {"Idle", "FinalRead"}
    BY <1>1, <1>11 DEF SimtCycle, NextState
  <2> QED
    BY <1>1, <1>4, <2>1, SameRegions DEF RegionInv
<1> QED
  BY <1>1, <1>2, <1>5, <1>6, <1>7, <1>8, <1>9, <1>10, <1>11

\* Requests are taken at rest and leave the stack alone.
LEMMA RegionRequests ==
  ASSUME Inv, RegionInv, Launch \/ RunBlock \/ Retire
  PROVE  RegionInv'
<1>1. state = "Idle" /\ WellNested(code) /\ AllInRegion(stack) /\ code' = code
  BY DEF Launch, InitReady, RunBlock, Settled, Retire, RegionInv
<1>2. WellNested(code)'
  BY <1>1
<1>3. CASE Launch
  <2>1. PICK threads \in 1 .. NumThreads :
          /\ launched' = 0 .. threads - 1
          /\ SimtCycle({[pc |-> 1, threads |-> threads]}, {})
    BY <1>3 DEF Launch
  <2> DEFINE init == {[pc |-> 1, threads |-> threads]}
  <2>2. SimtCycle(init, {}) /\ init # {}
    BY <2>1
  <2> HIDE DEF init
  <2>3. stack' = stack /\ state' = "InitPush" /\ init_q' \in init
    BY <1>1, <2>2, IdleClock
  <2>4. stack = <<>> /\ init_q' = [pc |-> 1, threads |-> threads]
    BY <1>3, <2>3 DEF Launch, Inv, Phases, init
  <2>5. AllInRegion(stack)'
    BY <2>3, <2>4 DEF AllInRegion
  <2> QED
    BY <1>2, <2>1, <2>3, <2>4, <2>5 DEF RegionInv
<1>4. CASE RunBlock
  <2>1. PICK taken \in SUBSET top.mask :
          SimtCycle({}, {StackUpdateFor(code[top.pc], top.pc, top.mask, taken)})
    BY <1>4 DEF RunBlock
  <2> DEFINE u == StackUpdateFor(code[top.pc], top.pc, top.mask, taken)
  <2>2. SimtCycle({}, {u})
    BY <2>1
  <2>3. stack # <<>> /\ top = Last(stack) /\ launched' = launched
    BY <1>4 DEF RunBlock, Settled, TopValid, Inv, Phases
  <2> HIDE DEF u
  <2>4. stack' = stack /\ state' = "ReadTop" /\ update' = u /\ top' = top
    BY <1>1, <2>2, <2>3, IdleClock
  <2>5. AllInRegion(stack)'
    BY <1>1, <2>3, <2>4, SameRegions
  <2>6. \E t \in SUBSET top'.mask :
          update' = StackUpdateFor(code'[top'.pc], top'.pc, top'.mask, t)
    BY <1>1, <2>4 DEF u
  <2> QED
    BY <1>2, <2>4, <2>5, <2>6 DEF RegionInv
<1>5. CASE Retire
  <2>1. stack' = stack /\ state' = "Idle" /\ stack = <<>>
    BY <1>1, <1>5, IdleClock DEF Retire
  <2>2. AllInRegion(stack)'
    BY <2>1 DEF AllInRegion
  <2> QED
    BY <1>2, <2>1, <2>2 DEF RegionInv
<1> QED
  BY <1>3, <1>4, <1>5

\* While every entry is in its region, the threads of the top have not come to their join, all
\* of the CTA are at the return, and there is room for what is written.
LEMMA RegionsMeet ==
  ASSUME NumBlocks <= Depth, Inv, RegionInv
  PROVE  ThreadsMeet /\ RoomToWrite
<1>1. /\ stack \in Seq(Entry) /\ top \in Entry /\ code \in [1 .. NumBlocks -> Block]
      /\ NumBlocks \in Nat /\ Depth \in Nat /\ Len(stack) \in Nat
      /\ plan.push \in Seq(Entry) /\ Len(plan.push) \in Nat
  BY NumBlocksAssumption, DepthAssumption, LenProperties
     DEF Inv, TypeOK, SimtTypeOK, Plan
<1>2. ASSUME Settled
      PROVE  /\ top.pc # top.reconv
             /\ top.pc # EndPC /\ code[top.pc].kind = "return" => top.mask = launched
  <2>1. stack # <<>> /\ top = Last(stack)
    BY <1>2 DEF Settled, TopValid, Inv, Phases
  <2>2. Len(stack) \in Nat \ {0} /\ InRegion(top, Len(stack))
    BY <1>1, <2>1, TopOfStack DEF RegionInv, AllInRegion
  <2>3. CASE Len(stack) = 1
    <3>1. top.pc \in 1 .. NumBlocks /\ top.reconv = EndPC /\ top.mask = launched
      BY <2>2, <2>3 DEF InRegion
    <3> QED
      BY <1>1, <3>1 DEF EndPC
  <2>4. CASE Len(stack) # 1
    <3>1. PICK p \in 1 .. NumBlocks :
            /\ code[p].kind = "branch" /\ top.reconv = code[p].reconv
            /\ p < top.pc /\ top.pc < top.reconv
      BY <2>2, <2>4 DEF InRegion
    <3>2. WellNested(code) /\ top.pc \in PC /\ top.reconv \in PC
      BY <1>1 DEF RegionInv, Entry
    <3>3. top.reconv \in 1 .. NumBlocks
      BY <1>1, <3>1, <3>2, Leading
    <3>4. top.pc \in 1 .. NumBlocks /\ top.pc # NumBlocks
      BY <1>1, <3>1, <3>2, <3>3 DEF PC, EndPC
    <3>5. code[top.pc].kind # "return"
      BY <1>1, <3>2, <3>4, Leading
    <3>6. top.pc # top.reconv
      BY <3>1, <3>3, <3>4
    <3> QED
      BY <3>5, <3>6
  <2> QED
    BY <2>3, <2>4
<1>3. ASSUME state \in {"ModifyTop", "PushFirst", "PushSecond"} PROVE Len(stack) < Depth
  <2>1. CASE state \in {"ModifyTop", "PushSecond"}
    BY <1>1, <2>1 DEF RegionInv
  <2>2. CASE state = "PushFirst"
    <3>1. plan.push # <<>> /\ Len(stack) + Len(plan.push) <= NumBlocks
      BY <2>2 DEF RegionInv, Inv, Phases, PushesFit
    <3>2. Len(plan.push) # 0
      BY <1>1, <3>1, EmptySeq
    <3> QED
      BY <1>1, <3>1, <3>2
  <2> QED
    BY <1>3, <2>1, <2>2
<1> QED
  BY <1>2, <1>3 DEF ThreadsMeet, JoinsTogether, ReturnsTogether, RoomToWrite

\* The invariant of the kernels whose regions nest.
LEMMA RegionStep ==
  ASSUME NumBlocks <= Depth
  PROVE  Inv /\ RegionInv /\ [Next]_vars => RegionInv'
<1> SUFFICES ASSUME Inv, RegionInv, [Next]_vars PROVE RegionInv'
  OBVIOUS
<1>1. CASE UNCHANGED vars
  <2>1. /\ state' = state /\ stack' = stack /\ top' = top /\ update' = update /\ plan' = plan
        /\ init_q' = init_q /\ code' = code /\ launched' = launched
    BY <1>1 DEF vars, simt_vars
  <2> QED
    BY <2>1 DEF RegionInv, AllInRegion, InRegion, PushesFit
<1> QED
  BY <1>1, RegionRequests, RegionWorking DEF Next

LEMMA RegionsKept ==
  ASSUME \A kernel \in Kernels : WellNested(kernel), NumBlocks <= Depth
  PROVE  Spec => []RegionInv
<1>1. Init => RegionInv
  <2> SUFFICES ASSUME Init PROVE RegionInv
    OBVIOUS
  <2>1. state = "Idle" /\ stack = <<>> /\ WellNested(code)
    BY DEF Init, SimtInit
  <2> QED
    BY <2>1 DEF RegionInv, AllInRegion
<1>2. Inv /\ RegionInv /\ [Next]_vars => RegionInv'
  BY RegionStep
<1> QED
  BY <1>1, <1>2, InvAlways, PTL DEF Spec

\* In a kernel whose regions nest, threads that diverged meet at the join before any of them
\* goes on, and all meet at the return (SimtStack.tla, Decide), whatever ways they take.
THEOREM NestedKernelsMeet ==
  ASSUME \A kernel \in Kernels : WellNested(kernel), NumBlocks <= Depth
  PROVE  Spec => []ThreadsMeet
<1>1. Inv /\ RegionInv => ThreadsMeet
  BY RegionsMeet
<1> QED
  BY <1>1, InvAlways, RegionsKept, PTL

\* Such a kernel needs no more entries than it has blocks: nothing is written to a full stack,
\* where the controller would drop it.
THEOREM NestedKernelsFit ==
  ASSUME \A kernel \in Kernels : WellNested(kernel), NumBlocks <= Depth
  PROVE  Spec => []RoomToWrite
<1>1. Inv /\ RegionInv => RoomToWrite
  BY RegionsMeet
<1> QED
  BY <1>1, InvAlways, RegionsKept, PTL

\* So no thread of it is lost, without any assumption about the room there is.
THEOREM NestedKernelsLoseNone ==
  ASSUME \A kernel \in Kernels : WellNested(kernel), NumBlocks <= Depth
  PROVE  Spec => []PathsOnStack
BY NestedKernelsFit, PathsKept, PTL

\* The structured kernels that only go forward are among them.
LEMMA ForwardNested == \A kernel \in ForwardKernels : WellNested(kernel)
<1> SUFFICES ASSUME NEW kernel \in ForwardKernels, NEW p \in 1 .. NumBlocks
             PROVE  /\ p \notin Successors(kernel, p)
                    /\ kernel[p].kind = "branch" =>
                         /\ kernel[p].reconv <= NumBlocks
                         /\ kernel[p].target # kernel[p].reconv \/ p + 1 # kernel[p].reconv
  BY DEF WellNested, ForwardKernels
<1>1. kernel[p] \in ForwardBlocks(p) /\ NumBlocks \in Nat \ {0} /\ p \in Nat
  BY NumBlocksAssumption DEF ForwardKernels
<1>2. \/ p = NumBlocks /\ kernel[p] = Return
      \/ p # NumBlocks /\ kernel[p] = Linear(p)
      \/ p # NumBlocks /\ \E q \in p + 2 .. NumBlocks : kernel[p] = Jump(q)
      \/ p # NumBlocks /\ \E q, r \in p + 1 .. NumBlocks :
           kernel[p] = Branch(q, r) /\ kernel[p] # Branch(p + 1, p + 1)
  BY <1>1 DEF ForwardBlocks
<1>3. CASE p = NumBlocks /\ kernel[p] = Return
  BY <1>1, <1>3 DEF Return, Successors, Successor, EndPC
<1>4. CASE kernel[p] = Linear(p)
  BY <1>1, <1>4 DEF Linear, Successors, Successor
<1>5. ASSUME NEW q \in p + 2 .. NumBlocks, kernel[p] = Jump(q)
      PROVE  p \notin Successors(kernel, p) /\ kernel[p].kind # "branch"
  BY <1>1, <1>5 DEF Jump, Successors, Successor
<1>6. ASSUME NEW q \in p + 1 .. NumBlocks, NEW r \in p + 1 .. NumBlocks,
             kernel[p] = Branch(q, r), kernel[p] # Branch(p + 1, p + 1)
      PROVE  /\ p \notin Successors(kernel, p) /\ kernel[p].reconv <= NumBlocks
             /\ kernel[p].target # kernel[p].reconv \/ p + 1 # kernel[p].reconv
  <2>1. /\ kernel[p].kind = "branch" /\ kernel[p].target = q /\ kernel[p].reconv = r
        /\ q # p + 1 \/ r # p + 1
    BY <1>6 DEF Branch
  <2> QED
    BY <1>1, <2>1 DEF Successors, Successor
<1> QED
  BY <1>2, <1>3, <1>4, <1>5, <1>6

-----------------------------------------------------------------------------
(* What a front end that submits the updates may rely on. *)

\* At rest, the threads of the top stand at its block.
LEMMA TopAtRest ==
  ASSUME Inv, RegionInv, PathInv, state \in {"Idle", "FinalRead"}, stack # <<>>, top = Last(stack)
  PROVE  /\ top.pc \in 1 .. NumBlocks /\ top.mask # {} /\ top.mask \subseteq Thread
         /\ \A t \in top.mask : tpc[t] = top.pc
<1>1. /\ stack \in Seq(Entry) /\ top \in Entry /\ code \in [1 .. NumBlocks -> Block]
      /\ launched # {} /\ WellNested(code) /\ NumBlocks \in Nat
  BY NumBlocksAssumption DEF Inv, Phases, TypeOK, SimtTypeOK, RegionInv
<1>2. /\ Len(stack) \in Nat \ {0} /\ top = stack[Len(stack)] /\ InRegion(top, Len(stack))
  BY <1>1, TopOfStack DEF RegionInv, AllInRegion
<1>3. top.mask \subseteq Thread /\ top.pc \in PC
  BY <1>1 DEF Entry
<1>4. top.pc \in 1 .. NumBlocks /\ top.mask # {}
  <2>1. CASE Len(stack) = 1
    BY <1>1, <1>2, <2>1 DEF InRegion
  <2>2. CASE Len(stack) # 1
    BY <1>1, <1>2, <1>3, <2>2, InsideRegion DEF InRegion
  <2> QED
    BY <2>1, <2>2
<1>5. ASSUME NEW t \in top.mask PROVE tpc[t] = top.pc
  <2>1. Target = stack
    BY DEF Target
  <2>2. Leads(stack, Len(stack), t, tpc[t])
    BY <1>3, <1>5, <2>1 DEF PathInv, Fits, Where
  <2> QED
    BY <1>2, <1>5, <2>2, LeadsTop
<1> QED
  BY <1>3, <1>4, <1>5

\* At rest with an empty stack, all threads have returned.
LEMMA EmptyAtRest ==
  ASSUME PathInv, state = "Idle", stack = <<>>
  PROVE  \A t \in Thread : tpc[t] = EndPC
<1>1. Target = <<>> /\ Len(<<>>) = 0
  BY EmptySeq DEF Target
<1>2. \A t \in Thread : Leads(<<>>, 0, t, tpc[t])
  BY <1>1 DEF PathInv, Fits, Where
<1> QED
  BY <1>2 DEF Leads

\* What the controller decides is decided in one clock.
LEMMA Decides ==
  ASSUME Inv, Working, state = "ReadTop"
  PROVE  /\ stack' = stack /\ plan' = Decide /\ stack # <<>> /\ top = Last(stack)
         /\ \/ state' = "ModifyTop" /\ Decide.modify
            \/ state' = "PopStack" /\ Decide.pop
<1>1. SimtCycle({}, {}) /\ out_valid /\ TypeOK /\ UpdateFitsTop
  BY DEF Working, Inv, Phases
<1>2. stack' = stack /\ plan' = Decide /\ stack # <<>> /\ top = Last(stack)
  BY <1>1, WorkingClock DEF Inv, Phases, SimtCycle
<1>3. state' = IF Decide.pop THEN "PopStack" ELSE IF Decide.modify THEN "ModifyTop" ELSE "Idle"
  BY <1>1 DEF SimtCycle, NextState
<1> QED
  BY <1>1, <1>2, <1>3, DecideForms

\* After a branch there is a top.  If its block is the target of the branch, which is neither
\* the next block nor on the way of a thread that skips to the join, then all threads took it.
LEMMA BranchEnds ==
  ASSUME Inv, RegionInv, Working, state = "ReadTop", code[top.pc].kind = "branch",
         code[top.pc].target # top.pc + 1, code[top.pc].reconv # top.pc + 1
  PROVE  /\ Target' # <<>>
         /\ Last(Target').pc = code[top.pc].target => Last(Target').mask = top.mask
<1> DEFINE b == code[top.pc]
           base == [stack EXCEPT ![Len(stack)] = Decide.top]
<1>1. /\ stack' = stack /\ plan' = Decide /\ stack # <<>> /\ top = Last(stack)
      /\ \/ state' = "ModifyTop" /\ Decide.modify
         \/ state' = "PopStack" /\ Decide.pop
  BY Decides
<1>2. /\ stack \in Seq(Entry) /\ top \in Entry /\ code \in [1 .. NumBlocks -> Block]
      /\ WellNested(code) /\ NumBlocks \in Nat \ {0} /\ TypeOK /\ UpdateFitsTop
  BY NumBlocksAssumption DEF Inv, TypeOK, SimtTypeOK, RegionInv
<1>3. /\ Len(stack) \in Nat \ {0} /\ top = stack[Len(stack)] /\ InRegion(top, Len(stack))
  BY <1>1, <1>2, TopOfStack DEF RegionInv, AllInRegion
<1>4. top.pc \in 1 .. NumBlocks /\ top.reconv \in PC
  <2>1. top.pc \in PC /\ top.reconv \in PC
    BY <1>2 DEF Entry
  <2>2. CASE Len(stack) = 1
    BY <1>3, <2>1, <2>2 DEF InRegion
  <2>3. CASE Len(stack) # 1
    BY <1>2, <1>3, <2>1, <2>3, InsideRegion DEF InRegion
  <2> QED
    BY <2>1, <2>2, <2>3
<1>5. /\ b.reconv \in 1 .. NumBlocks /\ b.target \in top.pc + 1 .. b.reconv
      /\ top.pc + 1 <= b.reconv
  BY <1>2, <1>4, Leading
<1>6. b.reconv < top.reconv
  <2>1. CASE Len(stack) = 1
    BY <1>2, <1>3, <1>5, <2>1 DEF InRegion, EndPC
  <2>2. CASE Len(stack) # 1
    <3>1. PICK p \in 1 .. NumBlocks :
            /\ code[p].kind = "branch" /\ top.reconv = code[p].reconv
            /\ p < top.pc /\ top.pc < top.reconv
      BY <1>3, <2>2 DEF InRegion
    <3>2. top.pc \in PC
      BY <1>2 DEF Entry
    <3> QED
      BY <1>2, <3>1, <3>2, InsideRegion
  <2> QED
    BY <2>1, <2>2
<1>7. PICK taken \in SUBSET top.mask : update = StackUpdateFor(b, top.pc, top.mask, taken)
  BY DEF RegionInv
<1>8. ASSUME Decide.modify, NEW e \in Entry, e = Decide.top, e.mask = top.mask
      PROVE  base \in Seq(Entry) /\ base # <<>> /\ Last(base) = e
  <2> DEFINE r == [stack EXCEPT ![Len(stack)] = e]
  <2>1. r \in Seq(Entry) /\ Len(r) = Len(stack) /\ r[Len(stack)] = e
    BY <1>2, <1>3, ExceptSeq
  <2>2. r # <<>>
    BY <1>3, <2>1, EmptySeq
  <2> HIDE DEF r
  <2>3. Last(r) = e
    BY <2>1, <2>2, TopOfStack
  <2> QED
    BY <1>8, <2>1, <2>2, <2>3 DEF r
<1>9. Decide.modify => Decide.top \in Entry /\ Decide.top.mask = top.mask
  BY <1>2, EntriesTyped, PathsOfTop DEF Plan
<1> HIDE DEF base
<1>10. CASE taken = {} \/ taken = top.mask
  <2> DEFINE s == Successor(b, top.pc, taken # {})
  <2>1. update = Uniform(s)
    BY <1>7, <1>10 DEF StackUpdateFor
  <2>2. s = b.target \/ s = top.pc + 1
    BY DEF Successor
  <2> HIDE DEF s
  <2>3. ~update.diverges /\ update.next = s
    BY <2>1 DEF Uniform, NoUpdate
  <2>4. s # top.reconv
    <3>1. s <= b.reconv
      BY <1>4, <1>5, <2>2
    <3> QED
      BY <1>4, <1>5, <1>6, <2>2, <3>1 DEF PC, EndPC
  <2>5. Decide.modify /\ ~Decide.pop /\ Decide.push = <<>>
    BY <1>2, <2>3, <2>4, DecideForms
  <2>6. Target' = base
    BY <1>1, <2>5 DEF Target, Pushed, base
  <2> QED
    BY <1>8, <1>9, <2>5, <2>6
<1>11. CASE ~(taken = {} \/ taken = top.mask)
  <2>1. /\ update.diverges /\ update.next = b.target /\ update.not_taken_pc = top.pc + 1
        /\ update.reconv = b.reconv
    BY <1>7, <1>11 DEF StackUpdateFor
  <2>2. Decide.modify /\ ~Decide.pop /\ Decide.push = PushesDivergent
    BY <1>2, <2>1, DecideForms
  <2>3. base \in Seq(Entry)
    BY <1>8, <1>9, <2>2
  <2> DEFINE q == PathEntry(update.not_taken_pc, NotTaken)
  <2>4. q.pc = top.pc + 1
    BY <2>1 DEF PathEntry
  <2> HIDE DEF b
  <2>5. \E r : Target' = Append(r, q) /\ r \in Seq(Entry) /\ q \in Entry
    <3>1. \A i \in 1 .. Len(Decide.push) : Decide.push[i] \in Entry
      BY <1>2, EntriesTyped DEF Plan
    <3>2. CASE update.next = update.reconv
      <4>1. Decide.push = <<q>>
        BY <2>2, <3>2 DEF PushesDivergent
      <4> HIDE DEF q
      <4>2. Len(Decide.push) = 1 /\ Decide.push[1] = q /\ Decide.push # <<>>
        BY <4>1
      <4>3. Target' = Append(base, q)
        BY <1>1, <2>2, <4>2 DEF Target, Pushed, base
      <4> QED
        BY <2>3, <3>1, <4>2, <4>3
    <3>3. CASE update.next # update.reconv
      <4> DEFINE p == PathEntry(update.next, Taken)
      <4>1. Decide.push = <<p, q>>
        BY <2>1, <2>2, <3>3 DEF PushesDivergent, b
      <4> HIDE DEF p, q
      <4>2. Len(Decide.push) = 2 /\ Decide.push[1] = p /\ Decide.push[2] = q /\ Decide.push # <<>>
        BY <4>1
      <4>3. Target' = Append(Append(base, p), q)
        BY <1>1, <2>2, <4>2 DEF Target, Pushed, base
      <4>4. p \in Entry /\ q \in Entry
        BY <3>1, <4>2
      <4>5. Append(base, p) \in Seq(Entry)
        BY <2>3, <4>4, AppendProperties
      <4> QED
        BY <4>3, <4>4, <4>5
    <3> QED
      BY <3>2, <3>3
  <2> HIDE DEF q
  <2>6. PICK r : Target' = Append(r, q) /\ r \in Seq(Entry) /\ q \in Entry
    BY <2>5
  <2>7. Append(r, q) \in Seq(Entry) /\ Append(r, q) # <<>> /\ Last(Append(r, q)) = q
    <3>1. /\ Append(r, q) \in Seq(Entry) /\ Len(Append(r, q)) = Len(r) + 1 /\ Len(r) \in Nat
          /\ Append(r, q)[Len(r) + 1] = q
      BY <2>6, AppendProperties
    <3>2. Append(r, q) # <<>>
      BY <3>1, EmptySeq
    <3> QED
      BY <3>1, <3>2, TopOfStack
  <2> QED
    BY <2>4, <2>6, <2>7 DEF b
<1> QED
  BY <1>10, <1>11

\* A return leaves nothing.
LEMMA ReturnEnds ==
  ASSUME Inv, RegionInv, Working, state = "ReadTop", code[top.pc].kind = "return"
  PROVE  Target' = <<>>
<1>1. /\ stack' = stack /\ stack # <<>> /\ top = Last(stack)
      /\ \/ state' = "ModifyTop" /\ Decide.modify
         \/ state' = "PopStack" /\ Decide.pop
  BY Decides
<1>2. /\ stack \in Seq(Entry) /\ top \in Entry /\ code \in [1 .. NumBlocks -> Block]
      /\ WellNested(code) /\ NumBlocks \in Nat \ {0} /\ TypeOK /\ UpdateFitsTop
  BY NumBlocksAssumption DEF Inv, TypeOK, SimtTypeOK, RegionInv
<1>3. /\ Len(stack) \in Nat \ {0} /\ top = stack[Len(stack)] /\ InRegion(top, Len(stack))
  BY <1>1, <1>2, TopOfStack DEF RegionInv, AllInRegion
<1>4. Len(stack) = 1
  <2> SUFFICES ASSUME Len(stack) # 1 PROVE FALSE
    OBVIOUS
  <2>1. PICK p \in 1 .. NumBlocks :
          /\ code[p].kind = "branch" /\ top.reconv = code[p].reconv
          /\ p < top.pc /\ top.pc < top.reconv
    BY <1>3 DEF InRegion
  <2>2. top.pc \in 1 .. NumBlocks /\ code[p].reconv \in 1 .. NumBlocks
    BY <1>2, <2>1, InsideRegion, Leading DEF Entry
  <2>3. top.pc = NumBlocks
    BY <1>2, <2>2, Leading
  <2> QED
    BY <1>2, <2>1, <2>2, <2>3
<1>5. top.reconv = EndPC
  BY <1>3, <1>4 DEF InRegion
<1>6. PICK taken \in SUBSET top.mask : update = StackUpdateFor(code[top.pc], top.pc, top.mask, taken)
  BY DEF RegionInv
<1>7. update = Uniform(EndPC)
  BY <1>6 DEF StackUpdateFor, Successor
<1>8. ~update.diverges /\ update.next = EndPC
  BY <1>7 DEF Uniform, NoUpdate
<1>9. Decide.pop /\ ~Decide.modify
  BY <1>5, <1>8 DEF Decide, NextPC, NoPlan
<1>10. Target' = Front(stack)
  BY <1>1, <1>9 DEF Target
<1>11. Front(stack) \in Seq(Entry) /\ Len(Front(stack)) = 0
  BY <1>1, <1>2, <1>4, BelowTop
<1> QED
  BY <1>10, <1>11, EmptySeq
=============================================================================
