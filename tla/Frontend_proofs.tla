-------------------------- MODULE Frontend_proofs --------------------------
(***************************************************************************)
(* For any kernel, any number of threads, of e-block ids and of beats:     *)
(* fetch and branch handler stay in step, an e-block has its bitstream, and*)
(* the ids the scheduler holds live are those of the e-blocks in the       *)
(* machine.  For kernels that nest and can be predicted: speculation is    *)
(* invisible, and a CTA retires with nothing left.                         *)
(***************************************************************************)
EXTENDS Frontend, SequenceTheorems, TLAPS

\* What the arguments need of the types.
Registers ==
  /\ rd \in 0 .. 1 /\ wr \in 0 .. 1
  /\ DOMAIN table = 0 .. 1
  /\ \A i \in 0 .. 1 : "status" \in DOMAIN table[i] /\ table[i].status \in EntryStatus
  /\ meta_valid \in BOOLEAN /\ flushed \in BOOLEAN /\ meta_seen \in BOOLEAN
  /\ meta_state \in {"Ready", "ReqVal", "WaitResp", "HoldData"}

\* Metadata is valid while it is held; an entry is occupied only then, from the clock
\* after the edge detector saw it, and it is the one the read pointer stands at.
HeldInTable ==
  /\ meta_valid <=> meta_state = "HoldData"
  /\ flushed => meta_state = "Ready"
  /\ table[1 - rd].status = "Empty"
  /\ Current.status # "Empty" => meta_state = "HoldData" /\ meta_seen
  /\ rd = wr <=> Current.status = "Empty"

\* An e-block is in the table or on its way there.
InsertedOnce == inserting \cap brt = {}

Inv == Registers /\ HeldInTable /\ IdsInUse /\ InsertedOnce

\* A flush and a dispatch come from an occupied entry, a schedule meets an empty one.
LEMMA Moments ==
  ASSUME HeldInTable
  PROVE  /\ PredictMiss => meta_state = "HoldData" /\ ~Fire
         /\ Fire => meta_state = "HoldData"
         /\ ScheduleFire => meta_state = "Ready"
         /\ Arrives # {} => /\ meta_state = "HoldData" /\ Current.status = "Empty"
                            /\ ~Fire /\ ~PredictMiss
BY DEF HeldInTable, PredictMiss, Fire, FdrValid, BhDone, ScheduleFire, ScheduleReady,
       Arrives, MetaValid

\* The next status of an entry: empty if it is or if it leaves.
LEMMA Emptied ==
  ASSUME Registers
  PROVE  /\ NextEntryStatus(Fire) \in EntryStatus
         /\ NextEntryStatus(Fire) = "Empty" <=> Current.status = "Empty" \/ Leaves(Fire)
<1>1. Resolve(Current) \in {"StatusWrite", "CurrSubmit"}
  BY DEF Resolve
<1>2. Fire => BhDone
  BY DEF Fire, FdrValid
<1>3. Current.status \in EntryStatus
  BY DEF Registers, Current
<1> HIDE DEF Current
<1> QED
  BY <1>1, <1>2, <1>3 DEF NextEntryStatus, EntryStatus, Leaves, PredictMiss, BhDone

\* The status of the entries after a clock.
LEMMA TableNext ==
  ASSUME Registers, HeldInTable,
         BranchCycle(Arrives, Fire, ScheduleFire, MetaValid)
  PROVE  /\ DOMAIN table' = 0 .. 1
         /\ \A i \in 0 .. 1 : "status" \in DOMAIN table'[i]
         /\ table'[1 - rd].status = "Empty"
         /\ table'[rd].status = IF Arrives # {} THEN "Stored" ELSE NextEntryStatus(Fire)
<1> DEFINE stepped == [table EXCEPT ![rd].status = NextEntryStatus(Fire)]
           stored == [status |-> "Stored", meta |-> Edited(1, Arrives),
                      pc |-> sched.pc, prefetch |-> sched.prefetch]
<1>1. table' = IF Arrives = {} THEN stepped ELSE [stepped EXCEPT ![wr] = stored]
  BY DEF BranchCycle
<1>2. /\ DOMAIN stepped = 0 .. 1
      /\ \A i \in 0 .. 1 : "status" \in DOMAIN stepped[i]
      /\ stepped[1 - rd].status = "Empty"
      /\ stepped[rd].status = NextEntryStatus(Fire)
  BY DEF Registers, HeldInTable
<1>3. Arrives # {} => rd = wr
  BY Moments DEF HeldInTable
<1>4. stored.status = "Stored" /\ "status" \in DOMAIN stored
  OBVIOUS
<1> HIDE DEF stepped, stored
<1>5. CASE Arrives = {}
  BY <1>1, <1>2, <1>5
<1>6. CASE Arrives # {}
  <2>1. table' = [stepped EXCEPT ![rd] = stored]
    BY <1>1, <1>3, <1>6
  <2> QED
    BY <1>2, <1>4, <1>6, <2>1 DEF Registers
<1> QED
  BY <1>5, <1>6

\* The metadata registers after a clock.
LEMMA MetaNext ==
  ASSUME Registers, HeldInTable, NEW ar_ready \in BOOLEAN, NEW r_valid \in BOOLEAN,
         MetaFetch(ScheduleFire, Fire, ar_ready, r_valid)
  PROVE  /\ meta_state' \in {"Ready", "ReqVal", "WaitResp", "HoldData"}
         /\ meta_valid' \in BOOLEAN /\ flushed' \in BOOLEAN
         /\ meta_valid' <=> meta_state' = "HoldData"
         /\ flushed' => meta_state' = "Ready"
         /\ meta_state = "HoldData" => (meta_state' = "HoldData" <=> ~Fire /\ ~PredictMiss)
         /\ meta_state = "HoldData" /\ meta_state' # "HoldData" => meta_state' = "Ready"
         /\ meta_state = "Ready" => meta_state' = IF ScheduleFire THEN "ReqVal" ELSE "Ready"
         /\ meta_state \in {"ReqVal", "WaitResp"} => meta_state' # "Ready"
<1> DEFINE last == Beat("mfetch", r_valid) /\ LastBeat
           arrived == last /\ ~PredictMiss
<1>1. meta_state' = MetaState(ScheduleFire, Fire, ar_ready, r_valid)
  BY DEF MetaFetch
<1>2. flushed' = (~ScheduleFire /\ (flushed \/ PredictMiss))
  BY DEF MetaFetch, Flushed
<1>3. meta_valid' = (~Fire /\ (arrived \/ (meta_valid /\ ~PredictMiss)))
  BY DEF MetaFetch
<1>4. last => meta_state = "WaitResp"
  BY DEF Beat, HeadReady
<1>5. /\ PredictMiss => meta_state = "HoldData" /\ ~Fire
      /\ Fire => meta_state = "HoldData"
      /\ ScheduleFire => meta_state = "Ready"
  BY Moments
<1>6. meta_state \in {"Ready", "ReqVal", "WaitResp", "HoldData"}
  BY DEF Registers
<1>7. /\ meta_valid <=> meta_state = "HoldData"
      /\ flushed => meta_state = "Ready"
  BY DEF HeldInTable
<1>8. meta_state' = CASE meta_state = "Ready" -> IF ScheduleFire THEN "ReqVal" ELSE "Ready"
                      [] PredictMiss -> "Ready"
                      [] meta_state = "ReqVal" -> IF ar_ready THEN "WaitResp" ELSE "ReqVal"
                      [] meta_state = "WaitResp" -> IF last THEN "HoldData" ELSE "WaitResp"
                      [] OTHER -> IF Fire THEN "Ready" ELSE "HoldData"
  BY <1>1 DEF MetaState
<1>9. meta_valid' \in BOOLEAN /\ flushed' \in BOOLEAN
  BY <1>2, <1>3
<1> HIDE DEF last
<1>10. CASE meta_state = "Ready"
  BY <1>2, <1>3, <1>4, <1>5, <1>7, <1>8, <1>9, <1>10
<1>11. CASE meta_state = "ReqVal"
  BY <1>2, <1>3, <1>4, <1>5, <1>7, <1>8, <1>9, <1>11
<1>12. CASE meta_state = "WaitResp"
  BY <1>2, <1>3, <1>4, <1>5, <1>7, <1>8, <1>9, <1>12
<1>13. CASE meta_state = "HoldData"
  BY <1>2, <1>3, <1>4, <1>5, <1>7, <1>8, <1>9, <1>13
<1> QED
  BY <1>6, <1>10, <1>11, <1>12, <1>13

\* A clock keeps the table and the metadata in step.
LEMMA HeldNext ==
  ASSUME Registers, HeldInTable, NEW ar_ready \in BOOLEAN, NEW r_valid \in BOOLEAN,
         MetaFetch(ScheduleFire, Fire, ar_ready, r_valid),
         BranchCycle(Arrives, Fire, ScheduleFire, MetaValid)
  PROVE  Registers' /\ HeldInTable'
<1>1. /\ rd' = IF Leaves(Fire) THEN 1 - rd ELSE rd
      /\ wr' = IF Arrives = {} THEN wr ELSE 1 - wr
      /\ meta_seen' = MetaValid
  BY DEF BranchCycle
<1>2. rd \in 0 .. 1 /\ wr \in 0 .. 1
  BY DEF Registers
<1>3. rd' \in 0 .. 1 /\ wr' \in 0 .. 1
  BY <1>1, <1>2
<1>4. MetaValid <=> meta_state = "HoldData"
  BY DEF MetaValid, HeldInTable
<1>5. /\ table'[1 - rd].status = "Empty"
      /\ table'[rd].status = IF Arrives # {} THEN "Stored" ELSE NextEntryStatus(Fire)
  BY TableNext
<1>6. NextEntryStatus(Fire) = "Empty" <=> Current.status = "Empty" \/ Leaves(Fire)
  BY Emptied
<1>7. Leaves(Fire) <=> PredictMiss \/ Fire
  BY DEF Leaves, Fire, FdrValid
<1>8. Registers'
  <2>1. DOMAIN table' = 0 .. 1 /\ \A i \in 0 .. 1 : "status" \in DOMAIN table'[i]
    BY TableNext
  <2>2. table'[1 - rd].status \in EntryStatus /\ table'[rd].status \in EntryStatus
    BY <1>5, Emptied DEF EntryStatus
  <2>3. \A i \in 0 .. 1 : table'[i].status \in EntryStatus
    BY <1>2, <2>2
  <2>4. meta_seen' \in BOOLEAN
    BY <1>1, <1>4
  <2> QED
    BY <1>3, <2>1, <2>3, <2>4, MetaNext DEF Registers
<1>9. (meta_valid' <=> meta_state' = "HoldData") /\ (flushed' => meta_state' = "Ready")
  BY MetaNext
<1>10. CASE Leaves(Fire)
  <2>1. Arrives = {} /\ Current.status # "Empty"
    BY <1>7, <1>10, Moments DEF PredictMiss, Fire, FdrValid, BhDone
  <2>2. rd' = 1 - rd /\ wr' = wr /\ rd # wr
    BY <1>1, <1>10, <2>1 DEF HeldInTable
  <2>3. Current'.status = "Empty" /\ table'[1 - rd'].status = "Empty"
    BY <1>2, <1>5, <1>6, <1>10, <2>1, <2>2 DEF Current
  <2> QED
    BY <1>2, <1>8, <1>9, <2>2, <2>3 DEF HeldInTable
<1>11. CASE ~Leaves(Fire)
  <2>1. rd' = rd /\ table'[1 - rd'].status = "Empty" /\ Current' = table'[rd]
    BY <1>1, <1>5, <1>11 DEF Current
  <2>2. meta_state = "HoldData" => meta_state' = "HoldData"
    BY <1>7, <1>11, MetaNext
  <2>3. CASE Arrives # {}
    <3>1. meta_state = "HoldData" /\ rd = wr
      BY <2>3, Moments DEF HeldInTable
    <3>2. wr' = 1 - wr /\ Current'.status = "Stored"
      BY <1>1, <1>5, <2>1, <2>3
    <3> QED
      BY <1>1, <1>2, <1>4, <1>8, <1>9, <2>1, <2>2, <3>1, <3>2 DEF HeldInTable
  <2>4. CASE Arrives = {}
    <3>1. wr' = wr /\ (Current'.status = "Empty" <=> Current.status = "Empty")
      BY <1>1, <1>5, <1>6, <1>11, <2>1, <2>4
    <3> QED
      BY <1>1, <1>4, <1>8, <1>9, <2>1, <2>2, <3>1 DEF HeldInTable
  <2> QED
    BY <2>3, <2>4
<1> QED
  BY <1>8, <1>10, <1>11

\* A clock keeps each id in one place: a schedule takes a free one to the fetch, a
\* dispatch takes it to the back end, and a flush or a commit frees it.
LEMMA IdsNext ==
  ASSUME Registers, HeldInTable, IdsInUse, InsertedOnce, NEW commit, commit \subseteq brt,
         LiveUpdate(ScheduleFire, commit, IF PredictMiss THEN {sched.id} ELSE {}),
         sched' = IF ScheduleFire THEN Scheduled ELSE sched,
         inserting' = IF Fire THEN {Fired.id} ELSE {},
         brt' = (brt \ commit) \cup inserting,
         NEW ar_ready \in BOOLEAN, NEW r_valid \in BOOLEAN,
         MetaFetch(ScheduleFire, Fire, ar_ready, r_valid)
  PROVE  IdsInUse' /\ InsertedOnce'
<1> DEFINE flush == IF PredictMiss THEN {sched.id} ELSE {}
<1>1. live' = (live \ (commit \cup flush)) \cup (IF ScheduleFire THEN {ptr} ELSE {})
  BY DEF LiveUpdate
<1>2. /\ live = InFetch \cup inserting \cup brt
      /\ InFetch \cap (inserting \cup brt) = {} /\ inserting \cap brt = {}
  BY DEF IdsInUse, InBackend, InsertedOnce
<1>3. Fired.id = sched.id /\ Scheduled.id = ptr
  BY DEF Fired, Scheduled
<1>4. InFetch = IF meta_state = "Ready" THEN {} ELSE {sched.id}
  BY DEF InFetch
<1>5. InFetch' = IF meta_state' = "Ready" THEN {} ELSE {sched'.id}
  BY DEF InFetch
<1>6. /\ live' = InFetch' \cup inserting' \cup brt'
      /\ InFetch' \cap (inserting' \cup brt') = {} /\ inserting' \cap brt' = {}
  <2>1. CASE ScheduleFire
    <3>1. meta_state = "Ready" /\ ~PredictMiss /\ ~Fire
      BY <2>1, Moments
    <3>2. ptr \notin live
      BY <2>1 DEF ScheduleFire, ScheduleValid
    <3>3. InFetch = {} /\ InFetch' = {ptr}
      BY <1>3, <1>4, <1>5, <2>1, <3>1, MetaNext
    <3> QED
      BY <1>1, <1>2, <2>1, <3>1, <3>2, <3>3
  <2>2. CASE PredictMiss
    <3>1. meta_state = "HoldData" /\ ~Fire /\ ~ScheduleFire /\ meta_state' = "Ready"
      BY <2>2, Moments, MetaNext
    <3>2. InFetch = {sched.id} /\ InFetch' = {}
      BY <1>4, <1>5, <3>1
    <3> QED
      BY <1>1, <1>2, <2>2, <3>1, <3>2
  <2>3. CASE Fire
    <3>1. meta_state = "HoldData" /\ ~PredictMiss /\ ~ScheduleFire /\ meta_state' = "Ready"
      BY <2>3, Moments, MetaNext
    <3>2. InFetch = {sched.id} /\ InFetch' = {}
      BY <1>4, <1>5, <3>1
    <3> QED
      BY <1>1, <1>2, <1>3, <2>3, <3>1, <3>2
  <2>4. CASE ~ScheduleFire /\ ~PredictMiss /\ ~Fire
    <3>1. meta_state' = "Ready" <=> meta_state = "Ready"
      BY <2>4, MetaNext DEF Registers
    <3>2. InFetch' = InFetch
      BY <1>4, <1>5, <2>4, <3>1
    <3> QED
      BY <1>1, <1>2, <2>4, <3>2
  <2> QED
    BY <2>1, <2>2, <2>3, <2>4
<1> QED
  BY <1>6 DEF IdsInUse, InBackend, InsertedOnce

LEMMA InvInit == Init => Inv
<1> SUFFICES ASSUME Init PROVE Inv
  OBVIOUS
<1> DEFINE empty == [status |-> "Empty", meta |-> 1, pc |-> 1, prefetch |-> FALSE]
<1>1. rd = 0 /\ wr = 0 /\ table = [i \in 0 .. 1 |-> empty]
  BY DEF Init, BranchInit
<1>2. Registers
  <2>1. "status" \in DOMAIN empty /\ empty.status = "Empty"
    OBVIOUS
  <2>2. ~meta_valid /\ ~flushed /\ ~meta_seen /\ meta_state = "Ready"
    BY DEF Init, BranchInit, FetchInit
  <2>3. meta_valid \in BOOLEAN /\ flushed \in BOOLEAN /\ meta_seen \in BOOLEAN
    BY DEF Init, BranchInit, FetchInit
  <2> HIDE DEF empty
  <2> QED
    BY <1>1, <2>1, <2>2, <2>3 DEF Registers, EntryStatus
<1>3. HeldInTable
  BY <1>1 DEF Init, BranchInit, FetchInit, HeldInTable, Current
<1>4. IdsInUse /\ InsertedOnce
  BY DEF Init, ScheduleInit, FetchInit, IdsInUse, InFetch, InBackend, InsertedOnce
<1> QED
  BY <1>2, <1>3, <1>4 DEF Inv

LEMMA InvNext == Inv /\ [Next]_vars => Inv'
<1> SUFFICES ASSUME Inv, [Next]_vars PROVE Inv'
  OBVIOUS
<1> USE DEF Inv
<1>1. CASE UNCHANGED vars
  BY <1>1 DEF vars, branch_vars, schedule_vars, fetch_vars, backend_vars,
     Registers, HeldInTable, Current, IdsInUse, InFetch, InBackend, InsertedOnce
<1>2. CASE Next
  <2>1. PICK start \in BOOLEAN, ar_ready \in BOOLEAN, r_valid \in BOOLEAN, done \in BOOLEAN,
             commit \in Commits, threads \in IF add_fire THEN 1 .. NumThreads ELSE {1},
             taken \in SUBSET MayTake :
          Cycle(start, threads, ar_ready, r_valid, done, commit, taken)
    BY <1>2 DEF Next
  <2>2. commit \subseteq brt
    BY DEF Commits, Committable
  <2>3. MetaFetch(ScheduleFire, Fire, ar_ready, r_valid)
    BY <2>1 DEF Cycle, FetchCycle
  <2>4. BranchCycle(Arrives, Fire, ScheduleFire, MetaValid)
    BY <2>1 DEF Cycle
  <2>5. Registers' /\ HeldInTable'
    BY <2>3, <2>4, HeldNext
  <2>6. LiveUpdate(ScheduleFire, commit, IF PredictMiss THEN {sched.id} ELSE {})
    BY <2>1 DEF Cycle, CtaCycle
  <2>7. sched' = IF ScheduleFire THEN Scheduled ELSE sched
    BY <2>4 DEF BranchCycle
  <2>8. /\ inserting' = IF Fire THEN {Fired.id} ELSE {}
        /\ brt' = (brt \ commit) \cup inserting
    BY <2>1 DEF Cycle, BackendCycle
  <2>9. IdsInUse' /\ InsertedOnce'
    BY <2>2, <2>3, <2>6, <2>7, <2>8, IdsNext
  <2> QED
    BY <2>5, <2>9
<1> QED
  BY <1>1, <1>2

\* No e-block id is lost, freed twice or given out while its e-block is in the machine.
THEOREM IdsAreThoseInUse == Spec => []IdsInUse
<1>1. Spec => []Inv
  BY InvInit, InvNext, PTL DEF Spec
<1>2. Inv => IdsInUse
  BY DEF Inv
<1> QED
  BY <1>1, <1>2, PTL

\* New metadata is stored in the empty entry that is looked at next, and a flush comes
\* when the metadata is held: fetch and branch handler never get out of step.
THEOREM FetchAndTableInStep == Spec => []TableInStep
<1>1. Spec => []Inv
  BY InvInit, InvNext, PTL DEF Spec
<1>2. Inv => TableInStep
  BY Moments DEF Inv, HeldInTable, TableInStep, Current
<1> QED
  BY <1>1, <1>2, PTL
-----------------------------------------------------------------------------
(* Bitstreams: what a configuration memory holds, and what is on the link.   *)

\* What the fetch needs of the types.
FetchRegisters ==
  /\ bs_state \in {"Idle", "Streaming", "Done"} /\ ar_sent \in BOOLEAN
  /\ DOMAIN cm = 0 .. 1
  /\ \A b \in 0 .. 1 : cm[b].valid \in BOOLEAN /\ DOMAIN cm[b] = {"addr", "valid"}
  /\ cm_select \in 0 .. 1 /\ ex.buffer \in 0 .. 1
  /\ DOMAIN bank = 0 .. 1 /\ \A b \in 0 .. 1 : DOMAIN bank[b] = 1 .. BitstreamBeats
  /\ chunk \in Nat /\ phase \in {"idle", "pending", "programming", "running"}

\* A load is for the metadata that is held, into a memory that is not valid; it starts in
\* the clock the metadata arrives, so that no flush meets its start.
LoadInv ==
  /\ meta_state = "HoldData" => meta = sched.pc
  /\ meta_state = "HoldData" /\ bs_state = "Idle" /\ meta_seen => DoneStreaming
  /\ ar_sent => bs_state = "Streaming"
  /\ bs_state # "Idle" =>
       /\ meta_state = "HoldData"
       /\ cm[cm_select].addr = meta /\ ~cm[cm_select].valid /\ ~Hit(1 - cm_select)
  /\ bs_state = "Streaming" =>
       /\ \A c \in 1 .. chunk - 1 : bank[cm_select][c] = meta
       /\ ~ar_sent => chunk = 1
  /\ bs_state = "Done" => Whole(cm_select, meta)

\* A valid memory holds the bitstream of its address.
MemoryInv == \A b \in 0 .. 1 : cm[b].valid => Whole(b, cm[b].addr)

\* What is being shifted out is whole, and no load goes there.
ShiftInv ==
  ProgActive => Whole(ex.buffer, ex.pc) /\ (bs_state # "Idle" => cm_select # ex.buffer)

\* The burst of the metadata that is fetched, of which n beats are left, and that of a load.
MetaBurst(n) == [unit |-> "mfetch", addr |-> sched.pc, left |-> n]
LoadBurst == [unit |-> "bsfetch", addr |-> meta, left |-> BitstreamBeats + 1 - chunk]

\* While metadata is held, the link has what is left of its load and nothing else; else it
\* has the burst of the metadata, behind what a flush may have left of a load.
LinkInv ==
  /\ meta_state = "HoldData" /\ ar_sent => chunk \in 1 .. BitstreamBeats /\ link = <<LoadBurst>>
  /\ meta_state = "HoldData" /\ ~ar_sent => link = << >>
  /\ meta_state = "WaitResp" =>
       \E n : \/ link = <<MetaBurst(n)>>
              \/ \E o : o.unit = "bsfetch" /\ link = <<o, MetaBurst(n)>>
  /\ meta_state \in {"Ready", "ReqVal"} =>
       link = << >> \/ \E o : o.unit = "bsfetch" /\ link = <<o>>

ConfigInv == FetchRegisters /\ LoadInv /\ MemoryInv /\ ShiftInv /\ LinkInv

\* Sequences of one and of two items.
LEMMA Single ==
  ASSUME NEW a
  PROVE  /\ << a >> # << >> /\ Head(<< a >>) = a /\ Tail(<< a >>) = << >>
         /\ Append(<< >>, a) = << a >> /\ << a >> \o << >> = << a >>
<1>1. << a >> # << >> /\ Head(<< a >>) = a /\ Tail(<< a >>) = << >>
  OBVIOUS
<1>2. Append(<< >>, a) = << a >> /\ << a >> \o << >> = << a >>
  OBVIOUS
<1> QED
  BY <1>1, <1>2

LEMMA Pair ==
  ASSUME NEW a, NEW b
  PROVE  /\ Append(<< a >>, b) = << a, b >> /\ << a, b >> # << >>
         /\ Head(<< a, b >>) = a /\ Tail(<< a, b >>) = << b >>
<1> DEFINE u == Append(<<a>>, b)
           v == <<a, b>>
<1>1. u \in Seq({a, b}) /\ Len(u) = 2
  OBVIOUS
<1>2. u[1] = a
  OBVIOUS
<1>3. u[2] = b
  OBVIOUS
<1>4. v \in Seq({a, b}) /\ Len(v) = 2 /\ v[1] = a /\ v[2] = b
  OBVIOUS
<1>5. Head(v) = a
  OBVIOUS
<1>6. Tail(v) = <<b>> /\ v # << >>
  OBVIOUS
<1> HIDE DEF u, v
<1>7. \A i \in 1 .. Len(u) : u[i] = v[i]
  <2>1. \A i \in 1 .. 2 : i = 1 \/ i = 2
    OBVIOUS
  <2> QED
    BY <2>1, <1>1, <1>2, <1>3, <1>4
<1>8. u = v
  BY <1>1, <1>4, <1>7, SeqEqual
<1> QED
  BY <1>5, <1>6, <1>8 DEF u, v

\* While a bitstream is loaded, nothing is fired or started; a load starts when nothing
\* else happens to the metadata.
LEMMA LoadMoments ==
  ASSUME Registers, HeldInTable, FetchRegisters, LoadInv
  PROVE  /\ bs_state # "Idle" => MetaValid /\ ~DoneStreaming /\ ~Fire /\ ~StartLoad /\ CmNum = cm_select
         /\ StartLoad => meta_state = "HoldData" /\ ~Fire /\ ~PredictMiss
         /\ Fire => bs_state = "Idle" /\ ~StartLoad /\ ~PredictMiss /\ CmNum \in 0 .. 1 /\ Hit(CmNum)
<1>1. /\ PredictMiss => meta_state = "HoldData" /\ ~Fire
      /\ Fire => meta_state = "HoldData"
      /\ Arrives # {} => ~Fire /\ ~PredictMiss
  BY Moments
<1>2. CASE bs_state # "Idle"
  <2>1. meta_state = "HoldData" /\ ~Hit(cm_select) /\ ~Hit(1 - cm_select)
    BY <1>2 DEF LoadInv, Hit
  <2>2. ~Hit(0) /\ ~Hit(1) /\ ~DoneStreaming
    BY <2>1 DEF FetchRegisters, DoneStreaming
  <2>3. CmNum = cm_select /\ ~StartLoad /\ ~Fire
    BY <1>2, <2>2 DEF CmNum, StartLoad, Fire, FdrValid
  <2>4. MetaValid
    BY <2>1 DEF HeldInTable, MetaValid
  <2> QED
    BY <1>2, <2>2, <2>3, <2>4
<1>3. CASE bs_state = "Idle"
  <2>1. StartLoad => MetaValid /\ ~DoneStreaming
    BY DEF StartLoad
  <2>2. StartLoad => meta_state = "HoldData" /\ ~meta_seen
    BY <1>3, <2>1 DEF HeldInTable, MetaValid, LoadInv
  <2>3. StartLoad => Arrives # {}
    BY <2>1, <2>2 DEF Arrives
  <2>4. Fire => DoneStreaming
    BY DEF Fire, FdrValid
  <2>5. Fire => CmNum \in 0 .. 1 /\ Hit(CmNum)
    BY <2>4 DEF DoneStreaming, CmNum
  <2> QED
    BY <1>1, <1>3, <2>1, <2>2, <2>3, <2>4, <2>5
<1> QED
  BY <1>2, <1>3

\* What is at the head of the link when a beat is delivered.
LEMMA BeatIs ==
  ASSUME FetchRegisters, LoadInv, LinkInv, NEW r_valid \in BOOLEAN
  PROVE  /\ Beat("bsfetch", r_valid) =>
              /\ bs_state = "Streaming" /\ ar_sent /\ chunk \in 1 .. BitstreamBeats
              /\ link = <<LoadBurst>> /\ Head(link).addr = meta /\ meta_state = "HoldData"
              /\ LastBeat <=> chunk = BitstreamBeats
         /\ Beat("mfetch", r_valid) =>
              meta_state = "WaitResp" /\ \E n : link = <<MetaBurst(n)>> /\ Head(link).addr = sched.pc
<1>1. ASSUME Beat("bsfetch", r_valid)
      PROVE  /\ bs_state = "Streaming" /\ ar_sent /\ chunk \in 1 .. BitstreamBeats
             /\ link = <<LoadBurst>> /\ Head(link).addr = meta /\ meta_state = "HoldData"
             /\ LastBeat <=> chunk = BitstreamBeats
  <2>1. bs_state = "Streaming" /\ ar_sent
    BY <1>1 DEF Beat, HeadReady
  <2>2. meta_state = "HoldData"
    BY <2>1 DEF LoadInv
  <2>3. chunk \in 1 .. BitstreamBeats /\ link = <<LoadBurst>>
    BY <2>1, <2>2 DEF LinkInv
  <2>4. Head(link) = LoadBurst
    BY <2>3, Single
  <2> QED
    BY <2>1, <2>2, <2>3, <2>4, BitstreamBeatsAssumption DEF LoadBurst, LastBeat
<1>2. ASSUME Beat("mfetch", r_valid)
      PROVE  meta_state = "WaitResp" /\ \E n : link = <<MetaBurst(n)>> /\ Head(link).addr = sched.pc
  <2>1. meta_state = "WaitResp" /\ Head(link).unit = "mfetch"
    BY <1>2 DEF Beat, HeadReady
  <2>2. PICK n : \/ link = <<MetaBurst(n)>>
                 \/ \E o : o.unit = "bsfetch" /\ link = <<o, MetaBurst(n)>>
    BY <2>1 DEF LinkInv
  <2>3. link = <<MetaBurst(n)>>
    BY <2>1, <2>2, Pair
  <2>4. Head(link) = MetaBurst(n)
    BY <2>3, Single
  <2>5. Head(link).addr = sched.pc
    BY <2>4 DEF MetaBurst
  <2> QED
    BY <2>1, <2>3, <2>5
<1> QED
  BY <1>1, <1>2

\* The fetch's own registers after a clock.
FetchClock(r_valid, ar_ready) ==
  /\ MetaFetch(ScheduleFire, Fire, ar_ready, r_valid)
  /\ BitstreamFetch(ProgActive, ex.buffer, ar_ready, r_valid)
  /\ LinkUpdate(ar_ready, r_valid)
  /\ meta_seen' = MetaValid
  /\ sched' = IF ScheduleFire THEN Scheduled ELSE sched

\* Metadata that is held stays what it is until it is fired or flushed; it comes off the link.
LEMMA MetaKept ==
  ASSUME Registers, HeldInTable, FetchRegisters, LoadInv, LinkInv,
         NEW ar_ready \in BOOLEAN, NEW r_valid \in BOOLEAN, FetchClock(r_valid, ar_ready)
  PROVE  /\ meta_state = "HoldData" => meta' = meta /\ sched' = sched
         /\ meta_state # "HoldData" /\ meta_state' = "HoldData" =>
              /\ meta_state = "WaitResp" /\ sched' = sched /\ meta' = sched.pc /\ meta_seen' = FALSE
              /\ Beat("mfetch", r_valid) /\ LastBeat
         /\ meta_state = "WaitResp" =>
              sched' = sched /\ (meta_state' = "WaitResp" \/ (Beat("mfetch", r_valid) /\ LastBeat))
         /\ meta_state = "ReqVal" => sched' = sched
<1> DEFINE mbeat == Beat("mfetch", r_valid)
<1>1. /\ PredictMiss => meta_state = "HoldData" /\ ~Fire
      /\ Fire => meta_state = "HoldData"
      /\ ScheduleFire => meta_state = "Ready"
  BY Moments
<1>2. mbeat => meta_state = "WaitResp" /\ Head(link).addr = sched.pc
  BY BeatIs
<1>3. /\ meta_state' = MetaState(ScheduleFire, Fire, ar_ready, r_valid)
      /\ meta' = IF mbeat /\ LastBeat /\ ~PredictMiss THEN Head(link).addr ELSE meta
      /\ sched' = IF ScheduleFire THEN Scheduled ELSE sched
      /\ meta_seen' = MetaValid
  BY DEF FetchClock, MetaFetch
<1>4. meta_state' = CASE meta_state = "Ready" -> IF ScheduleFire THEN "ReqVal" ELSE "Ready"
                      [] PredictMiss -> "Ready"
                      [] meta_state = "ReqVal" -> IF ar_ready THEN "WaitResp" ELSE "ReqVal"
                      [] meta_state = "WaitResp" -> IF mbeat /\ LastBeat THEN "HoldData" ELSE "WaitResp"
                      [] OTHER -> IF Fire THEN "Ready" ELSE "HoldData"
  BY <1>3 DEF MetaState
<1>5. MetaValid => meta_state = "HoldData"
  BY DEF MetaValid, HeldInTable
<1>6. meta_state \in {"Ready", "ReqVal", "WaitResp", "HoldData"} /\ MetaValid \in BOOLEAN
  BY DEF Registers, MetaValid
<1> HIDE DEF mbeat
<1>7. CASE meta_state = "HoldData"
  BY <1>1, <1>2, <1>3, <1>7
<1>8. CASE meta_state = "WaitResp"
  BY <1>1, <1>2, <1>3, <1>4, <1>5, <1>6, <1>8 DEF mbeat
<1>9. CASE meta_state \in {"Ready", "ReqVal"}
  BY <1>1, <1>2, <1>3, <1>4, <1>9
<1> QED
  BY <1>6, <1>7, <1>8, <1>9

\* A chunk is written in the memory that is loaded, and nowhere else.
LEMMA BankStep ==
  ASSUME Registers, HeldInTable, FetchRegisters, LoadInv, LinkInv,
         NEW ar_ready \in BOOLEAN, NEW r_valid \in BOOLEAN, FetchClock(r_valid, ar_ready)
  PROVE  /\ DOMAIN bank' = 0 .. 1 /\ \A b \in 0 .. 1 : DOMAIN bank'[b] = 1 .. BitstreamBeats
         /\ ~Write(r_valid) => bank' = bank
         /\ \A b \in 0 .. 1 : b # cm_select => bank'[b] = bank[b]
         /\ Write(r_valid) =>
              /\ bank'[cm_select][chunk] = meta
              /\ \A c \in 1 .. BitstreamBeats : c # chunk => bank'[cm_select][c] = bank[cm_select][c]
<1>1. bank' = IF Write(r_valid) THEN [bank EXCEPT ![CmNum][chunk] = Head(link).addr] ELSE bank
  BY DEF FetchClock, BitstreamFetch
<1>2. Write(r_valid) => chunk \in 1 .. BitstreamBeats /\ Head(link).addr = meta /\ bs_state = "Streaming"
  BY BeatIs DEF Write
<1>3. Write(r_valid) => CmNum = cm_select
  BY <1>2, LoadMoments
<1>4. /\ DOMAIN bank = 0 .. 1 /\ \A b \in 0 .. 1 : DOMAIN bank[b] = 1 .. BitstreamBeats
      /\ cm_select \in 0 .. 1
  BY DEF FetchRegisters
<1>5. CASE ~Write(r_valid)
  BY <1>1, <1>4, <1>5
<1>6. CASE Write(r_valid)
  <2>1. bank' = [bank EXCEPT ![cm_select] = [bank[cm_select] EXCEPT ![chunk] = meta]]
    BY <1>1, <1>2, <1>3, <1>6
  <2> QED
    BY <1>2, <1>4, <1>6, <2>1
<1> QED
  BY <1>5, <1>6

\* The configuration memories after a clock.
LEMMA MemoryStep ==
  ASSUME Registers, HeldInTable, FetchRegisters, LoadInv, LinkInv,
         NEW ar_ready \in BOOLEAN, NEW r_valid \in BOOLEAN, FetchClock(r_valid, ar_ready)
  PROVE  /\ DOMAIN cm' = 0 .. 1
         /\ \A b \in 0 .. 1 : cm'[b].valid \in BOOLEAN /\ DOMAIN cm'[b] = {"addr", "valid"}
         /\ cm_select' \in 0 .. 1
         /\ StartLoad => cm_select' = LoadInto(ProgActive, ex.buffer)
                         /\ cm'[cm_select'].addr = meta /\ ~cm'[cm_select'].valid
         /\ ~StartLoad => cm_select' = cm_select
         /\ \A b \in 0 .. 1 : ~(StartLoad /\ b = cm_select') /\ ~(bs_state = "Done" /\ b = cm_select)
                                 => cm'[b] = cm[b]
         /\ bs_state = "Done" => cm'[cm_select].addr = cm[cm_select].addr /\ cm'[cm_select].valid
<1> DEFINE x == LoadInto(ProgActive, ex.buffer)
<1>1. x \in 0 .. 1
  BY DEF FetchRegisters, LoadInto
<1>2. /\ cm' = CASE StartLoad -> [cm EXCEPT ![x] = [addr |-> meta, valid |-> FALSE]]
                 [] bs_state = "Done" -> [cm EXCEPT ![cm_select].valid = TRUE]
                 [] OTHER -> cm
      /\ cm_select' = IF StartLoad THEN x ELSE cm_select
  BY DEF FetchClock, BitstreamFetch, CmUpdate
<1>3. bs_state = "Done" => ~StartLoad
  BY DEF StartLoad
<1>4. /\ DOMAIN cm = 0 .. 1 /\ cm_select \in 0 .. 1
      /\ \A b \in 0 .. 1 : cm[b].valid \in BOOLEAN /\ DOMAIN cm[b] = {"addr", "valid"}
  BY DEF FetchRegisters
<1> HIDE DEF x
<1>5. CASE StartLoad
  <2> DEFINE r == [addr |-> meta, valid |-> FALSE]
  <2>1. r.addr = meta /\ r.valid = FALSE /\ DOMAIN r = {"addr", "valid"}
    OBVIOUS
  <2>2. cm' = [cm EXCEPT ![x] = r] /\ cm_select' = x
    BY <1>2, <1>3, <1>5
  <2> HIDE DEF r
  <2> QED
    BY <1>1, <1>3, <1>4, <1>5, <2>1, <2>2 DEF x
<1>6. CASE ~StartLoad /\ bs_state = "Done"
  <2> DEFINE r == [cm[cm_select] EXCEPT !.valid = TRUE]
  <2>1. r.addr = cm[cm_select].addr /\ r.valid = TRUE /\ DOMAIN r = {"addr", "valid"}
    BY <1>4
  <2>2. cm' = [cm EXCEPT ![cm_select] = r] /\ cm_select' = cm_select
    BY <1>2, <1>6
  <2> HIDE DEF r
  <2> QED
    BY <1>4, <1>6, <2>1, <2>2
<1>7. CASE ~StartLoad /\ bs_state # "Done"
  <2>1. cm' = cm /\ cm_select' = cm_select
    BY <1>2, <1>7
  <2> QED
    BY <1>4, <1>7, <2>1
<1> QED
  BY <1>5, <1>6, <1>7

\* How a load goes on.
LEMMA LoadNext ==
  ASSUME Registers, HeldInTable, FetchRegisters, LoadInv, LinkInv,
         NEW ar_ready \in BOOLEAN, NEW r_valid \in BOOLEAN, FetchClock(r_valid, ar_ready)
  PROVE  LET beat == Beat("bsfetch", r_valid)
         IN  /\ bs_state' \in {"Idle", "Streaming", "Done"} /\ ar_sent' \in BOOLEAN
             /\ bs_state = "Idle" => /\ bs_state' = IF StartLoad THEN "Streaming" ELSE "Idle"
                                     /\ ~ar_sent'
             /\ bs_state = "Done" => bs_state' = "Idle" /\ ~ar_sent'
             /\ bs_state = "Streaming" =>
                  /\ bs_state' = IF PredictMiss THEN "Idle"
                                 ELSE IF beat /\ LastBeat THEN "Done" ELSE "Streaming"
                  /\ ar_sent' = (~PredictMiss /\ ~(beat /\ LastBeat) /\ (ar_sent \/ ar_ready))
             /\ chunk' \in Nat
             /\ StartLoad => chunk' = 1
             /\ ~StartLoad /\ ~PredictMiss => chunk' = IF beat THEN chunk + 1 ELSE chunk
             /\ Write(r_valid) <=> beat /\ ~PredictMiss
<1> DEFINE beat == Beat("bsfetch", r_valid)
<1>1. /\ bs_state' = BitstreamState(ar_ready, r_valid)
      /\ ar_sent' = IF bs_state # "Streaming" \/ PredictMiss \/ (beat /\ LastBeat)
                    THEN FALSE ELSE ar_sent \/ (BitstreamRequest /\ ar_ready)
      /\ chunk' = IF StartLoad \/ (bs_state = "Streaming" /\ PredictMiss) THEN 1
                  ELSE IF Write(r_valid) THEN chunk + 1 ELSE chunk
  BY DEF FetchClock, BitstreamFetch
<1>2. Write(r_valid) <=> beat /\ ~PredictMiss
  BY DEF Write
<1>3. /\ bs_state \in {"Idle", "Streaming", "Done"} /\ ar_sent \in BOOLEAN /\ chunk \in Nat
  BY DEF FetchRegisters
<1>4. bs_state' = CASE bs_state = "Idle" -> IF StartLoad THEN "Streaming" ELSE "Idle"
                    [] bs_state = "Streaming" ->
                         IF PredictMiss THEN "Idle"
                         ELSE IF beat /\ LastBeat THEN "Done" ELSE "Streaming"
                    [] bs_state = "Done" -> "Idle"
  BY <1>1 DEF BitstreamState
<1>5. BitstreamRequest <=> bs_state = "Streaming" /\ ~ar_sent /\ ~PredictMiss
  BY DEF BitstreamRequest
<1> HIDE DEF beat
<1>6. bs_state' \in {"Idle", "Streaming", "Done"}
  BY <1>3, <1>4
<1>7. ar_sent' \in BOOLEAN /\ (bs_state # "Streaming" => ~ar_sent')
  BY <1>1, <1>3, <1>5
<1>8. /\ bs_state = "Idle" => bs_state' = IF StartLoad THEN "Streaming" ELSE "Idle"
      /\ bs_state = "Done" => bs_state' = "Idle"
      /\ bs_state = "Streaming" =>
           bs_state' = IF PredictMiss THEN "Idle"
                       ELSE IF beat /\ LastBeat THEN "Done" ELSE "Streaming"
  BY <1>4
<1>9. bs_state = "Streaming" =>
        ar_sent' = (~PredictMiss /\ ~(beat /\ LastBeat) /\ (ar_sent \/ ar_ready))
  BY <1>1, <1>3, <1>5
<1>10. /\ chunk' \in Nat /\ (StartLoad => chunk' = 1)
       /\ ~StartLoad /\ ~PredictMiss => chunk' = IF beat THEN chunk + 1 ELSE chunk
  BY <1>1, <1>2, <1>3
<1> QED
  BY <1>2, <1>6, <1>7, <1>8, <1>9, <1>10 DEF beat

\* A clock keeps the load in step with the metadata.
LEMMA LoadStep ==
  ASSUME Registers, HeldInTable, FetchRegisters, LoadInv, LinkInv,
         NEW ar_ready \in BOOLEAN, NEW r_valid \in BOOLEAN, FetchClock(r_valid, ar_ready)
  PROVE  LoadInv'
<1> DEFINE beat == Beat("bsfetch", r_valid)
<1>1. /\ PredictMiss => meta_state = "HoldData" /\ ~Fire
      /\ Fire => meta_state = "HoldData"
  BY Moments
<1>2. /\ meta_state = "HoldData" => (meta_state' = "HoldData" <=> ~Fire /\ ~PredictMiss)
  BY MetaNext DEF FetchClock
<1>3. /\ bs_state # "Idle" => meta_state = "HoldData" /\ ~DoneStreaming /\ ~Fire /\ ~StartLoad
      /\ StartLoad => meta_state = "HoldData" /\ ~Fire /\ ~PredictMiss /\ ~DoneStreaming /\ bs_state = "Idle"
  BY LoadMoments DEF LoadInv, StartLoad
<1>4. /\ bs_state \in {"Idle", "Streaming", "Done"} /\ ar_sent \in BOOLEAN /\ chunk \in Nat
      /\ cm_select \in 0 .. 1 /\ cm_select' \in 0 .. 1
  BY MemoryStep DEF FetchRegisters
<1>5. /\ meta_state = "HoldData" => meta' = meta /\ sched' = sched
      /\ meta_state # "HoldData" /\ meta_state' = "HoldData" =>
           sched' = sched /\ meta' = sched.pc /\ meta_seen' = FALSE
  BY MetaKept
<1>6. (meta_state = "HoldData" => meta = sched.pc)'
  BY <1>5 DEF LoadInv
<1>7. (ar_sent => bs_state = "Streaming")'
  BY <1>4, LoadNext
<1>8. beat => bs_state = "Streaming" /\ ar_sent /\ chunk \in 1 .. BitstreamBeats
              /\ (LastBeat <=> chunk = BitstreamBeats)
  BY BeatIs
<1>9. (meta_state = "HoldData" /\ bs_state = "Idle" /\ meta_seen => DoneStreaming)'
  <2>1. SUFFICES ASSUME meta_state' = "HoldData", bs_state' = "Idle", meta_seen' PROVE DoneStreaming'
    OBVIOUS
  <2>2. meta_state = "HoldData" /\ meta' = meta /\ ~PredictMiss
    BY <1>2, <1>5, <2>1
  <2>3. CASE bs_state = "Done"
    <3>1. cm'[cm_select].addr = meta' /\ cm'[cm_select].valid
      BY <2>2, <2>3, MemoryStep DEF LoadInv
    <3> QED
      BY <1>4, <3>1 DEF DoneStreaming, Hit
  <2>4. CASE bs_state = "Idle"
    <3>1. ~StartLoad
      BY <2>1, <2>4, LoadNext
    <3>2. DoneStreaming
      BY <2>2, <2>4, <3>1 DEF StartLoad, HeldInTable, MetaValid
    <3>3. \A b \in 0 .. 1 : cm'[b] = cm[b]
      BY <2>4, <3>1, MemoryStep
    <3> QED
      BY <2>2, <3>2, <3>3 DEF DoneStreaming, Hit
  <2>5. bs_state # "Streaming"
    BY <2>1, <2>2, LoadNext
  <2> QED
    BY <1>4, <2>3, <2>4, <2>5
<1>10. (bs_state # "Idle" =>
          /\ meta_state = "HoldData"
          /\ cm[cm_select].addr = meta /\ ~cm[cm_select].valid /\ ~Hit(1 - cm_select))'
  <2>1. SUFFICES ASSUME bs_state' # "Idle"
                 PROVE  /\ meta_state' = "HoldData" /\ cm'[cm_select'].addr = meta'
                        /\ ~cm'[cm_select'].valid /\ ~Hit(1 - cm_select)'
    OBVIOUS
  <2>2. CASE StartLoad
    <3>1. meta_state' = "HoldData" /\ meta' = meta /\ ~DoneStreaming /\ bs_state = "Idle"
      BY <1>2, <1>3, <1>5, <2>2
    <3> DEFINE b == 1 - cm_select'
    <3>4. \A x \in 0 .. 1 : 1 - x \in 0 .. 1 /\ 1 - x # x
      OBVIOUS
    <3>5. b \in 0 .. 1 /\ b # cm_select'
      BY <1>4, <3>4
    <3> HIDE DEF b
    <3>6. cm'[b] = cm[b]
      BY <3>1, <3>5, MemoryStep
    <3>2. cm'[1 - cm_select'] = cm[1 - cm_select'] /\ 1 - cm_select' \in 0 .. 1
      BY <3>5, <3>6 DEF b
    <3>3. ~Hit(1 - cm_select)'
      BY <3>1, <3>2 DEF DoneStreaming, Hit
    <3> QED
      BY <2>2, <3>1, <3>3, MemoryStep
  <2>3. CASE ~StartLoad
    <3>1. bs_state = "Streaming" /\ ~PredictMiss /\ cm_select' = cm_select
      BY <1>4, <2>1, <2>3, LoadNext, MemoryStep
    <3>2. meta_state' = "HoldData" /\ meta' = meta
      BY <1>2, <1>3, <1>5, <3>1
    <3>3. \A b \in 0 .. 1 : cm'[b] = cm[b]
      BY <2>3, <3>1, MemoryStep
    <3>4. 1 - cm_select \in 0 .. 1
      BY <1>4
    <3> QED
      BY <1>4, <3>1, <3>2, <3>3, <3>4 DEF LoadInv, Hit
  <2> QED
    BY <2>2, <2>3
<1>11. (bs_state = "Streaming" =>
          /\ \A c \in 1 .. chunk - 1 : bank[cm_select][c] = meta
          /\ ~ar_sent => chunk = 1)'
  <2>1. SUFFICES ASSUME bs_state' = "Streaming"
                 PROVE  /\ \A c \in 1 .. chunk' - 1 : bank'[cm_select'][c] = meta'
                        /\ ~ar_sent' => chunk' = 1
    OBVIOUS
  <2>2. CASE StartLoad
    <3>1. chunk' = 1
      BY <2>2, LoadNext
    <3> QED
      BY <3>1
  <2>3. CASE ~StartLoad
    <3>1. bs_state = "Streaming" /\ ~PredictMiss /\ cm_select' = cm_select
      BY <1>4, <2>1, <2>3, LoadNext, MemoryStep
    <3>2. meta' = meta
      BY <1>3, <1>5, <3>1
    <3>3. /\ \A c \in 1 .. chunk - 1 : bank[cm_select][c] = meta
          /\ ~ar_sent => chunk = 1
      BY <3>1 DEF LoadInv
    <3>4. CASE beat
      <4>1. Write(r_valid) /\ chunk' = chunk + 1
        BY <2>3, <3>1, <3>4, LoadNext
      <4>2. /\ bank'[cm_select][chunk] = meta /\ chunk \in 1 .. BitstreamBeats
            /\ \A c \in 1 .. BitstreamBeats : c # chunk => bank'[cm_select][c] = bank[cm_select][c]
        BY <1>8, <3>4, <4>1, BankStep
      <4>3. \A c \in 1 .. chunk : bank'[cm_select][c] = meta
        BY <3>3, <4>2, BitstreamBeatsAssumption
      <4>4. ar_sent'
        BY <1>8, <2>1, <3>1, <3>4, LoadNext
      <4> QED
        BY <1>4, <3>1, <3>2, <4>1, <4>3, <4>4
    <3>5. CASE ~beat
      <4>1. chunk' = chunk /\ bank' = bank
        BY <2>3, <3>1, <3>5, LoadNext, BankStep
      <4>2. ~ar_sent' => ~ar_sent
        BY <3>1, <3>5, LoadNext
      <4> QED
        BY <3>1, <3>2, <3>3, <4>1, <4>2
    <3> QED
      BY <3>4, <3>5
  <2> QED
    BY <2>2, <2>3
<1>12. (bs_state = "Done" => Whole(cm_select, meta))'
  <2>1. SUFFICES ASSUME bs_state' = "Done" PROVE Whole(cm_select, meta)'
    OBVIOUS
  <2>2. bs_state = "Streaming" /\ ~PredictMiss /\ beat /\ LastBeat
    BY <1>4, <2>1, LoadNext
  <2>3. ~StartLoad /\ cm_select' = cm_select /\ meta' = meta
    BY <1>3, <1>5, <2>2, MemoryStep
  <2>4. Write(r_valid) /\ chunk = BitstreamBeats
    BY <1>8, <2>2, LoadNext
  <2>5. /\ bank'[cm_select][chunk] = meta
        /\ \A c \in 1 .. BitstreamBeats : c # chunk => bank'[cm_select][c] = bank[cm_select][c]
    BY <2>4, BankStep
  <2>6. \A c \in 1 .. chunk - 1 : bank[cm_select][c] = meta
    BY <2>2 DEF LoadInv
  <2>7. \A c \in 1 .. BitstreamBeats : bank'[cm_select][c] = meta
    BY <2>4, <2>5, <2>6, BitstreamBeatsAssumption
  <2> QED
    BY <2>3, <2>7 DEF Whole
<1> QED
  BY <1>6, <1>7, <1>9, <1>10, <1>11, <1>12 DEF LoadInv

\* A memory that is valid has been written to the end, and is not written again before it is
\* invalid; what is shifted out is not written at all.
LEMMA WholeStep ==
  ASSUME Registers, HeldInTable, FetchRegisters, LoadInv, LinkInv, MemoryInv,
         NEW ar_ready \in BOOLEAN, NEW r_valid \in BOOLEAN, FetchClock(r_valid, ar_ready)
  PROVE  MemoryInv'
<1> SUFFICES ASSUME NEW b \in 0 .. 1, cm'[b].valid PROVE Whole(b, cm[b].addr)'
  BY DEF MemoryInv
<1>1. ~(StartLoad /\ b = cm_select')
  BY MemoryStep
<1>2. bs_state # "Idle" => ~StartLoad
  BY LoadMoments
<1>3. CASE bs_state = "Done" /\ b = cm_select
  <2>1. Whole(b, cm[b].addr)
    BY <1>3 DEF LoadInv
  <2>2. cm'[b].addr = cm[b].addr
    BY <1>3, MemoryStep
  <2>3. bank' = bank
    BY <1>3, BankStep, LoadNext, BeatIs
  <2> QED
    BY <2>1, <2>2, <2>3 DEF Whole
<1>4. CASE ~(bs_state = "Done" /\ b = cm_select)
  <2>1. cm'[b] = cm[b] /\ cm[b].valid
    BY <1>1, <1>4, MemoryStep
  <2>2. Whole(b, cm[b].addr)
    BY <2>1 DEF MemoryInv
  <2>3. bank'[b] = bank[b]
    <3>1. CASE Write(r_valid)
      <4>1. bs_state = "Streaming"
        BY <3>1, LoadNext, BeatIs
      <4>2. b # cm_select
        BY <2>1, <4>1 DEF LoadInv
      <4> QED
        BY <4>2, BankStep
    <3>2. CASE ~Write(r_valid)
      BY <3>2, BankStep
    <3> QED
      BY <3>1, <3>2
  <2> QED
    BY <2>1, <2>2, <2>3 DEF Whole
<1> QED
  BY <1>3, <1>4

\* What is shifted out stays whole: an e-block is fired from a whole memory, and a load that
\* starts while it is shifted out goes to the other one.
LEMMA ShiftStep ==
  ASSUME Registers, HeldInTable, FetchRegisters, LoadInv, LinkInv, MemoryInv, ShiftInv,
         NEW ar_ready \in BOOLEAN, NEW r_valid \in BOOLEAN, FetchClock(r_valid, ar_ready),
         NEW done \in BOOLEAN, NEW commit, NEW taken, BackendCycle(done, commit, taken)
  PROVE  ShiftInv' /\ ex'.buffer \in 0 .. 1
<1>1. /\ phase' = Phases(done)
      /\ ex' = IF Fire THEN [id |-> Fired.id, pc |-> Fired.pc, buffer |-> Fired.buffer,
                             mask |-> Fired.mask, taken |-> taken] ELSE ex
  BY DEF BackendCycle
<1>2. ex.buffer \in 0 .. 1 /\ cm_select \in 0 .. 1
  BY DEF FetchRegisters
<1>3. CASE Fire
  <2>1. /\ meta_state = "HoldData" /\ bs_state = "Idle" /\ ~StartLoad
        /\ CmNum \in 0 .. 1 /\ Hit(CmNum)
    BY <1>3, LoadMoments, Moments
  <2>2. ex'.pc = sched.pc /\ ex'.buffer = CmNum
    BY <1>1, <1>3 DEF Fired
  <2>3. sched.pc = meta
    BY <2>1 DEF LoadInv
  <2>4. Whole(CmNum, meta)
    BY <2>1 DEF MemoryInv, Hit
  <2>5. bank' = bank /\ bs_state' = "Idle"
    BY <2>1, LoadNext, BeatIs, BankStep
  <2>6. Whole(ex.buffer, ex.pc)'
    BY <2>2, <2>3, <2>4, <2>5 DEF Whole
  <2> QED
    BY <2>1, <2>2, <2>5, <2>6 DEF ShiftInv
<1>4. CASE ~Fire
  <2>1. ex' = ex
    BY <1>1, <1>4
  <2>2. SUFFICES ASSUME ProgActive'
                 PROVE  Whole(ex.buffer, ex.pc)' /\ (bs_state # "Idle" => cm_select # ex.buffer)'
    BY <1>2, <2>1 DEF ShiftInv
  <2>3. ProgActive
    BY <1>1, <1>4, <2>2 DEF ProgActive, Phases, FetchRegisters
  <2>4. Whole(ex.buffer, ex.pc) /\ (bs_state # "Idle" => cm_select # ex.buffer)
    BY <2>3 DEF ShiftInv
  <2>5. bank'[ex.buffer] = bank[ex.buffer]
    <3>1. CASE Write(r_valid)
      <4>1. bs_state = "Streaming"
        BY <3>1, LoadNext, BeatIs
      <4> QED
        BY <1>2, <2>4, <4>1, BankStep
    <3>2. CASE ~Write(r_valid)
      BY <3>2, BankStep
    <3> QED
      BY <3>1, <3>2
  <2>6. (bs_state # "Idle" => cm_select # ex.buffer)'
    <3>1. CASE StartLoad
      <4>1. cm_select' = 1 - ex.buffer
        BY <2>3, <3>1, MemoryStep DEF LoadInto
      <4> QED
        BY <1>2, <2>1, <4>1
    <3>2. CASE ~StartLoad
      <4>1. cm_select' = cm_select /\ (bs_state = "Idle" => bs_state' = "Idle")
        BY <3>2, MemoryStep, LoadNext
      <4> QED
        BY <2>1, <2>4, <4>1
    <3> QED
      BY <3>1, <3>2
  <2> QED
    BY <2>1, <2>4, <2>5, <2>6 DEF Whole
<1> QED
  BY <1>3, <1>4

\* A clock of the link, by what the metadata unit does.
LEMMA LinkStep ==
  ASSUME Registers, HeldInTable, FetchRegisters, LoadInv, LinkInv,
         NEW ar_ready \in BOOLEAN, NEW r_valid \in BOOLEAN, FetchClock(r_valid, ar_ready)
  PROVE  LinkInv'
<1> DEFINE beat == Beat("bsfetch", r_valid)
           mbeat == Beat("mfetch", r_valid)
           taken == r_valid /\ HeadReady
           less == [Head(link) EXCEPT !.left = @ - 1]
           rest == IF ~taken THEN link
                   ELSE IF LastBeat THEN Tail(link) ELSE <<less>> \o Tail(link)
           mreq == [unit |-> "mfetch", addr |-> sched.pc, left |-> MetaBeats]
           breq == [unit |-> "bsfetch", addr |-> cm[cm_select].addr, left |-> BitstreamBeats]
<1>1. link' = CASE ar_ready /\ MetaRequest -> Append(rest, mreq)
                [] ar_ready /\ BitstreamRequest -> Append(rest, breq)
                [] OTHER -> rest
  BY DEF FetchClock, LinkUpdate
<1>2. taken <=> beat \/ mbeat
  BY DEF Beat, HeadReady
<1>3. /\ beat => /\ bs_state = "Streaming" /\ ar_sent /\ chunk \in 1 .. BitstreamBeats
                 /\ link = <<LoadBurst>> /\ meta_state = "HoldData"
                 /\ LastBeat <=> chunk = BitstreamBeats
      /\ mbeat => meta_state = "WaitResp" /\ \E n : link = <<MetaBurst(n)>>
  BY BeatIs
<1>4. /\ bs_state # "Idle" => meta_state = "HoldData" /\ ~StartLoad /\ ~Fire
      /\ ar_sent => bs_state = "Streaming"
      /\ bs_state = "Streaming" => cm[cm_select].addr = meta /\ (~ar_sent => chunk = 1)
      /\ StartLoad => meta_state = "HoldData" /\ bs_state = "Idle" /\ ~PredictMiss
  BY LoadMoments DEF LoadInv, StartLoad
<1>5. /\ bs_state \in {"Idle", "Streaming", "Done"} /\ ar_sent \in BOOLEAN /\ chunk \in Nat
      /\ meta_state \in {"Ready", "ReqVal", "WaitResp", "HoldData"}
      /\ meta_state' \in {"Ready", "ReqVal", "WaitResp", "HoldData"}
  BY MetaNext DEF FetchRegisters, Registers, FetchClock
<1>6. PredictMiss => meta_state = "HoldData"
  BY Moments
<1>7. /\ MetaRequest <=> meta_state = "ReqVal" /\ ~PredictMiss
      /\ BitstreamRequest <=> bs_state = "Streaming" /\ ~ar_sent /\ ~PredictMiss
  BY DEF MetaRequest, BitstreamRequest
<1>8. /\ meta_state = "HoldData" => (meta_state' = "HoldData" <=> ~Fire /\ ~PredictMiss)
      /\ meta_state = "HoldData" /\ meta_state' # "HoldData" => meta_state' = "Ready"
      /\ meta_state = "Ready" => meta_state' = IF ScheduleFire THEN "ReqVal" ELSE "Ready"
  BY MetaNext DEF FetchClock
<1>9. meta_state = "ReqVal" => meta_state' = IF ar_ready THEN "WaitResp" ELSE "ReqVal"
  BY <1>6 DEF FetchClock, MetaFetch, MetaState
<1>10. meta_state = "WaitResp" => meta_state' = IF mbeat /\ LastBeat THEN "HoldData" ELSE "WaitResp"
  BY <1>6 DEF FetchClock, MetaFetch, MetaState
<1>11. /\ meta_state = "HoldData" => meta' = meta /\ sched' = sched
       /\ meta_state \in {"ReqVal", "WaitResp"} => sched' = sched
  BY MetaKept
<1>12. /\ \A n : MetaBurst(n) = [unit |-> "mfetch", addr |-> sched.pc, left |-> n]
       /\ LoadBurst = [unit |-> "bsfetch", addr |-> meta, left |-> BitstreamBeats + 1 - chunk]
       /\ LoadBurst' = [unit |-> "bsfetch", addr |-> meta', left |-> BitstreamBeats + 1 - chunk']
       /\ sched' = sched => \A n : MetaBurst(n)' = MetaBurst(n)
  BY DEF MetaBurst, LoadBurst
<1> HIDE DEF beat, mbeat, taken
<1>13. CASE meta_state = "HoldData"
  <2>1. ~mbeat /\ link' = IF ar_ready /\ BitstreamRequest THEN Append(rest, breq) ELSE rest
    BY <1>1, <1>3, <1>7, <1>13
  <2>2. CASE ar_sent
    <3>1. chunk \in 1 .. BitstreamBeats /\ link = <<LoadBurst>> /\ bs_state = "Streaming"
      BY <1>4, <1>13, <2>2 DEF LinkInv
    <3>2. Head(link) = LoadBurst /\ Tail(link) = << >> /\ \A x : <<x>> \o << >> = <<x>>
      BY <3>1, Single
    <3>3. link' = rest
      BY <1>7, <2>1, <2>2
    <3>4. less = [unit |-> "bsfetch", addr |-> meta, left |-> (BitstreamBeats + 1 - chunk) - 1]
      <4>1. less = [LoadBurst EXCEPT !.left = @ - 1]
        BY <3>2
      <4> DEFINE x == BitstreamBeats + 1 - chunk
      <4>2. LoadBurst = [unit |-> "bsfetch", addr |-> meta, left |-> x]
        BY DEF LoadBurst
      <4> HIDE DEF x
      <4>3. less = [unit |-> "bsfetch", addr |-> meta, left |-> x - 1]
        BY <4>1, <4>2
      <4> QED
        BY <4>3 DEF x
    <3>5. CASE meta_state' = "HoldData"
      <4>1. ~PredictMiss /\ ~StartLoad
        BY <1>4, <1>8, <1>13, <3>1, <3>5
      <4>2. ar_sent' = ~(beat /\ LastBeat) /\ chunk' = IF beat THEN chunk + 1 ELSE chunk
        BY <2>2, <3>1, <4>1, LoadNext DEF beat
      <4>3. CASE beat /\ LastBeat
        BY <1>2, <3>2, <3>3, <3>5, <4>2, <4>3 DEF LinkInv
      <4>4. CASE beat /\ ~LastBeat
        <5>3. link' = <<less>>
          BY <1>2, <3>2, <3>3, <4>4
        <5>4. ar_sent' /\ chunk' = chunk + 1 /\ chunk # BitstreamBeats
          BY <1>3, <4>2, <4>4
        <5>1. link' = <<less>> /\ ar_sent' /\ chunk' = chunk + 1 /\ chunk' \in 1 .. BitstreamBeats
          BY <3>1, <5>3, <5>4, BitstreamBeatsAssumption
        <5>2. less = LoadBurst'
          BY <1>11, <1>12, <1>13, <3>1, <3>4, <5>1, BitstreamBeatsAssumption
        <5> QED
          BY <3>5, <5>1, <5>2 DEF LinkInv
      <4>5. CASE ~beat
        <5>1. link' = link /\ ar_sent' /\ chunk' = chunk
          BY <1>2, <2>1, <3>3, <4>2, <4>5
        <5>2. LoadBurst' = LoadBurst
          BY <1>11, <1>12, <1>13, <5>1
        <5> QED
          BY <3>1, <3>5, <5>1, <5>2 DEF LinkInv
      <4> QED
        BY <4>3, <4>4, <4>5
    <3>6. CASE meta_state' # "HoldData"
      <4>1. meta_state' = "Ready"
        BY <1>8, <1>13, <3>6
      <4>2. link' = << >> \/ link' = <<less>> \/ link' = <<LoadBurst>>
        BY <3>1, <3>2, <3>3
      <4>3. less.unit = "bsfetch" /\ LoadBurst.unit = "bsfetch"
        BY <1>12, <3>4
      <4> QED
        BY <4>1, <4>2, <4>3 DEF LinkInv
    <3> QED
      BY <3>5, <3>6
  <2>3. CASE ~ar_sent
    <3>1. link = << >> /\ ~beat /\ rest = << >>
      BY <1>2, <1>3, <1>13, <2>1, <2>3 DEF LinkInv
    <3>2. CASE ar_ready /\ BitstreamRequest
      <4>1. bs_state = "Streaming" /\ ~PredictMiss /\ ~Fire /\ ~StartLoad
        BY <1>4, <1>7, <3>2
      <4>2. meta_state' = "HoldData" /\ meta' = meta /\ ar_sent' /\ chunk' = 1
        BY <1>4, <1>8, <1>11, <1>13, <2>3, <3>1, <3>2, <4>1, LoadNext DEF beat
      <4>3. link' = <<breq>>
        BY <2>1, <3>1, <3>2, Single
      <4>4. breq = LoadBurst'
        BY <1>4, <1>12, <4>1, <4>2, BitstreamBeatsAssumption
      <4> QED
        BY <4>2, <4>3, <4>4, BitstreamBeatsAssumption DEF LinkInv
    <3>3. CASE ~(ar_ready /\ BitstreamRequest)
      <4>1. link' = << >>
        BY <2>1, <3>1, <3>3
      <4>2. ~ar_sent'
        BY <1>5, <1>7, <2>3, <3>3, LoadNext
      <4> QED
        BY <1>8, <1>13, <4>1, <4>2 DEF LinkInv
    <3> QED
      BY <3>2, <3>3
  <2> QED
    BY <1>5, <2>2, <2>3
<1>14. CASE meta_state = "WaitResp"
  <2>1. ~beat /\ link' = rest /\ sched' = sched /\ ~ar_sent /\ bs_state = "Idle" /\ ~StartLoad
    BY <1>1, <1>3, <1>4, <1>5, <1>7, <1>11, <1>14
  <2>2. ~ar_sent'
    BY <2>1, LoadNext
  <2>3. CASE mbeat
    <3>1. PICK n : link = <<MetaBurst(n)>>
      BY <1>3, <2>3
    <3>2. Head(link) = MetaBurst(n) /\ Tail(link) = << >> /\ \A x : <<x>> \o << >> = <<x>>
      BY <3>1, Single
    <3>3. less = MetaBurst(n - 1)
      BY <1>12, <3>2
    <3>4. CASE LastBeat
      BY <1>2, <1>10, <1>14, <2>1, <2>2, <2>3, <3>2, <3>4 DEF LinkInv
    <3>5. CASE ~LastBeat
      <4>1. meta_state' = "WaitResp" /\ link' = <<MetaBurst(n - 1)>>
        BY <1>2, <1>10, <1>14, <2>1, <2>3, <3>2, <3>3, <3>5
      <4> QED
        BY <1>12, <2>1, <4>1 DEF LinkInv
    <3> QED
      BY <3>4, <3>5
  <2>4. CASE ~mbeat
    <3>1. meta_state' = "WaitResp" /\ link' = link
      BY <1>2, <1>10, <1>14, <2>1, <2>4
    <3> QED
      BY <1>12, <1>14, <2>1, <3>1 DEF LinkInv
  <2> QED
    BY <2>3, <2>4
<1>15. CASE meta_state = "ReqVal"
  <2>1. ~beat /\ ~mbeat /\ rest = link /\ sched' = sched /\ ~PredictMiss /\ ~BitstreamRequest
    BY <1>2, <1>3, <1>4, <1>6, <1>7, <1>11, <1>15
  <2>2. link = << >> \/ \E o : o.unit = "bsfetch" /\ link = <<o>>
    BY <1>15 DEF LinkInv
  <2>3. CASE ar_ready
    <3>1. meta_state' = "WaitResp" /\ link' = Append(link, mreq)
      BY <1>1, <1>7, <1>9, <1>15, <2>1, <2>3
    <3>2. mreq = MetaBurst(MetaBeats)'
      BY <1>12, <2>1
    <3>3. CASE link = << >>
      <4>1. link' = <<mreq>>
        BY <3>1, <3>3, Single
      <4> QED
        BY <3>1, <3>2, <4>1 DEF LinkInv
    <3>4. CASE link # << >>
      <4>1. PICK o : o.unit = "bsfetch" /\ link = <<o>>
        BY <2>2, <3>4
      <4>2. link' = <<o, mreq>>
        BY <3>1, <4>1, Pair
      <4> QED
        BY <3>1, <3>2, <4>1, <4>2 DEF LinkInv
    <3> QED
      BY <3>3, <3>4
  <2>4. CASE ~ar_ready
    <3>1. meta_state' = "ReqVal" /\ link' = link
      BY <1>1, <1>9, <1>15, <2>1, <2>4
    <3> QED
      BY <2>2, <3>1 DEF LinkInv
  <2> QED
    BY <2>3, <2>4
<1>16. CASE meta_state = "Ready"
  <2>1. link' = link /\ meta_state' \in {"Ready", "ReqVal"}
    BY <1>1, <1>2, <1>3, <1>4, <1>7, <1>8, <1>16
  <2>2. link = << >> \/ \E o : o.unit = "bsfetch" /\ link = <<o>>
    BY <1>16 DEF LinkInv
  <2> QED
    BY <2>1, <2>2 DEF LinkInv
<1> QED
  BY <1>5, <1>13, <1>14, <1>15, <1>16

\* A clock of the fetch and of the back end.
LEMMA ConfigNext ==
  ASSUME Registers, HeldInTable, ConfigInv,
         NEW ar_ready \in BOOLEAN, NEW r_valid \in BOOLEAN, FetchClock(r_valid, ar_ready),
         NEW done \in BOOLEAN, NEW commit, NEW taken, BackendCycle(done, commit, taken)
  PROVE  ConfigInv'
<1>1. FetchRegisters /\ LoadInv /\ MemoryInv /\ ShiftInv /\ LinkInv
  BY DEF ConfigInv
<1>2. phase' \in {"idle", "pending", "programming", "running"}
  BY <1>1 DEF FetchRegisters, BackendCycle, Phases
<1>3. ShiftInv' /\ ex'.buffer \in 0 .. 1
  BY <1>1, ShiftStep
<1>4. FetchRegisters'
  BY <1>1, <1>2, <1>3, LoadNext, MemoryStep, BankStep DEF FetchRegisters
<1>5. LoadInv' /\ MemoryInv' /\ LinkInv'
  BY <1>1, LoadStep, WholeStep, LinkStep
<1> QED
  BY <1>3, <1>4, <1>5 DEF ConfigInv

LEMMA ConfigInit == Init => ConfigInv
<1> SUFFICES ASSUME Init PROVE ConfigInv
  OBVIOUS
<1>1. /\ meta_state = "Ready" /\ bs_state = "Idle" /\ ar_sent = FALSE /\ chunk = 1 /\ link = << >>
      /\ cm = [b \in 0 .. 1 |-> [addr |-> 1, valid |-> FALSE]] /\ cm_select = 0
      /\ bank = [b \in 0 .. 1 |-> [c \in 1 .. BitstreamBeats |-> NoBlock]]
      /\ phase = "idle" /\ ex.buffer = 0
  BY DEF Init, FetchInit
<1>2. \A b \in 0 .. 1 : cm[b].valid = FALSE /\ DOMAIN cm[b] = {"addr", "valid"}
  BY <1>1
<1>3. FetchRegisters
  <2>1. DOMAIN bank = 0 .. 1 /\ \A b \in 0 .. 1 : DOMAIN bank[b] = 1 .. BitstreamBeats
    BY <1>1
  <2>2. DOMAIN cm = 0 .. 1 /\ \A b \in 0 .. 1 : cm[b].valid \in BOOLEAN
    BY <1>1, <1>2
  <2>3. /\ bs_state = "Idle" /\ ar_sent = FALSE /\ chunk = 1 /\ phase = "idle"
        /\ cm_select = 0 /\ ex.buffer = 0
    BY <1>1
  <2>4. /\ bs_state \in {"Idle", "Streaming", "Done"} /\ ar_sent \in BOOLEAN
        /\ phase \in {"idle", "pending", "programming", "running"}
    BY <2>3
  <2>5. cm_select \in 0 .. 1 /\ ex.buffer \in 0 .. 1 /\ chunk \in Nat
    BY <2>3
  <2>6. \A b \in 0 .. 1 : cm[b].valid \in BOOLEAN /\ DOMAIN cm[b] = {"addr", "valid"}
    BY <1>2, <2>2
  <2> QED
    BY <2>1, <2>2, <2>4, <2>5, <2>6 DEF FetchRegisters
<1>4. LoadInv /\ ShiftInv /\ LinkInv
  BY <1>1 DEF LoadInv, ShiftInv, ProgActive, LinkInv
<1>5. MemoryInv
  BY <1>2 DEF MemoryInv
<1> QED
  BY <1>3, <1>4, <1>5 DEF ConfigInv

LEMMA ConfigStep == Inv /\ ConfigInv /\ [Next]_vars => ConfigInv'
<1> SUFFICES ASSUME Inv, ConfigInv, [Next]_vars PROVE ConfigInv'
  OBVIOUS
<1>1. CASE UNCHANGED vars
  BY <1>1 DEF vars, branch_vars, fetch_vars, backend_vars, ConfigInv, FetchRegisters, LoadInv,
     MemoryInv, ShiftInv, ProgActive, LinkInv, LoadBurst, MetaBurst, Whole, Hit, DoneStreaming
<1>2. CASE Next
  <2>1. PICK start \in BOOLEAN, ar_ready \in BOOLEAN, r_valid \in BOOLEAN, done \in BOOLEAN,
             commit \in Commits, threads \in IF add_fire THEN 1 .. NumThreads ELSE {1},
             taken \in SUBSET MayTake :
          Cycle(start, threads, ar_ready, r_valid, done, commit, taken)
    BY <1>2 DEF Next
  <2>2. FetchClock(r_valid, ar_ready)
    BY <2>1 DEF Cycle, FetchCycle, BranchCycle, FetchClock
  <2>3. BackendCycle(done, commit, taken)
    BY <2>1 DEF Cycle
  <2>4. Registers /\ HeldInTable
    BY DEF Inv
  <2> QED
    BY <2>2, <2>3, <2>4, ConfigNext
<1> QED
  BY <1>1, <1>2

\* An e-block is fired with the whole of its own bitstream, and the memory that is shifted
\* out does not change, whatever is prefetched, flushed or cut off in the middle of a load.
THEOREM FiredConfigured == Spec => []ConfiguredRight
<1>1. Init => Inv /\ ConfigInv
  BY InvInit, ConfigInit
<1>2. Inv /\ ConfigInv /\ [Next]_vars => (Inv /\ ConfigInv)'
  BY InvNext, ConfigStep
<1>3. Inv /\ ConfigInv => ConfiguredRight
  <2> SUFFICES ASSUME Inv, ConfigInv PROVE ConfiguredRight
    OBVIOUS
  <2>1. Registers /\ HeldInTable /\ FetchRegisters /\ LoadInv /\ MemoryInv /\ ShiftInv
    BY DEF Inv, ConfigInv
  <2>2. Fire => Hit(CmNum) /\ CmNum \in 0 .. 1 /\ meta_state = "HoldData"
    BY <2>1, LoadMoments, Moments
  <2>3. Fire => Whole(CmNum, sched.pc)
    BY <2>1, <2>2 DEF Hit, MemoryInv, LoadInv
  <2> QED
    BY <2>1, <2>3 DEF ConfiguredRight, Fired, ShiftInv
<1> QED
  BY <1>1, <1>2, <1>3, PTL DEF Spec
-----------------------------------------------------------------------------
(* The stack under the front end.  A block that does not branch submits its  *)
(* update before it is fired, a branch long after: Standing is where the     *)
(* updates that were submitted have brought the threads, and with it the     *)
(* front end drives the stack as SimtKernel does.                            *)

Stage == Current.status
Held == meta_state # "Ready"
MayDiverge == code[sched.pc].kind = "branch"
Returns == code[sched.pc].kind = "return"

\* The stages of an entry at which the branch before it has not been submitted.
Waits == {"Empty", "Stored", "WaitExec", "PrevSubmit"}

\* A block that is still to be fired has its update, a branch that was fired has not.
Ahead == Stage \in {"CurrWait", "StatusWrite", "Done"} /\ ~MayDiverge
Behind == status.ucd /\ Stage \in Waits

Standing ==
  [t \in Thread |->
     IF Ahead /\ t \in sched.mask THEN Successor(code[sched.pc], sched.pc, FALSE)
     ELSE IF Behind /\ t \in ex.mask THEN ex.pc ELSE tpc[t]]

SK == INSTANCE SimtKernel_proofs WITH tpc <- Standing

StackInv == SK!Inv /\ SK!RegionInv /\ SK!PathInv /\ Predictable(code)

\* The entry is that of the schedule that is held.
EntryInv ==
  /\ \A i \in 0 .. 1 : DOMAIN table[i] = {"status", "meta", "pc", "prefetch"}
  /\ DOMAIN preds = 0 .. 1
  /\ sched.prefetch \in BOOLEAN /\ status.ucd \in BOOLEAN /\ cta_valid \in BOOLEAN
  /\ Stage # "Empty" =>
       Current.meta = sched.pc /\ Current.pc = sched.pc /\ Current.prefetch = sched.prefetch
  /\ Held => sched.pc \in 1 .. NumBlocks

\* From the launch of a CTA to its end.
LifeInv ==
  /\ cta_valid <=> launched # {}
  /\ add_fire => ~cta_valid
  /\ ~cta_valid => ~Held /\ ~status.ucd /\ ~status.is_return
  /\ \A t \in Thread \ launched : tpc[t] = EndPC

\* Updates are worked on while an entry waits for them, and never else.
ControlInv ==
  /\ state = "Idle" => (out_valid <=> stack # <<>>)
  /\ ~Held => state \in {"Idle", "InitPush", "FinalRead"}
  /\ Held /\ Stage \notin {"PrevWait", "CurrWait"} => state = "Idle"

\* A branch is unresolved from its status write to the check of the block behind it, which
\* is prefetched then and is no branch itself.
DivergeInv ==
  /\ status.ucd => Stage \in Waits \cup {"PrevWait", "PcCheck", "Done"}
  /\ Stage \in {"WaitExec", "PrevSubmit", "PrevWait", "PcCheck"} => status.ucd /\ sched.prefetch
  /\ Held /\ Stage \in {"Empty", "Stored"} => (sched.prefetch <=> status.ucd)
  /\ Stage = "Done" => (status.ucd <=> MayDiverge)
  /\ Held /\ sched.prefetch => ~MayDiverge
  /\ Stage \in {"CurrSubmit", "CurrWait"} => ~MayDiverge
  /\ Stage = "Done" /\ MayDiverge => status.predict_pc = code[sched.pc].target

\* An entry whose own update is to come is for the threads of the top, and but for a
\* prefetched one, for its block.
Submits ==
  \/ Stage \in Waits \cup {"CurrSubmit"}
  \/ Stage \in {"StatusWrite", "Done"} /\ MayDiverge
RestInv ==
  Held /\ Submits =>
    stack # <<>> /\ sched.mask = top.mask /\ (~Behind => sched.pc = top.pc)

\* A branch that was fired and is not submitted is on top; its threads have gone their ways
\* by the predicate that it leaves behind.
BehindInv ==
  Behind =>
    /\ stack # <<>> /\ state = "Idle" /\ top.pc = ex.pc /\ top.mask = ex.mask
    /\ code[ex.pc].kind = "branch" /\ status.predict_pc = code[ex.pc].target
    /\ Previous.meta = ex.pc /\ Previous.pc = ex.pc
    /\ ex.taken \subseteq ex.mask
    /\ \A t \in ex.mask : tpc[t] = Successor(code[ex.pc], ex.pc, t \in ex.taken)
    /\ phase = "idle" => preds[PredReg[ex.pc]] \cap ex.mask = ex.taken
    /\ Held => sched.pc = status.predict_pc

\* While the outcome of a branch is worked on, and when it is there: if the block on top is the
\* prefetched one, it is for the same threads.
OutcomeInv ==
  Stage \in {"PrevWait", "PcCheck"} =>
    /\ state = "ReadTop" =>
         /\ top.pc \in 1 .. NumBlocks /\ code[top.pc].kind = "branch"
         /\ code[top.pc].target = sched.pc /\ top.mask = sched.mask
    /\ state # "ReadTop" =>
         SK!Target # <<>> /\ (Last(SK!Target).pc = sched.pc => Last(SK!Target).mask = sched.mask)

\* What is not speculative any more is on the path of its threads.
OnPathInv ==
  Stage \in {"CurrSubmit", "CurrWait", "StatusWrite", "Done"} =>
    sched.mask # {} /\ sched.mask \subseteq Thread /\ \A t \in sched.mask : tpc[t] = sched.pc

\* A return empties the stack before it is told, and a CTA that has returned has nothing live
\* but what is told of.
ReturnInv ==
  /\ Stage = "CurrWait" /\ Returns =>
       IF state = "ReadTop" THEN top.pc = sched.pc ELSE SK!Target = <<>>
  /\ Stage \in {"StatusWrite", "Done"} /\ Returns => stack = <<>>
  /\ status.is_return =>
       /\ stack = <<>> /\ state = "Idle" /\ ~status.ucd /\ (Held => Stage = "Done")
       /\ ~status.eblock_in_flight => live = {}

\* What a prefetched entry may conclude from an empty block retire table.
BackInv ==
  /\ inserting # {} => ~Held
  /\ meta_state \in {"WaitResp", "HoldData"} /\ brt # {} => status.has_pending_eblock
  /\ phase # "idle" => ex.id \in inserting \cup brt
  /\ Stage = "PrevSubmit" => phase = "idle"

SpeculationInv ==
  /\ EntryInv /\ LifeInv /\ ControlInv /\ DivergeInv /\ RestInv /\ BehindInv
  /\ OutcomeInv /\ OnPathInv /\ ReturnInv /\ BackInv

Safe == Inv /\ ConfigInv /\ StackInv /\ SpeculationInv


\* The stack of the front end is that of SimtKernel.
LEMMA SameStack ==
  /\ SK!Thread = Thread /\ SK!EndPC = EndPC /\ SK!PC = PC /\ SK!Entry = Entry /\ SK!Block = Block
  /\ \A s : SK!Last(s) = Last(s) /\ SK!Front(s) = Front(s)
  /\ \A b, p, t : SK!Successor(b, p, t) = Successor(b, p, t)
  /\ \A b, p, m, t : SK!StackUpdateFor(b, p, m, t) = StackUpdateFor(b, p, m, t)
  /\ \A k : SK!WellNested(k) = WellNested(k)
<1>5. \A s : SK!Last(s) = Last(s) /\ SK!Front(s) = Front(s)
  BY DEF SK!Last, Last, SK!Front, Front
<1>1. SK!Thread = Thread /\ SK!EndPC = EndPC /\ SK!PC = PC
  BY DEF SK!Thread, Thread, SK!EndPC, EndPC, SK!PC, PC
<1>2. SK!Entry = Entry /\ SK!Block = Block
  BY <1>1 DEF SK!Entry, Entry, SK!Block, Block
<1>3. \A b, p, t : SK!Successor(b, p, t) = Successor(b, p, t)
  BY <1>1 DEF SK!Successor, Successor
<1>4. \A b, p, m, t : SK!StackUpdateFor(b, p, m, t) = StackUpdateFor(b, p, m, t)
  <2>1. \A n : SK!Uniform(n) = Uniform(n)
    BY <1>1 DEF SK!Uniform, Uniform, SK!NoUpdate, NoUpdate
  <2> QED
    BY <1>3, <2>1 DEF SK!StackUpdateFor, StackUpdateFor
<1>6. \A k : SK!WellNested(k) = WellNested(k)
  <2>1. \A k, q : SK!Successors(k, q) = Successors(k, q) /\ SK!Inside(k, q) = Inside(k, q)
    BY <1>3 DEF SK!Successors, Successors, SK!Inside, Inside
  <2>2. \A k, q : SK!Closed(k, q) = Closed(k, q) /\ SK!JoinsInside(k, q) = JoinsInside(k, q)
    BY <2>1 DEF SK!Closed, Closed, SK!JoinsInside, JoinsInside
  <2>3. \A k : SK!Structured(k) = Structured(k)
    BY <2>2 DEF SK!Structured, Structured
  <2> QED
    BY <2>1, <2>3 DEF SK!WellNested, WellNested
<1> QED
  BY <1>1, <1>2, <1>3, <1>4, <1>5, <1>6

\* Its kernels are those that SimtKernel may run.
LEMMA SameKernels == Kernels \subseteq [1 .. NumBlocks -> SK!Block]
BY SameStack, KernelsAssumption

\* Its clock is that of SimtKernel.
LEMMA SameClock ==
  ASSUME NEW init, NEW update_in, SimtCycle(init, update_in)
  PROVE  SK!SimtCycle(init, update_in)
<1>1. /\ SK!Thread = Thread /\ SK!EndPC = EndPC
      /\ SK!Last(stack) = Last(stack) /\ SK!Front(stack) = Front(stack)
  BY SameStack
<1>2. SK!NoPlan = NoPlan
  BY <1>1 DEF SK!NoPlan, NoPlan, SK!NoEntry, NoEntry
<1>3. /\ SK!Taken = Taken /\ SK!NotTaken = NotTaken
      /\ \A p, m : SK!PathEntry(p, m) = PathEntry(p, m)
  BY DEF SK!Taken, Taken, SK!NotTaken, NotTaken, SK!PathEntry, PathEntry
<1>4. SK!PushesDivergent = PushesDivergent /\ SK!AllTaken = AllTaken /\ SK!Diverged = Diverged
  BY <1>3 DEF SK!PushesDivergent, PushesDivergent, SK!AllTaken, AllTaken, SK!Diverged, Diverged
<1>5. SK!NextPC = NextPC
  BY <1>4 DEF SK!NextPC, NextPC
<1>6. SK!Decide = Decide
  BY <1>2, <1>4, <1>5 DEF SK!Decide, Decide
<1>7. /\ SK!InitFire(init) = InitFire(init)
      /\ SK!UpdateFire(init, update_in) = UpdateFire(init, update_in)
      /\ SK!Reading = Reading
  BY DEF SK!InitFire, InitFire, SK!UpdateFire, UpdateFire, SK!UpdateReady, UpdateReady,
         SK!Reading, Reading
<1>8. SK!NextState(init, update_in) = NextState(init, update_in)
  BY <1>6, <1>7 DEF SK!NextState, NextState
<1>9. StackUpdate => SK!StackUpdate
  BY <1>1 DEF SK!StackUpdate, StackUpdate, SK!PushOn, PushOn, SK!Full, Full,
              SK!FirstEntry, FirstEntry
<1> QED
  BY <1>1, <1>6, <1>7, <1>8, <1>9 DEF SK!SimtCycle, SimtCycle


\* What the stack keeps, of use to the front end.
LEMMA StackHas ==
  ASSUME Safe
  PROVE  /\ state \in {"Idle", "ReadTop", "ModifyTop", "PushFirst", "PushSecond",
                       "PopStack", "InitPush", "FinalRead"}
         /\ out_valid \in BOOLEAN /\ code \in [1 .. NumBlocks -> Block]
         /\ launched = {} => state = "Idle" /\ stack = <<>>
         /\ out_valid => stack # <<>> /\ top = Last(stack)
         /\ state = "InitPush" => stack = <<>>
         /\ SK!WellNested(code)
<1>1. SK!TypeOK /\ SK!Phases /\ SK!RegionInv
  BY DEF Safe, StackInv, SK!Inv
<1> QED
  BY <1>1, SameStack DEF SK!TypeOK, SK!SimtTypeOK, SK!Phases, SK!RegionInv

\* The block on top, when nothing is written, and who stands there.
LEMMA TopHas ==
  ASSUME Safe, state \in {"Idle", "FinalRead"}, out_valid
  PROVE  /\ top.pc \in 1 .. NumBlocks /\ top.mask # {} /\ top.mask \subseteq Thread
         /\ \A t \in top.mask : Standing[t] = top.pc
<1>1. stack # <<>> /\ top = SK!Last(stack)
  BY StackHas, SameStack
<1>2. SK!Inv /\ SK!RegionInv /\ SK!PathInv
  BY DEF Safe, StackInv
<1> QED
  BY <1>1, <1>2, SK!TopAtRest, SameStack, NumThreadsAssumption, NumBlocksAssumption,
     DepthAssumption, SameKernels

\* When what happens.
LEMMA When ==
  ASSUME Safe
  PROVE  /\ Stage \in EntryStatus
         /\ Stage # "Empty" => meta_state = "HoldData" /\ Held
         /\ meta_state = "HoldData" => Held
         /\ Held => cta_valid /\ launched # {} /\ ~add_fire /\ inserting = {} /\ sched.id \in live
         /\ add_fire => /\ ~cta_valid /\ ~Held /\ Stage = "Empty" /\ launched = {} /\ stack = <<>>
                        /\ state = "Idle" /\ ~status.ucd /\ ~status.is_return
                        /\ ~PopCta /\ ~ScheduleFire
         /\ PopCta => /\ cta_valid /\ ~Held /\ Stage = "Empty" /\ stack = <<>> /\ state = "Idle"
                      /\ ~status.ucd /\ status.is_return /\ live = {} /\ inserting = {}
                      /\ brt = {} /\ phase = "idle" /\ ~add_fire /\ ~ScheduleFire
         /\ ScheduleFire => /\ ~Held /\ meta_state = "Ready" /\ Stage = "Empty" /\ cta_valid
                            /\ stack # <<>> /\ out_valid /\ top = Last(stack)
                            /\ state \in {"Idle", "FinalRead"} /\ ~status.is_return
         /\ Fire => Stage = "Done" /\ phase = "idle" /\ state = "Idle" /\ Held
         /\ PredictMiss => Stage = "PcCheck" /\ state = "Idle" /\ Held
         /\ Arrives # {} => Stage = "Empty" /\ Held /\ Arrives = {sched.pc}
<1>1. /\ Registers /\ HeldInTable /\ IdsInUse /\ LoadInv /\ EntryInv /\ LifeInv /\ ControlInv
      /\ ReturnInv /\ BackInv
  BY DEF Safe, Inv, ConfigInv, SpeculationInv
<1>2. Stage \in EntryStatus
  BY <1>1 DEF Registers, Stage, Current
<1>3. Stage # "Empty" => meta_state = "HoldData"
  BY <1>1 DEF HeldInTable, Stage
<1>4. meta_state = "HoldData" => Held
  BY DEF Held
<1>5. Held => cta_valid /\ launched # {} /\ ~add_fire /\ inserting = {} /\ sched.id \in live
  BY <1>1 DEF LifeInv, BackInv, IdsInUse, InFetch, Held
<1>6. PopCta => cta_valid /\ status.is_return /\ ~status.eblock_in_flight
  BY DEF PopCta
<1>7. ScheduleFire => /\ ~Held /\ meta_state = "Ready" /\ cta_valid /\ stack # <<>> /\ out_valid
  BY DEF ScheduleFire, ScheduleReady, ScheduleValid, TopValid, Held
<1>8. add_fire => /\ ~cta_valid /\ ~Held /\ Stage = "Empty" /\ launched = {} /\ stack = <<>>
                  /\ state = "Idle" /\ ~status.ucd /\ ~status.is_return
                  /\ ~PopCta /\ ~ScheduleFire
  BY <1>1, <1>3, <1>4, <1>6, <1>7, StackHas DEF LifeInv
<1>9. PopCta => /\ cta_valid /\ ~Held /\ Stage = "Empty" /\ stack = <<>> /\ state = "Idle"
                /\ ~status.ucd /\ status.is_return /\ live = {} /\ inserting = {}
                /\ brt = {} /\ phase = "idle" /\ ~add_fire /\ ~ScheduleFire
  <2> SUFFICES ASSUME PopCta
               PROVE  /\ cta_valid /\ ~Held /\ Stage = "Empty" /\ stack = <<>> /\ state = "Idle"
                      /\ ~status.ucd /\ status.is_return /\ live = {} /\ inserting = {}
                      /\ brt = {} /\ phase = "idle" /\ ~add_fire /\ ~ScheduleFire
    OBVIOUS
  <2>1. stack = <<>> /\ state = "Idle" /\ ~status.ucd /\ live = {}
    BY <1>1, <1>6 DEF ReturnInv
  <2>2. inserting = {} /\ brt = {} /\ ~Held
    BY <1>1, <1>5, <2>1 DEF IdsInUse, InBackend
  <2>3. phase = "idle"
    BY <1>1, <2>2 DEF BackInv
  <2> QED
    BY <1>3, <1>4, <1>6, <1>7, <1>8, <2>1, <2>2, <2>3
<1>10. ScheduleFire => top = Last(stack) /\ state \in {"Idle", "FinalRead"} /\ ~status.is_return
                       /\ Stage = "Empty"
  BY <1>1, <1>3, <1>4, <1>7, StackHas DEF ControlInv, ReturnInv
<1>11. Fire => Stage = "Done" /\ phase = "idle" /\ state = "Idle" /\ Held
  BY <1>1, <1>3, <1>4 DEF Fire, FdrValid, FdrReady, BhDone, ControlInv, Stage
<1>12. PredictMiss => Stage = "PcCheck" /\ state = "Idle" /\ Held
  BY <1>1, <1>3, <1>4 DEF PredictMiss, ControlInv, Stage
<1>13. Arrives # {} => Stage = "Empty" /\ Held /\ Arrives = {sched.pc}
  BY <1>1, <1>4, Moments DEF LoadInv, Arrives, Stage
<1> QED
  BY <1>2, <1>3, <1>4, <1>5, <1>7, <1>8, <1>9, <1>10, <1>11, <1>12, <1>13


\* The entries after a clock.
LEMMA EntryNext ==
  ASSUME Safe, Next
  PROVE  /\ \A i \in 0 .. 1 : DOMAIN table'[i] = {"status", "meta", "pc", "prefetch"}
         /\ Stage' = IF Arrives # {} THEN "Stored" ELSE NextEntryStatus(Fire)
         /\ Arrives # {} => /\ Current'.meta = sched.pc /\ Current'.pc = sched.pc
                            /\ Current'.prefetch = sched.prefetch
         /\ Arrives = {} /\ Stage' # "Empty" =>
              /\ Current'.meta = Current.meta /\ Current'.pc = Current.pc
              /\ Current'.prefetch = Current.prefetch
         /\ ~Leaves(Fire) => Previous'.meta = Previous.meta /\ Previous'.pc = Previous.pc
         /\ Leaves(Fire) => Previous'.meta = Current.meta /\ Previous'.pc = Current.pc
<1>1. BranchCycle(Arrives, Fire, ScheduleFire, MetaValid)
  BY DEF Next, Cycle
<1>2. /\ Registers /\ HeldInTable /\ EntryInv
  BY DEF Safe, Inv, SpeculationInv
<1>3. rd' = (IF Leaves(Fire) THEN 1 - rd ELSE rd) /\ rd \in 0 .. 1
  BY <1>1, <1>2 DEF BranchCycle, Registers
<1>4. /\ table'[1 - rd].status = "Empty"
      /\ table'[rd].status = IF Arrives # {} THEN "Stored" ELSE NextEntryStatus(Fire)
  BY <1>1, <1>2, TableNext
<1>5. NextEntryStatus(Fire) = "Empty" <=> Stage = "Empty" \/ Leaves(Fire)
  BY <1>2, Emptied DEF Stage
<1>6. Leaves(Fire) => Arrives = {} /\ Stage # "Empty"
  BY When DEF Leaves, BhDone, PredictMiss, Stage
<1>7. Arrives # {} => rd = wr /\ Arrives = {sched.pc}
  BY <1>2, When DEF HeldInTable, Stage
<1> DEFINE stepped == [table EXCEPT ![rd].status = NextEntryStatus(Fire)]
           stored == [status |-> "Stored", meta |-> Edited(1, Arrives),
                      pc |-> sched.pc, prefetch |-> sched.prefetch]
<1>8. table' = IF Arrives = {} THEN stepped ELSE [stepped EXCEPT ![wr] = stored]
  BY <1>1 DEF BranchCycle
<1>9. /\ DOMAIN stepped = 0 .. 1
      /\ \A i \in 0 .. 1 :
           /\ DOMAIN stepped[i] = {"status", "meta", "pc", "prefetch"}
           /\ stepped[i].meta = table[i].meta /\ stepped[i].pc = table[i].pc
           /\ stepped[i].prefetch = table[i].prefetch
  BY <1>2, <1>3 DEF Registers, EntryInv
<1>10. /\ DOMAIN stored = {"status", "meta", "pc", "prefetch"}
       /\ stored.pc = sched.pc /\ stored.prefetch = sched.prefetch
       /\ Arrives # {} => stored.meta = sched.pc
  BY <1>7 DEF Edited
<1> HIDE DEF stepped, stored
<1>11. CASE Arrives = {}
  <2>1. /\ \A i \in 0 .. 1 : DOMAIN table'[i] = {"status", "meta", "pc", "prefetch"}
        /\ \A i \in 0 .. 1 : table'[i].meta = table[i].meta /\ table'[i].pc = table[i].pc
                             /\ table'[i].prefetch = table[i].prefetch
    BY <1>8, <1>9, <1>11
  <2>2. 1 - rd \in 0 .. 1 /\ 1 - (1 - rd) = rd
    BY <1>3
  <2>3. CASE Leaves(Fire)
    <3>1. rd' = 1 - rd
      BY <1>3, <2>3
    <3>2. Current' = table'[1 - rd] /\ Previous' = table'[rd]
      BY <2>2, <3>1 DEF Current, Previous
    <3>3. Stage' = "Empty" /\ NextEntryStatus(Fire) = "Empty"
      BY <1>4, <1>5, <2>3, <3>2 DEF Stage
    <3> QED
      BY <1>3, <1>11, <2>1, <2>3, <3>2, <3>3 DEF Current
  <2>4. CASE ~Leaves(Fire)
    <3>1. rd' = rd
      BY <1>3, <2>4
    <3>2. Current' = table'[rd] /\ Previous' = table'[1 - rd]
      BY <3>1 DEF Current, Previous
    <3>3. Stage' = NextEntryStatus(Fire)
      BY <1>4, <1>11, <3>2 DEF Stage
    <3> QED
      BY <1>3, <1>11, <2>1, <2>2, <2>4, <3>2, <3>3 DEF Current, Previous
  <2> QED
    BY <2>3, <2>4
<1>12. CASE Arrives # {}
  <2>1. rd' = rd /\ ~Leaves(Fire) /\ wr = rd
    BY <1>3, <1>6, <1>7, <1>12
  <2>2. Current' = table'[rd] /\ Previous' = table'[1 - rd]
    BY <2>1 DEF Current, Previous
  <2>3. table'[rd] = stored /\ table'[1 - rd] = stepped[1 - rd]
    BY <1>3, <1>8, <1>9, <1>12, <2>1
  <2>4. \A i \in 0 .. 1 : DOMAIN table'[i] = {"status", "meta", "pc", "prefetch"}
    BY <1>3, <1>8, <1>9, <1>10, <1>12, <2>1
  <2>5. Stage' = "Stored"
    BY <1>4, <1>12, <2>2 DEF Stage
  <2> QED
    BY <1>3, <1>9, <1>10, <1>12, <2>1, <2>2, <2>3, <2>4, <2>5 DEF Previous
<1> QED
  BY <1>11, <1>12

\* The stages of an entry.
LEMMA StageNext ==
  ASSUME Safe, Next
  PROVE  /\ Stage = "Empty" => Stage' = IF Arrives # {} THEN "Stored" ELSE "Empty"
         /\ Stage = "Stored" =>
              Stage' = IF sched.prefetch THEN "WaitExec"
                       ELSE IF MayDiverge THEN "StatusWrite" ELSE "CurrSubmit"
         /\ Stage = "WaitExec" =>
              Stage' = IF status.has_pending_eblock THEN "WaitExec" ELSE "PrevSubmit"
         /\ Stage = "PrevSubmit" => Stage' = "PrevWait"
         /\ Stage = "PrevWait" => Stage' = IF state = "Idle" THEN "PcCheck" ELSE "PrevWait"
         /\ Stage = "PcCheck" =>
              Stage' = IF PredictMiss THEN "Empty"
                       ELSE IF MayDiverge THEN "StatusWrite" ELSE "CurrSubmit"
         /\ Stage = "CurrSubmit" => Stage' = "CurrWait"
         /\ Stage = "CurrWait" => Stage' = IF state = "Idle" THEN "StatusWrite" ELSE "CurrWait"
         /\ Stage = "StatusWrite" => Stage' = "Done"
         /\ Stage = "Done" => Stage' = IF Fire THEN "Empty" ELSE "Done"
<1>1. EntryInv /\ ControlInv
  BY DEF Safe, SpeculationInv
<1>2. Stage # "Empty" =>
        /\ Arrives = {} /\ Held /\ (StackReady <=> state = "Idle")
        /\ Resolve(Current) = IF MayDiverge THEN "StatusWrite" ELSE "CurrSubmit"
        /\ Current.prefetch = sched.prefetch
  <2> SUFFICES ASSUME Stage # "Empty"
               PROVE  /\ Arrives = {} /\ Held /\ (StackReady <=> state = "Idle")
                      /\ Resolve(Current) = IF MayDiverge THEN "StatusWrite" ELSE "CurrSubmit"
                      /\ Current.prefetch = sched.prefetch
    OBVIOUS
  <2>1. Arrives = {} /\ Held /\ ~add_fire
    BY When
  <2>2. StackReady <=> state = "Idle"
    BY <2>1 DEF StackReady, UpdateReady, InitRequest
  <2> QED
    BY <1>1, <2>1, <2>2 DEF EntryInv, Resolve, Diverges, MayDiverge
<1>3. Stage \in {"PrevSubmit", "CurrSubmit"} => state = "Idle"
  BY <1>1, <1>2 DEF ControlInv
<1>4. Stage' = IF Arrives # {} THEN "Stored" ELSE NextEntryStatus(Fire)
  BY EntryNext
<1>5. Stage = Current.status
  BY DEF Stage
<1> HIDE DEF Stage
<1> QED
  BY <1>2, <1>3, <1>4, <1>5, Zenon DEF NextEntryStatus, BranchExecuted


\* What is scheduled and held after a clock.
LEMMA HoldNext ==
  ASSUME Safe, Next
  PROVE  /\ code' = code
         /\ ScheduleFire => Held' /\ sched' = Scheduled
         /\ ~ScheduleFire => sched' = sched
         /\ Fire \/ PredictMiss => ~Held'
         /\ ~ScheduleFire /\ ~Fire /\ ~PredictMiss => (Held' <=> Held)
         /\ ~Held => meta_state' \in {"Ready", "ReqVal"}
<1>1. Registers /\ HeldInTable
  BY DEF Safe, Inv
<1>2. PICK ar_ready \in BOOLEAN, r_valid \in BOOLEAN : MetaFetch(ScheduleFire, Fire, ar_ready, r_valid)
  BY DEF Next, Cycle, FetchCycle
<1>3. code' = code /\ sched' = IF ScheduleFire THEN Scheduled ELSE sched
  BY DEF Next, Cycle, BranchCycle
<1>4. /\ meta_state' \in {"Ready", "ReqVal", "WaitResp", "HoldData"}
      /\ meta_state \in {"Ready", "ReqVal", "WaitResp", "HoldData"}
      /\ meta_state = "HoldData" => (meta_state' = "HoldData" <=> ~Fire /\ ~PredictMiss)
      /\ meta_state = "HoldData" /\ meta_state' # "HoldData" => meta_state' = "Ready"
      /\ meta_state = "Ready" => meta_state' = IF ScheduleFire THEN "ReqVal" ELSE "Ready"
      /\ meta_state \in {"ReqVal", "WaitResp"} => meta_state' # "Ready"
  BY <1>1, <1>2, MetaNext DEF Registers
<1>5. /\ PredictMiss => meta_state = "HoldData" /\ ~Fire
      /\ Fire => meta_state = "HoldData"
      /\ ScheduleFire => meta_state = "Ready"
  BY <1>1, Moments
<1> QED
  BY <1>3, <1>4, <1>5 DEF Held

\* The registers of the schedule stage after a clock.
LEMMA StatusNext ==
  ASSUME Safe, Next
  PROVE  /\ add_fire' => ~cta_valid /\ ~add_fire
         /\ cta_valid' = ((cta_valid /\ ~PopCta) \/ add_fire)
         /\ ~ScheduleFire => live' \subseteq live
         /\ status'.ucd = IF PopCta \/ Stage = "PcCheck" THEN FALSE
                          ELSE IF Stage = "StatusWrite" /\ MayDiverge THEN TRUE ELSE status.ucd
         /\ ~PopCta => status'.predict_pc =
              IF Stage = "StatusWrite" /\ MayDiverge THEN code[sched.pc].target
              ELSE status.predict_pc
         /\ status'.is_return = IF PopCta THEN FALSE
                                ELSE IF Stage = "StatusWrite" /\ Returns THEN TRUE
                                ELSE status.is_return
         /\ status'.has_pending_eblock = (brt # {})
         /\ status'.eblock_in_flight = (live # {})
<1>1. PICK start \in BOOLEAN, commit \in Commits :
        CtaCycle(start, ScheduleFire, commit, IF PredictMiss THEN {sched.id} ELSE {},
                 StatusEdit, brt # {})
  BY DEF Next, Cycle
<1>2. /\ add_fire' = (start /\ DispatchReady /\ ~add_fire)
      /\ cta_valid' = ((cta_valid /\ ~PopCta) \/ add_fire)
      /\ LiveUpdate(ScheduleFire, commit, IF PredictMiss THEN {sched.id} ELSE {})
      /\ StatusUpdate(StatusEdit, brt # {})
  BY <1>1 DEF CtaCycle
<1>3. /\ status'.ucd = IF PopCta THEN FALSE ELSE Edited(status.ucd, StatusEdit.ucd)
      /\ status'.predict_pc = IF PopCta THEN EndPC ELSE Edited(status.predict_pc, StatusEdit.predict_pc)
      /\ status'.is_return = IF PopCta THEN FALSE ELSE Edited(status.is_return, StatusEdit.is_return)
      /\ status'.has_pending_eblock = (brt # {})
      /\ status'.eblock_in_flight = (live # {})
  BY <1>2 DEF StatusUpdate
<1>4. Stage = "StatusWrite" =>
        /\ Diverges(Current) <=> MayDiverge
        /\ code[Current.meta] = code[sched.pc]
  BY DEF Safe, SpeculationInv, EntryInv, Diverges, MayDiverge
<1>5. /\ StatusEdit.ucd = IF Stage = "PcCheck" THEN {FALSE}
                          ELSE IF Stage = "StatusWrite" /\ MayDiverge THEN {TRUE} ELSE {}
      /\ StatusEdit.predict_pc = IF Stage = "StatusWrite" /\ MayDiverge
                                 THEN {code[sched.pc].target} ELSE {}
      /\ StatusEdit.is_return = IF Stage = "StatusWrite" /\ Returns THEN {TRUE} ELSE {}
  BY <1>4 DEF StatusEdit, Stage, Returns
<1>6. /\ \A x, y : Edited(x, {y}) = y
      /\ \A x : Edited(x, {}) = x
  BY DEF Edited
<1>7. Edited(status.ucd, StatusEdit.ucd) =
        IF Stage = "PcCheck" THEN FALSE
        ELSE IF Stage = "StatusWrite" /\ MayDiverge THEN TRUE ELSE status.ucd
  BY <1>5, <1>6, Zenon
<1>8. Edited(status.is_return, StatusEdit.is_return) =
        IF Stage = "StatusWrite" /\ Returns THEN TRUE ELSE status.is_return
  BY <1>5, <1>6, Zenon
<1>9. Edited(status.predict_pc, StatusEdit.predict_pc) =
        IF Stage = "StatusWrite" /\ MayDiverge THEN code[sched.pc].target ELSE status.predict_pc
  <2>1. CASE Stage = "StatusWrite" /\ MayDiverge
    <3>1. StatusEdit.predict_pc = {code[sched.pc].target}
      BY <1>5, <2>1
    <3>2. \A x, y : Edited(x, {y}) = y
      BY <1>6
    <3>3. Edited(status.predict_pc, StatusEdit.predict_pc) = code[sched.pc].target
      BY <3>1, <3>2, Zenon
    <3> QED
      BY <2>1, <3>3
  <2>2. CASE ~(Stage = "StatusWrite" /\ MayDiverge)
    <3>1. StatusEdit.predict_pc = {}
      BY <1>5, <2>2
    <3> QED
      BY <1>6, <2>2, <3>1
  <2> QED
    BY <2>1, <2>2
<1>10. status'.ucd = IF PopCta \/ Stage = "PcCheck" THEN FALSE
                     ELSE IF Stage = "StatusWrite" /\ MayDiverge THEN TRUE ELSE status.ucd
  BY <1>3, <1>7, Zenon
<1>11. status'.is_return = IF PopCta THEN FALSE
                           ELSE IF Stage = "StatusWrite" /\ Returns THEN TRUE
                           ELSE status.is_return
  BY <1>3, <1>8, Zenon
<1>12. ~PopCta => status'.predict_pc =
         IF Stage = "StatusWrite" /\ MayDiverge THEN code[sched.pc].target
         ELSE status.predict_pc
  BY <1>3, <1>9
<1>13. ~ScheduleFire => live' \subseteq live
  BY <1>2 DEF LiveUpdate
<1>14. add_fire' => ~cta_valid /\ ~add_fire
  BY <1>2 DEF DispatchReady
<1> QED
  BY <1>2, <1>3, <1>10, <1>11, <1>12, <1>13, <1>14

\* The threads of the block that is fired: all it was scheduled for.
LEMMA FiredMask ==
  ASSUME Safe, Fire
  PROVE  /\ Fired.id = sched.id /\ Fired.pc = sched.pc /\ Fired.mask = sched.mask
         /\ MayTake = IF MayDiverge THEN sched.mask ELSE {}
<1>1. Stage = "Done" /\ Held
  BY When
<1>2. EntryInv /\ DivergeInv
  BY DEF Safe, SpeculationInv
<1>3. /\ Current.prefetch = sched.prefetch /\ (Diverges(Current) <=> MayDiverge)
      /\ sched.prefetch => ~MayDiverge
  BY <1>1, <1>2 DEF EntryInv, DivergeInv, Diverges, MayDiverge
<1>4. RealActiveMask = sched.mask
  BY <1>3 DEF RealActiveMask
<1> QED
  BY <1>4 DEF Fired, MayTake, MayDiverge

\* The back end and the threads after a clock.
LEMMA BackNext ==
  ASSUME Safe, Next
  PROVE  /\ ~Fire /\ phase = "idle" => phase' = "idle" /\ preds' = preds
         /\ Fire => phase' = "pending"
         /\ DOMAIN preds' = 0 .. 1
         /\ phase # "idle" /\ phase' = "idle" =>
              preds' = [preds EXCEPT ![PredReg[ex.pc]] = (@ \ ex.mask) \cup ex.taken]
         /\ ~Fire => ex' = ex
         /\ Fire => \E taken :
              /\ taken \subseteq IF MayDiverge THEN sched.mask ELSE {}
              /\ ex'.id = sched.id /\ ex'.pc = sched.pc /\ ex'.mask = sched.mask
              /\ ex'.taken = taken
              /\ tpc' = [t \in Thread |-> IF t \in sched.mask
                           THEN Successor(code[sched.pc], sched.pc, t \in taken) ELSE tpc[t]]
         /\ inserting' = IF Fire THEN {sched.id} ELSE {}
         /\ brt = {} /\ inserting = {} => brt' = {}
         /\ phase # "idle" /\ ex.id \in inserting \cup brt => ex.id \in brt'
         /\ ~Fire /\ ~add_fire => tpc' = tpc
         /\ ~add_fire => launched' = IF PopCta THEN {} ELSE launched
         /\ add_fire => \E threads \in 1 .. NumThreads :
              /\ launched' = 0 .. threads - 1
              /\ tpc' = [t \in Thread |-> IF t < threads THEN 1 ELSE EndPC]
              /\ SimtCycle({[pc |-> 1, threads |-> threads]}, StackRequest)
         /\ ~add_fire => SimtCycle({}, StackRequest)
<1>1. PICK start \in BOOLEAN, ar_ready \in BOOLEAN, r_valid \in BOOLEAN, done \in BOOLEAN,
           commit \in Commits, threads \in IF add_fire THEN 1 .. NumThreads ELSE {1},
           taken \in SUBSET MayTake :
        Cycle(start, threads, ar_ready, r_valid, done, commit, taken)
  BY DEF Next
<1>2. BackendCycle(done, commit, taken) /\ ThreadsUpdate(threads, taken)
      /\ SimtCycle(InitRequest(threads), StackRequest)
  BY <1>1 DEF Cycle
<1>3. Fire => phase = "idle" /\ ~add_fire
  BY When
<1>4. phase \in {"idle", "pending", "programming", "running"}
  BY DEF Safe, ConfigInv, FetchRegisters
<1>5. phase' = Phases(done)
  BY <1>2 DEF BackendCycle
<1>6. preds' = IF phase = "running" /\ done
               THEN [preds EXCEPT ![PredReg[ex.pc]] = (@ \ ex.mask) \cup ex.taken] ELSE preds
  BY <1>2 DEF BackendCycle
<1>7. /\ ~Fire /\ phase = "idle" => phase' = "idle" /\ preds' = preds
      /\ Fire => phase' = "pending"
      /\ phase # "idle" /\ phase' = "idle" => phase = "running" /\ done
  BY <1>3, <1>4, <1>5, <1>6 DEF Phases
<1>8. /\ phase # "idle" /\ phase' = "idle" =>
           preds' = [preds EXCEPT ![PredReg[ex.pc]] = (@ \ ex.mask) \cup ex.taken]
      /\ DOMAIN preds' = 0 .. 1
  <2>1. DOMAIN preds = 0 .. 1
    BY DEF Safe, SpeculationInv, EntryInv
  <2> QED
    BY <1>6, <1>7, <2>1
<1>9. /\ ~Fire => ex' = ex
      /\ inserting' = IF Fire THEN {Fired.id} ELSE {}
      /\ brt' = (brt \ commit) \cup inserting
  BY <1>2 DEF BackendCycle
<1>10. Fire => \E x :
         /\ x \subseteq IF MayDiverge THEN sched.mask ELSE {}
         /\ ex'.id = sched.id /\ ex'.pc = sched.pc /\ ex'.mask = sched.mask
         /\ ex'.taken = x
         /\ tpc' = [t \in Thread |-> IF t \in sched.mask
                      THEN Successor(code[sched.pc], sched.pc, t \in x) ELSE tpc[t]]
  <2> SUFFICES ASSUME Fire
               PROVE  /\ taken \subseteq IF MayDiverge THEN sched.mask ELSE {}
                      /\ ex'.id = sched.id /\ ex'.pc = sched.pc /\ ex'.mask = sched.mask
                      /\ ex'.taken = taken
                      /\ tpc' = [t \in Thread |-> IF t \in sched.mask
                                   THEN Successor(code[sched.pc], sched.pc, t \in taken)
                                   ELSE tpc[t]]
    OBVIOUS
  <2>1. /\ Fired.id = sched.id /\ Fired.pc = sched.pc /\ Fired.mask = sched.mask
        /\ MayTake = IF MayDiverge THEN sched.mask ELSE {}
    BY FiredMask
  <2>2. taken \subseteq IF MayDiverge THEN sched.mask ELSE {}
    BY <2>1
  <2>3. ex' = [id |-> Fired.id, pc |-> Fired.pc, buffer |-> Fired.buffer,
               mask |-> Fired.mask, taken |-> taken]
    BY <1>2 DEF BackendCycle
  <2>4. ~add_fire
    BY <1>3
  <2>5. tpc' = [t \in Thread |-> IF t \in Fired.mask
                  THEN Successor(code[Fired.pc], Fired.pc, t \in taken) ELSE tpc[t]]
    BY <1>2, <2>4 DEF ThreadsUpdate
  <2> QED
    BY <2>1, <2>2, <2>3, <2>5
<1>11. inserting' = IF Fire THEN {sched.id} ELSE {}
  BY <1>9, FiredMask
<1>12. /\ brt = {} /\ inserting = {} => brt' = {}
       /\ phase # "idle" /\ ex.id \in inserting \cup brt => ex.id \in brt'
  <2>1. phase # "idle" => ex.id \notin commit
    BY DEF Commits, Committable
  <2> QED
    BY <1>9, <2>1
<1>13. /\ ~Fire /\ ~add_fire => tpc' = tpc
       /\ ~add_fire => launched' = IF PopCta THEN {} ELSE launched
       /\ ~add_fire => SimtCycle({}, StackRequest)
  BY <1>2 DEF ThreadsUpdate, InitRequest
<1>14. add_fire => \E n \in 1 .. NumThreads :
         /\ launched' = 0 .. n - 1
         /\ tpc' = [t \in Thread |-> IF t < n THEN 1 ELSE EndPC]
         /\ SimtCycle({[pc |-> 1, threads |-> n]}, StackRequest)
  <2> SUFFICES ASSUME add_fire
               PROVE  /\ threads \in 1 .. NumThreads
                      /\ launched' = 0 .. threads - 1
                      /\ tpc' = [t \in Thread |-> IF t < threads THEN 1 ELSE EndPC]
                      /\ SimtCycle({[pc |-> 1, threads |-> threads]}, StackRequest)
    OBVIOUS
  <2>1. threads \in 1 .. NumThreads
    BY <1>1
  <2> QED
    BY <1>2, <2>1 DEF ThreadsUpdate, InitRequest
<1> QED
  BY <1>7, <1>8, <1>9, <1>10, <1>11, <1>12, <1>13, <1>14


\* What is on the stack port: the outcome of the branch on top, or the update of the block
\* on top, whose threads all go one way.
LEMMA RequestIs ==
  ASSUME Safe
  PROVE  /\ Stage = "PrevSubmit" =>
              StackRequest = {StackUpdateFor(code[top.pc], top.pc, top.mask, ex.taken)}
         /\ Stage = "CurrSubmit" =>
              StackRequest = {StackUpdateFor(code[top.pc], top.pc, top.mask, {})}
         /\ Stage \notin {"PrevSubmit", "CurrSubmit"} => StackRequest = {}
<1>1. EntryInv /\ DivergeInv /\ RestInv /\ BehindInv /\ BackInv
  BY DEF Safe, SpeculationInv
<1>2. Stage # "Empty" => Held
  BY When
<1>3. ASSUME Stage = "PrevSubmit"
      PROVE  StackRequest = {StackUpdateFor(code[top.pc], top.pc, top.mask, ex.taken)}
  <2>1. Behind /\ sched.mask = top.mask /\ phase = "idle"
    BY <1>1, <1>2, <1>3 DEF DivergeInv, RestInv, BackInv, Submits, Behind, Waits
  <2>2. /\ top.pc = ex.pc /\ top.mask = ex.mask /\ Previous.meta = ex.pc /\ Previous.pc = ex.pc
        /\ preds[PredReg[ex.pc]] \cap ex.mask = ex.taken
    BY <1>1, <2>1 DEF BehindInv
  <2>3. TakenBy(Previous) = ex.taken
    BY <2>1, <2>2 DEF TakenBy
  <2> QED
    BY <1>3, <2>1, <2>2, <2>3 DEF StackRequest, Stage
<1>4. ASSUME Stage = "CurrSubmit"
      PROVE  StackRequest = {StackUpdateFor(code[top.pc], top.pc, top.mask, {})}
  <2>1. sched.mask = top.mask /\ sched.pc = top.pc
    BY <1>1, <1>2, <1>4 DEF RestInv, Submits, Behind, Waits
  <2> QED
    BY <1>1, <1>4, <2>1 DEF StackRequest, Stage, EntryInv
<1>5. Stage \notin {"PrevSubmit", "CurrSubmit"} => StackRequest = {}
  BY DEF StackRequest, Stage
<1> QED
  BY <1>3, <1>4, <1>5

\* The stack after a clock.
LEMMA StackNext ==
  ASSUME Safe, Next
  PROVE  /\ state = "Idle" => stack' = stack /\ (stack # <<>> => top' = top)
         /\ state = "Idle" /\ ~add_fire /\ Stage \notin {"PrevSubmit", "CurrSubmit"} =>
              UNCHANGED simt_vars
         /\ Stage \in {"PrevSubmit", "CurrSubmit"} => state = "Idle" /\ state' = "ReadTop"
         /\ add_fire => state' = "InitPush"
         /\ state = "InitPush" => state' = "FinalRead"
         /\ state = "FinalRead" => /\ stack' = stack /\ state' \in {"Idle", "FinalRead"}
                                   /\ out_valid => state' = "Idle" /\ top' = top
         /\ state # "Idle" => SimtCycle({}, {})
         /\ state' = "Idle" /\ state \in {"Idle", "FinalRead"} => (out_valid' <=> stack' # <<>>)
<1>1. ControlInv
  BY DEF Safe, SpeculationInv
<1>2. /\ out_valid => stack # <<>> /\ top = Last(stack)
      /\ state = "Idle" => (out_valid <=> stack # <<>>)
      /\ out_valid \in BOOLEAN
  BY <1>1, StackHas DEF ControlInv
<1>3. Stage # "Empty" => Held /\ ~add_fire
  BY When
<1>4. Stage \in {"PrevSubmit", "CurrSubmit"} => state = "Idle" /\ StackRequest # {} /\ ~add_fire
  BY <1>1, <1>3, RequestIs DEF ControlInv
<1>5. PICK init : /\ SimtCycle(init, StackRequest) /\ (add_fire <=> init # {})
                  /\ (~add_fire => init = {})
  <2>1. CASE add_fire
    BY <2>1, BackNext
  <2>2. CASE ~add_fire
    BY <2>2, BackNext
  <2> QED
    BY <2>1, <2>2
<1>6. add_fire => state = "Idle" /\ StackRequest = {}
  BY When, RequestIs
<1>7. CASE state = "Idle"
  <2>1. /\ stack' = stack /\ out_valid' = (stack # <<>>) /\ plan' = plan
        /\ top' = IF stack # <<>> THEN Last(stack) ELSE top
    BY <1>5, <1>7 DEF SimtCycle, StackUpdate, Reading
  <2>2. add_fire => state' = "InitPush"
    BY <1>5, <1>7 DEF SimtCycle, NextState, InitFire
  <2>3. Stage \in {"PrevSubmit", "CurrSubmit"} => state' = "ReadTop"
    BY <1>4, <1>5, <1>7 DEF SimtCycle, NextState, InitFire, UpdateFire, UpdateReady
  <2>4. ASSUME ~add_fire, Stage \notin {"PrevSubmit", "CurrSubmit"}
        PROVE  UNCHANGED simt_vars
    <3>1. StackRequest = {} /\ init = {}
      BY <1>5, <2>4, RequestIs
    <3>2. state' = "Idle" /\ init_q' = init_q /\ update' = update
      BY <1>5, <1>7, <3>1 DEF SimtCycle, NextState, InitFire, UpdateFire
    <3>3. top' = top
      BY <1>2, <1>7, <2>1
    <3>4. out_valid' = out_valid
      BY <1>2, <1>7, <2>1
    <3> QED
      BY <1>7, <2>1, <3>2, <3>3, <3>4 DEF simt_vars
  <2>5. stack # <<>> => top' = top
    BY <1>2, <1>7, <2>1
  <2> QED
    BY <1>4, <1>7, <2>1, <2>2, <2>3, <2>4, <2>5
<1>8. CASE state # "Idle"
  <2>1. init = {} /\ StackRequest = {}
    BY <1>4, <1>5, <1>6, <1>8, RequestIs
  <2>2. SimtCycle({}, {})
    BY <1>5, <2>1
  <2>3. state = "InitPush" => state' = "FinalRead"
    BY <2>2 DEF SimtCycle, NextState
  <2>4. state = "FinalRead" =>
          /\ stack' = stack /\ out_valid' = (stack # <<>>)
          /\ top' = IF stack # <<>> THEN Last(stack) ELSE top
          /\ state' = IF out_valid \/ stack = <<>> THEN "Idle" ELSE "FinalRead"
    BY <2>2 DEF SimtCycle, NextState, StackUpdate, Reading
  <2> QED
    BY <1>2, <1>4, <1>6, <1>8, <2>2, <2>3, <2>4
<1> QED
  BY <1>7, <1>8

\* Standing, without a block on its way to be fired.
LEMMA StandingIs ==
  /\ ~Ahead /\ ~Behind => \A t \in Thread : Standing[t] = tpc[t]
  /\ ~Ahead => \A t \in Thread : Standing[t] = IF Behind /\ t \in ex.mask THEN ex.pc ELSE tpc[t]
BY DEF Standing

\* A clock in which no update is submitted and no CTA comes or goes leaves every thread where
\* the updates have brought it.
LEMMA StandingKept ==
  ASSUME Safe, Next, ~add_fire, Stage \notin {"PrevSubmit", "CurrSubmit"}
  PROVE  Standing' = Standing
<1>1. DivergeInv /\ RestInv /\ OnPathInv
  BY DEF Safe, SpeculationInv
<1> DEFINE Stand(ahead, behind, s, e, p) ==
             [t \in Thread |-> IF ahead /\ t \in s.mask THEN Successor(code[s.pc], s.pc, FALSE)
                               ELSE IF behind /\ t \in e.mask THEN e.pc ELSE p[t]]
<1>2. /\ Standing = Stand(Ahead, Behind, sched, ex, tpc)
      /\ Standing' = Stand(Ahead', Behind', sched', ex', tpc')
  BY HoldNext DEF Standing
<1> HIDE DEF Stand
<1>3. Stage \in EntryStatus /\ (Stage # "Empty" => Held /\ ~PopCta /\ ~ScheduleFire)
  BY When
<1>4. Stage # "StatusWrite" /\ Stage # "PcCheck" /\ ~PopCta => status'.ucd = status.ucd
  BY StatusNext
<1>5. ~ScheduleFire => sched' = sched /\ (MayDiverge' <=> MayDiverge)
  BY HoldNext DEF MayDiverge
<1>6. CASE Fire
  <2>1. Stage = "Done" /\ Held /\ Stage' = "Empty" /\ ~ScheduleFire /\ status'.ucd = status.ucd
    BY <1>3, <1>4, <1>6, When, StageNext
  <2>2. PICK taken :
          /\ taken \subseteq IF MayDiverge THEN sched.mask ELSE {}
          /\ ex'.pc = sched.pc /\ ex'.mask = sched.mask
          /\ tpc' = [t \in Thread |-> IF t \in sched.mask
                       THEN Successor(code[sched.pc], sched.pc, t \in taken) ELSE tpc[t]]
    BY <1>6, BackNext
  <2>3. ~Ahead' /\ (Behind' <=> MayDiverge) /\ (Ahead <=> ~MayDiverge) /\ ~Behind
    BY <1>1, <2>1 DEF Ahead, Behind, DivergeInv, Waits
  <2>4. CASE MayDiverge
    <3>1. \A t \in sched.mask : tpc[t] = sched.pc
      BY <1>1, <2>1 DEF OnPathInv
    <3>2. Standing = [t \in Thread |-> tpc[t]]
      BY <2>3, <2>4 DEF Standing
    <3>3. Standing' = [t \in Thread |-> IF t \in sched.mask THEN sched.pc ELSE tpc'[t]]
      BY <1>2, <2>2, <2>3, <2>4 DEF Stand
    <3>4. \A t \in Thread : t \notin sched.mask => tpc'[t] = tpc[t]
      BY <2>2
    <3> QED
      BY <3>1, <3>2, <3>3, <3>4
  <2>5. CASE ~MayDiverge
    <3>1. taken = {}
      BY <2>2, <2>5
    <3>2. Standing = [t \in Thread |-> IF t \in sched.mask
                        THEN Successor(code[sched.pc], sched.pc, FALSE) ELSE tpc[t]]
      BY <2>3, <2>5 DEF Standing
    <3>3. Standing' = [t \in Thread |-> tpc'[t]]
      BY <1>2, <2>3, <2>5 DEF Stand
    <3>4. \A t : t \in taken <=> FALSE
      BY <3>1
    <3>5. tpc' = [t \in Thread |-> IF t \in sched.mask
                    THEN Successor(code[sched.pc], sched.pc, FALSE) ELSE tpc[t]]
      BY <2>2, <2>5, <3>4 DEF Successor, MayDiverge
    <3> QED
      BY <3>2, <3>3, <3>5
  <2> QED
    BY <2>4, <2>5
<1>7. CASE ~Fire
  <2>1. ex' = ex /\ tpc' = tpc
    BY <1>7, BackNext
  <2>2. CASE Stage = "Empty"
    <3>1. ~Ahead /\ ~Ahead' /\ (Behind' <=> Behind)
      <4>1. Stage' \in {"Empty", "Stored"}
        BY <2>2, StageNext
      <4>2. PopCta => ~status.ucd /\ ~status'.ucd
        BY When, StatusNext
      <4> QED
        BY <1>4, <2>2, <4>1, <4>2 DEF Ahead, Behind, Waits
    <3> QED
      BY <1>2, <2>1, <3>1 DEF Stand
  <2>3. CASE Stage # "Empty"
    <3>1. sched' = sched /\ (MayDiverge' <=> MayDiverge)
      BY <1>3, <1>5, <2>3
    <3>2. (Ahead' <=> Ahead) /\ (Behind' <=> Behind)
      <4>1. CASE Stage = "Stored"
        <5>1. Stage' \in {"WaitExec", "StatusWrite", "CurrSubmit"}
          BY <4>1, StageNext
        <5>2. Stage' # "WaitExec" => ~status.ucd
          BY <1>1, <1>3, <4>1, StageNext DEF DivergeInv
        <5>3. Stage' = "StatusWrite" => MayDiverge
          BY <4>1, StageNext
        <5> QED
          BY <1>3, <1>4, <3>1, <4>1, <5>1, <5>2, <5>3 DEF Ahead, Behind, Waits
      <4>2. CASE Stage = "WaitExec"
        <5>1. Stage' \in {"WaitExec", "PrevSubmit"}
          BY <4>2, StageNext
        <5> QED
          BY <1>3, <1>4, <4>2, <5>1 DEF Ahead, Behind, Waits
      <4>3. CASE Stage = "PrevWait"
        <5>1. Stage' \in {"PrevWait", "PcCheck"}
          BY <4>3, StageNext
        <5> QED
          BY <4>3, <5>1 DEF Ahead, Behind, Waits
      <4>4. CASE Stage = "PcCheck"
        <5>1. Stage' \in {"Empty", "StatusWrite", "CurrSubmit"} /\ ~status'.ucd
          BY <4>4, StageNext, StatusNext
        <5>2. Stage' = "StatusWrite" => MayDiverge
          BY <4>4, StageNext
        <5> QED
          BY <3>1, <4>4, <5>1, <5>2 DEF Ahead, Behind, Waits
      <4>5. CASE Stage = "CurrWait"
        <5>1. Stage' \in {"CurrWait", "StatusWrite"}
          BY <4>5, StageNext
        <5> QED
          BY <3>1, <4>5, <5>1 DEF Ahead, Behind, Waits
      <4>6. CASE Stage \in {"StatusWrite", "Done"}
        <5>1. Stage' = "Done"
          BY <1>7, <4>6, StageNext
        <5> QED
          BY <3>1, <4>6, <5>1 DEF Ahead, Behind, Waits
      <4> QED
        BY <1>3, <2>3, <4>1, <4>2, <4>3, <4>4, <4>5, <4>6 DEF EntryStatus
    <3> QED
      BY <1>2, <2>1, <3>1, <3>2 DEF Stand
  <2> QED
    BY <2>2, <2>3
<1> QED
  BY <1>6, <1>7


\* A clock of the front end is a step of SimtKernel, or none.
LEMMA StackClock ==
  ASSUME Safe, Next
  PROVE  /\ SK!Next \/ UNCHANGED SK!vars
         /\ state # "Idle" => SK!Working
<1>1. /\ EntryInv /\ LifeInv /\ ControlInv /\ DivergeInv /\ RestInv /\ BehindInv
  BY DEF Safe, SpeculationInv
<1>2. code' = code
  BY HoldNext
<1>3. state # "Idle" => SK!Working
  <2> SUFFICES ASSUME state # "Idle" PROVE SK!Working
    OBVIOUS
  <2>1. ~add_fire /\ ~PopCta /\ Stage \notin {"PrevSubmit", "CurrSubmit"}
    BY When, StackNext
  <2>2. launched' = launched /\ Standing' = Standing
    BY <2>1, BackNext, StandingKept
  <2>3. SK!SimtCycle({}, {})
    BY StackNext, SameClock
  <2> QED
    BY <1>2, <2>2, <2>3 DEF SK!Working
<1>4. ASSUME add_fire PROVE SK!Launch
  <2>1. PICK threads \in 1 .. NumThreads :
          /\ launched' = 0 .. threads - 1
          /\ tpc' = [t \in Thread |-> IF t < threads THEN 1 ELSE EndPC]
          /\ SimtCycle({[pc |-> 1, threads |-> threads]}, StackRequest)
    BY <1>4, BackNext
  <2>2. /\ Stage = "Empty" /\ launched = {} /\ state = "Idle" /\ ~status.ucd /\ ~Held
        /\ ~PopCta /\ ~ScheduleFire
    BY <1>4, When
  <2>3. StackRequest = {}
    BY <2>2, RequestIs
  <2>4. Stage' = "Empty" /\ ~status'.ucd
    BY <2>2, StageNext, StatusNext, When
  <2>5. Standing' = [t \in Thread |-> tpc'[t]]
    BY <2>4 DEF Standing, Ahead, Behind
  <2>6. Standing' = [t \in Thread |-> IF t < threads THEN 1 ELSE EndPC]
    BY <2>1, <2>5
  <2>7. SK!SimtCycle({[pc |-> 1, threads |-> threads]}, {})
    BY <2>1, <2>3, SameClock
  <2> QED
    BY <1>2, <2>1, <2>2, <2>6, <2>7, SameStack DEF SK!Launch, SK!InitReady
<1>5. ASSUME Stage \in {"PrevSubmit", "CurrSubmit"} PROVE SK!RunBlock
  <2>1. /\ state = "Idle" /\ Held /\ ~add_fire /\ ~PopCta /\ launched # {} /\ ~Fire /\ ~ScheduleFire
    BY <1>5, When, StackNext
  <2>2. stack # <<>> /\ out_valid /\ sched.mask = top.mask /\ (~Behind => sched.pc = top.pc)
    BY <1>1, <1>5, <2>1 DEF RestInv, ControlInv, Submits, Waits
  <2>3. /\ top.pc \in 1 .. NumBlocks /\ top.mask # {} /\ top.mask \subseteq Thread
    BY <2>1, <2>2, TopHas
  <2>4. launched' = launched /\ tpc' = tpc /\ SimtCycle({}, StackRequest)
    BY <2>1, BackNext
  <2>5. sched' = sched /\ (MayDiverge' <=> MayDiverge)
    BY <1>2, <2>1, HoldNext DEF MayDiverge
  <2>6. top.pc # EndPC
    BY <2>3, NumBlocksAssumption DEF EndPC
  <2>7. SK!Settled
    BY <2>1, <2>2 DEF SK!Settled, SK!TopValid
  <2>8. \E taken \in SUBSET top.mask :
          /\ code[top.pc].kind # "branch" => taken = {}
          /\ Standing' = [t \in Thread |-> IF t \in top.mask
                            THEN Successor(code[top.pc], top.pc, t \in taken) ELSE Standing[t]]
          /\ SimtCycle({}, {StackUpdateFor(code[top.pc], top.pc, top.mask, taken)})
    <3>1. CASE Stage = "PrevSubmit"
      <4>1. Behind /\ ~Ahead
        BY <1>1, <3>1 DEF DivergeInv, Behind, Ahead, Waits
      <4>2. /\ top.pc = ex.pc /\ top.mask = ex.mask /\ code[ex.pc].kind = "branch"
            /\ ex.taken \subseteq ex.mask
            /\ \A t \in ex.mask : tpc[t] = Successor(code[ex.pc], ex.pc, t \in ex.taken)
        BY <1>1, <4>1 DEF BehindInv
      <4>3. Stage' = "PrevWait"
        BY <3>1, StageNext
      <4>4. Standing' = [t \in Thread |-> tpc[t]]
        BY <2>4, <4>3 DEF Standing, Ahead, Behind, Waits
      <4>5. \A t \in Thread : Standing[t] = IF t \in top.mask THEN top.pc ELSE tpc[t]
        BY <4>1, <4>2, StandingIs
      <4>6. \A t \in Thread : tpc[t] = IF t \in top.mask
              THEN Successor(code[top.pc], top.pc, t \in ex.taken) ELSE Standing[t]
        BY <4>2, <4>5
      <4>7. Standing' = [t \in Thread |-> IF t \in top.mask
                           THEN Successor(code[top.pc], top.pc, t \in ex.taken) ELSE Standing[t]]
        BY <4>4, <4>6
      <4>8. StackRequest = {StackUpdateFor(code[top.pc], top.pc, top.mask, ex.taken)}
        BY <3>1, RequestIs
      <4> QED
        BY <2>4, <4>2, <4>7, <4>8
    <3>2. CASE Stage = "CurrSubmit"
      <4>1. ~Behind /\ ~Ahead /\ ~MayDiverge
        BY <1>1, <3>2 DEF DivergeInv, Behind, Ahead, Waits
      <4>2. top.pc = sched.pc /\ top.mask = sched.mask
        BY <2>2, <4>1
      <4>3. Stage' = "CurrWait"
        BY <3>2, StageNext
      <4>4. Ahead'
        BY <2>5, <4>1, <4>3 DEF Ahead
      <4>5. \A t \in Thread : Standing[t] = tpc[t]
        BY <4>1, StandingIs
      <4>6. Standing' = [t \in Thread |-> IF t \in sched.mask
                           THEN Successor(code[sched.pc], sched.pc, FALSE)
                           ELSE tpc[t]]
        BY <1>2, <2>4, <2>5, <4>3, <4>4 DEF Standing, Behind, Waits
      <4>7. code[top.pc].kind # "branch"
        BY <4>1, <4>2 DEF MayDiverge
      <4>10. \A t : Successor(code[top.pc], top.pc, t \in {}) =
                      Successor(code[top.pc], top.pc, FALSE)
        BY <4>7 DEF Successor
      <4>8. Standing' = [t \in Thread |-> IF t \in top.mask
                           THEN Successor(code[top.pc], top.pc, t \in {}) ELSE Standing[t]]
        BY <4>2, <4>5, <4>6, <4>10, Zenon
      <4>9. StackRequest = {StackUpdateFor(code[top.pc], top.pc, top.mask, {})}
        BY <3>2, RequestIs
      <4> QED
        BY <2>4, <4>8, <4>9
    <3> QED
      BY <1>5, <3>1, <3>2
  <2>9. PICK taken \in SUBSET top.mask :
          /\ code[top.pc].kind # "branch" => taken = {}
          /\ Standing' = [t \in Thread |-> IF t \in top.mask
                            THEN Successor(code[top.pc], top.pc, t \in taken) ELSE Standing[t]]
          /\ SK!SimtCycle({}, {StackUpdateFor(code[top.pc], top.pc, top.mask, taken)})
    BY <2>8, SameClock
  <2>10. /\ Standing' = [t \in SK!Thread |-> IF t \in top.mask
              THEN SK!Successor(code[top.pc], top.pc, t \in taken) ELSE Standing[t]]
         /\ SK!SimtCycle({}, {SK!StackUpdateFor(code[top.pc], top.pc, top.mask, taken)})
    BY <2>9, SameStack
  <2> QED
    BY <1>2, <2>1, <2>4, <2>6, <2>7, <2>9, <2>10, SameStack DEF SK!RunBlock
<1>6. ASSUME PopCta PROVE SK!Retire
  <2>1. /\ state = "Idle" /\ stack = <<>> /\ Stage = "Empty" /\ ~add_fire /\ cta_valid
    BY <1>6, When
  <2>2. launched # {} /\ launched' = {} /\ Standing' = Standing
    BY <1>1, <1>6, <2>1, BackNext, StandingKept DEF LifeInv
  <2>3. SK!SimtCycle({}, {})
    BY <2>1, BackNext, RequestIs, SameClock
  <2> QED
    BY <1>2, <2>1, <2>2, <2>3 DEF SK!Retire
<1>7. ASSUME state = "Idle", ~add_fire, ~PopCta, Stage \notin {"PrevSubmit", "CurrSubmit"}
      PROVE  UNCHANGED SK!vars
  BY <1>2, <1>7, BackNext, StandingKept, StackNext DEF SK!vars, SK!simt_vars, simt_vars
<1> QED
  BY <1>3, <1>4, <1>5, <1>6, <1>7 DEF SK!Next

\* So the stack keeps what SimtKernel keeps.
LEMMA StackKept ==
  ASSUME NumBlocks <= Depth, Safe, Next
  PROVE  StackInv'
<1>1. SK!Inv /\ SK!RegionInv /\ SK!PathInv /\ Predictable(code)
  BY DEF Safe, StackInv
<1>2. SK!Next \/ UNCHANGED SK!vars
  BY StackClock
<1>3. SK!RoomToWrite
  BY <1>1, SK!RegionsMeet, NumThreadsAssumption, NumBlocksAssumption, DepthAssumption,
     SameKernels
<1>4. SK!Inv'
  BY <1>1, <1>2, SK!InvStep, NumThreadsAssumption, NumBlocksAssumption, DepthAssumption,
     SameKernels
<1>5. SK!RegionInv'
  BY <1>1, <1>2, SK!RegionStep, NumThreadsAssumption, NumBlocksAssumption, DepthAssumption,
     SameKernels
<1>6. SK!PathInv'
  BY <1>1, <1>2, <1>3, SK!PathStep, NumThreadsAssumption, NumBlocksAssumption, DepthAssumption,
     SameKernels
<1>7. Predictable(code)'
  BY <1>1, HoldNext DEF Predictable
<1> QED
  BY <1>4, <1>5, <1>6, <1>7 DEF StackInv


-----------------------------------------------------------------------------
(* What a clock keeps. *)

\* The target of a branch is a block of the kernel.
LEMMA TargetBlock ==
  ASSUME Safe, NEW p \in 1 .. NumBlocks, code[p].kind = "branch"
  PROVE  /\ code[p].target \in 1 .. NumBlocks
         /\ code[p].target # p + 1 => code[p].reconv # p + 1
<1>1. code \in [1 .. NumBlocks -> SK!Block] /\ SK!WellNested(code)
  BY StackHas, SameStack
<1>2. /\ code[p].reconv \in 1 .. NumBlocks
      /\ code[p].target \in p + 1 .. code[p].reconv
  BY <1>1, SK!Leading, NumThreadsAssumption, NumBlocksAssumption, DepthAssumption,
     SameKernels
<1> QED
  BY <1>2, NumBlocksAssumption

\* What is scheduled is a block: what is on top, or the target of the branch on top.
LEMMA ScheduledIs ==
  ASSUME Safe, ScheduleFire
  PROVE  /\ Scheduled.mask = top.mask /\ Scheduled.prefetch = status.ucd
         /\ Scheduled.pc \in 1 .. NumBlocks
         /\ ~status.ucd => Scheduled.pc = top.pc
         /\ status.ucd => Scheduled.pc = status.predict_pc /\ code[Scheduled.pc].kind # "branch"
<1>1. BehindInv /\ Predictable(code)
  BY DEF Safe, SpeculationInv, StackInv
<1>2. Stage = "Empty" /\ out_valid /\ state \in {"Idle", "FinalRead"}
  BY When
<1>3. top.pc \in 1 .. NumBlocks
  BY <1>2, TopHas
<1>4. status.ucd => status.predict_pc = code[top.pc].target /\ code[top.pc].kind = "branch"
  BY <1>1, <1>2 DEF BehindInv, Behind, Waits
<1>5. status.ucd => code[status.predict_pc].kind # "branch" /\ status.predict_pc \in 1 .. NumBlocks
  BY <1>1, <1>3, <1>4, TargetBlock DEF Predictable
<1> QED
  BY <1>3, <1>5 DEF Scheduled

\* The entry stays that of the schedule that is held.
LEMMA EntryKept ==
  ASSUME Safe, Next
  PROVE  EntryInv'
<1>1. EntryInv
  BY DEF Safe, SpeculationInv
<1>2. \A i \in 0 .. 1 : DOMAIN table'[i] = {"status", "meta", "pc", "prefetch"}
  BY EntryNext
<1>3. DOMAIN preds' = 0 .. 1
  BY BackNext
<1>4. sched'.prefetch \in BOOLEAN /\ status'.ucd \in BOOLEAN /\ cta_valid' \in BOOLEAN
  <2>1. sched'.prefetch \in BOOLEAN
    BY <1>1, HoldNext, ScheduledIs DEF EntryInv
  <2>2. status'.ucd \in BOOLEAN
    BY <1>1, StatusNext DEF EntryInv
  <2> QED
    BY <2>1, <2>2, StatusNext
<1>5. Stage' # "Empty" =>
        Current'.meta = sched'.pc /\ Current'.pc = sched'.pc /\ Current'.prefetch = sched'.prefetch
  <2> SUFFICES ASSUME Stage' # "Empty"
               PROVE  /\ Current'.meta = sched'.pc /\ Current'.pc = sched'.pc
                      /\ Current'.prefetch = sched'.prefetch
    OBVIOUS
  <2>1. CASE Arrives # {}
    BY <2>1, EntryNext, HoldNext, When
  <2>2. CASE Arrives = {}
    <3>1. Stage # "Empty" /\ ~ScheduleFire
      BY <2>2, StageNext, When
    <3> QED
      BY <1>1, <2>2, <3>1, EntryNext, HoldNext DEF EntryInv
  <2> QED
    BY <2>1, <2>2
<1>6. Held' => sched'.pc \in 1 .. NumBlocks
  <2>1. CASE ScheduleFire
    BY <2>1, HoldNext, ScheduledIs
  <2>2. CASE ~ScheduleFire
    BY <1>1, <2>2, HoldNext DEF EntryInv
  <2> QED
    BY <2>1, <2>2
<1> QED
  BY <1>2, <1>3, <1>4, <1>5, <1>6 DEF EntryInv

\* The life of a CTA.
LEMMA LifeKept ==
  ASSUME Safe, Next
  PROVE  LifeInv'
<1>1. LifeInv /\ EntryInv /\ OnPathInv
  BY DEF Safe, SpeculationInv
<1>2. cta_valid' <=> launched' # {}
  <2>1. CASE add_fire
    <3>1. PICK threads \in 1 .. NumThreads : launched' = 0 .. threads - 1
      BY <2>1, BackNext
    <3>2. 0 \in launched'
      BY <3>1, NumThreadsAssumption
    <3> QED
      BY <2>1, <3>2, StatusNext
  <2>2. CASE ~add_fire
    BY <1>1, <2>2, StatusNext, BackNext DEF LifeInv
  <2> QED
    BY <2>1, <2>2
<1>3. add_fire' => ~cta_valid'
  BY StatusNext
<1>4. ~cta_valid' => ~Held' /\ ~status'.ucd /\ ~status'.is_return
  <2> SUFFICES ASSUME ~cta_valid' PROVE ~Held' /\ ~status'.ucd /\ ~status'.is_return
    OBVIOUS
  <2>1. ~cta_valid \/ PopCta
    BY StatusNext
  <2>2. ~Held /\ ~ScheduleFire /\ Stage = "Empty" /\ ~Fire /\ ~PredictMiss
    BY <1>1, <2>1, When DEF LifeInv
  <2>3. ~Held'
    BY <2>2, HoldNext
  <2>4. ~status.ucd
    BY <1>1, <2>1, When DEF LifeInv
  <2>5. ~PopCta => ~status.is_return
    BY <1>1, <2>1 DEF LifeInv
  <2> QED
    BY <2>2, <2>3, <2>4, <2>5, StatusNext
<1>5. \A t \in Thread \ launched' : tpc'[t] = EndPC
  <2>1. CASE add_fire
    <3>1. PICK threads \in 1 .. NumThreads :
            /\ launched' = 0 .. threads - 1
            /\ tpc' = [t \in Thread |-> IF t < threads THEN 1 ELSE EndPC]
      BY <2>1, BackNext
    <3>2. \A t \in Thread \ launched' : ~(t < threads)
      BY <3>1, NumThreadsAssumption DEF Thread
    <3> QED
      BY <3>1, <3>2
  <2>2. CASE PopCta
    <3>1. state = "Idle" /\ stack = <<>> /\ ~add_fire /\ ~Fire /\ Stage = "Empty" /\ ~status.ucd
      BY <2>2, When
    <3>2. SK!PathInv
      BY DEF Safe, StackInv
    <3>3. \A t \in Thread : Standing[t] = EndPC
      BY <3>1, <3>2, SK!EmptyAtRest, SameStack, NumThreadsAssumption, NumBlocksAssumption,
         DepthAssumption, SameKernels
    <3>4. \A t \in Thread : tpc[t] = EndPC
      BY <3>1, <3>3, StandingIs DEF Ahead, Behind
    <3> QED
      BY <3>1, <3>4, BackNext
  <2>3. CASE Fire
    <3>1. Stage = "Done" /\ Held /\ ~add_fire /\ ~PopCta
      BY <2>3, When
    <3>2. PICK taken :
            tpc' = [t \in Thread |-> IF t \in sched.mask
                      THEN Successor(code[sched.pc], sched.pc, t \in taken) ELSE tpc[t]]
      BY <2>3, BackNext
    <3>3. launched' = launched
      BY <3>1, BackNext
    <3>4. \A t \in sched.mask : tpc[t] = sched.pc
      BY <1>1, <3>1 DEF OnPathInv
    <3>5. sched.pc # EndPC
      BY <1>1, <3>1, NumBlocksAssumption DEF EntryInv, EndPC
    <3> QED
      BY <1>1, <3>2, <3>3, <3>4, <3>5 DEF LifeInv
  <2>4. CASE ~add_fire /\ ~PopCta /\ ~Fire
    BY <1>1, <2>4, BackNext DEF LifeInv
  <2> QED
    BY <2>1, <2>2, <2>3, <2>4
<1> QED
  BY <1>2, <1>3, <1>4, <1>5 DEF LifeInv

\* The controller never goes to rest without a top that is read.
LEMMA ControlKept ==
  ASSUME Safe, Next
  PROVE  ControlInv'
<1>1. ControlInv
  BY DEF Safe, SpeculationInv
<1>2. state' = "Idle" => (out_valid' <=> stack' # <<>>)
  <2> SUFFICES ASSUME state' = "Idle" PROVE out_valid' <=> stack' # <<>>
    OBVIOUS
  <2>1. state \in {"Idle", "FinalRead"}
    <3>1. CASE state = "ReadTop"
      <4>1. SK!Working /\ SK!Inv
        BY <3>1, StackClock DEF Safe, StackInv
      <4>2. state' \in {"ModifyTop", "PopStack"}
        BY <3>1, <4>1, SK!Decides, NumThreadsAssumption, NumBlocksAssumption, DepthAssumption,
           SameKernels
      <4> QED
        BY <4>2
    <3>2. CASE state \in {"ModifyTop", "PushFirst", "PushSecond", "PopStack", "InitPush"}
      <4>1. SimtCycle({}, {})
        BY <3>2, StackNext
      <4>2. state' # "Idle"
        BY <3>2, <4>1 DEF SimtCycle, NextState
      <4> QED
        BY <4>2
    <3> QED
      BY <3>1, <3>2, StackHas
  <2> QED
    BY <2>1, StackNext
<1>3. ~Held' => state' \in {"Idle", "InitPush", "FinalRead"}
  <2> SUFFICES ASSUME ~Held' PROVE state' \in {"Idle", "InitPush", "FinalRead"}
    OBVIOUS
  <2>1. CASE Fire \/ PredictMiss
    <3>1. state = "Idle" /\ Stage \in {"Done", "PcCheck"} /\ ~add_fire
      BY <2>1, When
    <3> QED
      BY <3>1, StackNext DEF simt_vars
  <2>2. CASE ~Fire /\ ~PredictMiss
    <3>1. ~Held /\ Stage = "Empty"
      BY <2>2, HoldNext, When
    <3>2. state \in {"Idle", "InitPush", "FinalRead"}
      BY <1>1, <3>1 DEF ControlInv
    <3>3. CASE add_fire
      BY <3>3, StackNext
    <3>4. CASE ~add_fire
      BY <3>1, <3>2, <3>4, StackNext DEF simt_vars
    <3> QED
      BY <3>3, <3>4
  <2> QED
    BY <2>1, <2>2
<1>4. Held' /\ Stage' \notin {"PrevWait", "CurrWait"} => state' = "Idle"
  <2> SUFFICES ASSUME Held', Stage' \notin {"PrevWait", "CurrWait"} PROVE state' = "Idle"
    OBVIOUS
  <2>1. CASE ScheduleFire
    <3>1. Stage = "Empty" /\ out_valid /\ state \in {"Idle", "FinalRead"} /\ ~add_fire
      BY <2>1, When
    <3> QED
      BY <3>1, StackNext DEF simt_vars
  <2>2. CASE ~ScheduleFire
    <3>1. Held /\ ~add_fire
      BY <2>2, HoldNext, When
    <3>2. Stage \notin {"PrevSubmit", "CurrSubmit"}
      BY StageNext
    <3>3. state = "Idle"
      <4>1. CASE Stage \in {"PrevWait", "CurrWait"}
        BY <4>1, StageNext
      <4>2. CASE Stage \notin {"PrevWait", "CurrWait"}
        BY <1>1, <3>1, <4>2 DEF ControlInv
      <4> QED
        BY <4>1, <4>2
    <3> QED
      BY <3>1, <3>2, <3>3, StackNext DEF simt_vars
  <2> QED
    BY <2>1, <2>2
<1> QED
  BY <1>2, <1>3, <1>4 DEF ControlInv


\* Where a branch that diverges is resolved.
LEMMA DivergeKept ==
  ASSUME Safe, Next
  PROVE  DivergeInv'
<1>1. DivergeInv /\ EntryInv
  BY DEF Safe, SpeculationInv
<1>2. Stage \in EntryStatus
  BY When
<1>3. CASE Stage = "Empty"
  <2>1. Stage' \in {"Empty", "Stored"} /\ ~Fire /\ ~PredictMiss
    BY <1>3, StageNext, When
  <2>2. ~PopCta => status'.ucd = status.ucd
    BY <1>3, StatusNext
  <2>3. CASE ScheduleFire
    <3>1. sched' = Scheduled /\ code' = code /\ ~PopCta
      BY <2>3, HoldNext, When
    <3>2. sched'.prefetch = status.ucd /\ (status.ucd => ~MayDiverge')
      BY <2>3, <3>1, ScheduledIs DEF MayDiverge
    <3> QED
      BY <1>1, <2>1, <2>2, <3>1, <3>2 DEF DivergeInv, Waits
  <2>4. CASE ~ScheduleFire /\ Held
    <3>1. sched' = sched /\ ~PopCta /\ (MayDiverge' <=> MayDiverge)
      BY <2>4, HoldNext, When DEF MayDiverge
    <3> QED
      BY <1>1, <1>3, <2>1, <2>2, <2>4, <3>1 DEF DivergeInv, Waits
  <2>5. CASE ~ScheduleFire /\ ~Held
    <3>1. ~Held'
      BY <2>1, <2>5, HoldNext
    <3>2. Stage' = "Empty"
      BY <1>3, <2>5, StageNext, When
    <3> QED
      BY <3>1, <3>2 DEF DivergeInv, Waits
  <2> QED
    BY <2>3, <2>4, <2>5
<1>4. CASE Stage # "Empty"
  <2>1. Held /\ ~ScheduleFire /\ ~PopCta /\ sched' = sched /\ code' = code
    BY <1>4, When, HoldNext
  <2>2. MayDiverge' <=> MayDiverge
    BY <2>1 DEF MayDiverge
  <2>3. /\ Stage # "StatusWrite" /\ Stage # "PcCheck" => status'.ucd = status.ucd
        /\ Stage # "StatusWrite" => status'.predict_pc = status.predict_pc
    BY <2>1, StatusNext
  <2>4. sched.prefetch => ~MayDiverge
    BY <1>1, <2>1 DEF DivergeInv
  <2>5. CASE Stage = "Stored"
    <3>1. sched.prefetch <=> status.ucd
      BY <1>1, <2>1, <2>5 DEF DivergeInv
    <3>2. Stage' = IF sched.prefetch THEN "WaitExec"
                   ELSE IF MayDiverge THEN "StatusWrite" ELSE "CurrSubmit"
      BY <2>5, StageNext
    <3> QED
      BY <2>1, <2>2, <2>3, <2>4, <2>5, <3>1, <3>2 DEF DivergeInv, Waits
  <2>6. CASE Stage \in {"WaitExec", "PrevSubmit", "PrevWait"}
    <3>1. status.ucd /\ sched.prefetch
      BY <1>1, <2>6 DEF DivergeInv
    <3>2. Stage' \in {"WaitExec", "PrevSubmit", "PrevWait", "PcCheck"}
      BY <2>6, StageNext
    <3> QED
      BY <2>1, <2>2, <2>3, <2>4, <2>6, <3>1, <3>2 DEF DivergeInv, Waits
  <2>7. CASE Stage = "PcCheck"
    <3>1. ~status'.ucd
      BY <2>7, StatusNext
    <3>2. Stage' = IF PredictMiss THEN "Empty"
                   ELSE IF MayDiverge THEN "StatusWrite" ELSE "CurrSubmit"
      BY <2>7, StageNext
    <3>3. PredictMiss => ~Held'
      BY HoldNext
    <3> QED
      BY <2>1, <2>2, <2>4, <3>1, <3>2, <3>3 DEF DivergeInv
  <2>8. CASE Stage \in {"CurrSubmit", "CurrWait"}
    <3>1. ~MayDiverge /\ ~status.ucd
      BY <1>1, <2>8 DEF DivergeInv, Waits
    <3>2. Stage' \in {"CurrWait", "StatusWrite"}
      BY <2>8, StageNext
    <3> QED
      BY <2>1, <2>2, <2>3, <2>8, <3>1, <3>2 DEF DivergeInv
  <2>9. CASE Stage = "StatusWrite"
    <3>1. ~status.ucd /\ Stage' = "Done"
      BY <1>1, <2>9, StageNext DEF DivergeInv, Waits
    <3>2. /\ MayDiverge => status'.ucd /\ status'.predict_pc = code[sched.pc].target
          /\ ~MayDiverge => ~status'.ucd
      BY <2>1, <2>9, <3>1, StatusNext
    <3> QED
      BY <2>1, <2>2, <2>4, <3>1, <3>2 DEF DivergeInv
  <2>10. CASE Stage = "Done"
    <3>1. /\ status.ucd <=> MayDiverge
          /\ MayDiverge => status.predict_pc = code[sched.pc].target
      BY <1>1, <2>10 DEF DivergeInv
    <3>2. Stage' = IF Fire THEN "Empty" ELSE "Done"
      BY <2>10, StageNext
    <3>3. Fire => ~Held'
      BY HoldNext
    <3> QED
      BY <2>1, <2>2, <2>3, <2>4, <2>10, <3>1, <3>2, <3>3 DEF DivergeInv, Waits
  <2> QED
    BY <1>2, <1>4, <2>5, <2>6, <2>7, <2>8, <2>9, <2>10 DEF EntryStatus
<1> QED
  BY <1>3, <1>4

\* A prefetched entry whose block is on top is for the threads of the top.
LEMMA Resolved ==
  ASSUME Safe, Stage = "PcCheck", ~PredictMiss
  PROVE  stack # <<>> /\ sched.pc = top.pc /\ sched.mask = top.mask
<1>1. EntryInv /\ OutcomeInv /\ ControlInv
  BY DEF Safe, SpeculationInv
<1>2. state = "Idle" /\ sched.pc = top.pc
  BY <1>1, When DEF ControlInv, EntryInv, PredictMiss, Stage
<1>3. SK!Target = stack
  BY <1>2 DEF SK!Target
<1>4. stack # <<>> /\ (Last(stack).pc = sched.pc => Last(stack).mask = sched.mask)
  BY <1>1, <1>2, <1>3 DEF OutcomeInv
<1>5. top = Last(stack)
  BY <1>1, <1>2, <1>4, StackHas DEF ControlInv
<1> QED
  BY <1>2, <1>4, <1>5

\* The threads of an entry are those of the top.
LEMMA RestKept ==
  ASSUME Safe, Next
  PROVE  RestInv'
<1>1. RestInv /\ DivergeInv /\ ControlInv
  BY DEF Safe, SpeculationInv
<1> SUFFICES ASSUME Held', Submits'
             PROVE  stack' # <<>> /\ sched'.mask = top'.mask /\ (~Behind' => sched'.pc = top'.pc)
  BY DEF RestInv
<1>2. Stage \in EntryStatus
  BY When
<1>3. CASE ScheduleFire
  <2>1. /\ Stage = "Empty" /\ stack # <<>> /\ out_valid /\ state \in {"Idle", "FinalRead"}
        /\ ~PopCta
    BY <1>3, When
  <2>2. stack' = stack /\ top' = top
    BY <2>1, StackNext
  <2>3. sched' = Scheduled /\ status'.ucd = status.ucd
    BY <1>3, <2>1, HoldNext, StatusNext
  <2>4. Stage' \in Waits
    BY <2>1, StageNext DEF Waits
  <2> QED
    BY <1>3, <2>1, <2>2, <2>3, <2>4, ScheduledIs DEF Behind
<1>4. CASE ~ScheduleFire
  <2>1. Held /\ ~add_fire /\ ~PopCta /\ ~Fire /\ ~PredictMiss /\ sched' = sched
    BY <1>4, HoldNext, When
  <2>2. MayDiverge' <=> MayDiverge
    BY <2>1, HoldNext DEF MayDiverge
  <2>3. Stage \notin {"StatusWrite", "PcCheck"} => status'.ucd = status.ucd
    BY <2>1, StatusNext
  <2>4. Stage \notin {"PrevSubmit", "CurrSubmit", "PrevWait", "CurrWait"}
    <3>1. Stage \in {"CurrSubmit", "CurrWait"} => ~MayDiverge
      BY <1>1 DEF DivergeInv
    <3> QED
      BY <2>2, <3>1, StageNext DEF Submits, Waits
  <2>5. stack' = stack /\ top' = top
    BY <1>1, <2>1, <2>4, StackNext DEF ControlInv, simt_vars
  <2>6. stack # <<>> /\ sched.mask = top.mask /\ (~Behind' => sched.pc = top.pc)
    <3>1. CASE Stage \in {"Empty", "WaitExec"}
      <4>1. Stage' \in Waits
        BY <3>1, StageNext DEF Waits
      <4>2. Behind' <=> Behind
        BY <2>3, <3>1, <4>1 DEF Behind, Waits
      <4> QED
        BY <1>1, <2>1, <3>1, <4>2 DEF RestInv, Submits, Waits
    <3>2. CASE Stage = "Stored"
      <4>1. stack # <<>> /\ sched.mask = top.mask /\ (~Behind => sched.pc = top.pc)
        BY <1>1, <2>1, <3>2 DEF RestInv, Submits, Waits
      <4>2. sched.prefetch <=> status.ucd
        BY <1>1, <2>1, <3>2 DEF DivergeInv
      <4>3. status.ucd => Stage' = "WaitExec"
        BY <3>2, <4>2, StageNext
      <4>4. Behind => Behind'
        BY <2>3, <3>2, <4>3 DEF Behind, Waits
      <4> QED
        BY <4>1, <4>4
    <3>3. CASE Stage = "PcCheck"
      BY <2>1, <3>3, Resolved
    <3>4. CASE Stage \in {"StatusWrite", "Done"}
      <4>1. Stage' = "Done"
        BY <2>1, <3>4, StageNext
      <4>2. MayDiverge /\ ~Behind
        BY <2>2, <3>4, <4>1 DEF Submits, Waits, Behind
      <4> QED
        BY <1>1, <2>1, <3>4, <4>2 DEF RestInv, Submits
    <3> QED
      BY <1>2, <2>4, <3>1, <3>2, <3>3, <3>4 DEF EntryStatus
  <2> QED
    BY <2>1, <2>5, <2>6
<1> QED
  BY <1>3, <1>4

\* A branch that was fired stays on top, with its predicate, until it is submitted.
LEMMA BehindKept ==
  ASSUME Safe, Next
  PROVE  BehindInv'
<1>1. RestInv /\ DivergeInv /\ ControlInv /\ BehindInv /\ EntryInv /\ LifeInv
  BY DEF Safe, SpeculationInv
<1> SUFFICES ASSUME Behind' PROVE BehindInv'
  BY DEF BehindInv
<1>2. Stage \in EntryStatus /\ status'.ucd /\ Stage' \in Waits /\ code' = code
  BY When, HoldNext DEF Behind
<1>3. ~PopCta /\ Stage # "PcCheck"
  BY <1>2, StatusNext
<1>4. CASE Fire
  <2>1. /\ Stage = "Done" /\ Held /\ state = "Idle" /\ ~add_fire /\ ~ScheduleFire
        /\ status'.ucd = status.ucd /\ status'.predict_pc = status.predict_pc
    BY <1>3, <1>4, When, StatusNext
  <2>2. MayDiverge /\ status.predict_pc = code[sched.pc].target
    BY <1>1, <1>2, <2>1 DEF DivergeInv
  <2>3. stack # <<>> /\ sched.mask = top.mask /\ sched.pc = top.pc
    BY <1>1, <2>1, <2>2 DEF RestInv, Submits, Behind, Waits
  <2>4. PICK taken :
          /\ taken \subseteq sched.mask
          /\ ex'.id = sched.id /\ ex'.pc = sched.pc /\ ex'.mask = sched.mask /\ ex'.taken = taken
          /\ tpc' = [t \in Thread |-> IF t \in sched.mask
                       THEN Successor(code[sched.pc], sched.pc, t \in taken) ELSE tpc[t]]
    BY <1>4, <2>2, BackNext
  <2>5. UNCHANGED simt_vars
    BY <2>1, StackNext
  <2>6. sched.mask \subseteq Thread
    BY <1>1, <2>1, <2>3, TopHas DEF ControlInv
  <2>7. Previous'.meta = sched.pc /\ Previous'.pc = sched.pc
    BY <1>1, <1>4, <2>1, EntryNext DEF EntryInv, Leaves, BhDone, Stage
  <2>8. phase' # "idle" /\ ~Held'
    BY <1>4, BackNext, HoldNext
  <2>9. \A t \in sched.mask : tpc'[t] = Successor(code[sched.pc], sched.pc, t \in taken)
    BY <2>4, <2>6
  <2> QED
    BY <1>2, <2>1, <2>2, <2>3, <2>4, <2>5, <2>7, <2>8, <2>9 DEF BehindInv, simt_vars, MayDiverge
<1>5. CASE ~Fire
  <2>1. Stage \in Waits /\ status.ucd /\ status'.predict_pc = status.predict_pc
    <3>1. Stage \notin {"PrevSubmit", "PrevWait", "CurrSubmit", "CurrWait", "StatusWrite", "Done"}
      BY <1>2, <1>5, StageNext DEF Waits
    <3> QED
      BY <1>2, <1>3, <3>1, StatusNext DEF EntryStatus, Waits
  <2>2. Behind /\ Stage # "PrevSubmit"
    BY <1>2, <2>1, StageNext DEF Behind, Waits
  <2>3. /\ stack # <<>> /\ state = "Idle" /\ top.pc = ex.pc /\ top.mask = ex.mask
        /\ code[ex.pc].kind = "branch" /\ status.predict_pc = code[ex.pc].target
        /\ Previous.meta = ex.pc /\ Previous.pc = ex.pc
        /\ ex.taken \subseteq ex.mask
        /\ \A t \in ex.mask : tpc[t] = Successor(code[ex.pc], ex.pc, t \in ex.taken)
        /\ phase = "idle" => preds[PredReg[ex.pc]] \cap ex.mask = ex.taken
        /\ Held => sched.pc = status.predict_pc
    BY <1>1, <2>2 DEF BehindInv
  <2>4. ~add_fire
    BY <2>1, When
  <2>5. UNCHANGED simt_vars
    BY <2>1, <2>2, <2>3, <2>4, StackNext DEF Waits
  <2>6. ex' = ex /\ tpc' = tpc
    BY <1>5, <2>4, BackNext
  <2>7. ~Leaves(Fire)
    BY <1>3, <1>5, When DEF Leaves
  <2>8. Previous'.meta = ex.pc /\ Previous'.pc = ex.pc
    BY <2>3, <2>7, EntryNext
  <2>9. phase' = "idle" => preds'[PredReg[ex.pc]] \cap ex.mask = ex.taken
    <3>1. CASE phase = "idle"
      BY <1>5, <2>3, <3>1, BackNext
    <3>2. CASE phase # "idle"
      <4>1. ex.pc \in 1 .. NumBlocks
        <5>1. out_valid
          BY <1>1, <2>3 DEF ControlInv
        <5> QED
          BY <2>3, <5>1, TopHas
      <4>2. PredReg[ex.pc] \in 0 .. 1
        BY <4>1, PredRegAssumption
      <4>3. phase' = "idle" =>
              preds' = [preds EXCEPT ![PredReg[ex.pc]] = (@ \ ex.mask) \cup ex.taken]
        BY <3>2, BackNext
      <4>4. phase' = "idle" => preds'[PredReg[ex.pc]] =
              (preds[PredReg[ex.pc]] \ ex.mask) \cup ex.taken
        BY <1>1, <4>2, <4>3 DEF EntryInv
      <4> QED
        BY <2>3, <4>4
    <3> QED
      BY <3>1, <3>2
  <2>10. Held' => sched'.pc = status.predict_pc
    <3>1. CASE ScheduleFire
      BY <2>1, <3>1, HoldNext, ScheduledIs
    <3>2. CASE ~ScheduleFire
      BY <1>3, <1>5, <2>3, <3>2, HoldNext, When
    <3> QED
      BY <3>1, <3>2
  <2> QED
    BY <1>2, <2>1, <2>3, <2>5, <2>6, <2>8, <2>9, <2>10 DEF BehindInv, simt_vars
<1> QED
  BY <1>4, <1>5


\* The prefetched block is on top for its threads, or it is not on top.
LEMMA OutcomeKept ==
  ASSUME NumBlocks <= Depth, Safe, Next
  PROVE  OutcomeInv'
<1>1. RestInv /\ DivergeInv /\ BehindInv /\ OutcomeInv /\ ControlInv
  BY DEF Safe, SpeculationInv
<1>2. SK!Inv /\ SK!RegionInv /\ Predictable(code)
  BY DEF Safe, StackInv
<1> SUFFICES ASSUME Stage' \in {"PrevWait", "PcCheck"} PROVE OutcomeInv'
  BY DEF OutcomeInv
<1>3. Stage \in {"PrevSubmit", "PrevWait"}
  BY When, StageNext DEF EntryStatus
<1>4. Held /\ ~ScheduleFire /\ ~add_fire /\ sched' = sched /\ code' = code
  BY <1>3, When, HoldNext
<1>5. CASE Stage = "PrevSubmit"
  <2>1. Behind /\ stack # <<>> /\ sched.mask = top.mask
    BY <1>1, <1>4, <1>5 DEF DivergeInv, RestInv, Submits, Behind, Waits
  <2>2. top.pc = ex.pc /\ code[ex.pc].kind = "branch" /\ sched.pc = code[ex.pc].target
    BY <1>1, <1>4, <2>1 DEF BehindInv
  <2>3. state = "Idle" /\ state' = "ReadTop" /\ top' = top /\ out_valid
    BY <1>1, <1>5, <2>1, StackNext DEF ControlInv
  <2>4. top.pc \in 1 .. NumBlocks
    BY <2>3, TopHas
  <2> QED
    BY <1>4, <2>1, <2>2, <2>3, <2>4 DEF OutcomeInv
<1>6. CASE Stage = "PrevWait" /\ state = "Idle"
  <2>1. UNCHANGED simt_vars
    BY <1>4, <1>6, StackNext
  <2>2. SK!Target = stack /\ SK!Target' = stack
    BY <1>6, <2>1 DEF SK!Target, simt_vars
  <2>3. state' = "Idle"
    BY <1>6, <2>1 DEF simt_vars
  <2> QED
    BY <1>1, <1>4, <1>6, <2>2, <2>3 DEF OutcomeInv
<1>7. CASE Stage = "PrevWait" /\ state # "Idle"
  <2>1. SK!Working /\ SK!RoomToWrite
    BY <1>2, <1>7, StackClock, SK!RegionsMeet, NumThreadsAssumption, NumBlocksAssumption,
       DepthAssumption, SameKernels
  <2>2. CASE state = "ReadTop"
    <3>1. /\ top.pc \in 1 .. NumBlocks /\ code[top.pc].kind = "branch"
          /\ code[top.pc].target = sched.pc /\ top.mask = sched.mask
      BY <1>1, <1>7, <2>2 DEF OutcomeInv
    <3>2. code[top.pc].target # top.pc + 1 /\ code[top.pc].reconv # top.pc + 1
      BY <1>2, <3>1, TargetBlock DEF Predictable
    <3>3. /\ SK!Target' # <<>>
          /\ SK!Last(SK!Target').pc = code[top.pc].target => SK!Last(SK!Target').mask = top.mask
      BY <1>2, <2>1, <2>2, <3>1, <3>2, SK!BranchEnds, NumThreadsAssumption, NumBlocksAssumption,
         DepthAssumption, SameKernels
    <3>4. state' \in {"ModifyTop", "PopStack"}
      BY <1>2, <2>1, <2>2, SK!Decides, NumThreadsAssumption, NumBlocksAssumption,
         DepthAssumption, SameKernels
    <3>5. Last(SK!Target').pc = sched.pc => Last(SK!Target').mask = sched.mask
      BY <3>1, <3>3, SameStack
    <3> QED
      BY <1>4, <3>3, <3>4, <3>5 DEF OutcomeInv
  <2>3. CASE state # "ReadTop"
    <3>1. SK!Target' = SK!Target /\ state' # "ReadTop"
      BY <1>2, <2>1, <2>3, SK!TargetKept, NumThreadsAssumption, NumBlocksAssumption,
         DepthAssumption, SameKernels
    <3> QED
      BY <1>1, <1>4, <1>7, <2>3, <3>1 DEF OutcomeInv
  <2> QED
    BY <2>2, <2>3
<1> QED
  BY <1>3, <1>5, <1>6, <1>7

\* An entry that is not speculative any more is on the path of its threads.
LEMMA OnPathKept ==
  ASSUME Safe, Next
  PROVE  OnPathInv'
<1>1. RestInv /\ DivergeInv /\ OnPathInv /\ ControlInv
  BY DEF Safe, SpeculationInv
<1> SUFFICES ASSUME Stage' \in {"CurrSubmit", "CurrWait", "StatusWrite", "Done"}
             PROVE  OnPathInv'
  BY DEF OnPathInv
<1>2. Stage \in EntryStatus /\ Stage \notin {"Empty", "WaitExec", "PrevSubmit", "PrevWait"}
  BY When, StageNext
<1>3. Held /\ ~ScheduleFire /\ ~add_fire /\ sched' = sched /\ ~Fire
  BY <1>2, When, HoldNext, StageNext
<1>4. tpc' = tpc
  BY <1>3, BackNext
<1>5. sched.mask # {} /\ sched.mask \subseteq Thread /\ \A t \in sched.mask : tpc[t] = sched.pc
  <2>1. CASE Stage \in {"CurrSubmit", "CurrWait", "StatusWrite", "Done"}
    BY <1>1, <2>1 DEF OnPathInv
  <2>2. CASE Stage \in {"Stored", "PcCheck"}
    <3>1. ~Ahead /\ state = "Idle"
      BY <1>1, <1>3, <2>2 DEF Ahead, ControlInv
    <3>2. stack # <<>> /\ sched.mask = top.mask /\ sched.pc = top.pc /\ ~Behind
      <4>1. CASE Stage = "Stored"
        <5>1. ~sched.prefetch
          BY <4>1, StageNext
        <5>2. ~status.ucd
          BY <1>1, <1>3, <4>1, <5>1 DEF DivergeInv
        <5> QED
          BY <1>1, <1>3, <4>1, <5>2 DEF RestInv, Submits, Behind, Waits
      <4>2. CASE Stage = "PcCheck"
        BY <4>2, StageNext, Resolved DEF Behind, Waits
      <4> QED
        BY <2>2, <4>1, <4>2
    <3>3. /\ top.mask # {} /\ top.mask \subseteq Thread
          /\ \A t \in top.mask : Standing[t] = top.pc
      BY <1>1, <3>1, <3>2, TopHas DEF ControlInv
    <3> QED
      BY <3>1, <3>2, <3>3, StandingIs
  <2> QED
    BY <1>2, <2>1, <2>2 DEF EntryStatus
<1> QED
  BY <1>3, <1>4, <1>5 DEF OnPathInv

\* A return leaves nothing behind.
LEMMA ReturnKept ==
  ASSUME NumBlocks <= Depth, Safe, Next
  PROVE  ReturnInv'
<1>1. RestInv /\ DivergeInv /\ ReturnInv /\ ControlInv /\ LifeInv
  BY DEF Safe, SpeculationInv
<1>2. SK!Inv /\ SK!RegionInv
  BY DEF Safe, StackInv
<1>3. Stage # "Empty" =>
        /\ Held /\ ~ScheduleFire /\ ~add_fire /\ ~PopCta /\ sched' = sched
        /\ (Returns' <=> Returns) /\ (MayDiverge' <=> MayDiverge)
  BY When, HoldNext DEF Returns, MayDiverge
<1>4. Returns => ~MayDiverge
  BY DEF Returns, MayDiverge
<1>5. Stage \in EntryStatus
  BY When
<1>6. ASSUME Stage' = "CurrWait", Returns'
      PROVE  IF state' = "ReadTop" THEN top'.pc = sched'.pc ELSE SK!Target' = <<>>
  <2>1. Stage \in {"CurrSubmit", "CurrWait"} /\ (Stage = "CurrWait" => state # "Idle")
    BY <1>5, <1>6, StageNext DEF EntryStatus
  <2>2. Held /\ ~add_fire /\ sched' = sched /\ Returns
    BY <1>3, <1>6, <2>1
  <2>3. CASE Stage = "CurrSubmit"
    <3>1. stack # <<>> /\ sched.pc = top.pc
      BY <1>1, <2>2, <2>3 DEF RestInv, Submits, Behind, Waits
    <3>2. state = "Idle" /\ state' = "ReadTop" /\ top' = top
      BY <2>3, <3>1, StackNext
    <3> QED
      BY <2>2, <3>1, <3>2
  <2>4. CASE Stage = "CurrWait"
    <3>1. SK!Working /\ SK!RoomToWrite
      BY <1>2, <2>1, <2>4, StackClock, SK!RegionsMeet, NumThreadsAssumption,
         NumBlocksAssumption, DepthAssumption, SameKernels
    <3>2. CASE state = "ReadTop"
      <4>1. code[top.pc].kind = "return"
        BY <1>1, <2>2, <2>4, <3>2 DEF ReturnInv, Returns
      <4>2. SK!Target' = <<>>
        BY <1>2, <3>1, <3>2, <4>1, SK!ReturnEnds, NumThreadsAssumption, NumBlocksAssumption,
           DepthAssumption, SameKernels
      <4>3. state' \in {"ModifyTop", "PopStack"}
        BY <1>2, <3>1, <3>2, SK!Decides, NumThreadsAssumption, NumBlocksAssumption,
           DepthAssumption, SameKernels
      <4> QED
        BY <4>2, <4>3
    <3>3. CASE state # "ReadTop"
      <4>1. SK!Target' = SK!Target /\ state' # "ReadTop"
        BY <1>2, <3>1, <3>3, SK!TargetKept, NumThreadsAssumption, NumBlocksAssumption,
           DepthAssumption, SameKernels
      <4> QED
        BY <1>1, <2>2, <2>4, <3>3, <4>1 DEF ReturnInv
    <3> QED
      BY <3>2, <3>3
  <2> QED
    BY <2>1, <2>3, <2>4
<1>7. ASSUME Stage' \in {"StatusWrite", "Done"}, Returns'
      PROVE  stack' = <<>>
  <2>1. /\ Stage \in {"Stored", "PcCheck", "CurrWait", "StatusWrite", "Done"}
        /\ Stage \in {"Stored", "PcCheck"} => MayDiverge
        /\ Stage = "CurrWait" => state = "Idle"
    BY <1>5, <1>7, StageNext DEF EntryStatus
  <2>2. Held /\ ~add_fire /\ Returns /\ ~MayDiverge
    BY <1>3, <1>4, <1>7, <2>1
  <2>3. state = "Idle" /\ Stage \in {"CurrWait", "StatusWrite", "Done"}
    BY <1>1, <2>1, <2>2 DEF ControlInv
  <2>4. Stage = "CurrWait" => SK!Target = stack
    BY <2>3 DEF SK!Target
  <2>5. stack = <<>>
    BY <1>1, <2>2, <2>3, <2>4 DEF ReturnInv
  <2> QED
    BY <2>3, <2>5, StackNext
<1>8. ASSUME status'.is_return
      PROVE  /\ stack' = <<>> /\ state' = "Idle" /\ ~status'.ucd /\ (Held' => Stage' = "Done")
             /\ ~status'.eblock_in_flight => live' = {}
  <2>1. ~PopCta /\ (status.is_return \/ (Stage = "StatusWrite" /\ Returns))
    BY <1>8, StatusNext
  <2>2. CASE Stage = "StatusWrite" /\ Returns
    <3>1. Held /\ ~add_fire /\ state = "Idle" /\ stack = <<>> /\ sched.id \in live
      BY <1>1, <1>3, <2>2, When DEF ReturnInv, ControlInv
    <3>2. UNCHANGED simt_vars
      BY <2>2, <3>1, StackNext
    <3>3. ~status.ucd
      BY <1>1, <2>2 DEF DivergeInv, Waits
    <3>4. ~status'.ucd /\ status'.eblock_in_flight
      BY <1>4, <2>1, <2>2, <3>1, <3>3, StatusNext
    <3>5. Stage' = "Done"
      BY <2>2, StageNext
    <3> QED
      BY <3>1, <3>2, <3>4, <3>5 DEF simt_vars
  <2>3. CASE ~(Stage = "StatusWrite" /\ Returns)
    <3>1. /\ status.is_return /\ stack = <<>> /\ state = "Idle" /\ ~status.ucd
          /\ (Held => Stage = "Done") /\ (~status.eblock_in_flight => live = {})
      BY <1>1, <2>1, <2>3 DEF ReturnInv
    <3>2. ~add_fire /\ ~ScheduleFire
      BY <3>1, When
    <3>3. Stage \in {"Empty", "Done"}
      BY <3>1, When
    <3>4. UNCHANGED simt_vars
      BY <3>1, <3>2, <3>3, StackNext
    <3>5. ~status'.ucd
      BY <3>1, <3>3, StatusNext
    <3>6. Held' => Stage' = "Done"
      <4>1. CASE Stage = "Done"
        BY <4>1, StageNext, HoldNext
      <4>2. CASE Stage = "Empty"
        BY <3>1, <3>2, <4>2, HoldNext, When
      <4> QED
        BY <3>3, <4>1, <4>2
    <3>7. ~status'.eblock_in_flight => live' = {}
      BY <3>2, StatusNext
    <3> QED
      BY <3>1, <3>4, <3>5, <3>6, <3>7 DEF simt_vars
  <2> QED
    BY <2>2, <2>3
<1> QED
  BY <1>6, <1>7, <1>8 DEF ReturnInv

\* What an empty block retire table tells.
LEMMA BackKept ==
  ASSUME Safe, Next
  PROVE  BackInv'
<1>1. BackInv /\ DivergeInv
  BY DEF Safe, SpeculationInv
<1>2. inserting' # {} => ~Held'
  BY BackNext, HoldNext
<1>3. meta_state' \in {"WaitResp", "HoldData"} /\ brt' # {} => status'.has_pending_eblock
  <2>1. CASE brt # {}
    BY <2>1, StatusNext
  <2>2. CASE brt = {}
    <3>1. inserting # {} => meta_state' \in {"Ready", "ReqVal"}
      BY <1>1, HoldNext DEF BackInv
    <3> QED
      BY <2>2, <3>1, BackNext
  <2> QED
    BY <2>1, <2>2
<1>4. phase' # "idle" => ex'.id \in inserting' \cup brt'
  <2>1. CASE Fire
    BY <2>1, BackNext
  <2>2. CASE ~Fire
    BY <1>1, <2>2, BackNext DEF BackInv
  <2> QED
    BY <2>1, <2>2
<1>5. Stage' = "PrevSubmit" => phase' = "idle"
  <2> SUFFICES ASSUME Stage' = "PrevSubmit" PROVE phase' = "idle"
    OBVIOUS
  <2>1. Stage = "WaitExec" /\ ~status.has_pending_eblock
    BY When, StageNext DEF EntryStatus
  <2>2. meta_state = "HoldData" /\ inserting = {} /\ ~Fire
    BY <2>1, When
  <2>3. brt = {}
    BY <1>1, <2>1, <2>2 DEF BackInv
  <2>4. phase = "idle"
    BY <1>1, <2>2, <2>3 DEF BackInv
  <2> QED
    BY <2>2, <2>4, BackNext
<1> QED
  BY <1>2, <1>3, <1>4, <1>5 DEF BackInv


\* The invariant, from reset.
LEMMA SafeInit ==
  ASSUME \A kernel \in Kernels : WellNested(kernel) /\ Predictable(kernel)
  PROVE  Init => Safe
<1> SUFFICES ASSUME Init PROVE Safe
  OBVIOUS
<1>1. Inv /\ ConfigInv
  BY InvInit, ConfigInit
<1>2. /\ table = [i \in 0 .. 1 |->
                    [status |-> "Empty", meta |-> 1, pc |-> 1, prefetch |-> FALSE]]
      /\ rd = 0 /\ preds = [r \in 0 .. 1 |-> {}] /\ meta_state = "Ready"
      /\ sched = [id |-> 0, pc |-> 1, mask |-> {}, prefetch |-> FALSE]
      /\ add_fire = FALSE /\ cta_valid = FALSE /\ status = NoStatus /\ live = {}
      /\ state = "Idle" /\ stack = <<>> /\ out_valid = FALSE
      /\ phase = "idle" /\ inserting = {} /\ brt = {} /\ launched = {}
      /\ tpc = [t \in Thread |-> EndPC] /\ code \in Kernels
  BY DEF Init, SimtInit, ScheduleInit, BranchInit, FetchInit
<1>3. Stage = "Empty" /\ ~Held /\ ~status.ucd /\ ~status.is_return
  BY <1>2 DEF Stage, Current, Held, NoStatus
<1>4. Standing = tpc
  BY <1>2, <1>3 DEF Standing, Ahead, Behind
<1>5. SK!Init
  <2>1. SK!SimtInit
    BY SameStack DEF Init, SimtInit, SK!SimtInit, SK!NoEntry, NoEntry, SK!NoUpdate, NoUpdate,
       SK!NoPlan, NoPlan
  <2> QED
    BY <1>2, <1>4, <2>1, SameStack DEF SK!Init
<1>6. StackInv
  <2>1. SK!Inv
    BY <1>5, SK!InvInit, NumThreadsAssumption, NumBlocksAssumption, DepthAssumption,
       SameKernels
  <2>2. SK!PathInv
    BY <1>5, SK!PathInit, NumThreadsAssumption, NumBlocksAssumption, DepthAssumption,
       SameKernels
  <2>3. SK!RegionInv
    BY <1>2, SameStack DEF SK!RegionInv, SK!AllInRegion
  <2> QED
    BY <1>2, <2>1, <2>2, <2>3 DEF StackInv
<1>7. EntryInv
  <2>1. \A i \in 0 .. 1 : DOMAIN table[i] = {"status", "meta", "pc", "prefetch"}
    BY <1>2
  <2>2. status.ucd \in BOOLEAN
    BY <1>2 DEF NoStatus
  <2> QED
    BY <1>2, <1>3, <2>1, <2>2 DEF EntryInv
<1>8. LifeInv /\ ControlInv /\ BackInv
  BY <1>2, <1>3 DEF LifeInv, ControlInv, BackInv
<1>9. DivergeInv /\ RestInv /\ BehindInv /\ OutcomeInv /\ OnPathInv /\ ReturnInv
  BY <1>2, <1>3 DEF DivergeInv, RestInv, BehindInv, Behind, OutcomeInv, OnPathInv, ReturnInv, Waits
<1> QED
  BY <1>1, <1>6, <1>7, <1>8, <1>9 DEF Safe, SpeculationInv

\* The invariant, over a clock.
LEMMA SafeStep ==
  ASSUME NumBlocks <= Depth
  PROVE  Safe /\ [Next]_vars => Safe'
<1> SUFFICES ASSUME Safe, [Next]_vars PROVE Safe'
  OBVIOUS
<1>1. Inv' /\ ConfigInv'
  BY InvNext, ConfigStep DEF Safe
<1>2. CASE Next
  BY <1>1, <1>2, StackKept, EntryKept, LifeKept, ControlKept, DivergeKept, RestKept, BehindKept,
     OutcomeKept, OnPathKept, ReturnKept, BackKept DEF Safe, SpeculationInv
<1>3. CASE UNCHANGED vars
  <2> USE DEF vars, simt_vars, schedule_vars, branch_vars, fetch_vars, backend_vars
  <2>1. Stage' = Stage /\ Held' = Held /\ MayDiverge' = MayDiverge /\ Returns' = Returns
    BY <1>3 DEF Stage, Current, Held, MayDiverge, Returns
  <2>2. Ahead' = Ahead /\ Behind' = Behind /\ Submits' = Submits
    BY <1>3, <2>1 DEF Ahead, Behind, Submits
  <2>3. Standing' = Standing
    BY <1>3, <2>2 DEF Standing
  <2>4. SK!Target' = SK!Target
    BY <1>3 DEF SK!Target, SK!Pushed, SK!FirstEntry
  <2>5. StackInv'
    <3>1. UNCHANGED SK!vars
      BY <1>3, <2>3 DEF SK!vars, SK!simt_vars
    <3>2. SK!Inv /\ SK!RegionInv /\ SK!PathInv /\ Predictable(code)
      BY DEF Safe, StackInv
    <3>3. SK!RoomToWrite
      BY <3>2, SK!RegionsMeet, NumThreadsAssumption, NumBlocksAssumption, DepthAssumption,
         SameKernels
    <3>4. SK!Inv'
      BY <3>1, <3>2, SK!InvStep, NumThreadsAssumption, NumBlocksAssumption, DepthAssumption,
         SameKernels
    <3>5. SK!RegionInv'
      BY <3>1, <3>2, SK!RegionStep, NumThreadsAssumption, NumBlocksAssumption, DepthAssumption,
         SameKernels
    <3>6. SK!PathInv'
      BY <3>1, <3>2, <3>3, SK!PathStep, NumThreadsAssumption, NumBlocksAssumption,
         DepthAssumption, SameKernels
    <3>7. Predictable(code)'
      BY <1>3, <3>2 DEF Predictable
    <3> QED
      BY <3>4, <3>5, <3>6, <3>7 DEF StackInv
  <2>6. EntryInv' /\ LifeInv' /\ ControlInv' /\ DivergeInv' /\ RestInv' /\ BackInv'
    BY <1>3, <2>1, <2>2 DEF Safe, SpeculationInv, EntryInv, LifeInv, ControlInv, DivergeInv,
       RestInv, BackInv, Current
  <2>7. BehindInv' /\ OutcomeInv' /\ OnPathInv' /\ ReturnInv'
    BY <1>3, <2>1, <2>2, <2>4 DEF Safe, SpeculationInv, BehindInv, OutcomeInv, OnPathInv,
       ReturnInv, Previous
  <2> QED
    BY <1>1, <2>5, <2>6, <2>7 DEF Safe, SpeculationInv
<1> QED
  BY <1>2, <1>3

\* The invariant of the front end, for nested kernels that can be predicted.
LEMMA SafeAlways ==
  ASSUME \A kernel \in Kernels : WellNested(kernel) /\ Predictable(kernel),
         NumBlocks <= Depth
  PROVE  Spec => []Safe
BY SafeInit, SafeStep, PTL DEF Spec

\* A CTA is retired when no e-block of it is left in the fetch, in the table, in the CGRA or
\* uncommitted, and its stack is empty (cta_controller: pop_cta), whatever was prefetched and
\* flushed, for every kernel whose regions nest and whose branches are predictable.
THEOREM RetiresEmpty ==
  ASSUME \A kernel \in Kernels : WellNested(kernel) /\ Predictable(kernel),
         NumBlocks <= Depth
  PROVE  Spec => []RetiredEmpty
<1>1. Safe => RetiredEmpty
  BY When DEF RetiredEmpty, InFetch, InBackend, Held
<1> QED
  BY <1>1, SafeAlways, PTL

\* In such a kernel no e-block is fired for a thread that is not at its block
\* (branch_handler: real_active_thread_mask_o), and none is fired for no thread.
THEOREM NeverOffPath ==
  ASSUME \A kernel \in Kernels : WellNested(kernel) /\ Predictable(kernel),
         NumBlocks <= Depth
  PROVE  Spec => FiredOnPath
<1>1. Safe => (Fire => Fired.mask # {} /\ \A t \in Fired.mask : tpc[t] = Fired.pc)
  <2> SUFFICES ASSUME Safe, Fire
               PROVE  Fired.mask # {} /\ \A t \in Fired.mask : tpc[t] = Fired.pc
    OBVIOUS
  <2>1. Stage = "Done" /\ OnPathInv
    BY When DEF Safe, SpeculationInv
  <2> QED
    BY <2>1, FiredMask DEF OnPathInv
<1> QED
  BY <1>1, SafeAlways, PTL DEF FiredOnPath

\* A clock is a step of KernelRun, or none that it sees.
LEMMA ClockRuns == Safe /\ [Next]_vars => [KR!RunNext]_KR!run_vars
<1> SUFFICES ASSUME Safe, [Next]_vars PROVE KR!RunNext \/ UNCHANGED KR!run_vars
  OBVIOUS
<1>1. EntryInv /\ LifeInv /\ OnPathInv
  BY DEF Safe, SpeculationInv
<1>2. /\ KR!Thread = Thread /\ KR!EndPC = EndPC
      /\ \A b, p, t : KR!Successor(b, p, t) = Successor(b, p, t)
  BY DEF KR!Thread, Thread, KR!EndPC, EndPC, KR!Successor, Successor
<1>3. CASE UNCHANGED vars
  BY <1>3 DEF vars, branch_vars, KR!run_vars
<1>4. CASE Next
  <2>1. code' = code
    BY <1>4, HoldNext
  <2>2. CASE add_fire
    <3>1. PICK threads \in 1 .. NumThreads :
            /\ launched' = 0 .. threads - 1
            /\ tpc' = [t \in Thread |-> IF t < threads THEN 1 ELSE EndPC]
      BY <1>4, <2>2, BackNext
    <3>2. launched = {}
      BY <2>2, When
    <3> QED
      BY <1>2, <2>1, <3>1, <3>2 DEF KR!RunNext, KR!RunLaunch
  <2>3. CASE Fire
    <3>1. Stage = "Done" /\ Held /\ ~add_fire /\ ~PopCta
      BY <2>3, When
    <3>2. PICK taken :
            /\ taken \subseteq IF MayDiverge THEN sched.mask ELSE {}
            /\ tpc' = [t \in Thread |-> IF t \in sched.mask
                         THEN Successor(code[sched.pc], sched.pc, t \in taken) ELSE tpc[t]]
      BY <1>4, <2>3, BackNext
    <3>3. /\ sched.mask # {} /\ sched.mask \subseteq Thread
          /\ \A t \in sched.mask : tpc[t] = sched.pc
      BY <1>1, <3>1 DEF OnPathInv
    <3>4. sched.pc \in 1 .. NumBlocks /\ sched.pc # EndPC
      BY <1>1, <3>1, NumBlocksAssumption DEF EntryInv, EndPC
    <3>5. sched.mask \in (SUBSET KR!At(sched.pc)) \ {{}}
      <4>1. \A t \in sched.mask : t \in launched
        BY <1>1, <3>3, <3>4 DEF LifeInv
      <4> QED
        BY <3>3, <4>1 DEF KR!At
    <3>6. taken \in SUBSET sched.mask
      BY <3>2
    <3>7. tpc' = KR!Advance(sched.pc, sched.mask, taken)
      BY <1>2, <3>2 DEF KR!Advance
    <3>8. launched' = launched
      BY <1>4, <3>1, BackNext
    <3> QED
      BY <2>1, <3>4, <3>5, <3>6, <3>7, <3>8 DEF KR!RunNext, KR!RunBlock
  <2>4. CASE PopCta
    <3>1. /\ Stage = "Empty" /\ stack = <<>> /\ state = "Idle" /\ ~status.ucd /\ ~add_fire
          /\ cta_valid /\ ~Fire
      BY <2>4, When
    <3>2. \A t \in Thread : Standing[t] = EndPC
      BY <3>1, SK!EmptyAtRest, SameStack, NumThreadsAssumption, NumBlocksAssumption,
         DepthAssumption, SameKernels DEF Safe, StackInv
    <3>3. \A t \in Thread : tpc[t] = EndPC
      BY <3>1, <3>2, StandingIs DEF Ahead, Behind
    <3>4. launched # {} /\ launched \subseteq Thread
      BY <1>1, <3>1, SameStack DEF LifeInv, Safe, StackInv, SK!Inv, SK!TypeOK
    <3>5. launched = KR!At(KR!EndPC)
      BY <1>2, <3>3, <3>4 DEF KR!At
    <3>6. launched' = {} /\ tpc' = tpc
      BY <1>4, <2>4, <3>1, BackNext
    <3> QED
      BY <2>1, <3>4, <3>5, <3>6 DEF KR!RunNext, KR!RunRetire
  <2>5. CASE ~add_fire /\ ~Fire /\ ~PopCta
    BY <1>4, <2>1, <2>5, BackNext DEF KR!run_vars
  <2> QED
    BY <2>2, <2>3, <2>4, <2>5
<1> QED
  BY <1>3, <1>4

\* Speculation is invisible: for every kernel whose regions nest and whose branches are
\* predictable, any number of threads and of ids, whatever the link, the CGRA and memory do,
\* the front end runs blocks as KernelRun does, each for threads whose own path is there.
THEOREM SpeculationInvisible ==
  ASSUME \A kernel \in Kernels : WellNested(kernel) /\ Predictable(kernel),
         NumBlocks <= Depth
  PROVE  Spec => RunsKernel
<1>1. Init => KR!RunInit
  BY DEF Init, KR!RunInit, KR!Thread, Thread, KR!EndPC, EndPC
<1>2. Safe /\ [Next]_vars => [KR!RunNext]_KR!run_vars
  BY ClockRuns
<1> QED
  BY <1>1, <1>2, SafeAlways, PTL DEF Spec, RunsKernel, KR!RunSpec
=============================================================================
