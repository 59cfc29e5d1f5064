--------------------------- MODULE Backend_proofs ---------------------------
(***************************************************************************)
(* Proofs about the back end for every number of e-blocks, threads and     *)
(* memory ports.  The inductive invariant is TypeOK /\ Accounting.  A      *)
(* clock cycle is first put into one of two forms, one that accepts an     *)
(* e-block and one that does not, whose primed values are explicit; every  *)
(* conjunct of the invariant is then shown to survive both.                *)
(***************************************************************************)
EXTENDS Backend, TLAPS

ConstantAssumptions ==
  /\ NumEblocks \in Nat \ {0}
  /\ CountMod \in Nat \ {0}
  /\ MaxThreads \in Nat \ {0}
  /\ MaxPorts \in Nat
  /\ MaxReadRetire \in Nat \ {0}
  /\ MaxThreads * MaxPorts + 1 < CountMod
  /\ DispatchMod \in Nat \ {0, 1}

\* The named assumptions of the modules, as one fact.
LEMMA Constants == ConstantAssumptions
  BY NumEblocksAssumption, CountModAssumption, MaxThreadsAssumption,
     MaxPortsAssumption, MaxReadRetireAssumption, CountFitsAssumption,
     DispatchModAssumption
  DEF ConstantAssumptions

-----------------------------------------------------------------------------
(* Arithmetic of the counters. *)

\* A product of naturals grows with its factors.
LEMMA ProductMonotone ==
  ASSUME NEW a \in Nat, NEW b \in Nat, NEW c \in Nat, NEW d \in Nat,
         a <= c, b <= d
  PROVE  a * b <= c * d /\ a * b \in Nat
  <1>1. a * b <= c * b
    <2>1. PICK k \in Nat : c = a + k
      BY SMT
    <2>2. c * b = a * b + k * b /\ k * b >= 0
      BY <2>1, SMT
    <2>. QED  BY <2>2, SMT
  <1>2. c * b <= c * d
    <2>1. PICK k \in Nat : d = b + k
      BY SMT
    <2>2. c * d = c * b + c * k /\ c * k >= 0
      BY <2>1, SMT
    <2>. QED  BY <2>2, SMT
  <1>. QED  BY <1>1, <1>2, SMT

\* A value below the modulus is its own remainder: the counters do not truncate.
LEMMA NoTruncation ==
  ASSUME NEW x \in Nat, NEW m \in Nat, x < m
  PROVE  x % m = x
  BY SMT

\* One thread less owes one thread's operations less.
LEMMA OneThreadLess ==
  ASSUME NEW n \in Nat, NEW k \in Nat, n > 0
  PROVE  /\ (n - 1) * k = n * k - k
         /\ n * k >= k
         /\ n * k \in Nat
  <1>1. PICK j \in Nat : n = j + 1
    BY SMT
  <1>2. (j + 1) * k = j * k + k /\ j * k >= 0
    BY SMT
  <1>. QED  BY <1>1, <1>2, SMT

\* The counts the table is given are the exact numbers of operations the e-block
\* will issue: dice_backend's casts to PENDING_MEM_COUNT_WIDTH lose nothing.
LEMMA CountsExact ==
  ASSUME NEW p \in Packet
  PROVE  /\ PendingReads(p) = p.threads * p.loads
         /\ PendingStores(p) = p.threads * p.stores + 1
         /\ p.threads * p.loads \in Nat
         /\ p.threads * p.stores \in Nat
  <1>1. /\ p.threads \in Nat /\ p.threads <= MaxThreads
        /\ p.loads \in Nat /\ p.loads <= MaxPorts
        /\ p.stores \in Nat /\ p.stores <= MaxPorts
        /\ MaxThreads \in Nat /\ MaxPorts \in Nat
    BY Constants DEF Packet, ConstantAssumptions
  <1>2. p.threads * p.loads <= MaxThreads * MaxPorts /\ p.threads * p.loads \in Nat
    BY <1>1, ProductMonotone
  <1>3. p.threads * p.stores <= MaxThreads * MaxPorts /\ p.threads * p.stores \in Nat
    BY <1>1, ProductMonotone
  <1>4. p.threads * p.loads < CountMod /\ p.threads * p.stores + 1 < CountMod
    <2>1. MaxThreads * MaxPorts \in Nat
      BY <1>1, ProductMonotone
    <2>. QED  BY <1>2, <1>3, <2>1, Constants, SMT DEF ConstantAssumptions
  <1>. QED  BY <1>2, <1>3, <1>4, Constants, NoTruncation
            DEF PendingReads, PendingStores, ConstantAssumptions

-----------------------------------------------------------------------------
(* The two forms of a cycle. *)

IInv == TypeOK /\ Accounting

\* The memory system and the table in a cycle where leaving is the number of threads
\* of launch that leave the CGRA and tokens the set of execution tokens returned.
Retires(leaving, tokens, read_ret, store_ret) ==
  /\ leaving \in {0, 1}
  /\ loads' = [e \in EBlock |->
       loads[e] - read_ret[e] + (IF leaving = 1 /\ launch.e = e THEN launch.loads ELSE 0)]
  /\ stores' = [e \in EBlock |->
       stores[e] - (IF e \in store_ret THEN 1 ELSE 0)
                 + (IF leaving = 1 /\ launch.e = e THEN launch.stores ELSE 0)]
  /\ ValidUpdate
  /\ ReadUpdate(read_ret)
  /\ StoreUpdate(store_ret, tokens)
  /\ RrUpdate

\* The front end's e-block p is accepted.
AcceptCycle(p, tokens, read_ret, store_ret) ==
  /\ p \in Packet /\ p.e \notin in_use
  /\ pipe = 0 /\ ~Busy /\ ~prog_busy /\ ~prog_pending
  /\ tokens = IF fdr_active_valid /\ ~exec_pop_sent /\ exec_dispatch_done
              THEN {fdr_active.e} ELSE {}
  /\ fdr_active' = p /\ fdr_active_valid' = TRUE
  /\ exec_pop_sent' = FALSE /\ exec_dispatch_done' = FALSE
  /\ prog_pending' \in BOOLEAN /\ handshake' \in BOOLEAN /\ prog_busy' \in BOOLEAN
  /\ ps' = "DISPATCHING" /\ todo' = p.threads
  /\ dispatched_count' \in 0 .. DispatchMod - 1 /\ last_chunk_done' \in BOOLEAN
  /\ pipe' = 0 /\ launch' = launch
  /\ dispatch' = [e |-> p.e, reads |-> p.threads * p.loads,
                  stores |-> p.threads * p.stores + 1]
  /\ insert_valid' = TRUE
  /\ in_use' = {e \in in_use : ~Committing(e)} \cup {p.e}
  /\ Retires(0, tokens, read_ret, store_ret)

\* No e-block is accepted; entering threads enter the pipeline and leaving leave it.
QuietCycle(entering, leaving, tokens, read_ret, store_ret) ==
  /\ entering \in {0, 1}
  /\ leaving \in {0, 1}
  /\ entering = 1 => Busy /\ todo > 0
  /\ leaving = 1 => pipe > 0
  /\ tokens = {} \/ ( /\ tokens = {fdr_active.e}
                      /\ fdr_active_valid /\ ~exec_pop_sent /\ exec_dispatch_done
                      /\ pipe = 0 )
  /\ fdr_active' = fdr_active /\ fdr_active_valid' = fdr_active_valid
  /\ exec_pop_sent' = (tokens # {} \/ exec_pop_sent)
  /\ exec_dispatch_done' = (tokens = {} /\ (DispatcherDone \/ exec_dispatch_done))
  /\ prog_pending' \in BOOLEAN /\ handshake' \in BOOLEAN /\ prog_busy' \in BOOLEAN
  /\ ps' = IF DispatcherDone THEN "DONE" ELSE ps
  /\ todo' = todo - entering
  /\ dispatched_count' \in 0 .. DispatchMod - 1 /\ last_chunk_done' \in BOOLEAN
  /\ pipe' = pipe + entering - leaving
  /\ launch' = IF entering = 1 THEN [fdr_active EXCEPT !.e = dispatch.e] ELSE launch
  /\ dispatch' = dispatch
  /\ insert_valid' = FALSE
  /\ in_use' = {e \in in_use : ~Committing(e)}
  /\ Retires(leaving, tokens, read_ret, store_ret)

\* The cycle that either form describes, with its retires drawn from the memory system.
CycleForm ==
  \E read_ret \in ReadRetire, store_ret \in StoreRetire, tokens \in SUBSET EBlock :
    \/ \E p \in Packet : AcceptCycle(p, tokens, read_ret, store_ret)
    \/ \E entering, leaving \in {0, 1} :
         QuietCycle(entering, leaving, tokens, read_ret, store_ret)

\* Every step of the back end has one of the two forms.
LEMMA CycleForms ==
  ASSUME TypeOK, Next
  PROVE  CycleForm
  <1>1. PICK offer \in Offer, avail \in BOOLEAN, credit \in BOOLEAN,
             exit \in BOOLEAN, prog_done \in BOOLEAN, chunk_done \in BOOLEAN,
             read_ret \in ReadRetire, store_ret \in StoreRetire :
          /\ avail => (Busy /\ todo > 0)
          /\ exit => pipe > 0
          /\ Cycle(offer, avail, credit, exit, prog_done, chunk_done, read_ret, store_ret)
    <2>1. PICK offer \in Offer, avail \in When(Busy /\ todo > 0),
               exit \in When(pipe > 0), prog_done \in When(prog_busy),
               read_ret \in ReadRetire, store_ret \in StoreRetire :
            \E credit \in When(avail), chunk_done \in ChunkDone(avail) :
              Cycle(offer, avail, credit, exit, prog_done, chunk_done, read_ret, store_ret)
      BY DEF Next
    <2>2. PICK credit \in When(avail), chunk_done \in ChunkDone(avail) :
            Cycle(offer, avail, credit, exit, prog_done, chunk_done, read_ret, store_ret)
      BY <2>1
    <2>3. /\ avail \in BOOLEAN /\ credit \in BOOLEAN /\ exit \in BOOLEAN
          /\ prog_done \in BOOLEAN /\ chunk_done \in BOOLEAN
          /\ avail => (Busy /\ todo > 0)
          /\ exit => pipe > 0
      BY DEF When, ChunkDone
    <2>. QED  BY <2>2, <2>3
  <1>. DEFINE accepted == IF FdrReady(exit) THEN offer ELSE {}
              tokens == IF ExecPop(exit) THEN {fdr_active.e} ELSE {}
              entering == IF DispPop(avail, credit) THEN 1 ELSE 0
              leaving == IF exit THEN 1 ELSE 0
  <1>2. /\ FdrUpdate(accepted, ExecPop(exit))
        /\ ProgUpdate(accepted, prog_done)
        /\ DispatcherUpdate(accepted, avail, DispPop(avail, credit), chunk_done)
        /\ PipelineUpdate(avail, credit, exit)
        /\ MemoryUpdate(exit, read_ret, store_ret)
        /\ InUseUpdate(accepted)
        /\ BrtCycle(accepted, read_ret, store_ret, tokens)
    BY <1>1 DEF Cycle
  <1>3. tokens \in SUBSET EBlock
    BY NumEblocksAssumption, SMT DEF TypeOK, IssueTypeOK, Packet, NoPacket, EBlock
  <1>4. /\ prog_pending' \in BOOLEAN /\ handshake' \in BOOLEAN /\ prog_busy' \in BOOLEAN
    BY <1>2, Zenon DEF ProgUpdate, ProgV, ProgHandshake, TypeOK, IssueTypeOK
  <1>5. dispatched_count' \in 0 .. DispatchMod - 1 /\ last_chunk_done' \in BOOLEAN
    <2>1. dispatched_count' \in 0 .. DispatchMod - 1
      BY <1>2, DispatchModAssumption, SMT DEF DispatcherUpdate, TypeOK, IssueTypeOK
    <2>2. last_chunk_done' \in BOOLEAN
      BY <1>2, Zenon DEF DispatcherUpdate, TypeOK, IssueTypeOK
    <2>. QED  BY <2>1, <2>2
  <1>6. Retires(leaving, tokens, read_ret, store_ret)
    BY <1>2, SMT DEF Retires, MemoryUpdate, BrtCycle
  <1>7. CASE accepted # {}
    <2>1. PICK p \in Packet : p.e \notin in_use /\ offer = {p} /\ FdrReady(exit)
      BY <1>7 DEF Offer
    <2>. DEFINE tok == IF fdr_active_valid /\ ~exec_pop_sent /\ exec_dispatch_done
                       THEN {fdr_active.e} ELSE {}
    <2>2. accepted = {p} /\ ~exit /\ ~Busy /\ ~prog_busy /\ ~prog_pending /\ pipe = 0
      BY <2>1 DEF FdrReady
    <2>3. ~avail /\ ~DispPop(avail, credit) /\ tokens = tok
      <3>1. ~avail
        BY <1>1, <2>2
      <3>2. ~DispPop(avail, credit)
        BY <3>1 DEF DispPop
      <3>3. tokens = tok
        BY <2>2 DEF ExecPop
      <3>. QED  BY <3>1, <3>2, <3>3
    <2>4. fdr_active' = p /\ fdr_active_valid' = TRUE
          /\ exec_pop_sent' = FALSE /\ exec_dispatch_done' = FALSE
      BY <1>2, <2>2 DEF FdrUpdate
    <2>5. ps' = "DISPATCHING" /\ todo' = p.threads
      BY <1>2, <2>2 DEF DispatcherUpdate
    <2>6. pipe' = 0 /\ launch' = launch
      BY <1>2, <2>2, <2>3, SMT DEF PipelineUpdate, TypeOK, IssueTypeOK
    <2>7. dispatch' = [e |-> p.e, reads |-> p.threads * p.loads,
                       stores |-> p.threads * p.stores + 1]
          /\ insert_valid' = TRUE
      <3>1. dispatch' = [e |-> p.e, reads |-> PendingReads(p), stores |-> PendingStores(p)]
            /\ insert_valid' = TRUE
        BY <1>2, <2>2 DEF BrtCycle, BrtLatch
      <3>. QED  BY <3>1, CountsExact
    <2>8. in_use' = {e \in in_use : ~Committing(e)} \cup {p.e}
      BY <1>2, <2>2 DEF InUseUpdate
    <2>9. Retires(0, tokens, read_ret, store_ret)
      BY <1>6, <2>2
    <2>10. AcceptCycle(p, tokens, read_ret, store_ret)
      BY <1>4, <1>5, <2>1, <2>2, <2>3, <2>4, <2>5, <2>6, <2>7, <2>8, <2>9
      DEF AcceptCycle
    <2>. QED  BY <1>1, <1>3, <2>10 DEF CycleForm
  <1>8. CASE accepted = {}
    <2>1. /\ entering \in {0, 1} /\ leaving \in {0, 1}
          /\ entering = 1 => Busy /\ todo > 0
          /\ leaving = 1 => pipe > 0
      <3>1. entering = 1 => avail
        BY SMT DEF DispPop
      <3>2. leaving = 1 => exit
        BY SMT
      <3>. QED  BY <1>1, <3>1, <3>2
    <2>2. tokens = {} \/ ( /\ tokens = {fdr_active.e}
                           /\ fdr_active_valid /\ ~exec_pop_sent /\ exec_dispatch_done
                           /\ pipe = 0 )
      BY DEF ExecPop
    <2>3. tokens # {} <=> ExecPop(exit)
      OBVIOUS
    <2>4. /\ fdr_active' = fdr_active /\ fdr_active_valid' = fdr_active_valid
          /\ exec_pop_sent' = (tokens # {} \/ exec_pop_sent)
          /\ exec_dispatch_done' = (tokens = {} /\ (DispatcherDone \/ exec_dispatch_done))
      <3>1. /\ fdr_active' = fdr_active
            /\ fdr_active_valid' = (fdr_active_valid \/ FALSE)
            /\ exec_pop_sent' = (ExecPop(exit) \/ exec_pop_sent)
            /\ exec_dispatch_done' = (~ExecPop(exit) /\ (DispatcherDone \/ exec_dispatch_done))
        BY <1>2, <1>8, Zenon DEF FdrUpdate
      <3>. QED  BY <2>3, <3>1, Zenon DEF TypeOK, IssueTypeOK
    <2>5. ps' = IF DispatcherDone THEN "DONE" ELSE ps
      BY <1>2, <1>8 DEF DispatcherUpdate
    <2>6. todo' = todo - entering
      BY <1>2, <1>8, SMT DEF DispatcherUpdate, TypeOK, IssueTypeOK
    <2>7. /\ pipe' = pipe + entering - leaving
          /\ launch' = IF entering = 1 THEN [fdr_active EXCEPT !.e = dispatch.e] ELSE launch
      BY <1>2 DEF PipelineUpdate
    <2>8. dispatch' = dispatch /\ insert_valid' = FALSE
      BY <1>2, <1>8 DEF BrtCycle, BrtLatch
    <2>9. in_use' = {e \in in_use : ~Committing(e)}
      BY <1>2, <1>8 DEF InUseUpdate
    <2>10. QuietCycle(entering, leaving, tokens, read_ret, store_ret)
      BY <1>4, <1>5, <1>6, <2>1, <2>2, <2>4, <2>5, <2>6, <2>7, <2>8, <2>9
      DEF QuietCycle
    <2>. QED  BY <1>1, <1>3, <2>1, <2>10 DEF CycleForm
  <1>. QED  BY <1>7, <1>8

-----------------------------------------------------------------------------
(* What the invariant says of one state. *)

\* Counting what an e-block owes stays within the naturals.
LEMMA OwedIsNat ==
  ASSUME IInv, NEW e \in EBlock
  PROVE  /\ Unfinished(e) \in Nat
         /\ fdr_active.loads \in Nat /\ fdr_active.stores \in Nat
         /\ Unfinished(e) * fdr_active.loads \in Nat
         /\ Unfinished(e) * fdr_active.stores \in Nat
         /\ fdr_active.e \in EBlock
  <1>1. /\ todo \in Nat /\ pipe \in Nat
        /\ fdr_active.loads \in Nat /\ fdr_active.stores \in Nat
        /\ fdr_active.e \in EBlock
    <2>1. fdr_active \in Packet \cup {NoPacket} /\ todo \in Nat /\ pipe \in Nat
      BY Constants, SMT DEF IInv, TypeOK, IssueTypeOK, ConstantAssumptions
    <2>2. 0 \in EBlock
      BY Constants, SMT DEF EBlock, ConstantAssumptions
    <2>3. CASE fdr_active = NoPacket
      BY <2>1, <2>2, <2>3 DEF NoPacket
    <2>4. CASE fdr_active \in Packet
      BY <2>1, <2>4, Constants, SMT DEF Packet, ConstantAssumptions
    <2>. QED  BY <2>1, <2>3, <2>4
  <1>2. Unfinished(e) \in Nat
    BY <1>1 DEF Unfinished
  <1>3. Unfinished(e) * fdr_active.loads \in Nat /\ Unfinished(e) * fdr_active.stores \in Nat
    BY <1>1, <1>2, ProductMonotone
  <1>. QED  BY <1>1, <1>2, <1>3

\* An e-block that is ready to commit owes nothing.
LEMMA ReadyOwesNothing ==
  ASSUME IInv, NEW e \in EBlock, ReadyToCommit(e)
  PROVE  loads[e] = 0 /\ stores[e] = 0 /\ Unfinished(e) = 0 /\ ~TokenOwed(e)
  <1>1. /\ valid[e]
        /\ 0 = loads[e] + Unfinished(e) * fdr_active.loads
        /\ 0 = stores[e] + Unfinished(e) * fdr_active.stores
               + (IF TokenOwed(e) THEN 1 ELSE 0)
    BY DEF IInv, Accounting, CountInv, ReadyToCommit
  <1>2. loads[e] \in Nat /\ stores[e] \in Nat
    BY DEF IInv, TypeOK, IssueTypeOK
  <1>3. loads[e] = 0 /\ stores[e] = 0 /\ ~TokenOwed(e)
    <2>1. \A a, b \in Nat : 0 = a + b => a = 0
      BY SMT
    <2>2. \A a, b, c \in Nat : 0 = a + b + c => a = 0 /\ c = 0
      BY SMT
    <2>3. (IF TokenOwed(e) THEN 1 ELSE 0) \in Nat
      OBVIOUS
    <2>4. /\ Unfinished(e) * fdr_active.loads \in Nat
          /\ Unfinished(e) * fdr_active.stores \in Nat
      BY OwedIsNat
    <2>5. loads[e] = 0
      BY <1>1, <1>2, <2>1, <2>4
    <2>6. stores[e] = 0 /\ (IF TokenOwed(e) THEN 1 ELSE 0) = 0
      BY <1>1, <1>2, <2>2, <2>3, <2>4
    <2>. QED  BY <2>5, <2>6, SMT
  <1>4. Unfinished(e) = 0
    BY <1>3, SMT DEF Unfinished, TokenOwed, IInv, Accounting, PhaseInv, TypeOK, IssueTypeOK, Busy
  <1>. QED  BY <1>3, <1>4

\* The retires of a cycle find room in the entry of their e-block, and an e-block the
\* table does not hold has nothing to retire.
LEMMA RetiresFit ==
  ASSUME IInv, NEW e \in EBlock,
         NEW read_ret \in ReadRetire, NEW store_ret \in StoreRetire
  PROVE  /\ read_ret[e] \in Nat /\ read_ret[e] <= loads[e]
         /\ e \in store_ret => stores[e] >= 1
         /\ valid[e] => loads[e] <= pending_reads[e]
         /\ valid[e] => stores[e] + (IF TokenOwed(e) THEN 1 ELSE 0) <= pending_stores[e]
         /\ ~valid[e] => read_ret[e] = 0 /\ e \notin store_ret
         /\ \A f \in EBlock : e \in store_ret /\ f \in store_ret => e = f
  <1>1. loads[e] \in Nat /\ stores[e] \in Nat
    BY DEF IInv, TypeOK, IssueTypeOK
  <1>2. read_ret[e] \in Nat /\ read_ret[e] <= loads[e]
    BY Constants DEF ReadRetire, ConstantAssumptions
  <1>3. /\ e \in store_ret => stores[e] >= 1
        /\ \A f \in EBlock : e \in store_ret /\ f \in store_ret => e = f
    BY <1>1 DEF StoreRetire
  <1>4. valid[e] => /\ loads[e] <= pending_reads[e]
                    /\ stores[e] + (IF TokenOwed(e) THEN 1 ELSE 0) <= pending_stores[e]
    <2>1. valid[e] =>
            /\ pending_reads[e] = loads[e] + Unfinished(e) * fdr_active.loads
            /\ pending_stores[e] = stores[e] + Unfinished(e) * fdr_active.stores
                                   + (IF TokenOwed(e) THEN 1 ELSE 0)
      BY DEF IInv, Accounting, CountInv
    <2>. QED  BY <1>1, <2>1, OwedIsNat, SMT
  <1>5. ~valid[e] => loads[e] = 0 /\ stores[e] = 0
    BY DEF IInv, Accounting, FreeInv
  <1>. QED  BY <1>1, <1>2, <1>3, <1>4, <1>5, SMT

\* How the memory system and the entry of e move in a cycle.
LEMMA RetireStep ==
  ASSUME IInv, NEW e \in EBlock,
         NEW read_ret \in ReadRetire, NEW store_ret \in StoreRetire,
         NEW tokens \in SUBSET EBlock, NEW leaving \in {0, 1},
         tokens # {} => tokens = {fdr_active.e} /\ TokenOwed(fdr_active.e),
         Retires(leaving, tokens, read_ret, store_ret)
  PROVE  /\ valid' \in [EBlock -> BOOLEAN]
         /\ valid'[e] = (~Committing(e) /\ (InsertAt(e) \/ valid[e]))
         /\ loads'[e] = loads[e] - read_ret[e]
              + (IF leaving = 1 /\ launch.e = e THEN launch.loads ELSE 0)
         /\ stores'[e] = stores[e] - (IF e \in store_ret THEN 1 ELSE 0)
              + (IF leaving = 1 /\ launch.e = e THEN launch.stores ELSE 0)
         /\ valid[e] /\ ~InsertAt(e) =>
              /\ pending_reads'[e] = pending_reads[e] - read_ret[e]
              /\ pending_stores'[e] = pending_stores[e]
                   - (IF e \in store_ret THEN 1 ELSE 0) - (IF e \in tokens THEN 1 ELSE 0)
         /\ ~valid[e] =>
              /\ pending_reads'[e] = IF InsertAt(e) THEN dispatch.reads ELSE pending_reads[e]
              /\ pending_stores'[e] = IF InsertAt(e) THEN dispatch.stores ELSE pending_stores[e]
  <1>1. /\ pending_reads[e] \in Nat /\ pending_stores[e] \in Nat
        /\ loads[e] \in Nat /\ stores[e] \in Nat
    BY DEF IInv, TypeOK, IssueTypeOK, BrtTypeOK
  <1>2. /\ valid' \in [EBlock -> BOOLEAN]
        /\ valid'[e] = (~Committing(e) /\ (InsertAt(e) \/ valid[e]))
    <2>1. \A f \in EBlock :
            (~Committing(f) /\ (InsertAt(f) \/ valid[f])) \in BOOLEAN
      OBVIOUS
    <2>. QED  BY <2>1 DEF Retires, ValidUpdate
  <1>3. /\ loads'[e] = loads[e] - read_ret[e]
             + (IF leaving = 1 /\ launch.e = e THEN launch.loads ELSE 0)
        /\ stores'[e] = stores[e] - (IF e \in store_ret THEN 1 ELSE 0)
             + (IF leaving = 1 /\ launch.e = e THEN launch.stores ELSE 0)
    BY DEF Retires
  <1>4. pending_reads'[e] =
          IF read_ret[e] # 0 /\ valid[e] THEN Reduce(pending_reads[e], read_ret[e])
          ELSE IF InsertAt(e) THEN dispatch.reads ELSE pending_reads[e]
    BY DEF Retires, ReadUpdate
  <1>5. pending_stores'[e] =
          IF StoreReduce(e, store_ret, tokens) # 0 /\ valid[e]
          THEN Reduce(pending_stores[e], StoreReduce(e, store_ret, tokens))
          ELSE IF InsertAt(e) THEN dispatch.stores ELSE pending_stores[e]
    BY DEF Retires, StoreUpdate
  <1>6. e \in tokens => TokenOwed(e)
    OBVIOUS
  <1>7. valid[e] => read_ret[e] <= pending_reads[e]
                    /\ StoreReduce(e, store_ret, tokens) <= pending_stores[e]
    BY <1>1, <1>6, RetiresFit, SMT DEF StoreReduce
  <1>8. valid[e] /\ ~InsertAt(e) => pending_reads'[e] = pending_reads[e] - read_ret[e]
    BY <1>1, <1>4, <1>7, RetiresFit, SMT DEF Reduce
  <1>9. valid[e] /\ ~InsertAt(e) => pending_stores'[e] = pending_stores[e]
                   - (IF e \in store_ret THEN 1 ELSE 0) - (IF e \in tokens THEN 1 ELSE 0)
    BY <1>1, <1>5, <1>7, SMT DEF Reduce, StoreReduce
  <1>10. ~valid[e] =>
           /\ pending_reads'[e] = IF InsertAt(e) THEN dispatch.reads ELSE pending_reads[e]
           /\ pending_stores'[e] = IF InsertAt(e) THEN dispatch.stores ELSE pending_stores[e]
    BY <1>4, <1>5
  <1>. QED  BY <1>2, <1>3, <1>8, <1>9, <1>10

-----------------------------------------------------------------------------
\* A cycle that accepts an e-block preserves the invariant.
LEMMA AcceptStep ==
  ASSUME IInv, NEW p \in Packet, NEW tokens \in SUBSET EBlock,
         NEW read_ret \in ReadRetire, NEW store_ret \in StoreRetire,
         AcceptCycle(p, tokens, read_ret, store_ret)
  PROVE  IInv'
  <1>1. /\ p.e \in EBlock /\ p.threads \in 1 .. MaxThreads /\ MaxThreads \in Nat
        /\ p.loads \in Nat /\ p.stores \in Nat
    BY Constants, SMT DEF Packet, ConstantAssumptions
  <1>2. p.threads * p.loads \in Nat /\ p.threads * p.stores + 1 \in Nat
    BY CountsExact, SMT
  <1>3. ~insert_valid /\ todo = 0 /\ pipe = 0
    <2>1. /\ ~Busy /\ pipe = 0 /\ todo \in Nat
          /\ insert_valid => Busy
          /\ todo > 0 => Busy
      BY Constants DEF AcceptCycle, IInv, TypeOK, IssueTypeOK, Accounting, PhaseInv, LatchInv, ConstantAssumptions
    <2>. QED  BY <2>1, SMT
  <1>4. ASSUME NEW e \in EBlock
        PROVE  Unfinished(e) = 0 /\ ~InsertAt(e)
    BY <1>3 DEF Unfinished, InsertAt
  <1>5. ASSUME NEW e \in EBlock
        PROVE  e \in tokens <=> TokenOwed(e)
    <2>1. fdr_active_valid /\ ~exec_pop_sent => exec_dispatch_done
      BY DEF IInv, Accounting, PhaseInv, AcceptCycle
    <2>. QED  BY <2>1 DEF AcceptCycle, TokenOwed
  <1>6. tokens # {} => tokens = {fdr_active.e} /\ TokenOwed(fdr_active.e)
    BY DEF AcceptCycle, TokenOwed
  <1>7. Retires(0, tokens, read_ret, store_ret)
    BY DEF AcceptCycle
  <1>8. ~valid[p.e]
    BY <1>1 DEF AcceptCycle, IInv, Accounting, IdsAgree
  \* What the memory system and the table do for one e-block.
  <1>9. ASSUME NEW e \in EBlock
        PROVE  /\ valid'[e] = (~Committing(e) /\ valid[e])
               /\ loads'[e] = loads[e] - read_ret[e]
               /\ stores'[e] = stores[e] - (IF e \in store_ret THEN 1 ELSE 0)
               /\ valid[e] =>
                    /\ pending_reads'[e] = pending_reads[e] - read_ret[e]
                    /\ pending_stores'[e] = pending_stores[e]
                         - (IF e \in store_ret THEN 1 ELSE 0) - (IF e \in tokens THEN 1 ELSE 0)
               /\ ~valid[e] => pending_reads'[e] = pending_reads[e]
                               /\ pending_stores'[e] = pending_stores[e]
    <2>1. loads[e] \in Nat /\ stores[e] \in Nat
      BY DEF IInv, TypeOK, IssueTypeOK
    <2>2. loads'[e] = loads[e] - read_ret[e] + 0
          /\ stores'[e] = stores[e] - (IF e \in store_ret THEN 1 ELSE 0) + 0
      BY <1>6, <1>7, RetireStep
    <2>3. loads'[e] = loads[e] - read_ret[e]
          /\ stores'[e] = stores[e] - (IF e \in store_ret THEN 1 ELSE 0)
      BY <2>1, <2>2, RetiresFit, SMT
    <2>4. /\ valid'[e] = (~Committing(e) /\ valid[e])
          /\ valid[e] =>
               /\ pending_reads'[e] = pending_reads[e] - read_ret[e]
               /\ pending_stores'[e] = pending_stores[e]
                    - (IF e \in store_ret THEN 1 ELSE 0) - (IF e \in tokens THEN 1 ELSE 0)
          /\ ~valid[e] => pending_reads'[e] = pending_reads[e]
                          /\ pending_stores'[e] = pending_stores[e]
      BY <1>4, <1>6, <1>7, RetireStep
    <2>. QED  BY <2>3, <2>4
  <1>10. PhaseInv'
    BY <1>1, SMT DEF AcceptCycle, PhaseInv, Busy
  <1>11. LatchInv'
    <2>1. ~valid'[p.e]
      BY <1>1, <1>8, <1>9
    <2>. QED  BY <2>1 DEF AcceptCycle, LatchInv, Busy
  <1>12. ASSUME NEW e \in EBlock
         PROVE  /\ Unfinished(e)' = IF p.e = e THEN p.threads ELSE 0
                /\ TokenOwed(e)' <=> p.e = e
                /\ InsertAt(e)' <=> p.e = e
    <2>1. p.threads + 0 = p.threads
      BY <1>1, SMT
    <2>. QED  BY <2>1 DEF AcceptCycle, Unfinished, TokenOwed, InsertAt
  <1>13. ASSUME NEW e \in EBlock, valid'[e]
         PROVE  /\ pending_reads'[e] = loads'[e] + Unfinished(e)' * fdr_active'.loads
                /\ pending_stores'[e] = stores'[e] + Unfinished(e)' * fdr_active'.stores
                     + (IF TokenOwed(e)' THEN 1 ELSE 0)
    <2>1. valid[e] /\ e # p.e
      BY <1>8, <1>9, <1>13
    <2>2. /\ pending_reads[e] = loads[e] + 0 * fdr_active.loads
          /\ pending_stores[e] = stores[e] + 0 * fdr_active.stores
               + (IF TokenOwed(e) THEN 1 ELSE 0)
      BY <1>4, <2>1 DEF IInv, Accounting, CountInv
    <2>3. /\ fdr_active.loads \in Nat /\ fdr_active.stores \in Nat
          /\ fdr_active'.loads \in Nat /\ fdr_active'.stores \in Nat
          /\ loads[e] \in Nat /\ stores[e] \in Nat
      BY <1>1, OwedIsNat DEF IInv, TypeOK, IssueTypeOK, AcceptCycle
    <2>4. Unfinished(e)' = 0 /\ ~TokenOwed(e)'
      BY <1>12, <2>1
    <2>5. pending_reads'[e] = loads'[e] + 0 * fdr_active'.loads
      BY <1>9, <2>1, <2>2, <2>3, RetiresFit, SMT
    <2>6. pending_stores'[e] = stores'[e] + 0 * fdr_active'.stores + 0
      BY <1>5, <1>9, <2>1, <2>2, <2>3, SMT
    <2>. QED  BY <2>4, <2>5, <2>6
  <1>14. CountInv'
    BY <1>13 DEF CountInv
  <1>15. FreeInv'
    <2>1. ASSUME NEW e \in EBlock, ~valid'[e]
          PROVE  loads'[e] = 0 /\ stores'[e] = 0
      <3>1. loads[e] = 0 /\ stores[e] = 0
        <4>1. CASE valid[e]
          BY <1>9, <2>1, <4>1, ReadyOwesNothing DEF Committing
        <4>2. CASE ~valid[e]
          BY <4>2 DEF IInv, Accounting, FreeInv
        <4>. QED  BY <4>1, <4>2
      <3>. QED  BY <1>9, <3>1, RetiresFit, SMT
    <2>. QED  BY <1>12, <2>1 DEF FreeInv
  <1>16. IdsAgree'
    BY <1>1, <1>4, <1>9, <1>12 DEF IInv, Accounting, IdsAgree, AcceptCycle
  <1>17. TypeOK'
    <2>1. ASSUME NEW e \in EBlock
          PROVE  /\ loads'[e] \in Nat /\ stores'[e] \in Nat
                 /\ pending_reads'[e] \in Nat /\ pending_stores'[e] \in Nat
      <3>1. /\ loads[e] \in Nat /\ stores[e] \in Nat
            /\ pending_reads[e] \in Nat /\ pending_stores[e] \in Nat
        BY DEF IInv, TypeOK, IssueTypeOK, BrtTypeOK
      <3>. QED  BY <1>5, <1>9, <3>1, RetiresFit, SMT
    <2>2. loads' \in [EBlock -> Nat] /\ stores' \in [EBlock -> Nat]
      <3>1. /\ loads' = [e \in EBlock |-> loads'[e]]
            /\ stores' = [e \in EBlock |-> stores'[e]]
        BY <1>7 DEF Retires
      <3>. QED  BY <2>1, <3>1
    <2>3. pending_reads' \in [EBlock -> Nat] /\ pending_stores' \in [EBlock -> Nat]
      <3>1. /\ pending_reads' = [e \in EBlock |-> pending_reads'[e]]
            /\ pending_stores' = [e \in EBlock |-> pending_stores'[e]]
        BY <1>7 DEF Retires, ReadUpdate, StoreUpdate
      <3>. QED  BY <2>1, <3>1
    <2>4. rr_ptr' \in EBlock
      BY <1>7, Constants, SMT
      DEF Retires, RrUpdate, IInv, TypeOK, IssueTypeOK, BrtTypeOK, EBlock, ConstantAssumptions
    <2>5. valid' \in [EBlock -> BOOLEAN]
      BY <1>1, <1>6, <1>7, RetireStep
    <2>6. dispatch' \in [e : EBlock, reads : Nat, stores : Nat] /\ insert_valid' \in BOOLEAN
      BY <1>1, <1>2 DEF AcceptCycle
    <2>7. in_use' \subseteq EBlock
      BY <1>1 DEF AcceptCycle, IInv, TypeOK, IssueTypeOK
    <2>8. todo' \in 0 .. MaxThreads /\ pipe' \in 0 .. MaxThreads
      BY <1>1, SMT DEF AcceptCycle
    <2>. QED  BY <2>2, <2>3, <2>4, <2>5, <2>6, <2>7, <2>8
              DEF AcceptCycle, IInv, TypeOK, IssueTypeOK, BrtTypeOK
  <1>. QED  BY <1>10, <1>11, <1>14, <1>15, <1>16, <1>17 DEF IInv, Accounting

-----------------------------------------------------------------------------
\* A cycle that accepts nothing preserves the invariant.
LEMMA QuietStep ==
  ASSUME IInv, NEW entering \in {0, 1}, NEW leaving \in {0, 1},
         NEW tokens \in SUBSET EBlock,
         NEW read_ret \in ReadRetire, NEW store_ret \in StoreRetire,
         QuietCycle(entering, leaving, tokens, read_ret, store_ret)
  PROVE  IInv'
  <1>1. /\ todo \in Nat /\ pipe \in Nat /\ fdr_active.threads \in Nat
        /\ fdr_active.e \in EBlock
        /\ fdr_active.loads \in Nat /\ fdr_active.stores \in Nat
        /\ MaxThreads \in Nat /\ fdr_active.threads <= MaxThreads
    <2>1. fdr_active.threads \in Nat /\ fdr_active.threads <= MaxThreads /\ MaxThreads \in Nat
      <3>1. CASE fdr_active = NoPacket
        BY <3>1, Constants, SMT DEF NoPacket, ConstantAssumptions
      <3>2. CASE fdr_active \in Packet
        BY <3>2, Constants, SMT DEF Packet, ConstantAssumptions
      <3>. QED  BY <3>1, <3>2 DEF IInv, TypeOK, IssueTypeOK
    <2>2. todo \in Nat /\ pipe \in Nat
      BY Constants, SMT DEF IInv, TypeOK, IssueTypeOK, ConstantAssumptions
    <2>3. 0 \in EBlock
      BY Constants, SMT DEF EBlock, ConstantAssumptions
    <2>. QED  BY <2>1, <2>2, <2>3, OwedIsNat
  <1>2. Retires(leaving, tokens, read_ret, store_ret)
    BY DEF QuietCycle
  <1>3. tokens # {} => /\ tokens = {fdr_active.e} /\ TokenOwed(fdr_active.e)
                       /\ pipe = 0 /\ todo = 0 /\ ~Busy
    <2>1. ~(todo > 0) => todo = 0
      BY <1>1, SMT
    <2>. QED  BY <2>1 DEF QuietCycle, TokenOwed, IInv, Accounting, PhaseInv
  <1>4. /\ entering = 1 => Busy /\ todo > 0
        /\ leaving = 1 => pipe > 0
    BY DEF QuietCycle
  <1>5. leaving = 1 => launch = fdr_active
    BY <1>4 DEF IInv, Accounting, PhaseInv
  <1>6. /\ todo' = todo - entering /\ todo' \in Nat
        /\ pipe' = pipe + entering - leaving /\ pipe' \in Nat
        /\ todo' + pipe' = todo + pipe - leaving
    BY <1>1, <1>4, SMT DEF QuietCycle
  <1>7. /\ fdr_active' = fdr_active /\ fdr_active_valid' = fdr_active_valid
        /\ dispatch' = dispatch /\ insert_valid' = FALSE
        /\ exec_pop_sent' = (tokens # {} \/ exec_pop_sent)
    BY DEF QuietCycle
  <1>8. todo + pipe <= fdr_active.threads /\ dispatch.e = fdr_active.e
    BY DEF IInv, Accounting, PhaseInv
  <1>9. PhaseInv'
    <2>1. dispatch'.e = fdr_active'.e /\ todo' + pipe' <= fdr_active'.threads
      BY <1>1, <1>6, <1>7, <1>8, SMT
    <2>2. fdr_active_valid' => fdr_active' \in Packet
      BY <1>7 DEF IInv, Accounting, PhaseInv
    <2>3. ~fdr_active_valid' =>
            ps' = "IDLE" /\ todo' = 0 /\ pipe' = 0 /\ ~insert_valid' /\ ~exec_dispatch_done'
      <3>1. ~fdr_active_valid =>
              ps = "IDLE" /\ todo = 0 /\ pipe = 0 /\ ~exec_dispatch_done /\ ~Busy
        BY DEF IInv, Accounting, PhaseInv, Busy
      <3>2. ~Busy => ps' = ps /\ (exec_dispatch_done' => exec_dispatch_done) /\ entering = 0
        BY <1>4 DEF QuietCycle, DispatcherDone
      <3>3. ~fdr_active_valid => ~(leaving = 1)
        BY <1>4, <3>1, SMT
      <3>4. ~fdr_active_valid => todo' = 0 - 0 /\ pipe' = 0 + 0 - 0
        BY <1>6, <3>1, <3>2, <3>3
      <3>. QED  BY <1>7, <3>1, <3>2, <3>4, SMT
    <2>4. fdr_active_valid' => ps' # "IDLE"
      BY <1>7 DEF QuietCycle, IInv, Accounting, PhaseInv
    <2>5. todo' > 0 => Busy'
      BY <1>1, <1>6, SMT DEF QuietCycle, IInv, Accounting, PhaseInv, DispatcherDone, Busy
    <2>6. Busy' => Busy /\ ~DispatcherDone
      BY DEF QuietCycle, DispatcherDone, Busy
    <2>7. Busy' => ~exec_pop_sent' /\ ~exec_dispatch_done'
      BY <1>3, <1>7, <2>6 DEF QuietCycle, IInv, Accounting, PhaseInv
    <2>8. exec_dispatch_done' => ~exec_pop_sent'
      <3>1. exec_dispatch_done' => tokens = {} /\ (Busy \/ exec_dispatch_done)
        BY DEF QuietCycle, DispatcherDone
      <3>2. Busy \/ exec_dispatch_done => ~exec_pop_sent
        BY DEF IInv, Accounting, PhaseInv
      <3>. QED  BY <1>7, <3>1, <3>2
    <2>9. exec_pop_sent' => pipe' = 0
      <3>1. CASE tokens # {}
        BY <1>1, <1>3, <1>4, <1>6, <3>1, SMT
      <3>2. CASE exec_pop_sent
        <4>1. pipe = 0 /\ ~Busy
          BY <3>2 DEF IInv, Accounting, PhaseInv
        <4>. QED  BY <1>4, <1>6, <4>1, SMT
      <3>. QED  BY <1>7, <3>1, <3>2
    <2>10. fdr_active_valid' /\ ~exec_pop_sent' => Busy' \/ exec_dispatch_done'
      <3>1. fdr_active_valid /\ ~exec_pop_sent => Busy \/ exec_dispatch_done
        BY DEF IInv, Accounting, PhaseInv
      <3>2. CASE DispatcherDone /\ tokens = {}
        BY <3>2 DEF QuietCycle
      <3>3. CASE ~DispatcherDone /\ tokens = {}
        <4>1. (Busy => Busy') /\ (exec_dispatch_done => exec_dispatch_done')
          BY <3>3 DEF QuietCycle, Busy
        <4>. QED  BY <1>7, <3>1, <3>3, <4>1
      <3>4. CASE tokens # {}
        BY <1>7, <3>4
      <3>. QED  BY <3>2, <3>3, <3>4
    <2>11. pipe' > 0 => launch' = fdr_active'
      <3>1. CASE entering = 1
        <4>1. fdr_active_valid
          BY <1>4, <3>1 DEF IInv, Accounting, PhaseInv, Busy
        <4>2. [fdr_active EXCEPT !.e = fdr_active.e] = fdr_active
          BY <4>1 DEF IInv, Accounting, PhaseInv, Packet
        <4>. QED  BY <1>7, <1>8, <3>1, <4>2 DEF QuietCycle
      <3>2. CASE entering = 0
        <4>1. launch' = launch /\ (pipe' > 0 => pipe > 0)
          BY <1>1, <1>6, <3>2, SMT DEF QuietCycle
        <4>. QED  BY <1>7, <4>1 DEF IInv, Accounting, PhaseInv
      <3>. QED  BY <3>1, <3>2
    <2>. QED  BY <2>1, <2>2, <2>3, <2>4, <2>5, <2>7, <2>8, <2>9, <2>10, <2>11 DEF PhaseInv
  <1>10. LatchInv'
    BY <1>7 DEF LatchInv
  \* What is left of the active e-block after the cycle.
  <1>11. ASSUME NEW e \in EBlock
         PROVE  /\ Unfinished(e)' = Unfinished(e) - (IF leaving = 1 /\ fdr_active.e = e THEN 1 ELSE 0)
                /\ leaving = 1 /\ fdr_active.e = e => Unfinished(e) > 0
                /\ TokenOwed(e)' <=> TokenOwed(e) /\ e \notin tokens
                /\ e \in tokens => TokenOwed(e)
                /\ ~InsertAt(e)'
    <2>1. /\ Unfinished(e)' = Unfinished(e) - (IF leaving = 1 /\ fdr_active.e = e THEN 1 ELSE 0)
          /\ leaving = 1 /\ fdr_active.e = e => Unfinished(e) > 0
      BY <1>1, <1>4, <1>6, <1>7, SMT DEF Unfinished
    <2>. QED  BY <1>3, <1>7, <2>1 DEF TokenOwed, InsertAt
  <1>12. ASSUME NEW e \in EBlock
         PROVE  /\ Unfinished(e)' * fdr_active.loads =
                     Unfinished(e) * fdr_active.loads
                     - (IF leaving = 1 /\ launch.e = e THEN launch.loads ELSE 0)
                /\ Unfinished(e)' * fdr_active.stores =
                     Unfinished(e) * fdr_active.stores
                     - (IF leaving = 1 /\ launch.e = e THEN launch.stores ELSE 0)
                /\ Unfinished(e)' * fdr_active.loads \in Nat
                /\ Unfinished(e)' * fdr_active.stores \in Nat
    <2>1. CASE leaving = 1 /\ fdr_active.e = e
      <3>1. Unfinished(e)' = Unfinished(e) - 1 /\ Unfinished(e) > 0 /\ Unfinished(e) \in Nat
        BY <1>11, <2>1, OwedIsNat
      <3>2. /\ (Unfinished(e) - 1) * fdr_active.loads
                 = Unfinished(e) * fdr_active.loads - fdr_active.loads
            /\ (Unfinished(e) - 1) * fdr_active.stores
                 = Unfinished(e) * fdr_active.stores - fdr_active.stores
        BY <1>1, <3>1, OneThreadLess
      <3>3. Unfinished(e) - 1 \in Nat
        BY <3>1, SMT
      <3>4. /\ (Unfinished(e) - 1) * fdr_active.loads \in Nat
            /\ (Unfinished(e) - 1) * fdr_active.stores \in Nat
        BY <1>1, <3>3, ProductMonotone
      <3>. QED  BY <1>5, <2>1, <3>1, <3>2, <3>4
    <2>2. CASE ~(leaving = 1 /\ fdr_active.e = e)
      <3>1. Unfinished(e)' = Unfinished(e)
        <4>1. Unfinished(e)' = Unfinished(e) - 0 /\ Unfinished(e) \in Nat
          BY <1>11, <2>2, OwedIsNat
        <4>. QED  BY <4>1, SMT
      <3>2. ~(leaving = 1 /\ launch.e = e)
        BY <1>5, <2>2
      <3>3. /\ Unfinished(e) * fdr_active.loads \in Nat
            /\ Unfinished(e) * fdr_active.stores \in Nat
        BY OwedIsNat
      <3>4. \A x \in Nat : x = x - 0
        BY SMT
      <3>. QED  BY <3>1, <3>2, <3>3, <3>4
    <2>. QED  BY <2>1, <2>2
  <1>13. ASSUME NEW e \in EBlock
         PROVE  /\ valid'[e] = (~Committing(e) /\ (InsertAt(e) \/ valid[e]))
                /\ loads'[e] = loads[e] - read_ret[e]
                     + (IF leaving = 1 /\ launch.e = e THEN launch.loads ELSE 0)
                /\ stores'[e] = stores[e] - (IF e \in store_ret THEN 1 ELSE 0)
                     + (IF leaving = 1 /\ launch.e = e THEN launch.stores ELSE 0)
                /\ valid[e] /\ ~InsertAt(e) =>
                     /\ pending_reads'[e] = pending_reads[e] - read_ret[e]
                     /\ pending_stores'[e] = pending_stores[e]
                          - (IF e \in store_ret THEN 1 ELSE 0) - (IF e \in tokens THEN 1 ELSE 0)
                /\ ~valid[e] =>
                     /\ pending_reads'[e] = IF InsertAt(e) THEN dispatch.reads ELSE pending_reads[e]
                     /\ pending_stores'[e] = IF InsertAt(e) THEN dispatch.stores ELSE pending_stores[e]
    BY <1>2, <1>3, RetireStep
  <1>14. ASSUME NEW e \in EBlock
         PROVE  /\ loads[e] \in Nat /\ stores[e] \in Nat
                /\ (IF leaving = 1 /\ launch.e = e THEN launch.loads ELSE 0) \in Nat
                /\ (IF leaving = 1 /\ launch.e = e THEN launch.stores ELSE 0) \in Nat
    BY <1>1, <1>5 DEF IInv, TypeOK, IssueTypeOK
  <1>15. ASSUME NEW e \in EBlock, InsertAt(e)
         PROVE  /\ fdr_active.e = e /\ ~valid[e] /\ leaving = 0 /\ tokens = {}
                /\ TokenOwed(e) /\ Unfinished(e)' = fdr_active.threads
                /\ loads'[e] = 0 /\ stores'[e] = 0
                /\ pending_reads'[e] = fdr_active.threads * fdr_active.loads
                /\ pending_stores'[e] = fdr_active.threads * fdr_active.stores + 1
    <2>1. /\ insert_valid /\ dispatch.e = e /\ fdr_active.e = e /\ ~valid[e]
          /\ Busy /\ pipe = 0 /\ todo = fdr_active.threads
          /\ dispatch.reads = fdr_active.threads * fdr_active.loads
          /\ dispatch.stores = fdr_active.threads * fdr_active.stores + 1
      BY <1>8, <1>15 DEF InsertAt, IInv, Accounting, LatchInv
    <2>2. leaving = 0 /\ tokens = {}
      BY <1>3, <1>4, <2>1, SMT
    <2>3. TokenOwed(e)
      BY <2>1 DEF TokenOwed, IInv, Accounting, PhaseInv, Busy
    <2>4. Unfinished(e)' = fdr_active.threads
      BY <1>1, <1>6, <1>7, <2>1, <2>2, SMT DEF Unfinished
    <2>5. loads[e] = 0 /\ stores[e] = 0 /\ read_ret[e] = 0 /\ e \notin store_ret
      BY <2>1, RetiresFit DEF IInv, Accounting, FreeInv
    <2>6. loads'[e] = 0 - 0 + 0 /\ stores'[e] = 0 - 0 + 0
      BY <1>13, <2>2, <2>5
    <2>7. pending_reads'[e] = dispatch.reads /\ pending_stores'[e] = dispatch.stores
      BY <1>13, <1>15, <2>1
    <2>. QED  BY <2>1, <2>2, <2>3, <2>4, <2>6, <2>7, SMT
  <1>16. ASSUME NEW e \in EBlock, valid[e]
         PROVE  /\ ~InsertAt(e)
                /\ pending_reads'[e] = loads'[e] + Unfinished(e)' * fdr_active.loads
                /\ pending_stores'[e] = stores'[e] + Unfinished(e)' * fdr_active.stores
                     + (IF TokenOwed(e)' THEN 1 ELSE 0)
    <2>1. ~InsertAt(e)
      BY <1>16 DEF InsertAt, IInv, Accounting, LatchInv
    <2>. DEFINE ul == Unfinished(e) * fdr_active.loads
                us == Unfinished(e) * fdr_active.stores
                ul2 == Unfinished(e)' * fdr_active.loads
                us2 == Unfinished(e)' * fdr_active.stores
                il == IF leaving = 1 /\ launch.e = e THEN launch.loads ELSE 0
                is == IF leaving = 1 /\ launch.e = e THEN launch.stores ELSE 0
                sr == IF e \in store_ret THEN 1 ELSE 0
                tr == IF e \in tokens THEN 1 ELSE 0
                t1 == IF TokenOwed(e) THEN 1 ELSE 0
                t2 == IF TokenOwed(e)' THEN 1 ELSE 0
    <2>2. pending_reads[e] = loads[e] + ul /\ pending_stores[e] = stores[e] + us + t1
      BY <1>16 DEF IInv, Accounting, CountInv
    <2>3. ul2 = ul - il /\ us2 = us - is
      BY <1>12
    <2>4. ul \in Nat /\ us \in Nat
      BY OwedIsNat
    <2>5. il \in Nat /\ is \in Nat /\ loads[e] \in Nat /\ stores[e] \in Nat
      BY <1>14
    <2>6. /\ loads'[e] = loads[e] - read_ret[e] + il
          /\ stores'[e] = stores[e] - sr + is
          /\ pending_reads'[e] = pending_reads[e] - read_ret[e]
          /\ pending_stores'[e] = pending_stores[e] - sr - tr
      BY <1>13, <1>16, <2>1
    <2>7. t2 = t1 - tr /\ sr \in Nat /\ tr \in Nat /\ t1 \in Nat
      BY <1>11, SMT
    <2>8. read_ret[e] \in Nat
      BY RetiresFit
    <2>. HIDE DEF ul, us, ul2, us2, il, is, sr, tr, t1, t2
    <2>9. pending_reads'[e] = loads'[e] + ul2
      BY <2>2, <2>3, <2>4, <2>5, <2>6, <2>8, SMT
    <2>10. pending_stores'[e] = stores'[e] + us2 + t2
      BY <2>2, <2>3, <2>4, <2>5, <2>6, <2>7, SMT
    <2>. QED  BY <2>1, <2>9, <2>10 DEF ul2, us2, t2
  <1>17. CountInv'
    <2>1. ASSUME NEW e \in EBlock, valid'[e]
          PROVE  /\ pending_reads'[e] = loads'[e] + Unfinished(e)' * fdr_active.loads
                 /\ pending_stores'[e] = stores'[e] + Unfinished(e)' * fdr_active.stores
                      + (IF TokenOwed(e)' THEN 1 ELSE 0)
      <3>1. CASE valid[e]
        BY <1>16, <3>1
      <3>2. CASE InsertAt(e)
        <4>1. /\ Unfinished(e)' = fdr_active.threads /\ TokenOwed(e)'
              /\ loads'[e] = 0 /\ stores'[e] = 0
              /\ pending_reads'[e] = fdr_active.threads * fdr_active.loads
              /\ pending_stores'[e] = fdr_active.threads * fdr_active.stores + 1
          BY <1>11, <1>15, <3>2
        <4>2. fdr_active.threads * fdr_active.loads \in Nat
              /\ fdr_active.threads * fdr_active.stores \in Nat
          BY <1>1, ProductMonotone
        <4>3. \A x \in Nat : x = 0 + x /\ x + 1 = 0 + x + 1
          BY SMT
        <4>. QED  BY <4>1, <4>2, <4>3
      <3>. QED  BY <1>13, <2>1, <3>1, <3>2
    <2>. QED  BY <1>7, <2>1 DEF CountInv
  <1>18. FreeInv'
    <2>1. ASSUME NEW e \in EBlock, ~valid'[e]
          PROVE  /\ ~InsertAt(e) /\ loads[e] = 0 /\ stores[e] = 0
                 /\ Unfinished(e) = 0 /\ ~TokenOwed(e)
      <3>1. ~InsertAt(e)
        <4>1. InsertAt(e) => ~valid[e]
          BY <1>15
        <4>. QED  BY <1>13, <2>1, <4>1 DEF Committing, ReadyToCommit
      <3>2. CASE valid[e]
        BY <1>13, <2>1, <3>1, <3>2, ReadyOwesNothing DEF Committing
      <3>3. CASE ~valid[e]
        BY <3>1, <3>3 DEF IInv, Accounting, FreeInv
      <3>. QED  BY <3>1, <3>2, <3>3
    <2>2. ASSUME NEW e \in EBlock, ~valid'[e]
          PROVE  /\ loads'[e] = 0 /\ stores'[e] = 0
                 /\ Unfinished(e)' = 0 /\ ~TokenOwed(e)'
      <3>1. ~(leaving = 1 /\ fdr_active.e = e)
        BY <1>11, <2>1, <2>2, SMT
      <3>2. ~(leaving = 1 /\ launch.e = e)
        BY <1>5, <3>1
      <3>3. Unfinished(e)' = 0 - 0 /\ ~TokenOwed(e)'
        BY <1>11, <2>1, <2>2, <3>1
      <3>4. read_ret[e] = 0 /\ e \notin store_ret
        <4>1. \A n \in Nat : n <= 0 => n = 0
          BY SMT
        <4>2. ~(0 >= 1)
          BY SMT
        <4>. QED  BY <2>1, <2>2, <4>1, <4>2, RetiresFit
      <3>5. loads'[e] = 0 - 0 + 0 /\ stores'[e] = 0 - 0 + 0
        BY <1>13, <2>1, <2>2, <3>2, <3>4
      <3>6. loads'[e] = 0 /\ stores'[e] = 0
        BY <3>5, SMT
      <3>7. 0 - 0 = 0
        BY SMT
      <3>. QED  BY <3>3, <3>6, <3>7
    <2>. QED  BY <2>2 DEF FreeInv
  <1>19. IdsAgree'
    BY <1>11, <1>13 DEF IInv, Accounting, IdsAgree, QuietCycle
  <1>20. TypeOK'
    <2>1. ASSUME NEW e \in EBlock
          PROVE  loads'[e] \in Nat /\ stores'[e] \in Nat
      BY <1>13, <1>14, RetiresFit, SMT
    <2>2. ASSUME NEW e \in EBlock
          PROVE  pending_reads'[e] \in Nat /\ pending_stores'[e] \in Nat
      <3>1. CASE valid[e]
        <4>1. /\ pending_reads'[e] = loads'[e] + Unfinished(e)' * fdr_active.loads
              /\ pending_stores'[e] = stores'[e] + Unfinished(e)' * fdr_active.stores
                     + (IF TokenOwed(e)' THEN 1 ELSE 0)
          BY <1>16, <3>1
        <4>2. /\ Unfinished(e)' * fdr_active.loads \in Nat
              /\ Unfinished(e)' * fdr_active.stores \in Nat
          BY <1>12
        <4>3. \A a, b \in Nat : a + b \in Nat
          BY SMT
        <4>4. \A a, b, c \in Nat : a + b + c \in Nat
          BY SMT
        <4>5. (IF TokenOwed(e)' THEN 1 ELSE 0) \in Nat
          OBVIOUS
        <4>6. pending_reads'[e] \in Nat
          BY <2>1, <4>1, <4>2, <4>3
        <4>7. pending_stores'[e] \in Nat
          BY <2>1, <4>1, <4>2, <4>4, <4>5
        <4>. QED  BY <4>6, <4>7
      <3>2. CASE ~valid[e]
        BY <1>13, <3>2 DEF IInv, TypeOK, IssueTypeOK, BrtTypeOK
      <3>. QED  BY <3>1, <3>2
    <2>3. loads' \in [EBlock -> Nat] /\ stores' \in [EBlock -> Nat]
      <3>1. /\ loads' = [e \in EBlock |-> loads'[e]]
            /\ stores' = [e \in EBlock |-> stores'[e]]
        BY <1>2 DEF Retires
      <3>. QED  BY <2>1, <3>1
    <2>4. pending_reads' \in [EBlock -> Nat] /\ pending_stores' \in [EBlock -> Nat]
      <3>1. /\ pending_reads' = [e \in EBlock |-> pending_reads'[e]]
            /\ pending_stores' = [e \in EBlock |-> pending_stores'[e]]
        BY <1>2 DEF Retires, ReadUpdate, StoreUpdate
      <3>. QED  BY <2>2, <3>1
    <2>5. rr_ptr' \in EBlock
      BY <1>2, Constants, SMT
      DEF Retires, RrUpdate, IInv, TypeOK, IssueTypeOK, BrtTypeOK, EBlock, ConstantAssumptions
    <2>6. valid' \in [EBlock -> BOOLEAN]
      BY <1>1, <1>2, <1>3, RetireStep
    <2>7. in_use' \subseteq EBlock
      BY DEF QuietCycle, IInv, TypeOK, IssueTypeOK
    <2>8. todo' \in 0 .. MaxThreads /\ pipe' \in 0 .. MaxThreads
      BY <1>1, <1>6, <1>8, SMT
    <2>9. /\ fdr_active' \in Packet \cup {NoPacket}
          /\ launch' \in Packet \cup {NoPacket}
      <3>1. CASE entering = 1
        <4>1. fdr_active_valid
          BY <1>4, <3>1 DEF IInv, Accounting, PhaseInv, Busy
        <4>2. fdr_active \in Packet /\ [fdr_active EXCEPT !.e = dispatch.e] = fdr_active
          BY <1>8, <4>1 DEF IInv, Accounting, PhaseInv, Packet
        <4>. QED  BY <1>7, <3>1, <4>2 DEF QuietCycle
      <3>2. CASE entering = 0
        BY <1>7, <3>2 DEF QuietCycle, IInv, TypeOK, IssueTypeOK
      <3>. QED  BY <3>1, <3>2
    <2>10. /\ fdr_active_valid' \in BOOLEAN /\ exec_pop_sent' \in BOOLEAN
           /\ exec_dispatch_done' \in BOOLEAN
      BY <1>7 DEF QuietCycle, IInv, TypeOK, IssueTypeOK
    <2>11. ps' \in {"IDLE", "DISPATCHING", "DONE"}
      BY DEF QuietCycle, IInv, TypeOK, IssueTypeOK
    <2>12. dispatch' \in [e : EBlock, reads : Nat, stores : Nat] /\ insert_valid' \in BOOLEAN
      BY <1>7 DEF IInv, TypeOK, IssueTypeOK, BrtTypeOK
    <2>. QED  BY <2>3, <2>4, <2>5, <2>6, <2>7, <2>8, <2>9, <2>10, <2>11, <2>12
              DEF QuietCycle, TypeOK, IssueTypeOK, BrtTypeOK
  <1>. QED  BY <1>9, <1>10, <1>17, <1>18, <1>19, <1>20 DEF IInv, Accounting

-----------------------------------------------------------------------------
(* The theorems. *)

\* After reset the table is empty and nothing is owed.
LEMMA InitInv == Init => IInv
  <1>. SUFFICES ASSUME Init PROVE IInv
    OBVIOUS
  <1>1. 0 \in EBlock
    BY Constants, SMT DEF EBlock, ConstantAssumptions
  <1>2. TypeOK
    <2>1. BrtTypeOK
      BY <1>1 DEF Init, IssueInit, BrtInit, BrtTypeOK
    <2>2. 0 \in 0 .. MaxThreads /\ 0 \in 0 .. DispatchMod - 1
      BY Constants, SMT DEF ConstantAssumptions
    <2>. QED  BY <2>1, <2>2 DEF Init, IssueInit, TypeOK, IssueTypeOK
  <1>3. PhaseInv
    BY SMT DEF Init, IssueInit, BrtInit, PhaseInv, NoPacket, Busy
  <1>4. LatchInv /\ CountInv
    BY DEF Init, IssueInit, BrtInit, LatchInv, CountInv
  <1>5. FreeInv
    BY SMT DEF Init, IssueInit, BrtInit, FreeInv, Unfinished, TokenOwed
  <1>6. IdsAgree
    BY DEF Init, IssueInit, BrtInit, IdsAgree, InsertAt
  <1>. QED  BY <1>2, <1>3, <1>4, <1>5, <1>6 DEF IInv, Accounting

\* Every cycle, and every stuttering step, preserves the invariant.
LEMMA NextInv == IInv /\ [Next]_vars => IInv'
  <1>. SUFFICES ASSUME IInv, [Next]_vars PROVE IInv'
    OBVIOUS
  <1>1. CASE Next
    <2>1. PICK read_ret \in ReadRetire, store_ret \in StoreRetire, tokens \in SUBSET EBlock :
            \/ \E p \in Packet : AcceptCycle(p, tokens, read_ret, store_ret)
            \/ \E entering, leaving \in {0, 1} :
                 QuietCycle(entering, leaving, tokens, read_ret, store_ret)
      BY <1>1, CycleForms DEF IInv, CycleForm
    <2>2. ASSUME NEW p \in Packet, AcceptCycle(p, tokens, read_ret, store_ret)
          PROVE  IInv'
      BY <2>2, AcceptStep
    <2>3. ASSUME NEW entering \in {0, 1}, NEW leaving \in {0, 1},
                 QuietCycle(entering, leaving, tokens, read_ret, store_ret)
          PROVE  IInv'
      BY <2>3, QuietStep
    <2>. QED  BY <2>1, <2>2, <2>3
  <1>2. CASE UNCHANGED vars
    BY <1>2 DEF vars, issue_vars, brt_vars, IInv, TypeOK, IssueTypeOK, BrtTypeOK, Accounting, PhaseInv, LatchInv,
                CountInv, FreeInv, IdsAgree, Unfinished, TokenOwed, InsertAt, Busy
  <1>. QED  BY <1>1, <1>2

\* The counters of an e-block hold exactly what it owes, whatever the numbers of
\* e-blocks, threads and ports: with it, every register keeps its type.
THEOREM AccountingHolds == Spec => [](TypeOK /\ Accounting)
  <1>1. Spec => []IInv
    BY InitInv, NextInv, PTL DEF Spec
  <1>. QED  BY <1>1, PTL DEF IInv

\* Type correctness of the back end's registers.
THEOREM TypeCorrect == Spec => []TypeOK
  BY AccountingHolds, PTL

\* An e-block commits only when its threads have left the CGRA, its loads and stores
\* have retired and its execution token has been returned.
THEOREM CommitIsSafe == Spec => []CommitOnlyWhenRetired
  <1>1. IInv => CommitOnlyWhenRetired
    BY ReadyOwesNothing DEF CommitOnlyWhenRetired
  <1>. QED  BY <1>1, AccountingHolds, PTL DEF IInv

\* A retire never meets an empty entry nor takes a counter below zero.
THEOREM RetiresNeverUnderflow == Spec => []RetiresLand
  <1>1. IInv => RetiresLand
    <2>. SUFFICES ASSUME IInv, NEW e \in EBlock
                  PROVE  /\ loads[e] > 0 => valid[e] /\ pending_reads[e] >= loads[e]
                         /\ stores[e] > 0 => valid[e] /\ pending_stores[e] >= stores[e]
      BY DEF RetiresLand
    <2>1. /\ loads[e] \in Nat /\ stores[e] \in Nat
          /\ pending_reads[e] \in Nat /\ pending_stores[e] \in Nat
      BY DEF IInv, TypeOK, IssueTypeOK, BrtTypeOK
    <2>2. ~valid[e] => loads[e] = 0 /\ stores[e] = 0
      BY DEF IInv, Accounting, FreeInv
    <2>3. valid[e] => /\ pending_reads[e] = loads[e] + Unfinished(e) * fdr_active.loads
                      /\ pending_stores[e] = stores[e] + Unfinished(e) * fdr_active.stores
                           + (IF TokenOwed(e) THEN 1 ELSE 0)
      BY DEF IInv, Accounting, CountInv
    <2>4. /\ Unfinished(e) * fdr_active.loads \in Nat
          /\ Unfinished(e) * fdr_active.stores \in Nat
      BY OwedIsNat
    <2>5. \A a, b \in Nat : a + b >= a /\ a + b + 1 >= a /\ a + b + 0 >= a
      BY SMT
    <2>6. valid[e] => pending_reads[e] >= loads[e] /\ pending_stores[e] >= stores[e]
      BY <2>1, <2>3, <2>4, <2>5
    <2>7. ~(0 > 0)
      BY SMT
    <2>. QED  BY <2>2, <2>6, <2>7
  <1>. QED  BY <1>1, AccountingHolds, PTL DEF IInv

\* The table is never asked to insert over an occupied entry.
THEOREM InsertsFindRoom == Spec => []NoDoubleInsert
  <1>1. IInv => NoDoubleInsert
    BY DEF IInv, Accounting, LatchInv, NoDoubleInsert
  <1>. QED  BY <1>1, AccountingHolds, PTL DEF IInv

\* The memory requests of a thread carry the id of the e-block it belongs to.
THEOREM RequestsKeepTheirEblock == Spec => []RequestsTaggedRight
  <1>1. IInv => RequestsTaggedRight
    BY DEF IInv, Accounting, PhaseInv, RequestsTaggedRight
  <1>. QED  BY <1>1, AccountingHolds, PTL DEF IInv

\* No step replaces the active e-block while its execution token is still owed.
THEOREM TokenNeverLost == Spec => TokenNotLost
  <1>1. ASSUME IInv, [Next]_vars
        PROVE  [insert_valid' /\ fdr_active_valid => exec_pop_sent \/ ExecPop(FALSE)]_vars
    <2>1. CASE UNCHANGED vars
      BY <2>1
    <2>2. CASE Next
      <3>. SUFFICES ASSUME insert_valid', fdr_active_valid, ~exec_pop_sent
                    PROVE  ExecPop(FALSE)
        OBVIOUS
      <3>1. PICK read_ret \in ReadRetire, store_ret \in StoreRetire, tokens \in SUBSET EBlock :
              \/ \E p \in Packet : AcceptCycle(p, tokens, read_ret, store_ret)
              \/ \E entering, leaving \in {0, 1} :
                   QuietCycle(entering, leaving, tokens, read_ret, store_ret)
        BY <1>1, <2>2, CycleForms DEF IInv, CycleForm
      <3>2. PICK p \in Packet : AcceptCycle(p, tokens, read_ret, store_ret)
        BY <3>1 DEF QuietCycle
      <3>3. exec_dispatch_done
        BY <1>1, <3>2 DEF AcceptCycle, IInv, Accounting, PhaseInv
      <3>. QED  BY <3>2, <3>3 DEF AcceptCycle, ExecPop
    <2>. QED  BY <1>1, <2>1, <2>2
  <1>2. Spec => []IInv
    BY AccountingHolds, PTL DEF IInv
  <1>. QED  BY <1>1, <1>2, PTL DEF Spec, TokenNotLost

=============================================================================
