---------------------------- MODULE BlockCommit ----------------------------
(***************************************************************************)
(* The block retire table: dice_brt latches the counts of an e-block when  *)
(* the back end accepts it and inserts them one clock later into           *)
(* block_commit_table, which counts the e-block's loads, stores and its    *)
(* execution token down to zero and then commits it, one e-block a clock,  *)
(* searching round-robin.  Every operator below is a register update of    *)
(* one clock edge; Backend composes them into a clock cycle.               *)
(***************************************************************************)
EXTENDS Naturals

CONSTANTS
  NumEblocks,  \* table entries, 2**DICE_EBLOCK_ID_WIDTH in the source
  CountMod     \* 2**PENDING_MEM_COUNT_WIDTH, where the counters wrap

ASSUME NumEblocksAssumption == NumEblocks \in Nat \ {0}
ASSUME CountModAssumption == CountMod \in Nat \ {0}

EBlock == 0 .. NumEblocks - 1

VARIABLES
  dispatch,        \* dispatch_e_block_id, dispatch_pending_reads / _stores
  insert_valid,    \* bct_insert_valid_r
  valid,           \* commit_table[e].valid
  pending_reads,   \* commit_table[e].pending_reads
  pending_stores,  \* commit_table[e].pending_stores
  rr_ptr           \* round-robin pointer of the commit search

brt_vars == <<dispatch, insert_valid, valid, pending_reads, pending_stores, rr_ptr>>

BrtTypeOK ==
  /\ dispatch \in [e : EBlock, reads : Nat, stores : Nat]
  /\ insert_valid \in BOOLEAN
  /\ valid \in [EBlock -> BOOLEAN]
  /\ pending_reads \in [EBlock -> Nat]
  /\ pending_stores \in [EBlock -> Nat]
  /\ rr_ptr \in EBlock

BrtInit ==
  /\ dispatch = [e |-> 0, reads |-> 0, stores |-> 0]
  /\ insert_valid = FALSE
  /\ valid = [e \in EBlock |-> FALSE]
  /\ pending_reads = [e \in EBlock |-> 0]
  /\ pending_stores = [e \in EBlock |-> 0]
  /\ rr_ptr = 0

-----------------------------------------------------------------------------
(* Commit selection. *)

ReadyToCommit_IgnoresStores(e) == valid[e] /\ pending_reads[e] = 0

ReadyToCommit(e) ==
  /\ valid[e]
  /\ pending_reads[e] = 0
  /\ pending_stores[e] = 0

\* How far the search that starts at rr_ptr walks before it reaches e.
SearchDistance(e) == IF e >= rr_ptr THEN e - rr_ptr ELSE e + NumEblocks - rr_ptr

\* e is the entry on pop_e_block_id_o in this cycle.
Committing(e) ==
  /\ ReadyToCommit(e)
  /\ \A f \in EBlock : ReadyToCommit(f) => SearchDistance(e) <= SearchDistance(f)

PopValid == \E e \in EBlock : ReadyToCommit(e)

-----------------------------------------------------------------------------
(* Register updates. *)

InsertAt(e) == insert_valid /\ dispatch.e = e

\* A counter of the table is CountMod wide: taking too much wraps.
Reduce(count, n) == IF n <= count THEN count - n ELSE count + CountMod - n

\* Insert is assigned first and the pop last, so the pop wins on one entry.
ValidUpdate ==
  valid' = [e \in EBlock |-> ~Committing(e) /\ (InsertAt(e) \/ valid[e])]

\* read_reduce: loads of each e-block written to the register file this cycle.
ReadUpdate_DropsBursts(read_reduce) ==
  pending_reads' = [e \in EBlock |->
    IF read_reduce[e] # 0 /\ valid[e] THEN Reduce(pending_reads[e], 1)
    ELSE IF InsertAt(e) THEN dispatch.reads ELSE pending_reads[e]]

ReadUpdate(read_reduce) ==
  pending_reads' = [e \in EBlock |->
    IF read_reduce[e] # 0 /\ valid[e] THEN Reduce(pending_reads[e], read_reduce[e])
    ELSE IF InsertAt(e) THEN dispatch.reads ELSE pending_reads[e]]

\* store_reduce_count: at most one store retire and one execution token a
\* cycle, which may belong to the same e-block.
StoreReduce(e, store_ret, exec_ret) ==
  (IF e \in store_ret THEN 1 ELSE 0) + (IF e \in exec_ret THEN 1 ELSE 0)

StoreUpdate(store_ret, exec_ret) ==
  pending_stores' = [e \in EBlock |->
    IF StoreReduce(e, store_ret, exec_ret) # 0 /\ valid[e]
    THEN Reduce(pending_stores[e], StoreReduce(e, store_ret, exec_ret))
    ELSE IF InsertAt(e) THEN dispatch.stores ELSE pending_stores[e]]

\* pop_ready_i is tied high in dice_core.
RrUpdate ==
  rr_ptr' = IF ~PopValid THEN rr_ptr
            ELSE IF rr_ptr = NumEblocks - 1 THEN 0 ELSE rr_ptr + 1

\* fdr_pending_reads_li and fdr_pending_stores_li of dice_backend: one count per
\* active thread and memory operation, plus one for the execution token.
PendingReads(p) == (p.threads * p.loads) % CountMod

PendingStores_NoToken(p) == (p.threads * p.stores) % CountMod

PendingStores(p) == (p.threads * p.stores + 1) % CountMod

\* The latch in front of the table: accepted is the set holding the packet
\* accepted this cycle, if any.
BrtLatch(accepted) ==
  /\ dispatch' \in IF accepted = {} THEN {dispatch}
                   ELSE {[e |-> p.e, reads |-> PendingReads(p),
                          stores |-> PendingStores(p)] : p \in accepted}
  /\ insert_valid' = (accepted # {})

BrtCycle(accepted, read_reduce, store_ret, exec_ret) ==
  /\ BrtLatch(accepted)
  /\ ValidUpdate
  /\ ReadUpdate(read_reduce)
  /\ StoreUpdate(store_ret, exec_ret)
  /\ RrUpdate

=============================================================================
