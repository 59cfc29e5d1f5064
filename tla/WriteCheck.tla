----------------------------- MODULE WriteCheck -----------------------------
(***************************************************************************)
(* The verdict of the test benches: dpi_dice_core_runtime.cpp is given the *)
(* writes a kernel is expected to make, is told every write that arrives,  *)
(* in the order of arrival, and at the end says whether they are the same. *)
(***************************************************************************)
EXTENDS Naturals, Sequences, FiniteSets

CONSTANT Write  \* what tells one write from another: address, data and strobe

VARIABLES
  expected,  \* g_expected_writes
  matched,   \* g_expected_matched, the indices that are true
  actual,    \* g_actual_writes
  errors,    \* g_error_count
  verdict    \* what dice_core_tb_check_done has returned

check_vars == <<expected, matched, actual, errors, verdict>>

CheckTypeOK ==
  /\ expected \in Seq(Write) /\ matched \subseteq DOMAIN expected
  /\ actual \in Seq(Write) /\ errors \in Nat
  /\ verdict \in {"none", "pass", "fail"}

\* dice_core_tb_init; the runtime JSON is any list of up to max writes.
CheckInit(max) ==
  /\ \E n \in 0 .. max : expected \in [1 .. n -> Write]
  /\ matched = {} /\ actual = <<>> /\ errors = 0 /\ verdict = "none"

Missing == DOMAIN expected \ matched

Candidates_Again(write) == {i \in DOMAIN expected : expected[i] = write}

\* An expected write stands for one actual write.
Candidates(write) == {i \in Missing : expected[i] = write}

\* dice_core_tb_record_axi_write: the first candidate is matched.
RecordWrite(write) ==
  LET found == {i \in Candidates(write) : \A j \in Candidates(write) : i <= j}
  IN  /\ actual' = Append(actual, write)
      /\ matched' = matched \cup found
      /\ errors' = IF expected # <<>> /\ found = {} THEN errors + 1 ELSE errors
      /\ UNCHANGED <<expected, verdict>>

\* dice_core_tb_check_done
CheckDone ==
  /\ errors' = errors + Cardinality(Missing)
  /\ verdict' = IF errors' = 0 THEN "pass" ELSE "fail"
  /\ UNCHANGED <<expected, matched, actual>>

\* How often a write is in a list.
Times(write, list) == Cardinality({i \in DOMAIN list : list[i] = write})

\* The order in which writes arrive is not compared.
SameWrites(a, b) == \A v \in Write : Times(v, a) = Times(v, b)
=============================================================================
