----------------------------- MODULE ControlRegs ----------------------------
(***************************************************************************)
(* cgra_io_csr: the registers through which the host launches a CTA and    *)
(* learns of its end.  The start bit of CTRL lasts for one clock, the      *)
(* completion is sticky until the next start.  csrX stands for the eight   *)
(* kernel arguments.                                                       *)
(***************************************************************************)
EXTENDS LinkRx

VARIABLES
  aw_pending,    \* aw_pending_r
  aw_idx,        \* aw_idx_r
  ctrl,          \* the start and the reset bit of ctrl_r
  start_pc,      \* start_pc_r
  thread_count,  \* thread_count_r
  csrX,          \* csrX_r
  complete,      \* complete_sticky_r
  ar_pending     \* ar_pending_r

csr_vars == <<aw_pending, aw_idx, ctrl, start_pc, thread_count, csrX, complete, ar_pending>>

CsrTypeOK ==
  /\ aw_pending \in BOOLEAN /\ aw_idx \in Reg
  /\ ctrl \in 0 .. 3
  /\ start_pc \in Word /\ thread_count \in Word /\ csrX \in Word
  /\ complete \in BOOLEAN /\ ar_pending \in BOOLEAN

CsrInit ==
  /\ aw_pending = FALSE /\ aw_idx = "CTRL"
  /\ ctrl = 0
  /\ start_pc = 0 /\ thread_count = 0 /\ csrX = 0
  /\ complete = FALSE /\ ar_pending = FALSE

-----------------------------------------------------------------------------

StartWord == 1
ResetWord == 2

\* start_o, cgra_reset_o
Start == ctrl % 2 = 1
CgraReset == ctrl \div 2 = 1

AwReady == ~aw_pending

ArReady == ~ar_pending

\* The start bit clears itself.
CtrlKept == 2 * (ctrl \div 2)

\* do_write
DoWrite == aw_pending /\ WValid

\* A register after a write of the head of the W channel to it.
Written(reg, old) == IF DoWrite /\ aw_idx = reg THEN Head(w_data) ELSE old

CompleteUpdate_KeepsOnStart(complete_i) == complete' = (complete_i \/ complete)

CompleteUpdate(complete_i) == complete' = (complete_i \/ (complete /\ ~Start))

\* One clock; complete_i: the core tells a completion, r_ready: the answer is taken.
CsrCycle(complete_i, r_ready) ==
  /\ aw_pending' = ((aw_pending /\ ~WValid) \/ (AwValid /\ AwReady))
  /\ aw_idx' = IF AwValid /\ AwReady THEN Head(wr_desc) ELSE aw_idx
  /\ ctrl' = Written("CTRL", CtrlKept)
  /\ start_pc' = Written("START_PC", start_pc)
  /\ thread_count' = Written("THREAD_COUNT", thread_count)
  /\ csrX' = Written("CSRX0", csrX)
  /\ CompleteUpdate(complete_i)
  /\ ar_pending' = ((ar_pending /\ ~r_ready) \/ (ArValid /\ ArReady))

=============================================================================
