------------------------------- MODULE Fetch -------------------------------
(***************************************************************************)
(* The two fetch units of the front end: meta_fetch, which reads the       *)
(* metadata of the scheduled block, and bitstream_fetch_load, which fills  *)
(* one of two configuration memories with its bitstream unless one of them *)
(* holds it already.  Their bursts come back in order over the one link of *)
(* the chip, where the beat at the head waits for the unit it is for.      *)
(***************************************************************************)
EXTENDS BranchHandler

CONSTANTS MetaBeats, BitstreamBeats  \* the lengths of the two bursts

ASSUME MetaBeatsAssumption == MetaBeats \in Nat \ {0}
ASSUME BitstreamBeatsAssumption == BitstreamBeats \in Nat \ {0}

Unit == {"mfetch", "bsfetch"}

\* A burst on its way back, with the beats that are left; addr is a program counter.
Burst == [unit : Unit, addr : PC, left : 1 .. BitstreamBeats + MetaBeats]

NoBlock == 0  \* what a chunk holds before it is written

VARIABLES
  meta_state,  \* state_q of meta_fetch
  flushed,     \* flushed_q
  meta_valid,  \* meta_valid_q
  meta,        \* outgoing_meta_q, as the address it was read from
  bs_state,    \* state_q of bitstream_fetch_load
  ar_sent,     \* ar_sent_q
  cm,          \* cm0_addr_q, cm0_valid_q, cm1_addr_q, cm1_valid_q
  cm_select,   \* cm_select_q
  chunk,       \* cm_wr_addr_q, in chunks
  bank,        \* bank_data_r of the serializer: whose bitstream each chunk is of
  link         \* bursts accepted by the link and not yet delivered

fetch_vars ==
  <<meta_state, flushed, meta_valid, meta, bs_state, ar_sent, cm, cm_select, chunk, bank, link>>

FetchTypeOK ==
  /\ meta_state \in {"Ready", "ReqVal", "WaitResp", "HoldData"}
  /\ flushed \in BOOLEAN /\ meta_valid \in BOOLEAN /\ meta \in PC
  /\ bs_state \in {"Idle", "Streaming", "Done"} /\ ar_sent \in BOOLEAN
  /\ cm \in [0 .. 1 -> [addr : PC, valid : BOOLEAN]] /\ cm_select \in 0 .. 1
  /\ chunk \in 1 .. BitstreamBeats + 1
  /\ bank \in [0 .. 1 -> [1 .. BitstreamBeats -> PC \cup {NoBlock}]]
  /\ link \in Seq(Burst) /\ Len(link) <= 2

FetchInit ==
  /\ meta_state = "Ready" /\ flushed = FALSE /\ meta_valid = FALSE /\ meta = 1
  /\ bs_state = "Idle" /\ ar_sent = FALSE
  /\ cm = [b \in 0 .. 1 |-> [addr |-> 1, valid |-> FALSE]] /\ cm_select = 0
  /\ chunk = 1
  /\ bank = [b \in 0 .. 1 |-> [c \in 1 .. BitstreamBeats |-> NoBlock]]
  /\ link = <<>>

-----------------------------------------------------------------------------
(* Outputs *)

ScheduleReady == meta_state = "Ready"

\* meta_valid_o, which decode passes on
MetaValid == meta_valid /\ ~flushed

Hit(b) == cm[b].valid /\ cm[b].addr = meta

\* done_streaming_o
DoneStreaming == \E b \in 0 .. 1 : Hit(b)

\* cm_num_o
CmNum == IF Hit(0) THEN 0 ELSE IF Hit(1) THEN 1 ELSE cm_select

\* The read requests; a flush withdraws them.
MetaRequest == meta_state = "ReqVal" /\ ~PredictMiss
BitstreamRequest == bs_state = "Streaming" /\ ~ar_sent /\ ~PredictMiss

\* r_ready of the unit that the head of the link is for.
HeadReady ==
  /\ link # <<>>
  /\ \/ Head(link).unit = "mfetch" /\ meta_state = "WaitResp"
     \/ Head(link).unit = "bsfetch" /\ bs_state = "Streaming" /\ ar_sent

\* A beat is delivered to its unit; the last one of its burst.
Beat(unit, r_valid) == r_valid /\ HeadReady /\ Head(link).unit = unit
LastBeat == Head(link).left = 1

-----------------------------------------------------------------------------

MetaState(scheduled, fire, ar_ready, r_valid) ==
  CASE meta_state = "Ready" -> IF scheduled THEN "ReqVal" ELSE "Ready"
    [] PredictMiss -> "Ready"
    [] meta_state = "ReqVal" -> IF ar_ready THEN "WaitResp" ELSE "ReqVal"
    [] meta_state = "WaitResp" ->
         IF Beat("mfetch", r_valid) /\ LastBeat THEN "HoldData" ELSE "WaitResp"
    [] OTHER -> IF fire THEN "Ready" ELSE "HoldData"

Flushed_Sticky(scheduled) == flushed \/ PredictMiss

\* The next schedule ends the flush.
Flushed(scheduled) == ~scheduled /\ (flushed \/ PredictMiss)

MetaFetch(scheduled, fire, ar_ready, r_valid) ==
  LET arrived == Beat("mfetch", r_valid) /\ LastBeat /\ ~PredictMiss
  IN  /\ meta_state' = MetaState(scheduled, fire, ar_ready, r_valid)
      /\ flushed' = Flushed(scheduled)
      /\ meta_valid' = (~fire /\ (arrived \/ (meta_valid /\ ~PredictMiss)))
      /\ meta' = IF arrived THEN Head(link).addr ELSE meta

LoadInto_IgnoresActive(prog_active, prog_buffer) ==
  IF cm[0].valid \/ cm[1].valid THEN 1 - cm_select ELSE 0

\* The configuration memory to load: never the one that is being shifted out.
LoadInto(prog_active, prog_buffer) ==
  IF prog_active THEN 1 - prog_buffer
  ELSE IF cm[0].valid \/ cm[1].valid THEN 1 - cm_select ELSE 0

\* An idle unit starts to load the bitstream of valid metadata that is in no memory.
StartLoad == bs_state = "Idle" /\ MetaValid /\ ~DoneStreaming

BitstreamState(ar_ready, r_valid) ==
  CASE bs_state = "Idle" -> IF StartLoad THEN "Streaming" ELSE "Idle"
    [] bs_state = "Streaming" ->
         IF PredictMiss THEN "Idle"
         ELSE IF Beat("bsfetch", r_valid) /\ LastBeat THEN "Done" ELSE "Streaming"
    [] bs_state = "Done" -> "Idle"

CmUpdate(prog_active, prog_buffer) ==
  cm' = CASE StartLoad ->
               [cm EXCEPT ![LoadInto(prog_active, prog_buffer)] =
                  [addr |-> meta, valid |-> FALSE]]
          [] bs_state = "Done" -> [cm EXCEPT ![cm_select].valid = TRUE]
          [] OTHER -> cm

\* A beat is written in the clock it arrives, not while the load is being flushed.
Write(r_valid) == Beat("bsfetch", r_valid) /\ ~PredictMiss

BitstreamFetch(prog_active, prog_buffer, ar_ready, r_valid) ==
  /\ bs_state' = BitstreamState(ar_ready, r_valid)
  /\ ar_sent' = IF bs_state # "Streaming" \/ PredictMiss \/ (Beat("bsfetch", r_valid) /\ LastBeat)
                THEN FALSE ELSE ar_sent \/ (BitstreamRequest /\ ar_ready)
  /\ CmUpdate(prog_active, prog_buffer)
  /\ cm_select' = IF StartLoad THEN LoadInto(prog_active, prog_buffer) ELSE cm_select
  /\ chunk' = IF StartLoad \/ (bs_state = "Streaming" /\ PredictMiss) THEN 1
              ELSE IF Write(r_valid) THEN chunk + 1 ELSE chunk
  /\ bank' = IF Write(r_valid) THEN [bank EXCEPT ![CmNum][chunk] = Head(link).addr] ELSE bank

\* The link delivers a beat, and accepts one burst a clock.
LinkUpdate(ar_ready, r_valid) ==
  LET rest == IF ~(r_valid /\ HeadReady) THEN link
              ELSE IF LastBeat THEN Tail(link)
              ELSE <<[Head(link) EXCEPT !.left = @ - 1]>> \o Tail(link)
  IN  link' = CASE ar_ready /\ MetaRequest ->
                     Append(rest, [unit |-> "mfetch", addr |-> sched.pc, left |-> MetaBeats])
                [] ar_ready /\ BitstreamRequest ->
                     Append(rest, [unit |-> "bsfetch", addr |-> cm[cm_select].addr,
                                   left |-> BitstreamBeats])
                [] OTHER -> rest

\* One clock of both units and of the link.
FetchCycle(scheduled, fire, prog_active, prog_buffer, ar_ready, r_valid) ==
  /\ MetaFetch(scheduled, fire, ar_ready, r_valid)
  /\ BitstreamFetch(prog_active, prog_buffer, ar_ready, r_valid)
  /\ LinkUpdate(ar_ready, r_valid)

=============================================================================
