------------------------------- MODULE LinkRx -------------------------------
(***************************************************************************)
(* axi_link_rx: the flits of the host, one a clock, become AXI again.  A   *)
(* parser takes them off the ingress FIFO, a packet at a time, and sorts   *)
(* them into FIFOs for writes, reads, and the beats of read answers, which *)
(* are replayed on the channels of the crossbar.  On this link a write has *)
(* one beat, and a read asks for the status register.                      *)
(***************************************************************************)
EXTENDS Integers, Sequences

CONSTANTS
  Beats,       \* beats of the reads of each unit of the core
  Word,        \* what a data flit carries
  LinkDepth, WrDescDepth, WDataDepth, RdDescDepth, RDescDepth, RDataDepth  \* rx_*_fifo_els_p

Unit == {"mfetch", "bsfetch", "dfetch"}
Reg == {"START_PC", "THREAD_COUNT", "CSRX0", "CTRL"}

ASSUME BeatsAssumption == Beats \in [Unit -> Nat \ {0}]
ASSUME WordAssumption == Word \subseteq Nat /\ \A u \in Unit : 1 .. Beats[u] \subseteq Word
ASSUME DepthsAssumption ==
  {LinkDepth, WrDescDepth, WDataDepth, RdDescDepth, RDescDepth, RDataDepth} \subseteq Nat \ {0}

\* What is left of a burst.
Burst == [unit : Unit, left : Word]

\* A header, or a beat of data; a READ_RESP tells for whom and how many beats follow.
Flit == [op : {"WRITE"}, reg : Reg] \cup [op : {"READ"}]
          \cup [op : {"READ_RESP"}, burst : Burst] \cup [op : {"DATA"}, word : Word]

VARIABLES
  link,          \* the ingress FIFO
  state,         \* state_r
  beats_left,    \* payload_rem_r, cur_beats_r
  wr_desc, w_data, rd_desc, r_desc, r_data,  \* the FIFOs behind the parser
  write_active,  \* write_active_r
  r_burst        \* r_active_r, r_id_r, r_beats_left_r; no beats left: not active

rx_vars == <<link, state, beats_left, wr_desc, w_data, rd_desc, r_desc, r_data, write_active,
             r_burst>>

RxTypeOK ==
  /\ link \in Seq(Flit) /\ Len(link) <= LinkDepth
  /\ state \in {"RX_IDLE", "RX_WR_DATA", "RX_R_DATA"} /\ beats_left \in Word
  /\ wr_desc \in Seq(Reg) /\ Len(wr_desc) <= WrDescDepth
  /\ w_data \in Seq(Word) /\ Len(w_data) <= WDataDepth
  /\ rd_desc \in Seq({"STATUS"}) /\ Len(rd_desc) <= RdDescDepth
  /\ r_desc \in Seq(Burst) /\ Len(r_desc) <= RDescDepth
  /\ r_data \in Seq(Word) /\ Len(r_data) <= RDataDepth
  /\ write_active \in BOOLEAN
  /\ r_burst \in Burst

RxInit ==
  /\ link = <<>> /\ state = "RX_IDLE" /\ beats_left = 0
  /\ wr_desc = <<>> /\ w_data = <<>> /\ rd_desc = <<>> /\ r_desc = <<>> /\ r_data = <<>>
  /\ write_active = FALSE
  /\ r_burst = [unit |-> "mfetch", left |-> 0]

-----------------------------------------------------------------------------
(* The parser. *)

Header(op) == state = "RX_IDLE" /\ link # <<>> /\ Head(link).op = op

\* A flit is taken only when the FIFO it goes to has room.
ParsesWrite == Header("WRITE") /\ Len(wr_desc) < WrDescDepth
ParsesRead == Header("READ") /\ Len(rd_desc) < RdDescDepth
ParsesResp == Header("READ_RESP") /\ Len(r_desc) < RDescDepth
ParsesWData == state = "RX_WR_DATA" /\ link # <<>> /\ Len(w_data) < WDataDepth
ParsesRData == state = "RX_R_DATA" /\ link # <<>> /\ Len(r_data) < RDataDepth

\* link_fifo_yumi_li
Parses == ParsesWrite \/ ParsesRead \/ ParsesResp \/ ParsesWData \/ ParsesRData

ParserUpdate_OneBeatMore ==
  /\ state' = CASE ParsesWrite -> "RX_WR_DATA"
                [] ParsesResp -> "RX_R_DATA"
                [] (ParsesWData \/ ParsesRData) /\ beats_left = 0 -> "RX_IDLE"
                [] OTHER -> state
  /\ beats_left' = CASE ParsesWrite -> 1
                     [] ParsesResp -> Head(link).burst.left
                     [] (ParsesWData \/ ParsesRData) /\ beats_left > 0 -> beats_left - 1
                     [] OTHER -> beats_left

ParserUpdate ==
  /\ state' = CASE ParsesWrite -> "RX_WR_DATA"
                [] ParsesResp -> "RX_R_DATA"
                [] (ParsesWData \/ ParsesRData) /\ beats_left = 1 -> "RX_IDLE"
                [] OTHER -> state
  /\ beats_left' = CASE ParsesWrite -> 1
                     [] ParsesResp -> Head(link).burst.left
                     [] ParsesWData \/ ParsesRData -> beats_left - 1
                     [] OTHER -> beats_left

-----------------------------------------------------------------------------
(* AXI reconstruction. *)

AwValid == wr_desc # <<>> /\ ~write_active
WValid == write_active /\ w_data # <<>>
ArValid == rd_desc # <<>>

\* The burst on the R channel; one starts when its first beat is there.
RStarts == r_burst.left = 0 /\ r_desc # <<>> /\ r_data # <<>>
RBurst == IF r_burst.left > 0 THEN r_burst ELSE Head(r_desc)
RValid == r_data # <<>> /\ (r_burst.left > 0 \/ RStarts)
RLast == RBurst.left = 1

-----------------------------------------------------------------------------

\* What is left of a FIFO whose head is taken, or is not.
After(fifo, taken) == IF taken THEN Tail(fifo) ELSE fifo

With(fifo, pushed, item) == IF pushed THEN Append(fifo, item) ELSE fifo

\* One clock; arrived holds the flit that comes in, the rest are ready signals.
RxCycle(arrived, aw_ready, w_ready, ar_ready, r_ready) ==
  LET w_fire == WValid /\ w_ready
      r_fire == RValid /\ r_ready
  IN  /\ arrived # <<>> => Len(link) < LinkDepth
      /\ link' = After(link, Parses) \o arrived
      /\ ParserUpdate
      /\ wr_desc' = With(After(wr_desc, w_fire), ParsesWrite, Head(link).reg)
      /\ w_data' = With(After(w_data, w_fire), ParsesWData, Head(link).word)
      /\ rd_desc' = With(After(rd_desc, ArValid /\ ar_ready), ParsesRead, "STATUS")
      /\ r_desc' = With(After(r_desc, RStarts), ParsesResp, Head(link).burst)
      /\ r_data' = With(After(r_data, r_fire), ParsesRData, Head(link).word)
      /\ write_active' = ((write_active \/ (AwValid /\ aw_ready)) /\ ~w_fire)
      /\ r_burst' = IF r_fire THEN [RBurst EXCEPT !.left = @ - 1]
                    ELSE IF RStarts THEN RBurst ELSE r_burst

=============================================================================
