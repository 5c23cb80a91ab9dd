------------------------------- MODULE GmiiRx -------------------------------
(***************************************************************************)
(* conv_1G_rx.v: from the bytes of the GMII to packets for the traffic     *)
(* engine.  The MAC and the writing half of the FIFO run with the clock of *)
(* the PHY, the arbiter with the system clock, so a step is an edge of one *)
(* of the two clocks, and they interleave in every way.                    *)
(*                                                                         *)
(* In front of it is the wire, with a gap, a preamble and a frame; behind  *)
(* it a history of what the traffic engine is given.                       *)
(***************************************************************************)
EXTENDS GmiiRxFifo, GmiiRxArb, SequencesExt

CONSTANTS SPEEDS,      \* the values of rx_sel_1000m looked at
          MIN_GAP,     \* byte times between two frames, at least
          PREAMBLE,    \* bytes before the SFD
          FRAMES       \* <<length, byte with rx_err>>: length -1 is a preamble
                       \* only, 0 an SFD only; rx_err at byte 0 is none, at
                       \* SfdByte all the preamble

ASSUME GmiiRxAssumption ==
    /\ RX_IFG_SET \in Nat /\ RX_IFG_SET >= 4
    /\ RX_MIN_LEN \in Nat /\ RX_MAX_LEN \in Nat
    /\ NUMWORDS \in Nat \ {0} /\ SAFE_WORDS \in 1 .. NUMWORDS - 1
    /\ MAX_TICK_WITHOUT_READ \in Nat \ {0}
    /\ SPEEDS \subseteq BOOLEAN
    /\ MIN_GAP \in Nat \ {0} /\ PREAMBLE \in Nat \ {0}
    /\ FRAMES \subseteq (-1 .. RX_MAX_LEN + 2) \X (SfdByte .. RX_MAX_LEN)

VARIABLES
    rx_sel_1000m, rx_clk_en,   \* rgmii_clk_ctrl
    wire,        \* where the link partner is in its frame
    verdict,     \* history: of the MAC on the frame: good, bad CRC, cut off
    sent,        \* history: bytes the link partner sent of that frame
    written,     \* history: data units of the frame written to the FIFO
    packet,      \* history: data units passed on of the packet under way
    out          \* history: what the last step took out and passed on

macSideVars == <<macVars, fifoVars, rx_sel_1000m, rx_clk_en, wire, verdict,
                 sent, written>>
vars == <<macSideVars, arbVars, packet, out>>

-----------------------------------------------------------------------------
(* The wire. *)

Wire == [phase : {"gap", "preamble", "sfd", "data"}, i : Nat,
         len : Int, err : Int, frame : {0, 1}]

Gap(frame) == [phase |-> "gap", i |-> 1, len |-> 0, err |-> 0, frame |-> frame]

FrameOver == {Gap(wire.frame)}

Onward(phase, i) == {[wire EXCEPT !.phase = phase, !.i = i]}

NewFrame == {[phase |-> "preamble", i |-> 1, len |-> f[1], err |-> f[2],
              frame |-> 1 - wire.frame] : f \in FRAMES}

WireMoves ==
    CASE wire.phase = "gap" -> IF wire.i < MIN_GAP THEN Onward("gap", wire.i + 1)
                               ELSE {wire} \cup NewFrame
      [] wire.phase = "preamble" ->
            IF wire.i < PREAMBLE THEN Onward("preamble", wire.i + 1)
            ELSE IF wire.len < 0 THEN FrameOver ELSE Onward("sfd", 1)
      [] wire.phase = "sfd" -> IF wire.len = 0 THEN FrameOver
                                               ELSE Onward("data", 1)
      [] wire.phase = "data" -> IF wire.i < wire.len
                                THEN Onward("data", wire.i + 1)
                                ELSE FrameOver

\* gmii_rx_d, gmii_rx_dv, gmii_rx_err
LineNow ==
    [dv  |-> wire.phase # "gap",
     d   |-> [frame |-> wire.frame,
              n     |-> CASE wire.phase = "gap"      -> NoByte
                          [] wire.phase = "preamble" -> PreambleByte
                          [] wire.phase = "sfd"      -> SfdByte
                          [] wire.phase = "data"     -> wire.i],
     err |-> \/ wire.phase = "data" /\ wire.i = wire.err
             \/ wire.phase = "preamble" /\ wire.err = SfdByte]

-----------------------------------------------------------------------------
(* Histories. *)

\* Bytes of the last frame the MAC handed on, once it has ended.
Given == frame_len - 1

\* What is known of a data unit when it is written; whole says of the last one
\* that the MAC handed on all that was sent of the frame, unless it cut it.
Note == [frame |-> rx_d2.d.frame, at |-> written,
         len  |-> IF eop_fifo THEN Given ELSE 0,
         whole |-> eop_fifo /\ verdict # "cut" => Given = sent,
         verdict |-> IF eop_fifo THEN verdict ELSE "good"]

Notes == [frame : {0, 1}, at : Nat, len : Int, whole : BOOLEAN,
          verdict : {"good", "bad", "cut"}]

Words == [sop : BOOLEAN, eop : BOOLEAN, mod : 0 .. 7, crc_err : BOOLEAN,
          note : Notes]

NoWord == [sop |-> FALSE, eop |-> FALSE, mod |-> 0, crc_err |-> FALSE,
           note |-> [frame |-> 0, at |-> 0, len |-> 0, whole |-> TRUE,
                     verdict |-> "good"]]

NoTransfer == [took |-> FALSE, val |-> FALSE, sop |-> FALSE, eop |-> FALSE, error |-> FALSE,
               pkt_len |-> 0, data |-> <<>>]

VerdictEdge(crc_err) ==
    verdict' = IF mac_state = "SFD_S" THEN "good"
               ELSE IF mac_state = "CHECK_CRC_S" /\ crc_err THEN "bad"
               ELSE IF mac_state \in {"ERR_END_S", "DROP_S",
                                      "FIFO_FULL_ERR_END_S"} THEN "cut"
               ELSE verdict

\* When the MAC begins to take a frame, its first byte has left the wire, and
\* with that the frame if it has no other.
SentEdge ==
    sent' = CASE mac_state = "SFD_S" -> IF wire.phase = "data" THEN wire.len
                                                               ELSE 1
              [] mac_state \in {"DATA_S", "CHECK_CRC_S", "OK_END_S",
                                "CRC_ERR_END_S"} -> sent
              [] OTHER -> 0

WrittenEdge == written' = IF wr_req THEN IF eop_fifo THEN 0 ELSE written + 1
                          ELSE written

-----------------------------------------------------------------------------

\* An edge of the PHY's clock.  At 10 and 100 Mbit/s every other one is
\* enabled.  crc_err is looked at by the MAC when the frame is complete.
RxClkEdge ==
    /\ IF rx_clk_en
       THEN /\ \E crc_err \in BOOLEAN :
                  /\ crc_err => mac_state = "CHECK_CRC_S"
                  /\ MacEdge(LineNow, wr_almost_full, crc_err)
                  /\ VerdictEdge(crc_err)
            /\ SentEdge
            /\ AccEdge
            /\ wire' \in WireMoves
       ELSE UNCHANGED <<macVars, accVars, wire, verdict, sent>>
    /\ WrReq(rx_clk_en)
    /\ SopLogic
    /\ WriteFifo(Note)
    /\ AlmostFull
    /\ WrittenEdge
    /\ rx_clk_en' = (rx_sel_1000m \/ ~rx_clk_en)
    /\ out' = NoTransfer
    /\ UNCHANGED <<rx_sel_1000m, arbVars, packet>>

\* An edge of the system clock.  What has just been written may not be seen
\* yet on this side of the FIFO; full is said by the traffic engine.
SysClkEdge(avail, full) ==
    LET word == IF avail THEN Head(fifo) ELSE NoWord
        data == Append(packet, word.note)
    IN  /\ avail => fifo # <<>>
        /\ ArbEdge(avail, full, word)
        /\ fifo' = IF fifo_rd_req(avail, full, word) THEN Tail(fifo) ELSE fifo
        /\ packet' = IF ~pkt_fifo_val(avail, full, word) THEN packet
                     ELSE IF pkt_eop(avail, full, word)  THEN <<>> ELSE data
        /\ out' = [took    |-> /\ fifo_rd_req(avail, full, word)
                               /\ word.sop /\ ~word.eop,
                   val     |-> pkt_fifo_val(avail, full, word),
                   sop     |-> pkt_sop(avail, full, word),
                   eop     |-> pkt_eop(avail, full, word),
                   error   |-> pkt_error(word),
                   pkt_len |-> pkt_len_out(word),
                   data    |-> IF pkt_eop(avail, full, word) THEN data ELSE <<>>]
        /\ UNCHANGED <<macVars, accVars, wr_req, sop_logic, wrusedw,
                       wr_almost_full, rx_sel_1000m, rx_clk_en, wire,
                       verdict, sent, written>>

\* The reset of the PHY's side, FIFO included.  The arbiter has no reset.
Reset ==
    /\ MacClear /\ AccClear
    /\ rx_clk_en' = FALSE /\ verdict' = "good" /\ sent' = 0 /\ written' = 0
    /\ out' = NoTransfer
    /\ UNCHANGED <<wire, rx_sel_1000m, arbVars, packet>>

Init ==
    /\ MacReset /\ AccReset /\ ArbReset
    /\ rx_sel_1000m \in SPEEDS /\ rx_clk_en = FALSE
    /\ wire = Gap(0)
    /\ verdict = "good" /\ sent = 0 /\ written = 0
    /\ packet = <<>> /\ out = NoTransfer

Next == \/ RxClkEdge
        \/ \E avail, full \in BOOLEAN : SysClkEdge(avail, full)
        \/ Reset

\* Both clocks run.
Fairness == /\ WF_vars(RxClkEdge)
            /\ WF_vars(\E avail, full \in BOOLEAN : SysClkEdge(avail, full))

Spec == Init /\ [][Next]_vars
FairSpec == Spec /\ Fairness

-----------------------------------------------------------------------------
(* Properties. *)

\* Every register, FIFO and bus keeps to its range.
TypeOK ==
    /\ MacTypeOK /\ AccTypeOK /\ ArbTypeOK
    /\ fifo \in Seq(Words)
    /\ wire \in Wire
    /\ rx_sel_1000m \in BOOLEAN /\ rx_clk_en \in BOOLEAN
    /\ verdict \in {"good", "bad", "cut"} /\ sent \in Int /\ written \in Nat
    /\ packet \in Seq(Notes)

\* A data unit written to the FIFO is the next one of the frame: its bytes in
\* their places, startofpacket on the first, endofpacket where four bytes,
\* the CRC, are left; bytes of the frame before are never among them.
WordIsOfFrame ==
    wr_req =>
        LET valid == IF eop_fifo /\ mod_fifo # 0 THEN mod_fifo ELSE 8
        IN  /\ sop_fifo <=> written = 0
            /\ \A k \in 0 .. valid - 1 :
                  data_to_write[k] = [frame |-> rx_d2.d.frame,
                                      n     |-> 8 * written + k + 1]
            /\ eop_fifo => 8 * written + valid = Given - 4

\* "If the end of a packet comes before sop has been written, we write nothing
\* to the FIFO at all" (conv_1G_rx_fifo.v): no byte of a frame that was dropped
\* is written.
NothingOfFragments ==
    wr_req => \A k \in 0 .. 7 :
                 eop_fifo \/ data_to_write[k].frame = rx_d2.d.frame

\* "Must not write to a full FIFO" (the assertion at the end of
\* stat_fifo_generic.sv): almost_full, which the MAC looks at once a byte,
\* leaves room for what is still written of the frame.
FifoNotOverrun == ~(wr_req /\ wrusedw = NUMWORDS)

\* A packet passed on without an error is of one frame, from its first data
\* unit on and without gaps, and its length is that of what the MAC handed on,
\* CRC included.  It is all of the frame that the link partner sent unless the
\* MAC cut it: a frame ended for a full FIFO, for rx_err or for its length goes
\* through ERR_END_S or FIFO_FULL_ERR_END_S with crc_err_reg 0, and what there
\* is of it is passed on as if it were good (gbe_rx_mac_ctrl_simple.sv:228).
UnmarkedIsOneFrame ==
    out.eop /\ ~out.error =>
        /\ \A i \in DOMAIN out.data :
              /\ out.data[i].frame = out.data[1].frame
              /\ out.data[i].at = i - 1
        /\ out.pkt_len = Last(out.data).len
        /\ Last(out.data).whole

\* From the wire to the traffic engine: every data unit is in its place in the
\* frame, and every unmarked packet is a frame as far as the MAC took it: all
\* of it, or the beginning of one that the MAC cut.
FrameIsCarried == WordIsOfFrame /\ UnmarkedIsOneFrame

\* A frame with a wrong CRC is passed on with an error: the verdict is still
\* in crc_err_reg when the last data unit is written.
BadCrcIsMarked ==
    out.eop /\ ~out.error => Last(out.data).verdict # "bad"

\* The traffic engine is given well-formed packets, whatever the MAC side does
\* and even if it is reset: startofpacket when and only when none is open.
PacketsFramed == [][ out'.val => (out'.sop <=> packet = <<>>) ]_vars

\* The start of a packet is taken out of the FIFO only to be passed on.
NoPacketSkipped == out.took => out.val /\ out.sop

\* Packets are passed on from a start to an end, and none without its start.
PacketsAreWhole == PacketsFramed /\ []NoPacketSkipped

\* A packet begun is ended, by force if its end never comes.
PacketsEnd == []<>(packet = <<>>)
=============================================================================
