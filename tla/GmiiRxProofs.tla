---------------------------- MODULE GmiiRxProofs ----------------------------
(***************************************************************************)
(* The receive converter, proved for every FIFO size, every limit on the   *)
(* length of a frame, every watchdog and every set of frames: what GmiiRx  *)
(* checks with TLC on one small instance.                                  *)
(*                                                                         *)
(* The invariant IInv adds to TypeOK what keeps the two counters of the    *)
(* MAC inside their ranges (CountersInState), that a packet is open on the *)
(* side of the traffic engine exactly while the arbiter is in READ_S or    *)
(* ERR_END_S (OpenInState), and that a data unit with the end of a bad     *)
(* frame carries crc_err (BadIsFlagged).                                   *)
(***************************************************************************)
EXTENDS GmiiRx, TLAPS

CountersInState ==
    /\ mac_state = "DATA_S" => frame_len <= RX_MAX_LEN + 1
    /\ mac_state = "IFG_S" => ifg_cnt <= RX_IFG_SET - 4

OpenInState == packet = <<>> <=> arb_state \in {"IDLE_S", "DROP_S"}

BadIsFlagged ==
    /\ mac_state \in {"DATA_S", "CHECK_CRC_S"} => verdict = "good"
    /\ verdict = "bad" => crc_err_reg
    /\ \A i \in DOMAIN fifo : fifo[i].note.verdict = "bad" => fifo[i].crc_err

IInv == /\ TypeOK /\ CountersInState /\ OpenInState /\ BadIsFlagged
        /\ BadCrcIsMarked /\ NoPacketSkipped

-----------------------------------------------------------------------------
(* Sequences. *)

\* A remainder is in the range of the register it is kept in.
LEMMA ModRange ==
    ASSUME NEW m \in Nat \ {0}, NEW x \in Int
    PROVE  x % m \in 0 .. m - 1
OBVIOUS

\* A FIFO is written at its end.
LEMMA AppendFacts ==
    ASSUME NEW S, NEW s \in Seq(S), NEW x \in S
    PROVE  /\ Append(s, x) \in Seq(S)
           /\ Len(s) \in Nat
           /\ Len(Append(s, x)) = Len(s) + 1
           /\ Append(s, x) # <<>>
           /\ DOMAIN Append(s, x) = 1 .. Len(s) + 1
           /\ \A i \in 1 .. Len(s) : Append(s, x)[i] = s[i]
           /\ Append(s, x)[Len(s) + 1] = x
OBVIOUS

\* A FIFO is read at its head.
LEMMA TailFacts ==
    ASSUME NEW S, NEW s \in Seq(S), s # <<>>
    PROVE  /\ Head(s) \in S /\ Head(s) = s[1]
           /\ Tail(s) \in Seq(S)
           /\ Len(s) \in Nat \ {0}
           /\ Len(Tail(s)) = Len(s) - 1
           /\ \A i \in 1 .. Len(s) - 1 : Tail(s)[i] = s[i + 1]
OBVIOUS

-----------------------------------------------------------------------------
(* The registers of the PHY's side. *)

\* The line is a byte with its flags, wherever the link partner is.
LEMMA LineNowType ==
    ASSUME TypeOK
    PROVE  LineNow \in Line
BY DEF TypeOK, Wire, LineNow, Line, Byte, NoByte, PreambleByte, SfdByte

\* The MAC keeps to its states, and its counters to their ranges: frame_len
\* is past the limit in DATA_S for one byte at most.
LEMMA MacEdgeInv ==
    ASSUME TypeOK, CountersInState,
           NEW line \in Line, NEW full \in BOOLEAN, NEW crc \in BOOLEAN,
           MacEdge(line, full, crc)
    PROVE  MacTypeOK' /\ CountersInState'
<1> USE DEF MacTypeOK
<1>1. /\ RX_IFG_SET \in Nat /\ RX_IFG_SET >= 4
      /\ RX_MIN_LEN \in Nat /\ RX_MAX_LEN \in Nat
  BY GmiiRxAssumption DEF GmiiRxAssumption
<1>2. MacTypeOK
  BY DEF TypeOK
<1>3. mac_state' = MacNext(full, crc)
  BY DEF MacEdge
<1>4. mac_state' \in {"IDLE_S", "PREAMBLE_S", "SFD_S", "DATA_S", "CHECK_CRC_S",
                      "OK_END_S", "DROP_S", "ERR_END_S", "CRC_ERR_END_S",
                      "FIFO_FULL_DROP_S", "FIFO_FULL_ERR_END_S", "IFG_S"}
  BY <1>2, <1>3 DEF MacNext
<1>5. ifg_cnt' \in 0 .. RX_IFG_SET /\ (mac_state' = "IFG_S" => ifg_cnt' <= RX_IFG_SET - 4)
  <2>1. CASE mac_state = "IFG_S"
    <3>1. ifg_cnt' = ifg_cnt + 1
      BY <2>1 DEF MacEdge
    <3>2. mac_state' = "IFG_S" => ifg_cnt # RX_IFG_SET - 4
      BY <1>3, <2>1 DEF MacNext
    <3> QED BY <1>1, <1>2, <2>1, <3>1, <3>2 DEF CountersInState
  <2>2. CASE mac_state # "IFG_S"
    <3>1. ifg_cnt' = 0
      BY <2>2 DEF MacEdge
    <3> QED BY <1>1, <3>1
  <2> QED BY <2>1, <2>2
<1>6. /\ frame_len' \in 0 .. RX_MAX_LEN + 2
      /\ mac_state' = "DATA_S" => frame_len' <= RX_MAX_LEN + 1
  <2>1. CASE mac_state = "SFD_S"
    <3>1. frame_len' = 1
      BY <2>1 DEF MacEdge
    <3> QED BY <1>1, <3>1
  <2>2. CASE mac_state = "DATA_S"
    <3>1. frame_len' = frame_len + 1
      BY <2>2 DEF MacEdge
    <3>2. mac_state' = "DATA_S" => ~(frame_len > RX_MAX_LEN)
      BY <1>3, <2>2 DEF MacNext, too_long
    <3> QED BY <1>1, <1>2, <2>2, <3>1, <3>2 DEF CountersInState
  <2>3. CASE mac_state \notin {"SFD_S", "DATA_S"}
    <3>1. frame_len' = frame_len
      BY <2>3 DEF MacEdge
    <3>2. mac_state' # "DATA_S"
      BY <1>2, <1>3, <2>3 DEF MacNext
    <3> QED BY <1>2, <3>1, <3>2
  <2> QED BY <2>1, <2>2, <2>3
<1>7. crc_err_reg' \in BOOLEAN
  BY <1>2 DEF MacEdge, CrcErrReg
<1>8. rx_d1' \in Line /\ rx_d2' \in Line
  BY <1>2 DEF MacEdge
<1> QED BY <1>4, <1>5, <1>6, <1>7, <1>8 DEF CountersInState

AccRegistersOK ==
    /\ acc_state \in {"IDLE", "ACCUM", "WRITE", "WRITE_EOP", "WRITE_EOP_SW",
                      "DROP_FRAG"}
    /\ counter \in 0 .. 7 /\ mod_fifo \in 0 .. 7
    /\ pkt_fifo_data \in DataUnit /\ pkt_fifo_tmp_data \in DataUnit
    /\ sop_fifo \in BOOLEAN /\ eop_fifo \in BOOLEAN

\* The packer keeps to its states and counts modulo eight.
LEMMA AccEdgeInv ==
    ASSUME TypeOK, AccEdge
    PROVE  AccRegistersOK'
<1>1. /\ AccRegistersOK /\ rx_d2.d \in Byte /\ sop_logic \in BOOLEAN \X BOOLEAN
  BY DEF TypeOK, AccTypeOK, AccRegistersOK, MacTypeOK, Line
<1>2. AccNext \in {"IDLE", "ACCUM", "WRITE", "WRITE_EOP", "WRITE_EOP_SW",
                   "DROP_FRAG"}
  BY <1>1 DEF AccNext, AccRegistersOK
<1>3. (counter + 1) % 8 \in 0 .. 7 /\ (counter + 4) % 8 \in 0 .. 7
  BY <1>1, ModRange DEF AccRegistersOK
<1>4. acc_state' \in {"IDLE", "ACCUM", "WRITE", "WRITE_EOP", "WRITE_EOP_SW",
                      "DROP_FRAG"}
  BY <1>2 DEF AccEdge
<1>5. counter' \in 0 .. 7
  BY <1>1, <1>3 DEF AccEdge, AccRegistersOK
<1>6. mod_fifo' \in 0 .. 7
  BY <1>1, <1>3 DEF AccEdge, AccRegistersOK
<1>7. pkt_fifo_data' \in DataUnit
  BY <1>1 DEF AccEdge, AccRegistersOK, DataUnit
<1>8. pkt_fifo_tmp_data' \in DataUnit
  BY <1>1 DEF AccEdge, AccRegistersOK
<1>9. sop_fifo' \in BOOLEAN
  BY <1>1 DEF AccEdge
<1>10. eop_fifo' \in BOOLEAN
  BY DEF AccEdge
<1> QED BY <1>4, <1>5, <1>6, <1>7, <1>8, <1>9, <1>10 DEF AccRegistersOK

\* What is noted of a data unit.
LEMMA NoteType ==
    ASSUME TypeOK
    PROVE  Note \in Notes
<1>1. /\ rx_d2.d.frame \in {0, 1} /\ written \in Nat /\ frame_len \in Int
      /\ verdict \in {"good", "bad", "cut"}
  BY GmiiRxAssumption
     DEF GmiiRxAssumption, TypeOK, MacTypeOK, Line, Byte
<1>2. Given \in Int
  BY <1>1 DEF Given
<1>3. (eop_fifo /\ verdict # "cut" => Given = sent) \in BOOLEAN
  OBVIOUS
<1> QED BY <1>1, <1>2, <1>3 DEF Note, Notes

\* A data unit goes into the FIFO with the verdict that belongs to it, and the
\* writing side never takes the FIFO for emptier than it is.
LEMMA WriteFifoInv ==
    ASSUME TypeOK, BadIsFlagged, WriteFifo(Note)
    PROVE  /\ fifo' \in Seq(Words)
           /\ wrusedw' \in Len(fifo') .. NUMWORDS
           /\ \A i \in DOMAIN fifo' :
                 fifo'[i].note.verdict = "bad" => fifo'[i].crc_err
<1> DEFINE word == FifoWord(Note)
<1>1. /\ fifo \in Seq(Words) /\ NUMWORDS \in Nat
      /\ wrusedw \in Len(fifo) .. NUMWORDS /\ wr_req \in BOOLEAN
  BY GmiiRxAssumption DEF GmiiRxAssumption, TypeOK, AccTypeOK
<1>2. Note \in Notes
  BY NoteType
<1>3. word \in Words
  BY <1>2 DEF FifoWord, Words, TypeOK, AccTypeOK, MacTypeOK
<1>4. word.note.verdict = "bad" => word.crc_err
  BY DEF FifoWord, Note, BadIsFlagged
<1> HIDE DEF word
<1>5. CASE wr_req /\ wrusedw < NUMWORDS
  <2>1. /\ fifo' = Append(fifo, word)
        /\ wrusedw' \in {Len(fifo'), wrusedw + 1}
    BY <1>5 DEF WriteFifo, word
  <2>2. /\ fifo' \in Seq(Words) /\ Len(fifo) \in Nat
        /\ Len(fifo') = Len(fifo) + 1
        /\ DOMAIN fifo' = 1 .. Len(fifo) + 1
        /\ \A i \in 1 .. Len(fifo) : fifo'[i] = fifo[i]
        /\ fifo'[Len(fifo) + 1] = word
    BY <1>1, <1>3, <2>1, AppendFacts
  <2>3. wrusedw' \in Len(fifo') .. NUMWORDS
    BY <1>1, <1>5, <2>1, <2>2
  <2>4. ASSUME NEW i \in DOMAIN fifo', fifo'[i].note.verdict = "bad"
        PROVE  fifo'[i].crc_err
    <3>1. CASE i = Len(fifo) + 1
      BY <1>4, <2>2, <2>4, <3>1
    <3>2. CASE i # Len(fifo) + 1
      <4>1. i \in 1 .. Len(fifo)
        BY <2>2, <2>4, <3>2
      <4> QED BY <1>1, <2>2, <2>4, <4>1 DEF BadIsFlagged
    <3> QED BY <3>1, <3>2
  <2> QED BY <2>2, <2>3, <2>4
<1>6. CASE ~(wr_req /\ wrusedw < NUMWORDS)
  <2>1. fifo' = fifo /\ wrusedw' \in {Len(fifo'), wrusedw}
    BY <1>1, <1>6 DEF WriteFifo
  <2> QED BY <1>1, <2>1 DEF BadIsFlagged
<1> QED BY <1>5, <1>6

\* The link partner keeps to the shape of a frame.
LEMMA WireInv ==
    ASSUME TypeOK, wire' \in WireMoves
    PROVE  wire' \in Wire
<1>1. wire \in Wire
  BY DEF TypeOK
<1>2. ASSUME NEW ph \in {"gap", "preamble", "sfd", "data"}, NEW i \in Nat,
             wire' \in Onward(ph, i)
      PROVE  wire' \in Wire
  BY <1>1, <1>2 DEF Onward, Wire
<1>3. ASSUME wire' \in FrameOver
      PROVE  wire' \in Wire
  BY <1>1, <1>3 DEF FrameOver, Gap, Wire
<1>4. ASSUME wire' \in NewFrame
      PROVE  wire' \in Wire
  <2>1. PICK f \in FRAMES :
           wire' = [phase |-> "preamble", i |-> 1, len |-> f[1], err |-> f[2],
                    frame |-> 1 - wire.frame]
    BY <1>4 DEF NewFrame
  <2>2. f[1] \in Int /\ f[2] \in Int
    BY GmiiRxAssumption DEF GmiiRxAssumption, SfdByte
  <2>3. 1 - wire.frame \in {0, 1}
    BY <1>1 DEF Wire
  <2> QED BY <2>1, <2>2, <2>3 DEF Wire
<1>5. wire.i + 1 \in Nat /\ 1 \in Nat
  BY <1>1 DEF Wire
<1>6. CASE wire.phase = "gap"
  <2>1. wire' = wire \/ wire' \in NewFrame \/ wire' \in Onward("gap", wire.i + 1)
    BY <1>6 DEF WireMoves
  <2> QED BY <1>1, <1>2, <1>4, <1>5, <2>1
<1>7. CASE wire.phase = "preamble"
  <2>1. \/ wire' \in Onward("preamble", wire.i + 1)
        \/ wire' \in FrameOver \/ wire' \in Onward("sfd", 1)
    BY <1>7 DEF WireMoves
  <2> QED BY <1>2, <1>3, <1>5, <2>1
<1>8. CASE wire.phase = "sfd"
  <2>1. wire' \in FrameOver \/ wire' \in Onward("data", 1)
    BY <1>8 DEF WireMoves
  <2> QED BY <1>2, <1>3, <1>5, <2>1
<1>9. CASE wire.phase = "data"
  <2>1. wire' \in FrameOver \/ wire' \in Onward("data", wire.i + 1)
    BY <1>9 DEF WireMoves
  <2> QED BY <1>2, <1>3, <1>5, <2>1
<1> QED BY <1>1, <1>6, <1>7, <1>8, <1>9 DEF Wire

\* An edge of the PHY's clock; the side of the traffic engine stands still.
LEMMA RxClkEdgeInv ==
    ASSUME IInv, RxClkEdge
    PROVE  IInv'
<1>1. TypeOK /\ CountersInState /\ OpenInState /\ BadIsFlagged
  BY DEF IInv
<1>2. MacTypeOK' /\ CountersInState' /\ AccRegistersOK' /\ wire' \in Wire
      /\ verdict' \in {"good", "bad", "cut"}
  <2>1. CASE rx_clk_en
    <3>1. PICK crc_err \in BOOLEAN :
             MacEdge(LineNow, wr_almost_full, crc_err) /\ VerdictEdge(crc_err)
      BY <2>1 DEF RxClkEdge
    <3>2. LineNow \in Line /\ wr_almost_full \in BOOLEAN
      BY <1>1, LineNowType DEF TypeOK, AccTypeOK
    <3>3. MacTypeOK' /\ CountersInState'
      BY <1>1, <3>1, <3>2, MacEdgeInv
    <3>4. AccRegistersOK' /\ wire' \in Wire
      BY <1>1, <2>1, AccEdgeInv, WireInv DEF RxClkEdge
    <3>5. verdict' \in {"good", "bad", "cut"}
      BY <1>1, <3>1 DEF VerdictEdge, TypeOK
    <3> QED BY <3>3, <3>4, <3>5
  <2>2. CASE ~rx_clk_en
    <3>1. UNCHANGED <<macVars, accVars, wire, verdict>>
      BY <2>2 DEF RxClkEdge
    <3> QED BY <1>1, <3>1 DEF TypeOK, macVars, accVars, MacTypeOK, AccTypeOK,
                              AccRegistersOK, CountersInState
  <2> QED BY <2>1, <2>2
<1>3. /\ mac_state' \in {"DATA_S", "CHECK_CRC_S"} => verdict' = "good"
      /\ verdict' = "bad" => crc_err_reg'
  <2>1. CASE rx_clk_en
    <3>1. PICK crc_err \in BOOLEAN :
             MacEdge(LineNow, wr_almost_full, crc_err) /\ VerdictEdge(crc_err)
      BY <2>1 DEF RxClkEdge
    <3>2. mac_state' \in {"DATA_S", "CHECK_CRC_S"}
             => mac_state \in {"SFD_S", "DATA_S"}
      BY <1>1, <3>1 DEF MacEdge, MacNext, TypeOK, MacTypeOK
    <3>3. mac_state' \in {"DATA_S", "CHECK_CRC_S"} => verdict' = "good"
      BY <1>1, <3>1, <3>2 DEF VerdictEdge, BadIsFlagged
    <3>4. verdict' = "bad" => crc_err_reg'
      <4>1. CASE mac_state = "CHECK_CRC_S"
        BY <1>1, <3>1, <4>1 DEF VerdictEdge, MacEdge, CrcErrReg, BadIsFlagged
      <4>2. CASE mac_state # "CHECK_CRC_S"
        BY <1>1, <3>1, <4>2 DEF VerdictEdge, MacEdge, CrcErrReg, BadIsFlagged
      <4> QED BY <4>1, <4>2
    <3> QED BY <3>3, <3>4
  <2>2. CASE ~rx_clk_en
    <3>1. UNCHANGED <<macVars, accVars, wire, verdict>>
      BY <2>2 DEF RxClkEdge
    <3> QED BY <1>1, <3>1 DEF macVars, BadIsFlagged
  <2> QED BY <2>1, <2>2
<1>4. /\ fifo' \in Seq(Words)
      /\ wrusedw' \in Len(fifo') .. NUMWORDS
      /\ \A i \in DOMAIN fifo' :
            fifo'[i].note.verdict = "bad" => fifo'[i].crc_err
  BY <1>1, WriteFifoInv DEF RxClkEdge
<1>5. /\ wr_req' \in BOOLEAN /\ sop_logic' \in BOOLEAN \X BOOLEAN
      /\ wr_almost_full' \in BOOLEAN /\ written' \in Nat
      /\ rx_clk_en' \in BOOLEAN /\ sent' \in Int
  <2>1. wr_req' \in BOOLEAN /\ wr_almost_full' \in BOOLEAN
    BY DEF RxClkEdge, WrReq, AlmostFull
  <2>2. sop_logic' \in BOOLEAN \X BOOLEAN
    BY <1>1 DEF RxClkEdge, SopLogic, TypeOK, AccTypeOK
  <2>3. written' \in Nat
    BY <1>1 DEF RxClkEdge, WrittenEdge, TypeOK
  <2>4. rx_clk_en' \in BOOLEAN
    BY DEF RxClkEdge
  <2>5. sent' \in Int
    <3>1. sent \in Int /\ wire.len \in Int
      BY <1>1 DEF TypeOK, Wire
    <3>2. sent' = sent \/ SentEdge
      BY DEF RxClkEdge
    <3> QED BY <3>1, <3>2 DEF SentEdge
  <2> QED BY <2>1, <2>2, <2>3, <2>4, <2>5
<1>6. UNCHANGED <<rx_sel_1000m, arbVars, packet>> /\ out' = NoTransfer
  BY DEF RxClkEdge
<1>7. TypeOK'
  BY <1>1, <1>2, <1>4, <1>5, <1>6
     DEF TypeOK, AccTypeOK, AccRegistersOK, ArbTypeOK, arbVars
<1>8. OpenInState'
  BY <1>1, <1>6 DEF OpenInState, arbVars
<1>9. BadIsFlagged'
  BY <1>3, <1>4 DEF BadIsFlagged
<1>10. BadCrcIsMarked' /\ NoPacketSkipped'
  BY <1>6 DEF BadCrcIsMarked, NoPacketSkipped, NoTransfer
<1> QED BY <1>2, <1>7, <1>8, <1>9, <1>10 DEF IInv

-----------------------------------------------------------------------------
(* The arbiter. *)

Inputs(avail, word) ==
    /\ word \in Words
    /\ avail => /\ fifo # <<>>
                /\ word = Head(fifo)
                /\ word.note.verdict = "bad" => word.crc_err

\* What the arbiter looks at is a data unit of the FIFO.
LEMMA InputsOK ==
    ASSUME IInv, NEW avail \in BOOLEAN, avail => fifo # <<>>
    PROVE  Inputs(avail, IF avail THEN Head(fifo) ELSE NoWord)
<1>1. fifo \in Seq(Words)
  BY DEF IInv, TypeOK
<1>2. CASE avail
  <2>1. Head(fifo) \in Words /\ Head(fifo) = fifo[1] /\ 1 \in DOMAIN fifo
    BY <1>1, <1>2, TailFacts
  <2> QED BY <1>2, <2>1 DEF Inputs, IInv, BadIsFlagged
<1>3. CASE ~avail
  <2>1. NoWord \in Words
    BY DEF NoWord, Words, Notes
  <2> QED BY <1>3, <2>1 DEF Inputs
<1> QED BY <1>2, <1>3

\* The registers of the arbiter keep to their ranges: the watchdog stops at its
\* limit, the length wraps at 16 bits.
LEMMA ArbEdgeInv ==
    ASSUME IInv, NEW avail \in BOOLEAN, NEW full \in BOOLEAN, NEW word,
           Inputs(avail, word), ArbEdge(avail, full, word)
    PROVE  ArbTypeOK'
<1>1. ArbTypeOK /\ MAX_TICK_WITHOUT_READ \in Nat
  BY GmiiRxAssumption DEF GmiiRxAssumption, IInv, TypeOK
<1>2. arb_state' \in {"IDLE_S", "READ_S", "DROP_S", "ERR_END_S"}
  BY <1>1 DEF ArbEdge, ArbNext, ArbTypeOK
<1>3. pkt_len' \in 0 .. LEN_MOD - 1
  <2>1. (pkt_len + 8) % LEN_MOD \in 0 .. LEN_MOD - 1
    <3>1. LEN_MOD \in Nat \ {0}
      BY DEF LEN_MOD
    <3>2. pkt_len + 8 \in Int
      BY <1>1, <3>1 DEF ArbTypeOK
    <3> QED BY <3>1, <3>2, ModRange
  <2>2. 4 \in 0 .. LEN_MOD - 1
    BY DEF LEN_MOD
  <2>3. pkt_len' \in {4, (pkt_len + 8) % LEN_MOD, pkt_len}
    BY DEF ArbEdge, PktLen
  <2> QED BY <1>1, <2>1, <2>2, <2>3 DEF ArbTypeOK
<1>4. watchdog_cnt' \in 0 .. MAX_TICK_WITHOUT_READ
  BY <1>1 DEF ArbEdge, Watchdog, watchdog_failed, ArbTypeOK
<1> QED BY <1>2, <1>3, <1>4 DEF ArbTypeOK

\* What an edge of the arbiter does to the packet the traffic engine has open.
\* A data unit is passed on in READ_S, at the start of a packet, and in ERR_END_S.
LEMMA ArbPassesOn ==
    ASSUME IInv, NEW avail \in BOOLEAN, NEW full \in BOOLEAN, NEW word,
           Inputs(avail, word)
    PROVE  LET next == ArbNext(avail, full, word)
               val  == pkt_fifo_val(avail, full, word)
               sop  == pkt_sop(avail, full, word)
               eop  == pkt_eop(avail, full, word)
           IN  /\ sop => val
               /\ val => (sop <=> arb_state = "IDLE_S")
               /\ val /\ eop => next \in {"IDLE_S", "DROP_S"}
               /\ val /\ ~eop => next = "READ_S"
               /\ ~val => (next \in {"IDLE_S", "DROP_S"}
                             <=> arb_state \in {"IDLE_S", "DROP_S"})
               /\ val => arb_state # "DROP_S"
<1>1. /\ arb_state \in {"IDLE_S", "READ_S", "DROP_S", "ERR_END_S"}
      /\ word.sop \in BOOLEAN /\ word.eop \in BOOLEAN
  BY DEF IInv, TypeOK, ArbTypeOK, Inputs, Words
<1> USE DEF pkt_fifo_val, pkt_sop, pkt_eop, fifo_rd_req, force_eop, ArbNext
<1>2. CASE arb_state = "IDLE_S"
  BY <1>1, <1>2
<1>3. CASE arb_state = "READ_S"
  BY <1>1, <1>3
<1>4. CASE arb_state = "ERR_END_S"
  BY <1>1, <1>4
<1>5. CASE arb_state = "DROP_S"
  BY <1>1, <1>5
<1> QED BY <1>1, <1>2, <1>3, <1>4, <1>5

\* The start of a packet is taken out only in IDLE_S, and passed on.
LEMMA ArbTakesStart ==
    ASSUME IInv, NEW avail \in BOOLEAN, NEW full \in BOOLEAN, NEW word,
           Inputs(avail, word), fifo_rd_req(avail, full, word),
           word.sop, ~word.eop
    PROVE  pkt_fifo_val(avail, full, word) /\ pkt_sop(avail, full, word)
<1>1. /\ arb_state \in {"IDLE_S", "READ_S", "DROP_S", "ERR_END_S"}
      /\ avail
  BY DEF IInv, TypeOK, ArbTypeOK, fifo_rd_req
<1> USE DEF pkt_fifo_val, pkt_sop, fifo_rd_req, force_eop, ArbNext
<1>2. CASE arb_state = "IDLE_S"
  BY <1>1, <1>2
<1>3. CASE arb_state # "IDLE_S"
  BY <1>1, <1>3
<1> QED BY <1>2, <1>3

\* Every step of the arbiter passes on a data unit of a well-formed packet.
LEMMA SysClkFraming ==
    ASSUME IInv, NEW avail \in BOOLEAN, NEW full \in BOOLEAN,
           SysClkEdge(avail, full)
    PROVE  out'.val => (out'.sop <=> packet = <<>>)
<1> DEFINE word == IF avail THEN Head(fifo) ELSE NoWord
<1>1. Inputs(avail, word)
  BY InputsOK DEF SysClkEdge
<1>2. /\ out'.val = pkt_fifo_val(avail, full, word)
      /\ out'.sop = pkt_sop(avail, full, word)
  BY DEF SysClkEdge
<1> HIDE DEF word
<1>3. pkt_fifo_val(avail, full, word) =>
         /\ pkt_sop(avail, full, word) <=> arb_state = "IDLE_S"
         /\ arb_state # "DROP_S"
  BY <1>1, ArbPassesOn
<1> QED BY <1>2, <1>3 DEF IInv, OpenInState

\* An edge of the system clock; the PHY's side stands still.
LEMMA SysClkEdgeInv ==
    ASSUME IInv, NEW avail \in BOOLEAN, NEW full \in BOOLEAN,
           SysClkEdge(avail, full)
    PROVE  IInv'
<1> DEFINE word == IF avail THEN Head(fifo) ELSE NoWord
           val  == pkt_fifo_val(avail, full, word)
           eop  == pkt_eop(avail, full, word)
           data == Append(packet, word.note)
<1>1. Inputs(avail, word)
  BY InputsOK DEF SysClkEdge
<1>2. /\ ArbEdge(avail, full, word)
      /\ fifo' = IF fifo_rd_req(avail, full, word) THEN Tail(fifo) ELSE fifo
      /\ packet' = IF ~val THEN packet ELSE IF eop THEN <<>> ELSE data
      /\ UNCHANGED <<macVars, accVars, wr_req, sop_logic, wrusedw,
                     wr_almost_full, rx_sel_1000m, rx_clk_en, wire,
                     verdict, sent, written>>
  BY DEF SysClkEdge
<1>3. /\ out'.took <=> fifo_rd_req(avail, full, word) /\ word.sop /\ ~word.eop
      /\ out'.val <=> val
      /\ out'.sop <=> pkt_sop(avail, full, word)
      /\ out'.eop <=> eop
      /\ out'.error <=> pkt_error(word)
      /\ eop => out'.data = data
  BY DEF SysClkEdge
<1> HIDE DEF word
<1>4. ArbTypeOK'
  BY <1>1, <1>2, ArbEdgeInv
<1>5. /\ fifo \in Seq(Words) /\ packet \in Seq(Notes) /\ word.note \in Notes
      /\ wrusedw \in Len(fifo) .. NUMWORDS /\ NUMWORDS \in Nat
  BY <1>1, GmiiRxAssumption
     DEF GmiiRxAssumption, IInv, TypeOK, AccTypeOK, Inputs, Words
<1>6. /\ data \in Seq(Notes) /\ data # <<>>
      /\ Last(data) = word.note
  <2>1. /\ Append(packet, word.note) \in Seq(Notes)
        /\ Append(packet, word.note) # <<>>
        /\ Len(Append(packet, word.note)) = Len(packet) + 1
        /\ Append(packet, word.note)[Len(packet) + 1] = word.note
    BY <1>5, AppendFacts
  <2> QED BY <2>1 DEF Last
<1>7. packet' \in Seq(Notes)
  BY <1>2, <1>5, <1>6
<1>8. /\ fifo' \in Seq(Words)
      /\ wrusedw' \in Len(fifo') .. NUMWORDS
      /\ \A i \in DOMAIN fifo' :
            fifo'[i].note.verdict = "bad" => fifo'[i].crc_err
  <2>1. CASE fifo_rd_req(avail, full, word)
    <3>1. fifo # <<>> /\ fifo' = Tail(fifo)
      BY <1>1, <1>2, <2>1 DEF fifo_rd_req, Inputs
    <3>2. /\ Tail(fifo) \in Seq(Words) /\ Len(fifo) \in Nat \ {0}
          /\ Len(Tail(fifo)) = Len(fifo) - 1
          /\ \A i \in 1 .. Len(fifo) - 1 : Tail(fifo)[i] = fifo[i + 1]
      BY <1>5, <3>1, TailFacts
    <3>3. ASSUME NEW i \in DOMAIN fifo'
          PROVE  i + 1 \in DOMAIN fifo /\ fifo'[i] = fifo[i + 1]
      <4>1. i \in 1 .. Len(fifo) - 1
        BY <3>1, <3>2, <3>3
      <4> QED BY <1>5, <3>1, <3>2, <4>1
    <3>4. wrusedw' \in Len(fifo') .. NUMWORDS
      BY <1>2, <1>5, <3>1, <3>2
    <3> QED BY <3>1, <3>2, <3>3, <3>4 DEF IInv, BadIsFlagged
  <2>2. CASE ~fifo_rd_req(avail, full, word)
    <3>1. fifo' = fifo /\ wrusedw' = wrusedw
      BY <1>2, <2>2
    <3> QED BY <1>5, <3>1 DEF IInv, BadIsFlagged
  <2> QED BY <2>1, <2>2
<1>9. TypeOK'
  BY <1>2, <1>4, <1>7, <1>8
     DEF IInv, TypeOK, MacTypeOK, AccTypeOK, macVars, accVars
<1>10. CountersInState'
  BY <1>2 DEF IInv, CountersInState, macVars
<1>11. OpenInState'
  <2>1. arb_state' = ArbNext(avail, full, word)
    BY <1>2 DEF ArbEdge
  <2>2. /\ val /\ eop => arb_state' \in {"IDLE_S", "DROP_S"}
        /\ val /\ ~eop => arb_state' = "READ_S"
        /\ ~val => (arb_state' \in {"IDLE_S", "DROP_S"}
                      <=> arb_state \in {"IDLE_S", "DROP_S"})
    BY <1>1, <2>1, ArbPassesOn
  <2>3. packet = <<>> <=> arb_state \in {"IDLE_S", "DROP_S"}
    BY DEF IInv, OpenInState
  <2> HIDE DEF val, eop, data
  <2> QED BY <1>2, <1>6, <2>2, <2>3 DEF OpenInState
<1>12. BadIsFlagged'
  BY <1>2, <1>8 DEF IInv, BadIsFlagged, macVars
<1>13. BadCrcIsMarked'
  <2> SUFFICES ASSUME out'.eop, ~out'.error
               PROVE  Last(out'.data).verdict # "bad"
    BY DEF BadCrcIsMarked
  <2>1. eop /\ ~force_eop /\ ~word.crc_err
    BY <1>3 DEF pkt_error
  <2>2. avail
    BY <2>1 DEF pkt_eop, pkt_fifo_val, fifo_rd_req, force_eop
  <2>3. word.note.verdict # "bad"
    BY <1>1, <2>1, <2>2 DEF Inputs
  <2> QED BY <1>3, <1>6, <2>1, <2>3
<1>14. NoPacketSkipped'
  <2> SUFFICES ASSUME out'.took
               PROVE  out'.val /\ out'.sop
    BY DEF NoPacketSkipped
  <2> QED BY <1>1, <1>3, ArbTakesStart
<1> QED BY <1>9, <1>10, <1>11, <1>12, <1>13, <1>14 DEF IInv

\* A reset of the PHY's side; the arbiter and its open packet stay.
LEMMA ResetInv ==
    ASSUME IInv, Reset
    PROVE  IInv'
<1>1. MacTypeOK' /\ CountersInState' /\ mac_state' = "IDLE_S"
  <2>1. RX_IFG_SET \in Nat /\ RX_MAX_LEN \in Nat
    BY GmiiRxAssumption DEF GmiiRxAssumption
  <2>2. QuietLine \in Line
    BY DEF QuietLine, Line, Byte, NoByte
  <2>3. ifg_cnt' \in 0 .. RX_IFG_SET /\ frame_len' \in 0 .. RX_MAX_LEN + 2
    BY <2>1 DEF Reset, MacClear
  <2>4. mac_state' = "IDLE_S" /\ rx_d1' \in Line /\ rx_d2' \in Line
    BY <2>2 DEF Reset, MacClear
  <2>5. crc_err_reg' \in BOOLEAN
    BY DEF Reset, MacClear
  <2> QED BY <2>3, <2>4, <2>5 DEF MacTypeOK, CountersInState
<1>2. AccTypeOK' /\ fifo' = <<>>
  <2>1. NoData \in DataUnit
    BY DEF NoData, DataUnit, Byte, NoByte
  <2>2. NUMWORDS \in Nat
    BY GmiiRxAssumption DEF GmiiRxAssumption
  <2>3. Len(<<>>) = 0
    OBVIOUS
  <2>4. /\ fifo' = <<>> /\ wrusedw' = 0 /\ wr_almost_full' = FALSE
        /\ acc_state' = "IDLE" /\ counter' = 0 /\ mod_fifo' = 0
        /\ pkt_fifo_data' = NoData /\ pkt_fifo_tmp_data' = NoData
        /\ wr_req' = FALSE /\ sop_logic' = <<FALSE, FALSE>>
        /\ sop_fifo' = FALSE /\ eop_fifo' = FALSE
    BY DEF Reset, AccClear
  <2>5. wrusedw' \in Len(fifo') .. NUMWORDS
    BY <2>2, <2>3, <2>4
  <2>6. counter' \in 0 .. 7 /\ mod_fifo' \in 0 .. 7
    BY <2>4
  <2>7. /\ wr_req' \in BOOLEAN /\ sop_fifo' \in BOOLEAN /\ eop_fifo' \in BOOLEAN
        /\ wr_almost_full' \in BOOLEAN /\ sop_logic' \in BOOLEAN \X BOOLEAN
    BY <2>4
  <2> QED BY <2>1, <2>4, <2>5, <2>6, <2>7 DEF AccTypeOK
<1>3. /\ UNCHANGED <<wire, rx_sel_1000m, arbVars, packet>> /\ out' = NoTransfer
      /\ rx_clk_en' = FALSE /\ verdict' = "good" /\ sent' = 0 /\ written' = 0
  BY DEF Reset
<1>4. TypeOK'
  <2>1. <<>> \in Seq(Words)
    OBVIOUS
  <2>2. TypeOK
    BY DEF IInv
  <2>3. ArbTypeOK'
    BY <1>3, <2>2 DEF TypeOK, ArbTypeOK, arbVars
  <2>4. /\ fifo' \in Seq(Words) /\ wire' \in Wire /\ packet' \in Seq(Notes)
        /\ rx_sel_1000m' \in BOOLEAN /\ rx_clk_en' \in BOOLEAN
        /\ verdict' \in {"good", "bad", "cut"}
        /\ sent' \in Int /\ written' \in Nat
    <3>1. fifo' \in Seq(Words)
      BY <1>2, <2>1
    <3>2. /\ wire' \in Wire /\ packet' \in Seq(Notes)
          /\ rx_sel_1000m' \in BOOLEAN
      BY <1>3, <2>2 DEF TypeOK
    <3>3. rx_clk_en' \in BOOLEAN /\ verdict' \in {"good", "bad", "cut"}
      BY <1>3
    <3>4. sent' \in Int /\ written' \in Nat
      BY <1>3
    <3> QED BY <3>1, <3>2, <3>3, <3>4
  <2> QED BY <1>1, <1>2, <2>3, <2>4 DEF TypeOK
<1>5. OpenInState'
  BY <1>3 DEF IInv, OpenInState, arbVars
<1>6. BadIsFlagged'
  BY <1>1, <1>2, <1>3 DEF BadIsFlagged
<1>7. BadCrcIsMarked' /\ NoPacketSkipped'
  BY <1>3 DEF BadCrcIsMarked, NoPacketSkipped, NoTransfer
<1> QED BY <1>1, <1>4, <1>5, <1>6, <1>7 DEF IInv

\* The invariant holds after power-up.
LEMMA InitInv ==
    ASSUME Init
    PROVE  IInv
<1>1. MacTypeOK /\ CountersInState
  <2>1. RX_IFG_SET \in Nat /\ RX_MAX_LEN \in Nat
    BY GmiiRxAssumption DEF GmiiRxAssumption
  <2>2. QuietLine \in Line
    BY DEF QuietLine, Line, Byte, NoByte
  <2>3. ifg_cnt \in 0 .. RX_IFG_SET /\ frame_len \in 0 .. RX_MAX_LEN + 2
    BY <2>1 DEF Init, MacReset
  <2>4. mac_state = "IDLE_S" /\ rx_d1 \in Line /\ rx_d2 \in Line
    BY <2>2 DEF Init, MacReset
  <2>5. crc_err_reg \in BOOLEAN
    BY DEF Init, MacReset
  <2> QED BY <2>3, <2>4, <2>5 DEF MacTypeOK, CountersInState
<1>2. AccTypeOK /\ fifo = <<>>
  <2>1. NoData \in DataUnit
    BY DEF NoData, DataUnit, Byte, NoByte
  <2>2. NUMWORDS \in Nat /\ Len(<<>>) = 0
    BY GmiiRxAssumption DEF GmiiRxAssumption
  <2>3. wrusedw \in Len(fifo) .. NUMWORDS
    BY <2>2 DEF Init, AccReset
  <2>4. counter \in 0 .. 7 /\ mod_fifo \in 0 .. 7
    BY DEF Init, AccReset
  <2>5. /\ wr_req \in BOOLEAN /\ sop_fifo \in BOOLEAN /\ eop_fifo \in BOOLEAN
        /\ wr_almost_full \in BOOLEAN /\ sop_logic \in BOOLEAN \X BOOLEAN
    BY DEF Init, AccReset
  <2>6. /\ acc_state = "IDLE" /\ fifo = <<>>
        /\ pkt_fifo_data = NoData /\ pkt_fifo_tmp_data = NoData
    BY DEF Init, AccReset
  <2> QED BY <2>1, <2>3, <2>4, <2>5, <2>6 DEF AccTypeOK
<1>3. ArbTypeOK /\ arb_state = "IDLE_S"
  <2>1. MAX_TICK_WITHOUT_READ \in Nat /\ 4 \in 0 .. LEN_MOD - 1
    BY GmiiRxAssumption DEF GmiiRxAssumption, LEN_MOD
  <2>2. arb_state = "IDLE_S" /\ pkt_len = 4 /\ watchdog_cnt = 0
    BY DEF Init, ArbReset
  <2> QED BY <2>1, <2>2 DEF ArbTypeOK
<1>4. /\ wire \in Wire /\ rx_sel_1000m \in BOOLEAN /\ rx_clk_en \in BOOLEAN
      /\ verdict = "good" /\ sent = 0 /\ written = 0
      /\ packet = <<>> /\ out = NoTransfer
  <2>1. rx_sel_1000m \in BOOLEAN /\ rx_clk_en \in BOOLEAN
    BY GmiiRxAssumption DEF GmiiRxAssumption, Init
  <2>2. wire \in Wire
    BY DEF Init, Gap, Wire
  <2>3. /\ verdict = "good" /\ sent = 0 /\ written = 0
        /\ packet = <<>> /\ out = NoTransfer
    BY DEF Init
  <2> QED BY <2>1, <2>2, <2>3
<1>5. TypeOK
  <2>1. <<>> \in Seq(Words) /\ <<>> \in Seq(Notes)
    OBVIOUS
  <2> QED BY <1>1, <1>2, <1>3, <1>4, <2>1 DEF TypeOK
<1>6. OpenInState /\ BadIsFlagged
  BY <1>2, <1>3, <1>4 DEF OpenInState, BadIsFlagged
<1>7. BadCrcIsMarked /\ NoPacketSkipped
  BY <1>4 DEF BadCrcIsMarked, NoPacketSkipped, NoTransfer
<1> QED BY <1>1, <1>5, <1>6, <1>7 DEF IInv

-----------------------------------------------------------------------------
(* The theorems. *)

\* The inductive invariant of the receive converter.
THEOREM GmiiRxInvariant == Spec => []IInv
<1>1. Init => IInv
  BY InitInv
<1>2. IInv /\ [Next]_vars => IInv'
  <2> SUFFICES ASSUME IInv, [Next]_vars PROVE IInv'
    OBVIOUS
  <2>1. CASE RxClkEdge
    BY <2>1, RxClkEdgeInv
  <2>2. CASE \E avail, full \in BOOLEAN : SysClkEdge(avail, full)
    BY <2>2, SysClkEdgeInv
  <2>3. CASE Reset
    BY <2>3, ResetInv
  <2>4. CASE UNCHANGED vars
    BY <2>4
       DEF vars, macSideVars, macVars, fifoVars, accVars, arbVars, IInv, TypeOK,
           MacTypeOK, AccTypeOK, ArbTypeOK, CountersInState, OpenInState,
           BadIsFlagged, BadCrcIsMarked, NoPacketSkipped
  <2> QED BY <2>1, <2>2, <2>3, <2>4 DEF Next
<1> QED BY <1>1, <1>2, PTL DEF Spec

\* Every register, FIFO and bus keeps to its range; no FIFO exceeds its size.
THEOREM GmiiRxTypeCorrect == Spec => []TypeOK
<1>1. IInv => TypeOK
  BY DEF IInv
<1> QED BY <1>1, GmiiRxInvariant, PTL

\* A frame with a wrong CRC is never passed on without an error.
THEOREM GmiiRxBadCrcIsMarked == Spec => []BadCrcIsMarked
<1>1. IInv => BadCrcIsMarked
  BY DEF IInv
<1> QED BY <1>1, GmiiRxInvariant, PTL

\* The start of a packet that is taken out of the FIFO is passed on.
THEOREM GmiiRxNoPacketSkipped == Spec => []NoPacketSkipped
<1>1. IInv => NoPacketSkipped
  BY DEF IInv
<1> QED BY <1>1, GmiiRxInvariant, PTL

\* The traffic engine sees startofpacket exactly when no packet is open, for
\* every order of the two clocks, refusal, watchdog and reset of the PHY's side.
THEOREM GmiiRxPacketsFramed == Spec => PacketsFramed
<1>1. IInv /\ [Next]_vars
        => [out'.val => (out'.sop <=> packet = <<>>)]_vars
  <2> SUFFICES ASSUME IInv, Next
               PROVE  out'.val => (out'.sop <=> packet = <<>>)
    OBVIOUS
  <2>1. CASE RxClkEdge \/ Reset
    BY <2>1 DEF RxClkEdge, Reset, NoTransfer
  <2>2. CASE \E avail, full \in BOOLEAN : SysClkEdge(avail, full)
    BY <2>2, SysClkFraming
  <2> QED BY <2>1, <2>2 DEF Next
<1> QED BY <1>1, GmiiRxInvariant, PTL DEF Spec, PacketsFramed

-----------------------------------------------------------------------------
(* Room in the FIFO.  almost_full is a register that the MAC looks at once a *)
(* byte, so it is late; what makes up for it is the order in which the     *)
(* packer and the MAC do things.                                           *)

\* The packer is where the state of the MAC says.
PackerFollowsMac ==
    /\ mac_state = "IDLE_S" => acc_state = "IDLE"
    /\ mac_state \in {"PREAMBLE_S", "SFD_S"} => acc_state = "IDLE" /\ counter = 0
    /\ mac_state = "DATA_S" => /\ acc_state \in {"IDLE", "ACCUM", "WRITE"}
                               /\ acc_state = "IDLE" => counter = 0
    /\ mac_state \in {"IFG_S", "FIFO_FULL_DROP_S"}
          => acc_state \notin {"ACCUM", "WRITE"}
    /\ acc_state = "WRITE" => counter = 5
    /\ wr_req => acc_state \in {"WRITE", "WRITE_EOP", "WRITE_EOP_SW"}

\* How full the FIFO can be when the packer is in a state.  Between the fifth
\* byte, at which a data unit is written, and the fourth of the next one
\* almost_full has caught up with the level.
RoomInState ==
    /\ acc_state = "ACCUM" /\ counter \notin {5, 6} /\ ~wr_almost_full
          => wrusedw <= ALMOST_FULL_WORDS
    /\ acc_state = "ACCUM" /\ counter = 4 /\ mac_state = "DATA_S"
          => ~wr_almost_full
    /\ acc_state = "ACCUM" /\ ~sop_logic[1] => wrusedw <= ALMOST_FULL_WORDS + 1
    /\ acc_state = "WRITE" => wrusedw <= ALMOST_FULL_WORDS + 1
    /\ acc_state = "WRITE" /\ wr_req => wrusedw <= ALMOST_FULL_WORDS
    /\ acc_state \in {"WRITE_EOP", "WRITE_EOP_SW"} /\ wr_req
          => wrusedw <= ALMOST_FULL_WORDS + 1

RoomInv == PackerFollowsMac /\ RoomInState

\* With one word kept free the last write of a frame still fits.
LEMMA RoomIsEnough ==
    ASSUME TypeOK, RoomInv
    PROVE  FifoNotOverrun
<1>1. /\ NUMWORDS \in Nat /\ SAFE_WORDS \in 1 .. NUMWORDS - 1
      /\ wrusedw \in Nat
  BY GmiiRxAssumption DEF GmiiRxAssumption, TypeOK, AccTypeOK
<1>2. wr_req => wrusedw <= ALMOST_FULL_WORDS + 1
  <2>1. ALMOST_FULL_WORDS \in Int
    BY <1>1 DEF ALMOST_FULL_WORDS
  <2>2. CASE acc_state = "WRITE"
    BY <1>1, <2>1, <2>2 DEF RoomInv, RoomInState
  <2>3. CASE acc_state \in {"WRITE_EOP", "WRITE_EOP_SW"}
    BY <2>3 DEF RoomInv, RoomInState
  <2> QED BY <2>2, <2>3 DEF RoomInv, PackerFollowsMac
<1>3. wr_req => wrusedw < NUMWORDS
  BY <1>1, <1>2 DEF ALMOST_FULL_WORDS
<1> QED BY <1>1, <1>3 DEF FifoNotOverrun

\* The level the writing side sees does not rise but by a write.
LEMMA LevelRises ==
    ASSUME TypeOK, WriteFifo(Note)
    PROVE  /\ wrusedw \in Nat /\ wrusedw' \in Nat
           /\ wrusedw' <= wrusedw + 1
           /\ ~wr_req => wrusedw' <= wrusedw
<1>1. fifo \in Seq(Words) /\ wrusedw \in Len(fifo) .. NUMWORDS /\ NUMWORDS \in Nat
  BY GmiiRxAssumption DEF GmiiRxAssumption, TypeOK, AccTypeOK
<1>2. Len(fifo) \in Nat /\ wrusedw \in Nat
  BY <1>1
<1>3. CASE wr_req /\ wrusedw < NUMWORDS
  <2>1. fifo' = Append(fifo, FifoWord(Note)) /\ wrusedw' \in {Len(fifo'), wrusedw + 1}
    BY <1>3 DEF WriteFifo
  <2>2. Note \in Notes
    BY DEF TypeOK, MacTypeOK, AccTypeOK, Line, Byte, Note, Notes, Given
  <2>3. FifoWord(Note) \in Words
    BY <2>2 DEF FifoWord, Words, TypeOK, AccTypeOK, MacTypeOK
  <2>4. Len(fifo') = Len(fifo) + 1
    BY <1>1, <2>1, <2>3, AppendFacts
  <2> QED BY <1>1, <1>2, <1>3, <2>1, <2>4
<1>4. CASE ~(wr_req /\ wrusedw < NUMWORDS)
  <2>1. fifo' = fifo /\ wrusedw' \in {Len(fifo'), wrusedw}
    BY <1>2, <1>4 DEF WriteFifo
  <2> QED BY <1>1, <1>2, <2>1
<1> QED BY <1>3, <1>4

\* The packer follows the MAC over an enabled edge.
LEMMA PackerEdge ==
    ASSUME TypeOK, RoomInv, rx_clk_en, RxClkEdge
    PROVE  PackerFollowsMac'
<1>1. PICK crc_err \in BOOLEAN : MacEdge(LineNow, wr_almost_full, crc_err)
  BY DEF RxClkEdge
<1>2. mac_state' = MacNext(wr_almost_full, crc_err)
  BY <1>1 DEF MacEdge
<1>3. /\ acc_state' = AccNext
      /\ counter' = IF fifo_data_en
                    THEN IF acc_state = "ACCUM" \/ AccNext \in {"ACCUM", "WRITE"}
                         THEN (counter + 1) % 8 ELSE 0
                    ELSE IF acc_state = "IDLE" THEN 0 ELSE counter
      /\ wr_req' = (AccNext \in {"WRITE", "WRITE_EOP", "WRITE_EOP_SW"})
  BY DEF RxClkEdge, AccEdge, WrReq
<1>4. /\ mac_state \in {"IDLE_S", "PREAMBLE_S", "SFD_S", "DATA_S", "CHECK_CRC_S",
                        "OK_END_S", "DROP_S", "ERR_END_S", "CRC_ERR_END_S",
                        "FIFO_FULL_DROP_S", "FIFO_FULL_ERR_END_S", "IFG_S"}
      /\ acc_state \in {"IDLE", "ACCUM", "WRITE", "WRITE_EOP", "WRITE_EOP_SW",
                        "DROP_FRAG"}
      /\ PackerFollowsMac /\ counter \in 0 .. 7
  BY DEF TypeOK, MacTypeOK, AccTypeOK, RoomInv
<1>5. mac_state' = "IDLE_S" => acc_state' = "IDLE"
  BY <1>2, <1>3, <1>4
     DEF MacNext, AccNext, fifo_data_en, fifo_data_end, PackerFollowsMac
<1>6. mac_state' \in {"PREAMBLE_S", "SFD_S"} => acc_state' = "IDLE" /\ counter' = 0
  <2>1. mac_state' \in {"PREAMBLE_S", "SFD_S"}
           => mac_state \in {"IDLE_S", "PREAMBLE_S"}
    BY <1>2, <1>4 DEF MacNext
  <2> QED BY <1>3, <1>4, <2>1 DEF AccNext, fifo_data_en, PackerFollowsMac
<1>7. mac_state' = "DATA_S" => /\ acc_state' \in {"IDLE", "ACCUM", "WRITE"}
                               /\ acc_state' = "IDLE" => counter' = 0
  <2>1. mac_state' = "DATA_S" => mac_state \in {"SFD_S", "DATA_S"}
    BY <1>2, <1>4 DEF MacNext
  <2>2. CASE mac_state = "SFD_S"
    BY <1>3, <1>4, <2>2 DEF AccNext, fifo_data_en, PackerFollowsMac
  <2>3. CASE mac_state = "DATA_S"
    BY <1>3, <1>4, <2>3 DEF AccNext, fifo_data_en, fifo_data_end, PackerFollowsMac
  <2> QED BY <2>1, <2>2, <2>3
<1>8. mac_state' \in {"IFG_S", "FIFO_FULL_DROP_S"}
         => acc_state' \notin {"ACCUM", "WRITE"}
  <2>1. mac_state' \in {"IFG_S", "FIFO_FULL_DROP_S"}
           => \/ mac_state \in {"IFG_S", "FIFO_FULL_DROP_S"}
              \/ fifo_data_end
    BY <1>2, <1>4 DEF MacNext, fifo_data_end
  <2>2. CASE mac_state \in {"IFG_S", "FIFO_FULL_DROP_S"}
    BY <1>3, <1>4, <2>2 DEF AccNext, fifo_data_en, PackerFollowsMac
  <2>3. CASE fifo_data_end
    BY <1>3, <1>4, <2>3 DEF AccNext, fifo_data_en, fifo_data_end
  <2> QED BY <2>1, <2>2, <2>3
<1>9. acc_state' = "WRITE" => counter' = 5
  <2>1. acc_state' = "WRITE" => acc_state = "ACCUM" /\ fifo_data_en /\ counter = 4
    BY <1>3, <1>4 DEF AccNext
  <2> QED BY <1>3, <2>1
<1>10. wr_req' => acc_state' \in {"WRITE", "WRITE_EOP", "WRITE_EOP_SW"}
  BY <1>3
<1> QED BY <1>5, <1>6, <1>7, <1>8, <1>9, <1>10 DEF PackerFollowsMac

\* Over an enabled edge almost_full keeps its distance: it has caught up with
\* the level whenever the packer is about to write.
LEMMA RoomEdge ==
    ASSUME TypeOK, RoomInv, rx_clk_en, RxClkEdge
    PROVE  RoomInState'
<1> DEFINE AF == ALMOST_FULL_WORDS
<1>1. PICK crc_err \in BOOLEAN : MacEdge(LineNow, wr_almost_full, crc_err)
  BY DEF RxClkEdge
<1>2. mac_state' = MacNext(wr_almost_full, crc_err)
  BY <1>1 DEF MacEdge
<1>3. /\ acc_state' = AccNext
      /\ counter' = IF fifo_data_en
                    THEN IF acc_state = "ACCUM" \/ AccNext \in {"ACCUM", "WRITE"}
                         THEN (counter + 1) % 8 ELSE 0
                    ELSE IF acc_state = "IDLE" THEN 0 ELSE counter
      /\ WriteFifo(Note) /\ SopLogic
  BY DEF RxClkEdge, AccEdge
<1>4. /\ acc_state \in {"IDLE", "ACCUM", "WRITE", "WRITE_EOP", "WRITE_EOP_SW",
                        "DROP_FRAG"}
      /\ PackerFollowsMac /\ RoomInState /\ counter \in 0 .. 7
  BY DEF TypeOK, AccTypeOK, RoomInv
<1>5. /\ wrusedw \in Nat /\ wrusedw' \in Nat
      /\ wrusedw' <= wrusedw + 1
      /\ ~wr_req => wrusedw' <= wrusedw
  BY <1>3, LevelRises
<1>6. AF \in Int
  BY GmiiRxAssumption DEF GmiiRxAssumption, ALMOST_FULL_WORDS
<1>7. wr_almost_full' <=> wrusedw > AF
  BY DEF RxClkEdge, AlmostFull
<1>8. acc_state \in {"IDLE", "ACCUM", "DROP_FRAG"} => ~wr_req
  BY <1>4 DEF PackerFollowsMac
<1> HIDE DEF AF
<1>9. acc_state' = "ACCUM" /\ counter' \notin {5, 6} /\ ~wr_almost_full'
         => wrusedw' <= AF
  <2>1. acc_state' = "ACCUM" => acc_state \in {"IDLE", "ACCUM", "WRITE"}
    BY <1>3, <1>4 DEF AccNext
  <2>2. acc_state = "WRITE" => counter' \in {5, 6}
    <3>1. ASSUME acc_state = "WRITE" PROVE AccNext \in {"ACCUM", "WRITE_EOP_SW"}
      BY <3>1 DEF AccNext
    <3>2. fifo_data_en => ~fifo_data_end
      BY DEF fifo_data_en, fifo_data_end
    <3>3. ASSUME acc_state = "WRITE", fifo_data_en PROVE AccNext = "ACCUM"
      BY <3>2, <3>3 DEF AccNext
    <3> QED BY <1>3, <1>4, <3>3 DEF PackerFollowsMac
  <2>3. acc_state \in {"IDLE", "ACCUM"} => wrusedw' <= wrusedw
    BY <1>5, <1>8
  <2>4. ~wr_almost_full' => wrusedw <= AF
    BY <1>5, <1>6, <1>7
  <2>5. wrusedw' <= wrusedw /\ wrusedw <= AF => wrusedw' <= AF
    BY <1>5, <1>6
  <2> QED BY <2>1, <2>2, <2>3, <2>4, <2>5
<1>10. acc_state' = "ACCUM" /\ counter' = 4 /\ mac_state' = "DATA_S"
          => ~wr_almost_full'
  <2>1. SUFFICES ASSUME acc_state' = "ACCUM", counter' = 4, mac_state' = "DATA_S"
                 PROVE  ~wr_almost_full'
    OBVIOUS
  <2>2. mac_state \in {"SFD_S", "DATA_S"}
    BY <1>2, <2>1 DEF MacNext, TypeOK, MacTypeOK
  <2>3. mac_state = "DATA_S"
    <3>1. mac_state = "SFD_S" => acc_state' = "IDLE"
      BY <1>3, <1>4 DEF AccNext, fifo_data_en, PackerFollowsMac
    <3> QED BY <2>1, <2>2, <3>1
  <2>4. ~wr_almost_full
    BY <1>2, <2>1, <2>3 DEF MacNext
  <2>5. acc_state = "ACCUM" /\ counter = 3
    <3>1. counter' = (counter + 1) % 8
      BY <1>3, <2>1, <2>3 DEF fifo_data_en
    <3>2. counter = 3
      BY <1>4, <2>1, <3>1
    <3> QED BY <1>4, <2>3, <3>2 DEF PackerFollowsMac
  <2>6. wrusedw <= AF
    BY <1>4, <2>4, <2>5 DEF RoomInState, AF
  <2> QED BY <1>5, <1>6, <1>7, <2>6
<1>11. acc_state' = "ACCUM" /\ ~sop_logic'[1] => wrusedw' <= AF + 1
  <2>1. SUFFICES ASSUME acc_state' = "ACCUM", ~sop_logic'[1]
                 PROVE  wrusedw' <= AF + 1
    OBVIOUS
  <2>2. acc_state \in {"IDLE", "ACCUM", "WRITE"}
    BY <1>3, <1>4, <2>1 DEF AccNext
  <2>3. acc_state # "IDLE"
    BY <1>3, <1>8, <2>1 DEF SopLogic
  <2>4. CASE acc_state = "ACCUM"
    <3>1. ~sop_logic[1]
      BY <1>3, <1>8, <2>1, <2>4 DEF SopLogic
    <3>2. wrusedw <= AF + 1
      BY <1>4, <2>4, <3>1 DEF RoomInState, AF
    <3>3. wrusedw' <= wrusedw
      BY <1>5, <1>8, <2>4
    <3> QED BY <1>5, <1>6, <3>2, <3>3
  <2>5. CASE acc_state = "WRITE"
    <3>1. CASE wr_req
      <4>1. wrusedw <= AF
        BY <1>4, <2>5, <3>1 DEF RoomInState, AF
      <4> QED BY <1>5, <1>6, <4>1
    <3>2. CASE ~wr_req
      <4>1. wrusedw <= AF + 1
        BY <1>4, <2>5 DEF RoomInState, AF
      <4>2. wrusedw' <= wrusedw
        BY <1>5, <3>2
      <4> QED BY <1>5, <1>6, <4>1, <4>2
    <3> QED BY <3>1, <3>2
  <2> QED BY <2>2, <2>3, <2>4, <2>5
<1>12. acc_state' = "WRITE" => wrusedw' <= AF
  <2>1. SUFFICES ASSUME acc_state' = "WRITE" PROVE wrusedw' <= AF
    OBVIOUS
  <2>2. acc_state = "ACCUM" /\ fifo_data_en /\ counter = 4
    BY <1>3, <1>4, <2>1 DEF AccNext
  <2>3. ~wr_almost_full
    BY <1>4, <2>2 DEF RoomInState, fifo_data_en
  <2>4. wrusedw <= AF
    BY <1>4, <2>2, <2>3 DEF RoomInState, AF
  <2>5. wrusedw' <= wrusedw
    BY <1>5, <1>8, <2>2
  <2> QED BY <1>5, <1>6, <2>4, <2>5
<1>13. acc_state' \in {"WRITE_EOP", "WRITE_EOP_SW"} => wrusedw' <= AF + 1
  <2>1. SUFFICES ASSUME acc_state' \in {"WRITE_EOP", "WRITE_EOP_SW"}
                 PROVE  wrusedw' <= AF + 1
    OBVIOUS
  <2>2. \/ acc_state = "ACCUM" /\ ~sop_logic[1]
        \/ acc_state = "WRITE"
    BY <1>3, <1>4, <2>1 DEF AccNext
  <2>3. CASE acc_state = "ACCUM" /\ ~sop_logic[1]
    <3>1. wrusedw <= AF + 1
      BY <1>4, <2>3 DEF RoomInState, AF
    <3>2. wrusedw' <= wrusedw
      BY <1>5, <1>8, <2>3
    <3> QED BY <1>5, <1>6, <3>1, <3>2
  <2>4. CASE acc_state = "WRITE"
    <3>1. CASE wr_req
      <4>1. wrusedw <= AF
        BY <1>4, <2>4, <3>1 DEF RoomInState, AF
      <4> QED BY <1>5, <1>6, <4>1
    <3>2. CASE ~wr_req
      <4>1. wrusedw <= AF + 1
        BY <1>4, <2>4 DEF RoomInState, AF
      <4>2. wrusedw' <= wrusedw
        BY <1>5, <3>2
      <4> QED BY <1>5, <1>6, <4>1, <4>2
    <3> QED BY <3>1, <3>2
  <2> QED BY <2>2, <2>3, <2>4
<1>14. acc_state' = "WRITE" => wrusedw' <= AF + 1
  BY <1>5, <1>6, <1>12
<1>15. ALMOST_FULL_WORDS' = AF
  BY DEF ALMOST_FULL_WORDS, AF
<1> QED BY <1>9, <1>10, <1>11, <1>12, <1>13, <1>14, <1>15 DEF RoomInState

\* An edge that is not enabled moves almost_full, the level and sop_logic only,
\* and ends the write.
LEMMA RoomHeldEdge ==
    ASSUME TypeOK, RoomInv, ~rx_clk_en, RxClkEdge
    PROVE  RoomInv'
<1> DEFINE AF == ALMOST_FULL_WORDS
<1>1. /\ mac_state' = mac_state /\ acc_state' = acc_state /\ counter' = counter
      /\ WriteFifo(Note) /\ SopLogic /\ PackerFollowsMac /\ RoomInState
  BY DEF RxClkEdge, macVars, accVars, RoomInv
<1>2. ~wr_req'
  BY DEF RxClkEdge, WrReq
<1>3. /\ wrusedw \in Nat /\ wrusedw' \in Nat
      /\ wrusedw' <= wrusedw + 1
      /\ ~wr_req => wrusedw' <= wrusedw
  BY <1>1, LevelRises
<1>4. AF \in Int
  BY GmiiRxAssumption DEF GmiiRxAssumption, ALMOST_FULL_WORDS
<1>5. wr_almost_full' <=> wrusedw > AF
  BY DEF RxClkEdge, AlmostFull
<1>6. ALMOST_FULL_WORDS' = AF
  BY DEF ALMOST_FULL_WORDS
<1>7. PackerFollowsMac'
  BY <1>1, <1>2 DEF PackerFollowsMac
<1> HIDE DEF AF
<1>8. acc_state = "ACCUM" => ~wr_req
  BY <1>1 DEF PackerFollowsMac
<1>9. acc_state = "ACCUM" => wrusedw' <= wrusedw
  BY <1>3, <1>8
<1>10. ~wr_almost_full' => wrusedw <= AF
  BY <1>3, <1>4, <1>5
<1>11. acc_state = "ACCUM" /\ ~wr_almost_full' => wrusedw' <= AF
  <2>1. wrusedw' <= wrusedw /\ wrusedw <= AF => wrusedw' <= AF
    BY <1>3, <1>4
  <2> QED BY <1>9, <1>10, <2>1
<1>12. acc_state = "ACCUM" /\ counter = 4 /\ mac_state = "DATA_S"
          => ~wr_almost_full'
  <2>1. SUFFICES ASSUME acc_state = "ACCUM", counter = 4, mac_state = "DATA_S"
                 PROVE  ~wr_almost_full'
    OBVIOUS
  <2>2. ~wr_almost_full
    BY <1>1, <2>1 DEF RoomInState
  <2>3. wrusedw <= AF
    BY <1>1, <2>1, <2>2 DEF RoomInState, AF
  <2> QED BY <1>3, <1>4, <1>5, <2>3
<1>13. acc_state = "ACCUM" /\ ~sop_logic'[1] => wrusedw' <= AF + 1
  <2>1. SUFFICES ASSUME acc_state = "ACCUM", ~sop_logic'[1]
                 PROVE  wrusedw' <= AF + 1
    OBVIOUS
  <2>2. ~sop_logic[1]
    BY <1>1, <1>8, <2>1 DEF SopLogic
  <2>3. wrusedw <= AF + 1
    BY <1>1, <2>1, <2>2 DEF RoomInState, AF
  <2> QED BY <1>3, <1>4, <1>9, <2>1, <2>3
<1>14. acc_state = "WRITE" => wrusedw' <= AF + 1
  <2>1. ASSUME acc_state = "WRITE", wr_req PROVE wrusedw' <= AF + 1
    <3>1. wrusedw <= AF
      BY <1>1, <2>1 DEF RoomInState, AF
    <3> QED BY <1>3, <1>4, <3>1
  <2>2. ASSUME acc_state = "WRITE", ~wr_req PROVE wrusedw' <= AF + 1
    <3>1. wrusedw <= AF + 1
      BY <1>1, <2>2 DEF RoomInState, AF
    <3>2. wrusedw' <= wrusedw
      BY <1>3, <2>2
    <3> QED BY <1>3, <1>4, <3>1, <3>2
  <2> QED BY <2>1, <2>2
<1>15. RoomInState'
  BY <1>1, <1>2, <1>6, <1>11, <1>12, <1>13, <1>14 DEF RoomInState
<1> QED BY <1>7, <1>15 DEF RoomInv

\* The packer and almost_full keep their distance, always.
THEOREM GmiiRxRoomInvariant == Spec => []RoomInv
<1>1. Init => RoomInv
  <2>1. SUFFICES ASSUME Init PROVE RoomInv
    OBVIOUS
  <2>2. /\ mac_state = "IDLE_S" /\ acc_state = "IDLE" /\ counter = 0
        /\ wr_req = FALSE
    BY <2>1 DEF Init, MacReset, AccReset
  <2> QED BY <2>2 DEF RoomInv, PackerFollowsMac, RoomInState
<1>2. IInv /\ RoomInv /\ [Next]_vars => RoomInv'
  <2>1. SUFFICES ASSUME TypeOK, RoomInv, [Next]_vars PROVE RoomInv'
    BY DEF IInv
  <2>2. CASE RxClkEdge
    <3>1. CASE rx_clk_en
      BY <2>1, <2>2, <3>1, PackerEdge, RoomEdge DEF RoomInv
    <3>2. CASE ~rx_clk_en
      BY <2>1, <2>2, <3>2, RoomHeldEdge
    <3> QED BY <3>1, <3>2
  <2>3. ASSUME NEW avail \in BOOLEAN, NEW full \in BOOLEAN,
               SysClkEdge(avail, full)
        PROVE  RoomInv'
    <3>1. UNCHANGED <<mac_state, acc_state, counter, wr_req, sop_logic,
                      wrusedw, wr_almost_full>>
      BY <2>3 DEF SysClkEdge, macVars, accVars
    <3> QED BY <2>1, <3>1
            DEF RoomInv, PackerFollowsMac, RoomInState, ALMOST_FULL_WORDS
  <2>4. CASE Reset
    <3>1. mac_state' = "IDLE_S" /\ acc_state' = "IDLE" /\ counter' = 0 /\ ~wr_req'
      BY <2>4 DEF Reset, MacClear, AccClear
    <3> QED BY <3>1 DEF RoomInv, PackerFollowsMac, RoomInState
  <2>5. CASE UNCHANGED vars
    <3>1. UNCHANGED <<mac_state, acc_state, counter, wr_req, sop_logic,
                      wrusedw, wr_almost_full>>
      BY <2>5 DEF vars, macSideVars, macVars, fifoVars, accVars
    <3> QED BY <2>1, <3>1
            DEF RoomInv, PackerFollowsMac, RoomInState, ALMOST_FULL_WORDS
  <2> QED BY <2>1, <2>2, <2>3, <2>4, <2>5 DEF Next
<1> QED BY GmiiRxInvariant, <1>1, <1>2, PTL DEF Spec

\* No data unit is written to a full FIFO, whatever its size, as soon as one
\* word is kept free behind almost_full.
THEOREM GmiiRxFifoNotOverrun == Spec => []FifoNotOverrun
<1>1. IInv /\ RoomInv => FifoNotOverrun
  BY RoomIsEnough DEF IInv
<1> QED BY GmiiRxInvariant, GmiiRxRoomInvariant, <1>1, PTL

\* Packets are passed on from a start to an end, and none without its start.
THEOREM GmiiRxPacketsAreWhole == Spec => PacketsAreWhole
<1> QED BY GmiiRxPacketsFramed, GmiiRxNoPacketSkipped DEF PacketsAreWhole

-----------------------------------------------------------------------------
(***************************************************************************)
(* From the wire to the traffic engine: what the receive converter passes  *)
(* on without a mark is one frame, each byte in its place, proved for      *)
(* every FIFO, limit, watchdog, preamble and set of frames, both speeds,   *)
(* and every order of the two clocks, resets of the PHY's side included.   *)
(*                                                                         *)
(* The invariant follows the bytes.  The MAC sees consecutive bytes of one *)
(* frame (LineInv); the packer has gathered Given of them, and what its    *)
(* registers hold and what it has written is a function of that number     *)
(* (GatherInv, WriteInv); no data unit is written before 13 bytes are      *)
(* there, and until then almost_full cannot rise (LevelInv).  From there   *)
(* on the data units in the FIFO are linked: one that is not the first of  *)
(* its frame follows the one before it, be that in the FIFO, in the packet *)
(* that the arbiter has open, or just written (QueueInv, ReadInv).  The    *)
(* last one knows if all was taken that was sent of the frame (SentInv).   *)
(***************************************************************************)
\* No frame ends, well or badly, with its 8th to 12th byte: the fragment that
\* leaves bit 1 of sop_logic set behind (the run gmii_fragment).  A frame's
\* length fits into pkt_len, and two frames are three byte times apart.
NoFragments ==
    /\ \A f \in FRAMES : f[1] \notin 8 .. 12 /\ f[2] \notin 8 .. 12
    /\ RX_MAX_LEN \in 12 .. LEN_MOD - 2
    /\ MIN_GAP >= 3

\* The frame that the MAC is in.
Frame == rx_d2.d.frame

ByteAt(frame, n) == [frame |-> frame, n |-> n]

\* Bytes of the frame are being gathered.
Taking == mac_state = "DATA_S" \/ acc_state \in {"ACCUM", "WRITE"}

WireSends ==
    /\ wire.phase # "gap" => wire.len \notin 8 .. 12 /\ wire.err \notin 8 .. 12
    /\ wire.phase = "sfd" => wire.len >= 0
    /\ wire.phase = "data" => wire.i \in 1 .. wire.len

\* The byte on the wire follows the one before it.
Follows ==
    rx_d1.dv =>
        /\ wire.frame = rx_d1.d.frame
        /\ wire.phase = "gap" => wire.i = 1
        /\ rx_d1.d.n = SfdByte =>
              wire.phase = "gap" \/ (wire.phase = "data" /\ wire.i = 1)
        /\ rx_d1.d.n >= 1 =>
              /\ \/ wire.phase = "data" /\ wire.i = rx_d1.d.n + 1
                 \/ wire.phase = "gap" /\ rx_d1.d.n \notin 8 .. 12
              /\ rx_d1.err => rx_d1.d.n \notin 8 .. 12

InFrame ==
    /\ mac_state = "SFD_S" /\ rx_d1.dv => rx_d1.d = ByteAt(Frame, 1)
    /\ mac_state = "DATA_S" =>
          /\ frame_len >= 1 /\ rx_d2.d.n = frame_len
          /\ rx_d1.dv => rx_d1.d = ByteAt(Frame, frame_len + 1)
          /\ ~rx_d1.dv => /\ frame_len \notin 8 .. 12
                          /\ wire.phase = "gap" /\ wire.i = 2
          /\ rx_d2.err => frame_len \notin 8 .. 12

SameFrame ==
    Taking => /\ rx_d1.d.frame = Frame
              /\ mac_state \in {"DATA_S", "CHECK_CRC_S", "DROP_S"} =>
                    wire.frame = Frame

LineInv == WireSends /\ Follows /\ InFrame /\ SameFrame

GatherInv ==
    acc_state # "IDLE" =>
        /\ Given >= 1 /\ counter = Given % 8
        /\ \A k \in 0 .. 7 :
              k < counter => pkt_fifo_data[k] =
                                 ByteAt(Frame, 8 * (Given \div 8) + k + 1)
        /\ counter = 0 =>
              \A k \in 0 .. 7 :
                 pkt_fifo_data[k] = ByteAt(Frame, Given - 8 + k + 1)
        /\ (acc_state # "ACCUM" \/ counter # 0) /\ Given >= 8 =>
              \A k \in 0 .. 7 :
                 pkt_fifo_tmp_data[k] =
                     ByteAt(Frame, 8 * (Given \div 8 - 1) + k + 1)

\* Data units of which the write has begun when g bytes are there.
Started(g) == IF g < 13 THEN 0 ELSE (g - 5) \div 8

IdleInv ==
    acc_state = "IDLE" =>
        /\ ~wr_req /\ written = 0 /\ ~sop_logic[2]
        /\ mac_state \in {"PREAMBLE_S", "SFD_S", "DATA_S"} => sop_logic[1]
        /\ mac_state = "DATA_S" => frame_len = 1

AccumInv ==
    /\ acc_state = "ACCUM" =>
          /\ ~wr_req
          /\ mac_state # "DATA_S" => Given \notin 8 .. 12
    /\ acc_state = "WRITE" =>
          /\ Given >= 13 /\ ~eop_fifo
          /\ wr_req => (sop_fifo <=> written = 0)
    /\ acc_state \in {"ACCUM", "WRITE"} =>
          /\ written = Started(Given) - (IF wr_req THEN 1 ELSE 0)
          /\ sop_logic[1] <=> written = 0
          /\ Given < 8 => ~sop_logic[2]
          /\ Given \in 9 .. 12 => sop_logic[2]

EndInv ==
    /\ acc_state \in {"WRITE_EOP", "WRITE_EOP_SW"} =>
          /\ Given >= 13
          /\ acc_state = "WRITE_EOP" <=> counter < 5
          /\ eop_fifo /\ ~sop_fifo /\ mod_fifo = (counter + 4) % 8
          /\ wr_req => written = Started(Given)
          /\ ~wr_req => written = 0 /\ ~sop_logic[2]
    /\ acc_state = "DROP_FRAG" => ~wr_req /\ written = 0 /\ ~sop_logic[2]

WriteInv == IdleInv /\ AccumInv /\ EndInv

LevelInv ==
    /\ \/ mac_state \in {"PREAMBLE_S", "SFD_S"}
       \/ mac_state = "DATA_S" /\ frame_len = 1
          => (wrusedw > ALMOST_FULL_WORDS => wr_almost_full)
    /\ mac_state = "DATA_S" /\ frame_len \in 2 .. 13
          => wrusedw <= ALMOST_FULL_WORDS /\ ~wr_almost_full

PhyInv == LineInv /\ GatherInv /\ WriteInv /\ LevelInv

\* What is left of the frame on the wire, and in the end nothing is: the MAC
\* has handed on all of it, or has cut it.
SentInv ==
    /\ mac_state = "DATA_S" =>
          /\ rx_d1.dv /\ wire.phase = "data" => sent = wire.len
          /\ rx_d1.dv /\ wire.phase = "gap" => sent = frame_len + 1
          /\ ~rx_d1.dv => sent = frame_len
    /\ mac_state \in {"CHECK_CRC_S", "OK_END_S", "CRC_ERR_END_S"} =>
          sent = Given
    /\ acc_state \in {"WRITE_EOP", "WRITE_EOP_SW"} =>
          verdict = "cut" \/ sent = Given

WordOK(w) ==
    /\ w.sop <=> w.note.at = 0
    /\ w.sop => ~w.eop
    /\ w.eop => /\ w.note.len = 8 * w.note.at
                                  + (IF w.mod = 0 THEN 8 ELSE w.mod) + 4
                /\ w.note.len \in 0 .. LEN_MOD - 1
                /\ w.note.whole

Link(a, b) ==
    b.note.at > 0 => /\ b.note.frame = a.note.frame
                     /\ b.note.at = a.note.at + 1
                     /\ ~a.eop

QueueInv ==
    /\ \A i \in 1 .. Len(fifo) : WordOK(fifo[i])
    /\ \A i \in 1 .. Len(fifo) - 1 : Link(fifo[i], fifo[i + 1])
    /\ fifo # <<>> /\ written > 0 =>
          /\ fifo[Len(fifo)].note.frame = Frame
          /\ fifo[Len(fifo)].note.at = written - 1
          /\ ~fifo[Len(fifo)].eop

ReadInv ==
    /\ arb_state = "IDLE_S" => pkt_len = 4
    /\ arb_state = "READ_S" =>
          /\ pkt_len = (4 + 8 * Len(packet)) % LEN_MOD
          /\ \A i \in 1 .. Len(packet) : /\ packet[i].frame = packet[1].frame
                                         /\ packet[i].at = i - 1
          /\ fifo # <<>> /\ fifo[1].note.at > 0 =>
                /\ fifo[1].note.frame = packet[1].frame
                /\ fifo[1].note.at = Len(packet)
          /\ fifo = <<>> /\ written > 0 =>
                Frame = packet[1].frame /\ written = Len(packet)

FrameInv == PhyInv /\ SentInv /\ QueueInv /\ ReadInv /\ UnmarkedIsOneFrame

-----------------------------------------------------------------------------
(* Numbers of bytes. *)

\* One byte more: its place in a data unit, and the data units written.
LEMMA ByteCount ==
    ASSUME NEW g \in Nat
    PROVE  /\ g \div 8 \in Nat /\ g % 8 \in 0 .. 7
           /\ g = 8 * (g \div 8) + (g % 8)
           /\ (g + 1) % 8 = ((g % 8) + 1) % 8
           /\ g % 8 # 7 => (g + 1) % 8 = (g % 8) + 1
                           /\ (g + 1) \div 8 = g \div 8
           /\ g % 8 = 7 => (g + 1) % 8 = 0 /\ (g + 1) \div 8 = (g \div 8) + 1
OBVIOUS

\* A write begins with every eighth byte after the fifth, from the 13th on.
LEMMA StartedFacts ==
    ASSUME NEW g \in Nat
    PROVE  /\ Started(g) \in Nat
           /\ Started(g) = 0 <=> g < 13
           /\ Started(g + 1) = Started(g) + (IF g >= 12 /\ g % 8 = 4
                                             THEN 1 ELSE 0)
           /\ g >= 13 /\ g % 8 >= 5 => Started(g) = g \div 8
           /\ g >= 13 /\ g % 8 < 5 => Started(g) = (g \div 8) - 1
BY DEF Started

-----------------------------------------------------------------------------
(* An enabled edge of the PHY's clock, seen from the MAC and the packer. *)

LEMMA EnabledEdge ==
    ASSUME TypeOK, RoomInv, rx_clk_en, RxClkEdge
    PROVE  /\ rx_d1' = LineNow /\ rx_d2' = rx_d1 /\ Frame' = rx_d1.d.frame
           /\ wire' \in WireMoves
           /\ frame_len' = IF mac_state = "SFD_S" THEN 1
                           ELSE IF mac_state = "DATA_S" THEN frame_len + 1
                           ELSE frame_len
           /\ acc_state' = AccNext
           /\ mac_state' = "SFD_S" => /\ mac_state = "PREAMBLE_S"
                                      /\ rx_d1.dv /\ rx_d1.d.n = SfdByte
           /\ mac_state' = "PREAMBLE_S" =>
                 mac_state \in {"IDLE_S", "PREAMBLE_S"}
           /\ mac_state' = "DATA_S" =>
                 /\ rx_d1.dv
                 /\ \/ mac_state = "SFD_S"
                    \/ mac_state = "DATA_S" /\ ~wr_almost_full
           /\ mac_state' = "CHECK_CRC_S" => mac_state = "DATA_S" /\ ~rx_d1.dv
           /\ mac_state' = "DROP_S" =>
                 \/ mac_state \in {"PREAMBLE_S", "SFD_S"}
                 \/ mac_state \in {"DATA_S", "DROP_S"} /\ rx_d1.dv
           /\ mac_state = "DATA_S" /\ mac_state' # "DATA_S" =>
                 ~rx_d1.dv \/ wr_almost_full \/ rx_d2.err \/ too_long
<1>1. PICK crc_err \in BOOLEAN : MacEdge(LineNow, wr_almost_full, crc_err)
  BY DEF RxClkEdge
<1>2. mac_state' = MacNext(wr_almost_full, crc_err)
  BY <1>1 DEF MacEdge
<1>3. mac_state \in {"IDLE_S", "PREAMBLE_S", "SFD_S", "DATA_S", "CHECK_CRC_S",
                     "OK_END_S", "DROP_S", "ERR_END_S", "CRC_ERR_END_S",
                     "FIFO_FULL_DROP_S", "FIFO_FULL_ERR_END_S", "IFG_S"}
  BY DEF TypeOK, MacTypeOK
<1>4. /\ mac_state' = "SFD_S" => /\ mac_state = "PREAMBLE_S"
                                 /\ rx_d1.dv /\ rx_d1.d.n = SfdByte
      /\ mac_state' = "PREAMBLE_S" => mac_state \in {"IDLE_S", "PREAMBLE_S"}
      /\ mac_state' = "DATA_S" =>
            /\ rx_d1.dv
            /\ \/ mac_state = "SFD_S"
               \/ mac_state = "DATA_S" /\ ~wr_almost_full
  BY <1>2, <1>3 DEF MacNext
<1>5. /\ mac_state' = "CHECK_CRC_S" => mac_state = "DATA_S" /\ ~rx_d1.dv
      /\ mac_state' = "DROP_S" =>
            \/ mac_state \in {"PREAMBLE_S", "SFD_S"}
            \/ mac_state \in {"DATA_S", "DROP_S"} /\ rx_d1.dv
      /\ mac_state = "DATA_S" /\ mac_state' # "DATA_S" =>
            ~rx_d1.dv \/ wr_almost_full \/ rx_d2.err \/ too_long
  BY <1>2, <1>3 DEF MacNext
<1>6. /\ rx_d1' = LineNow /\ rx_d2' = rx_d1
      /\ frame_len' = IF mac_state = "SFD_S" THEN 1
                      ELSE IF mac_state = "DATA_S" THEN frame_len + 1
                      ELSE frame_len
  BY <1>1 DEF MacEdge
<1>7. wire' \in WireMoves /\ acc_state' = AccNext
  BY DEF RxClkEdge, AccEdge
<1> QED BY <1>4, <1>5, <1>6, <1>7 DEF Frame

\* sop_logic while no data unit of the frame is complete.
FewBytes == sop_logic = <<TRUE, FALSE>>

\* What the packer does, state by state.
LEMMA PackerMoves ==
    ASSUME TypeOK, RoomInv
    PROVE  /\ acc_state \in {"IDLE", "ACCUM", "WRITE", "WRITE_EOP",
                             "WRITE_EOP_SW", "DROP_FRAG"}
           /\ fifo_data_en <=> mac_state = "DATA_S"
           /\ fifo_data_en => ~fifo_data_end
           /\ fifo_data_en => acc_state \in {"IDLE", "ACCUM", "WRITE"}
           /\ AccNext = "IDLE" <=>
                 \/ acc_state = "IDLE" /\ ~fifo_data_en
                 \/ acc_state \in {"WRITE_EOP", "WRITE_EOP_SW",
                                   "DROP_FRAG"}
           /\ AccNext = "ACCUM" <=>
                 \/ acc_state = "IDLE" /\ fifo_data_en
                 \/ /\ acc_state = "ACCUM" /\ ~fifo_data_end
                    /\ ~(fifo_data_en /\ counter = 4 /\ ~FewBytes)
                 \/ acc_state = "WRITE" /\ ~fifo_data_end
           /\ AccNext = "WRITE" <=>
                 /\ acc_state = "ACCUM" /\ fifo_data_en
                 /\ counter = 4 /\ ~FewBytes
           /\ AccNext = "WRITE_EOP" <=>
                 /\ acc_state = "ACCUM" /\ fifo_data_end
                 /\ ~sop_logic[1] /\ counter < 5
           /\ AccNext = "WRITE_EOP_SW" <=>
                 \/ /\ acc_state = "ACCUM" /\ fifo_data_end
                    /\ ~sop_logic[1] /\ counter >= 5
                 \/ acc_state = "WRITE" /\ fifo_data_end
           /\ AccNext = "DROP_FRAG" <=>
                 acc_state = "ACCUM" /\ fifo_data_end /\ sop_logic[1]
<1>1. /\ acc_state \in {"IDLE", "ACCUM", "WRITE", "WRITE_EOP", "WRITE_EOP_SW",
                        "DROP_FRAG"}
      /\ counter \in 0 .. 7 /\ sop_logic[1] \in BOOLEAN
      /\ mac_state = "DATA_S" => acc_state \in {"IDLE", "ACCUM", "WRITE"}
  BY DEF TypeOK, AccTypeOK, RoomInv, PackerFollowsMac
<1>2. /\ fifo_data_en <=> mac_state = "DATA_S"
      /\ fifo_data_en => ~fifo_data_end
      /\ fifo_data_en \in BOOLEAN /\ fifo_data_end \in BOOLEAN
  BY DEF fifo_data_en, fifo_data_end
<1>3. CASE acc_state = "IDLE"
  BY <1>1, <1>2, <1>3 DEF AccNext
<1>4. CASE acc_state = "ACCUM"
  <2>1. AccNext = IF fifo_data_end
                  THEN IF sop_logic[1] THEN "DROP_FRAG"
                       ELSE IF counter < 5 THEN "WRITE_EOP" ELSE "WRITE_EOP_SW"
                  ELSE IF fifo_data_en /\ counter = 4 /\ ~FewBytes
                       THEN "WRITE" ELSE "ACCUM"
    BY <1>4 DEF AccNext, FewBytes
  <2>2. CASE fifo_data_end
    BY <1>1, <1>2, <1>4, <2>1, <2>2
  <2>3. CASE ~fifo_data_end
    BY <1>1, <1>2, <1>4, <2>1, <2>3
  <2> QED BY <2>2, <2>3
<1>5. CASE acc_state = "WRITE"
  BY <1>1, <1>2, <1>5 DEF AccNext
<1>6. CASE acc_state \in {"WRITE_EOP", "WRITE_EOP_SW", "DROP_FRAG"}
  BY <1>1, <1>2, <1>6 DEF AccNext
<1> QED BY <1>1, <1>3, <1>4, <1>5, <1>6

\* The position of the byte that the packer stores, before and after it.
LEMMA ByteStored ==
    ASSUME TypeOK, RoomInv, PhyInv, mac_state = "DATA_S"
    PROVE  /\ Given \in Nat /\ Given + 1 = frame_len
           /\ counter = Given % 8
           /\ rx_d2.d = ByteAt(Frame, Given + 1)
           /\ acc_state = "IDLE" => Given = 0
           /\ acc_state = "WRITE" => counter = 5
           /\ acc_state # "IDLE" => Given >= 1
<1>1. /\ rx_d2.d \in Byte /\ frame_len \in Nat
  BY GmiiRxAssumption
     DEF GmiiRxAssumption, TypeOK, MacTypeOK, Line
<1>2. rx_d2.d.n = frame_len /\ frame_len >= 1
  BY DEF PhyInv, LineInv, InFrame
<1>3. acc_state = "IDLE" => counter = 0 /\ frame_len = 1
  BY DEF RoomInv, PackerFollowsMac, PhyInv, WriteInv, IdleInv
<1>4. acc_state # "IDLE" => counter = Given % 8 /\ Given >= 1
  BY DEF PhyInv, GatherInv
<1>5. Given \in Nat /\ Given + 1 = frame_len
  BY <1>1, <1>2 DEF Given
<1>6. counter = Given % 8
  BY <1>3, <1>4, <1>5 DEF Given
<1>7. rx_d2.d = ByteAt(Frame, Given + 1)
  BY <1>1, <1>2, <1>5 DEF ByteAt, Frame, Byte
<1>8. acc_state = "WRITE" => counter = 5
  BY DEF RoomInv, PackerFollowsMac
<1> QED BY <1>3, <1>4, <1>5, <1>6, <1>7, <1>8 DEF Given

-----------------------------------------------------------------------------
(* The bytes that the MAC sees are consecutive bytes of one frame. *)

\* Where the link partner goes from where it is.
LEMMA WireGoes ==
    ASSUME NoFragments, TypeOK, LineInv, wire' \in WireMoves
    PROVE  /\ WireSends'
           /\ wire.phase # "gap" => wire'.frame = wire.frame
           /\ wire.phase # "gap" /\ wire'.phase = "gap" => wire'.i = 1
           /\ wire.phase = "gap" /\ wire.i \in {1, 2} =>
                 /\ wire'.phase = "gap" /\ wire'.i = wire.i + 1
                 /\ wire'.frame = wire.frame
           /\ wire.phase = "sfd" =>
                 wire'.phase = "gap" \/ (wire'.phase = "data" /\ wire'.i = 1)
           /\ wire.phase = "data" =>
                 \/ wire'.phase = "data" /\ wire'.i = wire.i + 1
                 \/ wire'.phase = "gap" /\ wire.i \notin 8 .. 12
<1>1. /\ wire \in Wire /\ WireSends
      /\ wire.phase \in {"gap", "preamble", "sfd", "data"} /\ wire.i \in Nat
      /\ wire.len \in Int
  BY DEF TypeOK, LineInv, Wire
<1>2. ASSUME NEW ph, NEW i, wire' \in Onward(ph, i)
      PROVE  /\ wire'.phase = ph /\ wire'.i = i /\ wire'.len = wire.len
             /\ wire'.err = wire.err /\ wire'.frame = wire.frame
  BY <1>1, <1>2 DEF Onward, Wire
<1>3. ASSUME wire' \in FrameOver
      PROVE  wire'.phase = "gap" /\ wire'.i = 1 /\ wire'.frame = wire.frame
  BY <1>3 DEF FrameOver, Gap
<1>4. ASSUME wire' \in NewFrame
      PROVE  /\ wire'.phase = "preamble"
             /\ wire'.len \notin 8 .. 12 /\ wire'.err \notin 8 .. 12
  <2>1. PICK f \in FRAMES :
           wire' = [phase |-> "preamble", i |-> 1, len |-> f[1], err |-> f[2],
                    frame |-> 1 - wire.frame]
    BY <1>4 DEF NewFrame
  <2>2. f[1] \notin 8 .. 12 /\ f[2] \notin 8 .. 12
    BY DEF NoFragments
  <2> QED BY <2>1, <2>2
<1>5. CASE wire.phase = "gap"
  <2>1. CASE wire.i < MIN_GAP
    <3>1. wire' \in Onward("gap", wire.i + 1)
      BY <1>5, <2>1 DEF WireMoves
    <3> QED BY <1>2, <1>5, <3>1 DEF WireSends
  <2>2. CASE ~(wire.i < MIN_GAP)
    <3>1. wire' = wire \/ wire' \in NewFrame
      BY <1>5, <2>2 DEF WireMoves
    <3>2. wire.i \notin {1, 2}
      BY <2>2, GmiiRxAssumption DEF GmiiRxAssumption, NoFragments
    <3> QED BY <1>1, <1>4, <1>5, <3>1, <3>2 DEF WireSends
  <2> QED BY <2>1, <2>2
<1>6. CASE wire.phase = "preamble"
  <2>1. \/ wire' \in Onward("preamble", wire.i + 1) \/ wire' \in FrameOver
        \/ wire' \in Onward("sfd", 1) /\ wire.len >= 0
    BY <1>1, <1>6 DEF WireMoves
  <2> QED BY <1>1, <1>2, <1>3, <1>6, <2>1 DEF WireSends
<1>7. CASE wire.phase = "sfd"
  <2>1. CASE wire.len = 0
    <3>1. wire' \in FrameOver
      BY <1>7, <2>1 DEF WireMoves
    <3> QED BY <1>3, <1>7, <3>1 DEF WireSends
  <2>2. CASE wire.len # 0
    <3>1. wire' \in Onward("data", 1)
      BY <1>7, <2>2 DEF WireMoves
    <3>2. wire.len >= 1
      BY <1>1, <1>7, <2>2 DEF WireSends
    <3> QED BY <1>1, <1>2, <1>7, <3>1, <3>2 DEF WireSends
  <2> QED BY <2>1, <2>2
<1>8. CASE wire.phase = "data"
  <2>1. CASE wire.i < wire.len
    <3>1. wire' \in Onward("data", wire.i + 1)
      BY <1>8, <2>1 DEF WireMoves
    <3>2. wire.i + 1 \in 1 .. wire.len
      BY <1>1, <2>1
    <3> QED BY <1>1, <1>2, <1>8, <3>1, <3>2 DEF WireSends
  <2>2. CASE ~(wire.i < wire.len)
    <3>1. wire' \in FrameOver
      BY <1>8, <2>2 DEF WireMoves
    <3>2. wire.i = wire.len /\ wire.len \notin 8 .. 12
      BY <1>1, <1>8, <2>2 DEF WireSends
    <3> QED BY <1>3, <1>8, <3>1, <3>2 DEF WireSends
  <2> QED BY <2>1, <2>2
<1> QED BY <1>1, <1>5, <1>6, <1>7, <1>8

\* What is on the wire when the link partner is there.
LEMMA LineShows ==
    ASSUME TypeOK
    PROVE  /\ LineNow.dv <=> wire.phase # "gap"
           /\ LineNow.d.frame = wire.frame
           /\ wire.phase = "preamble" => LineNow.d.n = PreambleByte
           /\ wire.phase = "sfd" => LineNow.d.n = SfdByte
           /\ wire.phase = "data" => LineNow.d = ByteAt(wire.frame, wire.i)
           /\ wire.phase = "data" => LineNow.d.n = wire.i
           /\ LineNow.err /\ wire.phase = "data" => wire.i = wire.err
BY DEF TypeOK, Wire, LineNow, ByteAt

\* The byte behind the one that goes into the register follows it.
LEMMA FollowsStep ==
    ASSUME NoFragments, TypeOK, RoomInv, PhyInv, rx_clk_en, RxClkEdge
    PROVE  Follows'
<1>1. /\ rx_d1' = LineNow /\ wire' \in WireMoves
      /\ WireSends /\ LineInv
  BY EnabledEdge DEF PhyInv, LineInv
<1>2. /\ wire \in Wire /\ wire.i \in Nat
      /\ wire.phase \in {"gap", "preamble", "sfd", "data"}
  BY DEF TypeOK, Wire
<1> SUFFICES ASSUME wire.phase # "gap" PROVE Follows'
  BY <1>1, LineShows DEF Follows
<1>3. /\ wire'.frame = rx_d1'.d.frame
      /\ wire'.phase = "gap" => wire'.i = 1
  BY <1>1, LineShows, WireGoes
<1>4. CASE wire.phase \in {"preamble", "sfd"}
  <2>1. rx_d1'.d.n \in {PreambleByte, SfdByte}
    BY <1>1, <1>4, LineShows
  <2>2. /\ ~(rx_d1'.d.n >= 1)
        /\ rx_d1'.d.n = SfdByte => wire.phase = "sfd"
    BY <1>1, <1>4, <2>1, LineShows DEF PreambleByte, SfdByte
  <2> QED BY <1>1, <1>3, <2>2, WireGoes DEF Follows
<1>5. CASE wire.phase = "data"
  <2>1. rx_d1'.d.n = wire.i /\ wire.i >= 1
    BY <1>1, <1>2, <1>5, LineShows DEF WireSends
  <2>2. rx_d1'.d.n # SfdByte
    BY <1>2, <2>1 DEF SfdByte
  <2>3. rx_d1'.err => rx_d1'.d.n \notin 8 .. 12
    BY <1>1, <1>5, <2>1, LineShows DEF WireSends
  <2> QED BY <1>1, <1>3, <1>5, <2>1, <2>2, <2>3, WireGoes DEF Follows
<1> QED BY <1>2, <1>4, <1>5

\* The byte that the MAC takes next, if it stays in the frame.
LEMMA NextByte ==
    ASSUME TypeOK, RoomInv, PhyInv, rx_clk_en, RxClkEdge,
           mac_state' = "DATA_S"
    PROVE  /\ rx_d1.dv /\ rx_d1.d = ByteAt(rx_d1.d.frame, frame_len')
           /\ rx_d1.d.n = frame_len'
           /\ frame_len' \in Nat \ {0}
           /\ rx_d1.d.frame = Frame
<1>1. /\ rx_d1.dv /\ mac_state \in {"SFD_S", "DATA_S"}
      /\ frame_len' = IF mac_state = "SFD_S" THEN 1
                      ELSE IF mac_state = "DATA_S" THEN frame_len + 1
                      ELSE frame_len
  BY EnabledEdge
<1>2. frame_len \in Nat
  BY GmiiRxAssumption DEF GmiiRxAssumption, TypeOK, MacTypeOK
<1>3. rx_d1.d = ByteAt(Frame, frame_len')
  BY <1>1 DEF PhyInv, LineInv, InFrame
<1> QED BY <1>1, <1>2, <1>3 DEF ByteAt

LEMMA InFrameStep ==
    ASSUME NoFragments, TypeOK, RoomInv, PhyInv, rx_clk_en, RxClkEdge
    PROVE  InFrame'
<1>1. /\ rx_d1' = LineNow /\ rx_d2' = rx_d1 /\ Frame' = rx_d1.d.frame
      /\ wire' \in WireMoves /\ LineInv /\ Follows
  BY EnabledEdge DEF PhyInv, LineInv
<1>2. ASSUME mac_state' = "SFD_S", rx_d1'.dv
      PROVE  rx_d1'.d = ByteAt(Frame', 1)
  <2>1. rx_d1.dv /\ rx_d1.d.n = SfdByte
    BY <1>2, EnabledEdge
  <2>2. wire.phase = "data" /\ wire.i = 1 /\ wire.frame = rx_d1.d.frame
    BY <1>1, <1>2, <2>1, LineShows DEF Follows
  <2> QED BY <1>1, <2>2, LineShows
<1>3. ASSUME mac_state' = "DATA_S"
      PROVE  /\ frame_len' >= 1 /\ rx_d2'.d.n = frame_len'
             /\ rx_d1'.dv => rx_d1'.d = ByteAt(Frame', frame_len' + 1)
             /\ ~rx_d1'.dv => /\ frame_len' \notin 8 .. 12
                              /\ wire'.phase = "gap" /\ wire'.i = 2
             /\ rx_d2'.err => frame_len' \notin 8 .. 12
  <2>1. rx_d1.dv /\ rx_d1.d.n = frame_len' /\ frame_len' \in Nat \ {0}
    BY <1>3, NextByte
  <2>2. /\ wire.frame = rx_d1.d.frame
        /\ wire.phase = "gap" => wire.i = 1
        /\ \/ wire.phase = "data" /\ wire.i = frame_len' + 1
           \/ wire.phase = "gap" /\ frame_len' \notin 8 .. 12
        /\ rx_d1.err => frame_len' \notin 8 .. 12
    BY <1>1, <2>1 DEF Follows
  <2>3. CASE wire.phase = "data"
    BY <1>1, <2>1, <2>2, <2>3, LineShows
  <2>4. CASE wire.phase = "gap"
    BY <1>1, <2>1, <2>2, <2>4, LineShows, WireGoes
  <2> QED BY <2>2, <2>3, <2>4
<1> QED BY <1>2, <1>3 DEF InFrame

\* While a frame is taken, all that is on its way is of that frame.
LEMMA SameFrameStep ==
    ASSUME NoFragments, TypeOK, RoomInv, PhyInv, rx_clk_en, RxClkEdge
    PROVE  /\ SameFrame'
           /\ acc_state' # "IDLE" => Frame' = Frame
<1>1. /\ rx_d1' = LineNow /\ rx_d1'.d.frame = wire.frame
      /\ Frame' = rx_d1.d.frame
      /\ wire' \in WireMoves /\ LineInv /\ Follows /\ SameFrame
      /\ acc_state' = AccNext
  BY EnabledEdge, LineShows DEF PhyInv, LineInv
<1>2. wire.phase \in {"gap", "preamble", "sfd", "data"}
  BY DEF TypeOK, Wire
<1>3. acc_state' # "IDLE" => Taking
  BY <1>1, PackerMoves DEF Taking
<1>4. acc_state' # "IDLE" => Frame' = Frame
  BY <1>1, <1>3 DEF SameFrame
<1>5. ASSUME Taking, mac_state' # "DATA_S",
             acc_state' \in {"ACCUM", "WRITE"}
      PROVE  mac_state \in {"DATA_S", "CHECK_CRC_S", "DROP_S"}
  <2>1. CASE mac_state # "DATA_S"
    <3>1. acc_state \in {"ACCUM", "WRITE"} /\ ~fifo_data_end
      BY <1>1, <1>5, <2>1, PackerMoves DEF Taking
    <3> QED BY <3>1 DEF RoomInv, PackerFollowsMac, fifo_data_end, TypeOK,
                        MacTypeOK
  <2> QED BY <2>1
<1>6. ASSUME Taking'
      PROVE  rx_d1'.d.frame = Frame'
  <2>1. CASE mac_state' = "DATA_S"
    <3>1. rx_d1.dv
      BY <2>1, NextByte
    <3> QED BY <1>1, <3>1 DEF Follows
  <2>2. CASE mac_state' # "DATA_S"
    <3>1. acc_state' \in {"ACCUM", "WRITE"} /\ Taking
      BY <1>3, <1>6, <2>2 DEF Taking
    <3> QED BY <1>1, <1>4, <1>5, <2>2, <3>1 DEF SameFrame
  <2> QED BY <2>1, <2>2
<1>7. ASSUME Taking', mac_state' \in {"DATA_S", "CHECK_CRC_S", "DROP_S"}
      PROVE  wire'.frame = Frame'
  <2>1. wire.frame = Frame'
    BY <1>1, <1>6, <1>7
  <2>2. CASE rx_d1.dv
    <3>1. wire.phase = "gap" => wire.i = 1
      BY <1>1, <2>2 DEF Follows
    <3> QED BY <1>1, <2>1, <3>1, WireGoes
  <2>3. CASE ~rx_d1.dv
    <3>1. mac_state' # "DATA_S"
      BY <2>3, NextByte
    <3>2. mac_state = "DATA_S"
      <4>1. mac_state' = "DROP_S" => mac_state \in {"PREAMBLE_S", "SFD_S"}
        BY <2>3, EnabledEdge
      <4>2. acc_state' # "IDLE"
        BY <1>7, <3>1 DEF Taking
      <4>3. mac_state \notin {"PREAMBLE_S", "SFD_S"}
        BY <1>1, <4>2, PackerMoves DEF RoomInv, PackerFollowsMac
      <4> QED BY <1>7, <3>1, <4>1, <4>3, EnabledEdge
    <3>3. wire.phase = "gap" /\ wire.i = 2
      BY <2>3, <3>2 DEF PhyInv, LineInv, InFrame
    <3> QED BY <1>1, <2>1, <3>3, WireGoes
  <2> QED BY <2>2, <2>3
<1> QED BY <1>4, <1>6, <1>7 DEF SameFrame

LEMMA LineStep ==
    ASSUME NoFragments, TypeOK, RoomInv, PhyInv, rx_clk_en, RxClkEdge
    PROVE  LineInv'
<1>1. WireSends'
  BY EnabledEdge, WireGoes DEF PhyInv
<1> QED BY <1>1, FollowsStep, InFrameStep, SameFrameStep DEF LineInv

-----------------------------------------------------------------------------
(* What has been gathered. *)

\* A byte is stored behind those that are there; when it fills the data unit,
\* the next one begins, and the full one is copied before it is overwritten.
LEMMA GatherByte ==
    ASSUME NoFragments, TypeOK, RoomInv, PhyInv, rx_clk_en, RxClkEdge,
           mac_state = "DATA_S"
    PROVE  GatherInv' /\ Given' = Given + 1 /\ acc_state' \in {"ACCUM", "WRITE"}
<1> DEFINE g == Given
           F == Frame
<1>1. /\ g \in Nat /\ g + 1 = frame_len /\ counter = g % 8
      /\ rx_d2.d = ByteAt(F, g + 1)
      /\ acc_state = "IDLE" => g = 0
      /\ acc_state = "WRITE" => counter = 5
      /\ acc_state # "IDLE" => g >= 1
  BY ByteStored
<1>2. /\ acc_state' = AccNext
      /\ acc_state \in {"IDLE", "ACCUM", "WRITE"}
      /\ acc_state' \in {"ACCUM", "WRITE"} /\ fifo_data_en
      /\ acc_state' = "WRITE" => acc_state = "ACCUM" /\ counter = 4
      /\ acc_state # "ACCUM" => acc_state' = "ACCUM"
  BY EnabledEdge, PackerMoves
<1>3. /\ counter' = (counter + 1) % 8
      /\ pkt_fifo_data' = [pkt_fifo_data EXCEPT ![counter] = rx_d2.d]
      /\ pkt_fifo_tmp_data' = IF counter = 0 /\ acc_state = "ACCUM"
                              THEN pkt_fifo_data ELSE pkt_fifo_tmp_data
  BY <1>2 DEF RxClkEdge, AccEdge
<1>4. Given' = g + 1
  BY <1>1, EnabledEdge DEF Given
<1>5. Frame' = F
  BY <1>2, SameFrameStep
<1>6. /\ \A k \in 0 .. 7 :
            k < counter => pkt_fifo_data[k] = ByteAt(F, 8 * (g \div 8) + k + 1)
      /\ counter = 0 /\ acc_state = "ACCUM" =>
            \A k \in 0 .. 7 : pkt_fifo_data[k] = ByteAt(F, g - 8 + k + 1)
      /\ counter # 0 /\ g >= 8 =>
            \A k \in 0 .. 7 : pkt_fifo_tmp_data[k] =
                                  ByteAt(F, 8 * (g \div 8 - 1) + k + 1)
  <2>1. CASE acc_state = "IDLE"
    <3>1. counter = 0
      BY <1>1, <2>1
    <3> QED BY <2>1, <3>1
  <2>2. CASE acc_state # "IDLE"
    BY <2>2 DEF PhyInv, GatherInv
  <2> QED BY <2>1, <2>2
<1>7. /\ counter \in 0 .. 7 /\ g \div 8 \in Nat
      /\ g = 8 * (g \div 8) + counter
      /\ counter # 7 => (g + 1) % 8 = counter + 1 /\ (g + 1) \div 8 = g \div 8
      /\ counter = 7 => (g + 1) % 8 = 0 /\ (g + 1) \div 8 = (g \div 8) + 1
      /\ (g + 1) % 8 = (counter + 1) % 8
  BY <1>1, ByteCount
<1>8. /\ \A k \in 0 .. 7 : k # counter => pkt_fifo_data'[k] = pkt_fifo_data[k]
      /\ pkt_fifo_data'[counter] = ByteAt(F, g + 1)
  BY <1>1, <1>3, <1>7 DEF TypeOK, AccTypeOK, DataUnit
<1> HIDE DEF g, F
<1>9. counter' = (g + 1) % 8
  BY <1>3, <1>7
<1>10. ASSUME NEW k \in 0 .. 7, k < counter'
       PROVE  pkt_fifo_data'[k] = ByteAt(F, 8 * ((g + 1) \div 8) + k + 1)
  <2>1. counter # 7 /\ counter' = counter + 1
    BY <1>7, <1>9, <1>10
  <2>2. CASE k = counter
    <3>1. 8 * (g \div 8) + k + 1 = g + 1
      BY <1>7, <2>2
    <3> QED BY <1>7, <1>8, <2>1, <2>2, <3>1
  <2>3. CASE k # counter
    <3>1. k < counter
      BY <1>7, <1>10, <2>1, <2>3
    <3> QED BY <1>6, <1>7, <1>8, <2>1, <2>3, <3>1
  <2> QED BY <2>2, <2>3
<1>11. ASSUME counter' = 0, NEW k \in 0 .. 7
       PROVE  pkt_fifo_data'[k] = ByteAt(F, (g + 1) - 8 + k + 1)
  <2>1. counter = 7 /\ (g + 1) - 8 = 8 * (g \div 8)
    BY <1>7, <1>9, <1>11
  <2>2. CASE k = 7
    <3>1. (g + 1) - 8 + k + 1 = g + 1
      BY <1>1, <2>2 DEF g
    <3> QED BY <1>8, <2>1, <2>2, <3>1
  <2>3. CASE k # 7
    <3>1. k < counter
      BY <2>1, <2>3
    <3> QED BY <1>6, <1>8, <2>1, <2>3, <3>1
  <2> QED BY <2>2, <2>3
<1>12. ASSUME acc_state' # "ACCUM" \/ counter' # 0, g + 1 >= 8,
              NEW k \in 0 .. 7
       PROVE  pkt_fifo_tmp_data'[k] =
                  ByteAt(F, 8 * ((g + 1) \div 8 - 1) + k + 1)
  <2>1. counter # 7 /\ (g + 1) \div 8 = g \div 8
    BY <1>2, <1>7, <1>9, <1>12
  <2>2. g >= 8
    BY <1>7, <1>12, <2>1
  <2>3. CASE counter = 0
    <3>1. acc_state = "ACCUM"
      BY <1>1, <1>2, <2>2, <2>3 DEF g
    <3>2. g - 8 = 8 * (g \div 8 - 1)
      BY <1>7, <2>3
    <3> QED BY <1>3, <1>6, <2>1, <2>3, <3>1, <3>2
  <2>4. CASE counter # 0
    BY <1>3, <1>6, <2>1, <2>2, <2>4
  <2> QED BY <2>3, <2>4
<1>13. g + 1 >= 1
  BY <1>1 DEF g
<1>14. GatherInv'
  BY <1>4, <1>5, <1>9, <1>10, <1>11, <1>12, <1>13 DEF GatherInv
<1> QED BY <1>2, <1>4, <1>14 DEF g

\* Behind the end of the frame the registers keep what they hold.
LEMMA GatherEnd ==
    ASSUME NoFragments, TypeOK, RoomInv, PhyInv, rx_clk_en, RxClkEdge,
           mac_state # "DATA_S"
    PROVE  /\ GatherInv'
           /\ acc_state' # "IDLE" =>
                 /\ acc_state \in {"ACCUM", "WRITE"}
                 /\ Given' = Given /\ counter' = counter
                 /\ counter = Given % 8 /\ Given \in Nat \ {0}
<1> SUFFICES ASSUME acc_state' # "IDLE"
             PROVE  /\ GatherInv'
                    /\ acc_state \in {"ACCUM", "WRITE"}
                    /\ Given' = Given /\ counter' = counter
                    /\ counter = Given % 8 /\ Given \in Nat \ {0}
  BY DEF GatherInv
<1>1. /\ acc_state' = AccNext /\ ~fifo_data_en
      /\ acc_state \in {"ACCUM", "WRITE"}
      /\ acc_state = "WRITE" => counter = 5
  BY EnabledEdge, PackerMoves DEF RoomInv, PackerFollowsMac
<1>2. mac_state # "SFD_S"
  BY <1>1 DEF RoomInv, PackerFollowsMac
<1>3. Given' = Given /\ Frame' = Frame
  BY <1>1, <1>2, EnabledEdge, SameFrameStep DEF Given
<1>4. /\ counter' = counter /\ pkt_fifo_data' = pkt_fifo_data
      /\ pkt_fifo_tmp_data' = IF counter = 0 /\ acc_state = "ACCUM"
                              THEN pkt_fifo_data ELSE pkt_fifo_tmp_data
  BY <1>1 DEF RxClkEdge, AccEdge
<1>5. /\ Given >= 1 /\ counter = Given % 8
      /\ \A k \in 0 .. 7 :
            k < counter => pkt_fifo_data[k] =
                               ByteAt(Frame, 8 * (Given \div 8) + k + 1)
      /\ counter = 0 =>
            \A k \in 0 .. 7 :
               pkt_fifo_data[k] = ByteAt(Frame, Given - 8 + k + 1)
      /\ counter # 0 /\ Given >= 8 =>
            \A k \in 0 .. 7 :
               pkt_fifo_tmp_data[k] =
                   ByteAt(Frame, 8 * (Given \div 8 - 1) + k + 1)
  BY <1>1 DEF PhyInv, GatherInv
<1>6. Given \in Nat \ {0}
  <2>1. frame_len \in Int
    BY GmiiRxAssumption DEF GmiiRxAssumption, TypeOK, MacTypeOK
  <2> QED BY <1>5, <2>1 DEF Given
<1>7. ASSUME Given >= 8, NEW k \in 0 .. 7
      PROVE  pkt_fifo_tmp_data'[k] =
                 ByteAt(Frame, 8 * (Given \div 8 - 1) + k + 1)
  <2>1. CASE counter = 0
    <3>1. Given - 8 = 8 * (Given \div 8 - 1)
      BY <1>5, <1>6, <2>1, ByteCount
    <3> QED BY <1>1, <1>4, <1>5, <2>1, <3>1
  <2>2. CASE counter # 0
    BY <1>4, <1>5, <1>7, <2>2
  <2> QED BY <2>1, <2>2
<1>8. GatherInv'
  BY <1>3, <1>4, <1>5, <1>7 DEF GatherInv
<1> QED BY <1>1, <1>3, <1>4, <1>5, <1>6, <1>8

-----------------------------------------------------------------------------
(* What has been written. *)

\* The registers of the writing side over an enabled edge.
LEMMA WriteRegisters ==
    ASSUME TypeOK, rx_clk_en, RxClkEdge
    PROVE  /\ wr_req' <=> acc_state' \in {"WRITE", "WRITE_EOP", "WRITE_EOP_SW"}
           /\ sop_fifo' <=> acc_state' = "WRITE" /\ sop_logic[1]
           /\ eop_fifo' <=> acc_state' \in {"WRITE_EOP", "WRITE_EOP_SW"}
           /\ acc_state' \in {"WRITE_EOP", "WRITE_EOP_SW"} =>
                 mod_fifo' = (counter + 4) % 8
BY DEF RxClkEdge, AccEdge, WrReq

\* The two bits of sop_logic.
LEMMA FewBytesBits ==
    ASSUME TypeOK
    PROVE  /\ sop_logic = <<sop_logic[1], sop_logic[2]>>
           /\ sop_logic[1] \in BOOLEAN /\ sop_logic[2] \in BOOLEAN
           /\ FewBytes <=> sop_logic[1] /\ ~sop_logic[2]
<1>1. /\ sop_logic = <<sop_logic[1], sop_logic[2]>>
      /\ sop_logic[1] \in BOOLEAN /\ sop_logic[2] \in BOOLEAN
  BY DEF TypeOK, AccTypeOK
<1>2. ASSUME FewBytes PROVE sop_logic[1] /\ ~sop_logic[2]
  BY <1>2 DEF FewBytes
<1>3. ASSUME sop_logic[1], ~sop_logic[2] PROVE FewBytes
  <2>1. sop_logic[1] = TRUE /\ sop_logic[2] = FALSE
    BY <1>1, <1>3
  <2> QED BY <1>1, <2>1 DEF FewBytes
<1> QED BY <1>1, <1>2, <1>3

\* They, and the count of data units, over any edge.
LEMMA WriteCounts ==
    ASSUME TypeOK, RxClkEdge
    PROVE  /\ sop_logic'[1] <=> ~wr_req /\ (acc_state = "IDLE" \/ sop_logic[1])
           /\ sop_logic'[2] <=> /\ ~wr_req
                                /\ \/ acc_state = "ACCUM" /\ counter = 0
                                   \/ sop_logic[2]
           /\ written \in Nat
           /\ wr_req /\ eop_fifo => written' = 0
           /\ wr_req /\ ~eop_fifo => written' = written + 1
           /\ ~wr_req => written' = written
<1>1. /\ sop_logic = <<sop_logic[1], sop_logic[2]>>
      /\ sop_logic[1] \in BOOLEAN /\ sop_logic[2] \in BOOLEAN
      /\ written \in Nat
  BY FewBytesBits DEF TypeOK
<1>2. SopLogic /\ WrittenEdge
  BY DEF RxClkEdge
<1>3. /\ sop_logic'[1] <=> ~wr_req /\ (acc_state = "IDLE" \/ sop_logic[1])
      /\ sop_logic'[2] <=> /\ ~wr_req
                           /\ \/ acc_state = "ACCUM" /\ counter = 0
                              \/ sop_logic[2]
  <2>1. CASE wr_req
    BY <1>2, <2>1 DEF SopLogic
  <2>2. CASE ~wr_req /\ acc_state = "IDLE"
    BY <1>1, <1>2, <2>2 DEF SopLogic
  <2>3. CASE ~wr_req /\ acc_state # "IDLE" /\ counter = 0 /\ acc_state = "ACCUM"
    BY <1>1, <1>2, <2>3 DEF SopLogic
  <2>4. CASE /\ ~wr_req /\ acc_state # "IDLE"
             /\ ~(counter = 0 /\ acc_state = "ACCUM")
    <3>1. sop_logic' = sop_logic
      BY <1>2, <2>4 DEF SopLogic
    <3> QED BY <1>1, <2>4, <3>1
  <2> QED BY <2>1, <2>2, <2>3, <2>4
<1> QED BY <1>1, <1>2, <1>3 DEF WrittenEdge

\* What is known of the packer while it gathers a frame.
LEMMA Gathering ==
    ASSUME TypeOK, PhyInv, RoomInv, acc_state \in {"ACCUM", "WRITE"}
    PROVE  /\ Given \in Nat \ {0} /\ counter = Given % 8
           /\ sop_logic[1] <=> written = 0
           /\ Given < 8 => ~sop_logic[2]
           /\ Given \in 9 .. 12 => sop_logic[2]
           /\ acc_state = "ACCUM" =>
                 /\ ~wr_req /\ written = Started(Given)
                 /\ sop_logic[1] <=> Given < 13
                 /\ mac_state # "DATA_S" => Given \notin 8 .. 12
           /\ acc_state = "WRITE" =>
                 /\ Given >= 13 /\ ~eop_fifo /\ counter = 5
                 /\ wr_req => written = Started(Given) - 1
                 /\ ~wr_req => written = Started(Given)
<1>1. frame_len \in Nat
  BY GmiiRxAssumption DEF GmiiRxAssumption, TypeOK, MacTypeOK
<1>2. Given >= 1 /\ counter = Given % 8
  BY DEF PhyInv, GatherInv
<1>3. Given \in Nat \ {0}
  BY <1>1, <1>2 DEF Given
<1>4. AccumInv /\ PackerFollowsMac
  BY DEF PhyInv, WriteInv, RoomInv
<1>5. Started(Given) \in Nat /\ (Started(Given) = 0 <=> Given < 13)
  BY <1>3, StartedFacts
<1>6. CASE acc_state = "ACCUM"
  BY <1>2, <1>3, <1>4, <1>5, <1>6 DEF AccumInv
<1>7. CASE acc_state = "WRITE"
  BY <1>2, <1>3, <1>4, <1>5, <1>7 DEF AccumInv, PackerFollowsMac
<1> QED BY <1>6, <1>7

\* After the edge every data unit that was started is counted.
LEMMA Counted ==
    ASSUME TypeOK, PhyInv, RoomInv, RxClkEdge,
           acc_state \in {"ACCUM", "WRITE"}
    PROVE  /\ written' = Started(Given)
           /\ sop_logic'[1] <=> Given < 13
           /\ sop_logic'[1] <=> written' = 0
           /\ Given < 8 => ~sop_logic'[2]
           /\ Given \in 8 .. 12 => sop_logic'[2]
<1>1. Given \in Nat \ {0} /\ counter = Given % 8
  BY Gathering
<1>2. Started(Given) \in Nat /\ (Started(Given) = 0 <=> Given < 13)
  BY <1>1, StartedFacts
<1>3. CASE acc_state = "ACCUM"
  <2>1. ~wr_req /\ written' = written
    BY <1>3, Gathering, WriteCounts
  <2>2. counter = 0 => Given >= 8
    BY <1>1
  <2>3. Given = 8 => counter = 0
    BY <1>1
  <2>4. Given \in 8 .. 12 => Given = 8 \/ Given \in 9 .. 12
    BY <1>1
  <2>5. /\ sop_logic'[1] <=> sop_logic[1]
        /\ sop_logic'[2] <=> (counter = 0 \/ sop_logic[2])
    BY <1>3, <2>1, WriteCounts
  <2> QED BY <1>1, <1>2, <1>3, <2>1, <2>2, <2>3, <2>4, <2>5, Gathering
<1>4. CASE acc_state = "WRITE"
  <2>1. /\ Given >= 13 /\ ~eop_fifo
        /\ wr_req => written = Started(Given) - 1
        /\ ~wr_req => written = Started(Given)
        /\ sop_logic[1] <=> written = 0
    BY <1>4, Gathering
  <2>2. written' = Started(Given)
    BY <1>2, <2>1, WriteCounts
  <2>3. ~sop_logic'[1]
    BY <1>1, <1>2, <1>4, <2>1, WriteCounts
  <2> QED BY <1>1, <1>2, <2>1, <2>2, <2>3
<1> QED BY <1>3, <1>4

\* A frame is not left with its 8th to 12th byte.
LEMMA FrameGoesOn ==
    ASSUME NoFragments, TypeOK, RoomInv, PhyInv, rx_clk_en, RxClkEdge,
           mac_state = "DATA_S", frame_len \in 8 .. 12
    PROVE  mac_state' = "DATA_S"
<1>1. rx_d1.dv /\ ~rx_d2.err
  BY DEF PhyInv, LineInv, InFrame
<1>2. ~wr_almost_full
  BY DEF PhyInv, LevelInv
<1>3. ~too_long
  BY GmiiRxAssumption DEF GmiiRxAssumption, NoFragments, too_long
<1> QED BY <1>1, <1>2, <1>3, EnabledEdge

\* Nothing is written between two frames, and the first data unit that is
\* complete is the first one of its frame.
LEMMA IdleStep ==
    ASSUME TypeOK, RoomInv, PhyInv, rx_clk_en, RxClkEdge
    PROVE  IdleInv'
<1> SUFFICES ASSUME acc_state' = "IDLE"
             PROVE  /\ ~wr_req' /\ written' = 0 /\ ~sop_logic'[2]
                    /\ mac_state' \in {"PREAMBLE_S", "SFD_S", "DATA_S"} =>
                          sop_logic'[1]
                    /\ mac_state' = "DATA_S" => frame_len' = 1
  BY DEF IdleInv
<1>1. /\ acc_state' = AccNext /\ ~wr_req'
      /\ PackerFollowsMac /\ WriteInv
  BY EnabledEdge, WriteRegisters DEF RoomInv, PhyInv
<1>2. CASE acc_state = "IDLE"
  <2>1. mac_state # "DATA_S"
    BY <1>1, <1>2, PackerMoves
  <2>2. ~wr_req /\ written = 0 /\ ~sop_logic[2]
    BY <1>1, <1>2 DEF WriteInv, IdleInv
  <2>3. written' = 0 /\ ~sop_logic'[2] /\ sop_logic'[1]
    BY <1>2, <2>2, WriteCounts
  <2>4. mac_state' = "DATA_S" => frame_len' = 1
    BY <2>1, EnabledEdge
  <2> QED BY <1>1, <2>3, <2>4
<1>3. CASE acc_state # "IDLE"
  <2>1. acc_state \in {"WRITE_EOP", "WRITE_EOP_SW", "DROP_FRAG"}
    BY <1>1, <1>3, PackerMoves
  <2>2. /\ wr_req => eop_fifo
        /\ ~wr_req => written = 0 /\ ~sop_logic[2]
    BY <1>1, <2>1 DEF WriteInv, EndInv
  <2>3. written' = 0 /\ ~sop_logic'[2]
    BY <2>1, <2>2, WriteCounts
  <2>4. mac_state \notin {"IDLE_S", "PREAMBLE_S", "SFD_S", "DATA_S"}
    BY <1>1, <2>1 DEF PackerFollowsMac
  <2>5. mac_state' \notin {"PREAMBLE_S", "SFD_S", "DATA_S"}
    BY <2>4, EnabledEdge
  <2> QED BY <1>1, <2>3, <2>5
<1> QED BY <1>2, <1>3

\* The 13th byte, and every eighth after it, begins a write.
LEMMA WriteBegins ==
    ASSUME TypeOK, RoomInv, PhyInv, acc_state \in {"ACCUM", "WRITE"},
           mac_state = "DATA_S"
    PROVE  AccNext = "WRITE" <=> Given >= 12 /\ Given % 8 = 4
<1>1. /\ Given \in Nat \ {0} /\ counter = Given % 8
      /\ sop_logic[1] <=> written = 0
      /\ Given < 8 => ~sop_logic[2]
      /\ Given \in 9 .. 12 => sop_logic[2]
      /\ acc_state = "ACCUM" => (sop_logic[1] <=> Given < 13)
      /\ acc_state = "WRITE" => counter = 5
  BY Gathering
<1>2. AccNext = "WRITE" <=> acc_state = "ACCUM" /\ counter = 4 /\ ~FewBytes
  BY PackerMoves DEF fifo_data_en
<1>3. FewBytes <=> sop_logic[1] /\ ~sop_logic[2]
  BY FewBytesBits
<1>4. ASSUME counter = 4, acc_state = "ACCUM" PROVE ~FewBytes <=> Given >= 12
  <2>1. CASE Given >= 12
    <3>1. Given < 13 => Given \in 9 .. 12
      BY <1>1, <2>1
    <3> QED BY <1>1, <1>3, <1>4, <2>1, <3>1
  <2>2. CASE ~(Given >= 12)
    <3>1. Given = 4
      BY <1>1, <1>4, <2>2
    <3> QED BY <1>1, <1>3, <1>4, <2>2, <3>1
  <2> QED BY <2>1, <2>2
<1> QED BY <1>1, <1>2, <1>4

\* One byte more: a data unit is written four bytes after it is complete.
LEMMA AccumByte ==
    ASSUME NoFragments, TypeOK, RoomInv, PhyInv, rx_clk_en, RxClkEdge,
           mac_state = "DATA_S"
    PROVE  AccumInv'
<1>1. /\ acc_state' = AccNext /\ acc_state' \in {"ACCUM", "WRITE"}
      /\ acc_state \in {"IDLE", "ACCUM", "WRITE"}
      /\ Given' = Given + 1 /\ Given \in Nat
      /\ Given + 1 = frame_len
  BY EnabledEdge, GatherByte, PackerMoves, ByteStored
<1>2. /\ wr_req' <=> acc_state' = "WRITE"
      /\ sop_fifo' <=> acc_state' = "WRITE" /\ sop_logic[1]
      /\ ~eop_fifo'
  BY <1>1, WriteRegisters
<1>3. mac_state' # "DATA_S" => Given' \notin 8 .. 12
  BY <1>1, FrameGoesOn
<1>4. CASE acc_state = "IDLE"
  <2>1. acc_state' = "ACCUM" /\ Given = 0 /\ ~wr_req'
    BY <1>1, <1>2, <1>4, PackerMoves, ByteStored
  <2>2. ~wr_req /\ written = 0 /\ ~sop_logic[2]
    BY <1>4 DEF PhyInv, WriteInv, IdleInv
  <2>3. written' = 0 /\ ~sop_logic'[2] /\ sop_logic'[1]
    BY <1>4, <2>2, WriteCounts
  <2>4. Given' = 1 /\ Started(Given') = 0
    BY <1>1, <2>1 DEF Started
  <2> QED BY <1>3, <2>1, <2>3, <2>4 DEF AccumInv
<1>5. CASE acc_state # "IDLE"
  <2> DEFINE g == Given
  <2>1. /\ written' = Started(g)
        /\ sop_logic'[1] <=> written' = 0
        /\ g < 8 => ~sop_logic'[2]
        /\ g \in 8 .. 12 => sop_logic'[2]
    BY <1>1, <1>5, Counted
  <2>2. acc_state' = "WRITE" <=> g >= 12 /\ g % 8 = 4
    BY <1>1, <1>5, WriteBegins
  <2>3. /\ Started(g) \in Nat
        /\ Started(g + 1) = Started(g) + (IF g >= 12 /\ g % 8 = 4
                                          THEN 1 ELSE 0)
    BY <1>1, StartedFacts
  <2>4. ASSUME acc_state' = "WRITE"
        PROVE  /\ acc_state = "ACCUM" /\ ~wr_req /\ written' = written
               /\ sop_logic[1] <=> written = 0
    <3>1. acc_state = "ACCUM"
      BY <1>1, <2>4, PackerMoves
    <3>2. ~wr_req /\ (sop_logic[1] <=> written = 0)
      BY <3>1, Gathering
    <3> QED BY <3>1, <3>2, WriteCounts
  <2> HIDE DEF g
  <2>5. Given' = g + 1 /\ g \in Nat
    BY <1>1 DEF g
  <2>6. /\ Given' < 8 => ~sop_logic'[2]
        /\ Given' \in 9 .. 12 => sop_logic'[2]
    <3>1. /\ g + 1 < 8 => g < 8
          /\ g + 1 \in 9 .. 12 => g \in 8 .. 12
      BY <2>5
    <3> QED BY <2>1, <2>5, <3>1
  <2>7. CASE acc_state' = "WRITE"
    <3>1. Given' >= 13 /\ Started(Given') = Started(g) + 1
      BY <2>2, <2>3, <2>5, <2>7
    <3>2. written' = Started(Given') - 1
      BY <2>1, <2>3, <3>1
    <3> QED BY <1>2, <1>3, <2>1, <2>4, <2>6, <2>7, <3>1, <3>2 DEF AccumInv
  <2>8. CASE acc_state' # "WRITE"
    <3>1. acc_state' = "ACCUM" /\ Started(Given') = Started(g)
      BY <1>1, <2>2, <2>3, <2>5, <2>8
    <3>2. ~wr_req' /\ written' = Started(Given') - 0
      BY <1>2, <2>1, <2>3, <2>8, <3>1
    <3> QED BY <1>3, <2>1, <2>6, <3>1, <3>2 DEF AccumInv
  <2> QED BY <2>7, <2>8
<1> QED BY <1>4, <1>5

\* Behind the last byte, until the MAC says how the frame ended.
LEMMA AccumEnd ==
    ASSUME NoFragments, TypeOK, RoomInv, PhyInv, rx_clk_en, RxClkEdge,
           mac_state # "DATA_S"
    PROVE  AccumInv'
<1>1. acc_state' = AccNext /\ acc_state' # "WRITE"
  BY EnabledEdge, PackerMoves
<1> SUFFICES ASSUME acc_state' = "ACCUM" PROVE AccumInv'
  BY <1>1 DEF AccumInv
<1>2. /\ acc_state \in {"ACCUM", "WRITE"}
      /\ Given' = Given /\ Given \in Nat \ {0}
  BY GatherEnd
<1>3. ~wr_req'
  BY WriteRegisters
<1>4. /\ written' = Started(Given)
      /\ sop_logic'[1] <=> written' = 0
      /\ Given < 8 => ~sop_logic'[2]
      /\ Given \in 8 .. 12 => sop_logic'[2]
  BY <1>2, Counted
<1>5. Given \notin 8 .. 12
  BY <1>2, Gathering
<1>6. Started(Given) \in Nat
  BY <1>2, StartedFacts
<1>7. written' = Started(Given') - 0 /\ (Given \in 9 .. 12 => Given \in 8 .. 12)
  BY <1>2, <1>4, <1>6
<1> QED BY <1>2, <1>3, <1>4, <1>5, <1>7 DEF AccumInv

\* The last data unit is written four bytes short of the end, a fragment not
\* at all.
LEMMA EndStep ==
    ASSUME NoFragments, TypeOK, RoomInv, PhyInv, rx_clk_en, RxClkEdge
    PROVE  EndInv'
<1> SUFFICES ASSUME acc_state' \in {"WRITE_EOP", "WRITE_EOP_SW", "DROP_FRAG"}
             PROVE  EndInv'
  BY DEF EndInv
<1>1. acc_state' = AccNext /\ mac_state # "DATA_S"
  BY EnabledEdge, PackerMoves, GatherByte
<1>2. /\ acc_state \in {"ACCUM", "WRITE"}
      /\ Given' = Given /\ Given \in Nat \ {0}
      /\ counter' = counter /\ counter = Given % 8
  BY <1>1, GatherEnd
<1>3. /\ written' = Started(Given)
      /\ sop_logic'[1] <=> Given < 13
      /\ Given < 8 => ~sop_logic'[2]
  BY <1>2, Counted
<1>4. CASE acc_state' \in {"WRITE_EOP", "WRITE_EOP_SW"}
  <2>1. /\ wr_req' /\ ~sop_fifo' /\ eop_fifo'
        /\ mod_fifo' = (counter + 4) % 8
    BY <1>4, WriteRegisters
  <2>2. Given >= 13
    <3>1. acc_state = "ACCUM" => ~sop_logic[1]
      BY <1>1, <1>4, PackerMoves
    <3> QED BY <1>2, <3>1, Gathering
  <2>3. acc_state' = "WRITE_EOP" <=> counter' < 5
    BY <1>1, <1>2, <1>4, PackerMoves, Gathering
  <2>4. mod_fifo' = (counter' + 4) % 8
    BY <1>2, <2>1
  <2> QED BY <1>2, <1>3, <1>4, <2>1, <2>2, <2>3, <2>4 DEF EndInv
<1>5. CASE acc_state' = "DROP_FRAG"
  <2>1. acc_state = "ACCUM" /\ sop_logic[1]
    BY <1>1, <1>5, PackerMoves
  <2>2. /\ ~wr_req /\ written = Started(Given) /\ Given < 13
        /\ Given \notin 8 .. 12
    BY <1>1, <2>1, Gathering
  <2>3. Given < 8
    BY <1>2, <2>2
  <2>4. written' = 0
    BY <1>2, <1>3, <2>2, StartedFacts
  <2>5. ~wr_req'
    BY <1>5, WriteRegisters
  <2> QED BY <1>3, <1>5, <2>3, <2>4, <2>5 DEF EndInv
<1> QED BY <1>4, <1>5

LEMMA WriteStep ==
    ASSUME NoFragments, TypeOK, RoomInv, PhyInv, rx_clk_en, RxClkEdge
    PROVE  WriteInv'
BY IdleStep, AccumByte, AccumEnd, EndStep DEF WriteInv

-----------------------------------------------------------------------------
(* The level of the FIFO at the start of a frame. *)

\* Where nothing is written almost_full catches up with the level.
LEMMA LevelSettles ==
    ASSUME TypeOK, RxClkEdge, ~wr_req
    PROVE  /\ ALMOST_FULL_WORDS \in Int /\ wrusedw \in Nat /\ wrusedw' \in Nat
           /\ ALMOST_FULL_WORDS' = ALMOST_FULL_WORDS
           /\ wrusedw' <= wrusedw
           /\ wr_almost_full' <=> wrusedw > ALMOST_FULL_WORDS
<1>1. ALMOST_FULL_WORDS \in Int /\ ALMOST_FULL_WORDS' = ALMOST_FULL_WORDS
  BY GmiiRxAssumption DEF GmiiRxAssumption, ALMOST_FULL_WORDS
<1>2. WriteFifo(Note) /\ AlmostFull
  BY DEF RxClkEdge
<1> QED BY <1>1, <1>2, LevelRises DEF AlmostFull

\* No data unit is being written before 13 bytes are there.
LEMMA NothingWrittenYet ==
    ASSUME TypeOK, RoomInv, PhyInv,
           \/ mac_state \in {"IDLE_S", "PREAMBLE_S", "SFD_S"}
           \/ mac_state = "DATA_S" /\ frame_len \in 1 .. 13
    PROVE  ~wr_req
<1>1. acc_state \in {"IDLE", "ACCUM", "WRITE"}
  BY DEF RoomInv, PackerFollowsMac
<1>2. CASE acc_state = "IDLE"
  BY <1>2 DEF PhyInv, WriteInv, IdleInv
<1>3. CASE acc_state = "ACCUM"
  BY <1>3, Gathering
<1>4. CASE acc_state = "WRITE"
  <2>1. mac_state = "DATA_S"
    BY <1>4 DEF RoomInv, PackerFollowsMac
  <2>2. Given + 1 = frame_len /\ Given >= 13
    BY <1>4, <2>1, ByteStored, Gathering
  <2> QED BY <2>1, <2>2, ByteStored
<1> QED BY <1>1, <1>2, <1>3, <1>4

LEMMA LevelStep ==
    ASSUME TypeOK, RoomInv, PhyInv, rx_clk_en, RxClkEdge
    PROVE  LevelInv'
<1> DEFINE AF == ALMOST_FULL_WORDS
<1>1. /\ frame_len \in Nat /\ LevelInv
      /\ frame_len' = IF mac_state = "SFD_S" THEN 1
                      ELSE IF mac_state = "DATA_S" THEN frame_len + 1
                      ELSE frame_len
  BY EnabledEdge, GmiiRxAssumption
     DEF GmiiRxAssumption, TypeOK, MacTypeOK, PhyInv
<1>2. mac_state = "DATA_S" => frame_len >= 1
  BY DEF PhyInv, LineInv, InFrame
<1>3. ASSUME \/ mac_state' \in {"PREAMBLE_S", "SFD_S"}
             \/ mac_state' = "DATA_S" /\ frame_len' = 1
      PROVE  wrusedw' > AF' => wr_almost_full'
  <2>1. mac_state \in {"IDLE_S", "PREAMBLE_S", "SFD_S"}
    <3>1. mac_state = "DATA_S" => frame_len' # 1
      BY <1>1, <1>2
    <3> QED BY <1>3, <3>1, EnabledEdge
  <2>2. ~wr_req
    BY <2>1, NothingWrittenYet
  <2> QED BY <2>2, LevelSettles
<1>4. ASSUME mac_state' = "DATA_S", frame_len' \in 2 .. 13
      PROVE  wrusedw' <= AF' /\ ~wr_almost_full'
  <2>1. /\ mac_state = "DATA_S" /\ ~wr_almost_full /\ frame_len \in 1 .. 12
    <3>1. mac_state # "SFD_S"
      BY <1>1, <1>4
    <3>2. mac_state = "DATA_S" /\ ~wr_almost_full
      BY <1>4, <3>1, EnabledEdge
    <3> QED BY <1>1, <1>4, <3>2
  <2>2. ~wr_req
    BY <2>1, NothingWrittenYet
  <2>3. /\ AF \in Int /\ wrusedw \in Nat /\ wrusedw' \in Nat /\ AF' = AF
        /\ wrusedw' <= wrusedw /\ (wr_almost_full' <=> wrusedw > AF)
    BY <2>2, LevelSettles
  <2>4. wrusedw <= AF
    <3>1. CASE frame_len = 1
      BY <1>1, <2>1, <2>3, <3>1 DEF LevelInv
    <3>2. CASE frame_len # 1
      BY <1>1, <2>1, <3>2 DEF LevelInv
    <3> QED BY <3>1, <3>2
  <2> HIDE DEF AF
  <2> QED BY <2>3, <2>4
<1> QED BY <1>3, <1>4 DEF LevelInv

-----------------------------------------------------------------------------
(* The other steps of the PHY's side. *)

\* An edge that is not enabled ends a write and moves nothing else.
LEMMA PhyHeldEdge ==
    ASSUME NoFragments, TypeOK, RoomInv, PhyInv, ~rx_clk_en, RxClkEdge
    PROVE  PhyInv'
<1>1. /\ UNCHANGED <<macVars, accVars, wire>> /\ ~wr_req'
      /\ Frame' = Frame /\ Given' = Given
  BY DEF RxClkEdge, WrReq, macVars, Frame, Given
<1>2. LineInv'
  BY <1>1 DEF PhyInv, LineInv, WireSends, Follows, InFrame, SameFrame, Taking,
              macVars, accVars
<1>3. GatherInv'
  BY <1>1 DEF PhyInv, GatherInv, macVars, accVars
<1>4. IdleInv'
  <2>1. SUFFICES ASSUME acc_state = "IDLE"
                 PROVE  /\ written' = 0 /\ ~sop_logic'[2] /\ sop_logic'[1]
                        /\ mac_state = "DATA_S" => frame_len = 1
    BY <1>1 DEF IdleInv, macVars, accVars
  <2>2. /\ ~wr_req /\ written = 0 /\ ~sop_logic[2]
        /\ mac_state = "DATA_S" => frame_len = 1
    BY <2>1 DEF PhyInv, WriteInv, IdleInv
  <2> QED BY <2>1, <2>2, WriteCounts
<1>5. AccumInv'
  <2>1. SUFFICES ASSUME acc_state \in {"ACCUM", "WRITE"} PROVE AccumInv'
    BY <1>1 DEF AccumInv, accVars
  <2>2. /\ Given \in Nat
        /\ acc_state = "WRITE" => Given >= 13 /\ ~eop_fifo
        /\ acc_state = "ACCUM" /\ mac_state # "DATA_S" => Given \notin 8 .. 12
    BY <2>1, Gathering
  <2>3. /\ written' = Started(Given)
        /\ sop_logic'[1] <=> written' = 0
        /\ Given < 8 => ~sop_logic'[2]
        /\ Given \in 8 .. 12 => sop_logic'[2]
    BY <2>1, Counted
  <2>4. /\ Started(Given) - 0 = Started(Given)
        /\ Given \in 9 .. 12 => Given \in 8 .. 12
    BY <2>2, StartedFacts
  <2>5. UNCHANGED <<acc_state, mac_state, eop_fifo>>
    BY <1>1 DEF macVars, accVars
  <2> QED BY <1>1, <2>1, <2>2, <2>3, <2>4, <2>5 DEF AccumInv
<1>6. EndInv'
  <2>1. UNCHANGED <<acc_state, counter, eop_fifo, sop_fifo, mod_fifo>>
    BY <1>1 DEF accVars
  <2>2. CASE acc_state \in {"WRITE_EOP", "WRITE_EOP_SW", "DROP_FRAG"}
    <3>1. /\ wr_req => eop_fifo
          /\ ~wr_req => written = 0 /\ ~sop_logic[2]
      BY <2>2 DEF PhyInv, WriteInv, EndInv
    <3>2. written' = 0 /\ ~sop_logic'[2]
      BY <2>2, <3>1, WriteCounts
    <3> QED BY <1>1, <2>1, <2>2, <3>2 DEF PhyInv, WriteInv, EndInv
  <2>3. CASE acc_state \notin {"WRITE_EOP", "WRITE_EOP_SW", "DROP_FRAG"}
    BY <2>1, <2>3 DEF EndInv
  <2> QED BY <2>2, <2>3
<1>7. LevelInv'
  <2>1. UNCHANGED <<mac_state, frame_len>>
    BY <1>1 DEF macVars
  <2> SUFFICES ASSUME \/ mac_state \in {"PREAMBLE_S", "SFD_S"}
                      \/ mac_state = "DATA_S" /\ frame_len \in 1 .. 13
               PROVE  LevelInv'
    BY <2>1 DEF LevelInv
  <2> DEFINE AF == ALMOST_FULL_WORDS
  <2>2. ~wr_req
    BY NothingWrittenYet
  <2>3. /\ AF \in Int /\ wrusedw \in Nat /\ wrusedw' \in Nat /\ AF' = AF
        /\ wrusedw' <= wrusedw /\ (wr_almost_full' <=> wrusedw > AF)
    BY <2>2, LevelSettles
  <2>4. /\ wrusedw' > AF => wr_almost_full'
        /\ wrusedw <= AF => wrusedw' <= AF /\ ~wr_almost_full'
    <3> HIDE DEF AF
    <3> QED BY <2>3
  <2> QED BY <2>1, <2>3, <2>4 DEF PhyInv, LevelInv
<1> QED BY <1>2, <1>3, <1>4, <1>5, <1>6, <1>7 DEF PhyInv, WriteInv

LEMMA PhyRxClkEdge ==
    ASSUME NoFragments, TypeOK, RoomInv, PhyInv, RxClkEdge
    PROVE  PhyInv'
<1>1. CASE rx_clk_en
  <2>1. GatherInv'
    BY <1>1, GatherByte, GatherEnd
  <2> QED BY <1>1, <2>1, LineStep, WriteStep, LevelStep DEF PhyInv
<1>2. CASE ~rx_clk_en
  BY <1>2, PhyHeldEdge
<1> QED BY <1>1, <1>2

\* A reset forgets the frame; the link partner goes on in the middle of it.
LEMMA PhyReset ==
    ASSUME NoFragments, TypeOK, PhyInv, Reset
    PROVE  PhyInv'
<1>1. /\ mac_state' = "IDLE_S" /\ acc_state' = "IDLE" /\ rx_d1' = QuietLine
      /\ ~wr_req' /\ sop_logic' = <<FALSE, FALSE>> /\ written' = 0
      /\ wire' = wire
  BY DEF Reset, MacClear, AccClear
<1>2. LineInv'
  BY <1>1 DEF PhyInv, LineInv, WireSends, Follows, InFrame, SameFrame, Taking,
              QuietLine
<1>3. ~sop_logic'[2]
  BY <1>1
<1> QED BY <1>1, <1>2, <1>3
        DEF PhyInv, GatherInv, WriteInv, IdleInv, AccumInv, EndInv, LevelInv

\* The PHY's side does not see the other clock.
LEMMA PhyStandsStill ==
    ASSUME PhyInv,
           UNCHANGED <<macVars, accVars, wr_req, sop_logic, wrusedw,
                       wr_almost_full, wire, written>>
    PROVE  PhyInv'
<1>1. Frame' = Frame /\ Given' = Given
      /\ ALMOST_FULL_WORDS' = ALMOST_FULL_WORDS
  BY DEF macVars, Frame, Given, ALMOST_FULL_WORDS
<1>2. LineInv'
  BY <1>1 DEF PhyInv, LineInv, WireSends, Follows, InFrame, SameFrame, Taking,
              macVars, accVars
<1>3. GatherInv'
  BY <1>1 DEF PhyInv, GatherInv, macVars, accVars
<1>4. WriteInv'
  BY <1>1 DEF PhyInv, WriteInv, IdleInv, AccumInv, EndInv, macVars, accVars
<1>5. LevelInv'
  BY <1>1 DEF PhyInv, LevelInv, macVars
<1> QED BY <1>2, <1>3, <1>4, <1>5 DEF PhyInv

LEMMA PhyInit ==
    ASSUME Init
    PROVE  PhyInv
<1>1. /\ mac_state = "IDLE_S" /\ acc_state = "IDLE" /\ rx_d1 = QuietLine
      /\ ~wr_req /\ sop_logic = <<FALSE, FALSE>> /\ written = 0
      /\ wire = Gap(0)
  BY DEF Init, MacReset, AccReset
<1>2. LineInv
  BY <1>1 DEF LineInv, WireSends, Follows, InFrame, SameFrame, Taking,
              QuietLine, Gap
<1>3. ~sop_logic[2]
  BY <1>1
<1> QED BY <1>1, <1>2, <1>3
        DEF PhyInv, GatherInv, WriteInv, IdleInv, AccumInv, EndInv, LevelInv

-----------------------------------------------------------------------------
(* What was sent. *)

\* The frame ends on the wire with the last of its bytes.
LEMMA WireEnds ==
    ASSUME TypeOK, LineInv, wire' \in WireMoves, wire.phase = "data"
    PROVE  \/ wire'.phase = "data" /\ wire'.len = wire.len
           \/ wire'.phase = "gap" /\ wire.i = wire.len
<1>1. wire \in Wire /\ wire.i \in 1 .. wire.len /\ wire.len \in Int
  BY DEF TypeOK, LineInv, WireSends, Wire
<1>2. CASE wire.i < wire.len
  <2>1. wire' = [wire EXCEPT !.phase = "data", !.i = wire.i + 1]
    BY <1>2 DEF WireMoves, Onward
  <2> QED BY <1>1, <2>1 DEF Wire
<1>3. CASE ~(wire.i < wire.len)
  <2>1. wire' \in FrameOver
    BY <1>3 DEF WireMoves
  <2> QED BY <1>1, <1>3, <2>1 DEF FrameOver, Gap
<1> QED BY <1>2, <1>3

\* While the MAC takes a frame: the byte it takes now is the one before the one
\* on the wire.
LEMMA SentWhileTaking ==
    ASSUME NoFragments, TypeOK, RoomInv, PhyInv, SentInv, rx_clk_en, RxClkEdge,
           mac_state' = "DATA_S"
    PROVE  /\ rx_d1'.dv /\ wire'.phase = "data" => sent' = wire'.len
           /\ rx_d1'.dv /\ wire'.phase = "gap" => sent' = frame_len' + 1
           /\ ~rx_d1'.dv => sent' = frame_len'
<1>1. /\ rx_d1' = LineNow /\ wire' \in WireMoves /\ LineInv
      /\ rx_d1'.dv <=> wire.phase # "gap"
  BY EnabledEdge, LineShows DEF PhyInv
<1>2. /\ mac_state \in {"SFD_S", "DATA_S"}
      /\ frame_len' = IF mac_state = "SFD_S" THEN 1 ELSE frame_len + 1
  BY EnabledEdge
<1>3. sent' = IF mac_state = "SFD_S"
              THEN IF wire.phase = "data" THEN wire.len ELSE 1
              ELSE sent
  BY <1>2 DEF RxClkEdge, SentEdge
<1>4. /\ rx_d1.dv /\ rx_d1.d.n = frame_len' /\ frame_len' \in Nat \ {0}
  BY NextByte
<1>5. \/ wire.phase = "data" /\ wire.i = frame_len' + 1
      \/ wire.phase = "gap"
  BY <1>1, <1>4 DEF LineInv, Follows
<1>6. CASE wire.phase = "data"
  <2>1. sent' = wire.len
    BY <1>2, <1>3, <1>4, <1>6 DEF SentInv
  <2> QED BY <1>1, <1>5, <1>6, <2>1, WireEnds
<1>7. CASE wire.phase = "gap"
  <2>1. sent' = frame_len'
    BY <1>2, <1>3, <1>4, <1>7 DEF SentInv
  <2> QED BY <1>1, <1>7, <2>1
<1> QED BY <1>5, <1>6, <1>7

\* An edge of the PHY's clock.
LEMMA SentRxClkEdge ==
    ASSUME NoFragments, TypeOK, RoomInv, PhyInv, SentInv, RxClkEdge
    PROVE  SentInv'
<1>1. CASE rx_clk_en
  <2>1. PICK crc_err \in BOOLEAN :
           /\ MacEdge(LineNow, wr_almost_full, crc_err)
           /\ VerdictEdge(crc_err) /\ SentEdge
    BY <1>1 DEF RxClkEdge
  <2>2. /\ mac_state' = MacNext(wr_almost_full, crc_err)
        /\ mac_state \in {"IDLE_S", "PREAMBLE_S", "SFD_S", "DATA_S",
                           "CHECK_CRC_S", "OK_END_S", "DROP_S", "ERR_END_S",
                           "CRC_ERR_END_S", "FIFO_FULL_DROP_S",
                           "FIFO_FULL_ERR_END_S", "IFG_S"}
        /\ frame_len \in Int
    BY <2>1, GmiiRxAssumption
       DEF MacEdge, TypeOK, MacTypeOK, GmiiRxAssumption
  <2>3. mac_state' \in {"OK_END_S", "CRC_ERR_END_S"} => mac_state = "CHECK_CRC_S"
    BY <2>2 DEF MacNext
  <2>4. ASSUME mac_state' \in {"CHECK_CRC_S", "OK_END_S", "CRC_ERR_END_S"}
        PROVE  sent' = Given'
    <3>1. CASE mac_state = "DATA_S"
      <4>1. ~rx_d1.dv
        BY <1>1, <2>3, <2>4, <3>1, EnabledEdge
      <4>2. sent' = sent /\ frame_len' = frame_len + 1
        BY <1>1, <2>1, <3>1, EnabledEdge DEF SentEdge
      <4> QED BY <2>2, <3>1, <4>1, <4>2 DEF SentInv, Given
    <3>2. CASE mac_state = "CHECK_CRC_S"
      <4>1. sent' = sent /\ frame_len' = frame_len
        BY <1>1, <2>1, <3>2, EnabledEdge DEF SentEdge
      <4> QED BY <3>2, <4>1 DEF SentInv, Given
    <3> QED BY <1>1, <2>3, <2>4, <3>1, <3>2, EnabledEdge
  <2>5. ASSUME acc_state' \in {"WRITE_EOP", "WRITE_EOP_SW"}
        PROVE  verdict' = "cut" \/ sent' = Given'
    <3>1. fifo_data_end
      BY <1>1, <2>5, EnabledEdge, PackerMoves
    <3>2. CASE mac_state \in {"OK_END_S", "CRC_ERR_END_S"}
      <4>1. sent' = sent /\ frame_len' = frame_len
        BY <1>1, <2>1, <3>2, EnabledEdge DEF SentEdge
      <4> QED BY <3>2, <4>1 DEF SentInv, Given
    <3>3. CASE mac_state \in {"ERR_END_S", "FIFO_FULL_ERR_END_S"}
      BY <2>1, <3>3 DEF VerdictEdge
    <3> QED BY <3>1, <3>2, <3>3 DEF fifo_data_end
  <2> QED BY <1>1, <2>4, <2>5, SentWhileTaking DEF SentInv
<1>2. CASE ~rx_clk_en
  <2>1. UNCHANGED <<macVars, accVars, wire, verdict, sent>>
    BY <1>2 DEF RxClkEdge
  <2> QED BY <2>1 DEF SentInv, Given, macVars, accVars
<1> QED BY <1>1, <1>2

LEMMA SentReset ==
    ASSUME Reset
    PROVE  SentInv'
BY DEF Reset, MacClear, AccClear, SentInv

LEMMA SentStandsStill ==
    ASSUME SentInv, UNCHANGED <<macVars, accVars, wire, verdict, sent>>
    PROVE  SentInv'
BY DEF SentInv, Given, macVars, accVars

LEMMA SentStart ==
    ASSUME Init
    PROVE  SentInv
BY DEF Init, MacReset, AccReset, SentInv

-----------------------------------------------------------------------------
(* What is written to the FIFO. *)

\* Bytes of the data unit that count.
Valid(eop, mod) == IF eop /\ mod # 0 THEN mod ELSE 8

\* The data unit that is being written, in each of the three states that write.
LEMMA WordWritten ==
    ASSUME TypeOK, RoomInv, PhyInv, wr_req
    PROVE  /\ sop_fifo <=> written = 0
           /\ sop_fifo => ~eop_fifo
           /\ \A k \in 0 .. Valid(eop_fifo, mod_fifo) - 1 :
                 data_to_write[k] = ByteAt(Frame, 8 * written + k + 1)
           /\ eop_fifo => 8 * written + Valid(eop_fifo, mod_fifo) = Given - 4
           /\ mod_fifo \in 0 .. 7
<1> DEFINE g == Given
           q == Given \div 8
<1>1. /\ acc_state \in {"WRITE", "WRITE_EOP", "WRITE_EOP_SW"}
      /\ mod_fifo \in 0 .. 7 /\ frame_len \in Nat
  BY GmiiRxAssumption
     DEF GmiiRxAssumption, TypeOK, MacTypeOK, AccTypeOK, RoomInv,
         PackerFollowsMac
<1>2. /\ g >= 13 /\ counter = g % 8
      /\ \A k \in 0 .. 7 : pkt_fifo_tmp_data[k] =
                               ByteAt(Frame, 8 * (q - 1) + k + 1)
      /\ \A k \in 0 .. 7 : k < counter =>
                               pkt_fifo_data[k] = ByteAt(Frame, 8 * q + k + 1)
  <2>1. g >= 13
    BY <1>1 DEF PhyInv, WriteInv, AccumInv, EndInv
  <2>2. g >= 8
    BY <1>1, <2>1 DEF Given
  <2> QED BY <1>1, <2>1, <2>2 DEF PhyInv, GatherInv
<1>3. g \in Nat
  BY <1>1, <1>2 DEF Given
<1>4. /\ q \in Nat /\ counter \in 0 .. 7 /\ g = 8 * q + counter
      /\ counter >= 5 => Started(g) = q
      /\ counter < 5 => Started(g) = q - 1
  BY <1>2, <1>3, ByteCount, StartedFacts
<1>5. g >= 13 => Started(g) \in Nat \ {0}
  BY <1>3, StartedFacts
<1>6. CASE acc_state = "WRITE"
  <2>1. counter = 5 /\ ~eop_fifo /\ written = Started(g) - 1
    BY <1>6, Gathering
  <2>2. sop_fifo <=> written = 0
    BY <1>6 DEF PhyInv, WriteInv, AccumInv
  <2>3. data_to_write = pkt_fifo_tmp_data
    BY <1>6 DEF data_to_write
  <2>4. written = q - 1 /\ Valid(eop_fifo, mod_fifo) = 8
    BY <1>4, <2>1 DEF Valid
  <2> HIDE DEF g, q
  <2>5. ASSUME NEW k \in 0 .. Valid(eop_fifo, mod_fifo) - 1
        PROVE  data_to_write[k] = ByteAt(Frame, 8 * written + k + 1)
    <3>1. k \in 0 .. 7
      BY <2>4, <2>5
    <3> QED BY <1>2, <2>3, <2>4, <3>1
  <2> QED BY <1>1, <2>1, <2>2, <2>5
<1>7. CASE acc_state \in {"WRITE_EOP", "WRITE_EOP_SW"}
  <2>1. /\ acc_state = "WRITE_EOP" <=> counter < 5
        /\ eop_fifo /\ ~sop_fifo /\ mod_fifo = (counter + 4) % 8
        /\ written = Started(g)
    BY <1>7 DEF PhyInv, WriteInv, EndInv
  <2>2. written # 0
    BY <1>2, <1>5, <2>1
  <2>3. CASE counter < 5
    <3>1. /\ data_to_write = pkt_fifo_tmp_data /\ written = q - 1
          /\ Valid(eop_fifo, mod_fifo) = counter + 4
      <4>1. acc_state # "WRITE_EOP_SW"
        BY <1>7, <2>1, <2>3
      <4>2. mod_fifo = IF counter = 4 THEN 0 ELSE counter + 4
        BY <1>4, <2>1, <2>3
      <4>3. Valid(eop_fifo, mod_fifo) = counter + 4
        BY <1>4, <2>1, <2>3, <4>2 DEF Valid
      <4> QED BY <1>4, <2>1, <2>3, <4>1, <4>3 DEF data_to_write
    <3> HIDE DEF g, q
    <3>2. ASSUME NEW k \in 0 .. Valid(eop_fifo, mod_fifo) - 1
          PROVE  data_to_write[k] = ByteAt(Frame, 8 * written + k + 1)
      <4>1. k \in 0 .. 7
        BY <1>4, <2>3, <3>1, <3>2
      <4> QED BY <1>2, <3>1, <4>1
    <3>3. 8 * written + Valid(eop_fifo, mod_fifo) = g - 4
      BY <1>4, <3>1
    <3> QED BY <1>1, <2>1, <2>2, <3>2, <3>3 DEF g
  <2>4. CASE ~(counter < 5)
    <3>1. /\ data_to_write = pkt_fifo_data /\ written = q
          /\ Valid(eop_fifo, mod_fifo) = counter - 4
      <4>1. acc_state = "WRITE_EOP_SW"
        BY <1>7, <2>1, <2>4
      <4>2. mod_fifo = counter - 4
        BY <1>4, <2>1, <2>4
      <4>3. Valid(eop_fifo, mod_fifo) = counter - 4
        BY <1>4, <2>1, <2>4, <4>2 DEF Valid
      <4>4. written = q
        BY <1>4, <2>1, <2>4
      <4>5. data_to_write = pkt_fifo_data
        BY <4>1 DEF data_to_write
      <4> QED BY <4>3, <4>4, <4>5
    <3> HIDE DEF g, q
    <3>2. ASSUME NEW k \in 0 .. Valid(eop_fifo, mod_fifo) - 1
          PROVE  data_to_write[k] = ByteAt(Frame, 8 * written + k + 1)
      <4>1. k \in 0 .. 7 /\ k < counter
        BY <1>4, <2>4, <3>1, <3>2
      <4> QED BY <1>2, <3>1, <4>1
    <3>3. 8 * written + Valid(eop_fifo, mod_fifo) = g - 4
      BY <1>4, <3>1
    <3> QED BY <1>1, <2>1, <2>2, <3>2, <3>3 DEF g
  <2> QED BY <2>3, <2>4
<1> QED BY <1>1, <1>6, <1>7

\* Every byte that is written is in its place.
LEMMA WordsInPlace ==
    ASSUME TypeOK, RoomInv, PhyInv
    PROVE  WordIsOfFrame
BY WordWritten DEF WordIsOfFrame, Valid, ByteAt, Frame

\* A data unit in the FIFO says of itself where it is in the frame.
LEMMA WordIsOK ==
    ASSUME NoFragments, TypeOK, RoomInv, PhyInv, SentInv, wr_req
    PROVE  /\ WordOK(FifoWord(Note)) /\ FifoWord(Note) \in Words
           /\ FifoWord(Note).note.frame = Frame
           /\ FifoWord(Note).note.at = written
           /\ FifoWord(Note).eop = eop_fifo
<1>1. Note \in Notes
  BY NoteType
<1>2. FifoWord(Note) \in Words
  BY <1>1 DEF FifoWord, Words, TypeOK, AccTypeOK, MacTypeOK
<1>3. /\ FifoWord(Note).note.frame = Frame
      /\ FifoWord(Note).note.at = written
      /\ FifoWord(Note).eop = eop_fifo /\ FifoWord(Note).sop = sop_fifo
      /\ FifoWord(Note).mod = mod_fifo
      /\ eop_fifo => FifoWord(Note).note.len = Given
      /\ FifoWord(Note).note.whole =
            (eop_fifo /\ verdict # "cut" => Given = sent)
  BY DEF FifoWord, Note, Frame
<1>4. /\ sop_fifo <=> written = 0
      /\ sop_fifo => ~eop_fifo
      /\ eop_fifo => 8 * written + Valid(eop_fifo, mod_fifo) = Given - 4
  BY WordWritten
<1>5. eop_fifo => /\ Given = 8 * written
                               + (IF mod_fifo = 0 THEN 8 ELSE mod_fifo) + 4
                  /\ Given \in 0 .. LEN_MOD - 1
  <2>1. SUFFICES ASSUME eop_fifo
                 PROVE  /\ Given = 8 * written
                                     + (IF mod_fifo = 0 THEN 8 ELSE mod_fifo) + 4
                        /\ Given \in 0 .. LEN_MOD - 1
    OBVIOUS
  <2> DEFINE v == IF mod_fifo = 0 THEN 8 ELSE mod_fifo
  <2>2. RX_MAX_LEN \in 12 .. LEN_MOD - 2 /\ frame_len \in 0 .. RX_MAX_LEN + 2
    BY DEF NoFragments, TypeOK, MacTypeOK
  <2>3. written \in Nat /\ mod_fifo \in 0 .. 7 /\ LEN_MOD \in Nat
    BY DEF TypeOK, AccTypeOK, LEN_MOD
  <2>4. Valid(eop_fifo, mod_fifo) = v /\ v \in 1 .. 8
    BY <2>1, <2>3 DEF Valid
  <2> HIDE DEF v
  <2>5. Given \in Int /\ Given <= LEN_MOD - 1
    BY <2>2, <2>3 DEF Given
  <2>6. Given = 8 * written + v + 4
    <3>1. 8 * written + Valid(eop_fifo, mod_fifo) = Given - 4
      BY <1>4, <2>1
    <3>2. 8 * written + v = Given - 4
      BY <2>4, <3>1
    <3> QED BY <2>3, <2>4, <2>5, <3>2
  <2>7. Given \in 0 .. LEN_MOD - 1
    BY <2>3, <2>4, <2>5, <2>6
  <2> QED BY <2>6, <2>7 DEF v
<1>6. eop_fifo => acc_state \in {"WRITE_EOP", "WRITE_EOP_SW"}
  BY DEF RoomInv, PackerFollowsMac, PhyInv, WriteInv, AccumInv
<1>7. FifoWord(Note).note.whole
  BY <1>3, <1>6 DEF SentInv
<1> HIDE DEF FifoWord
<1> QED BY <1>2, <1>3, <1>4, <1>5, <1>7 DEF WordOK

-----------------------------------------------------------------------------
(* The data units in the FIFO are linked. *)

\* The frame stays the same while data units of it are counted.
LEMMA FrameStays ==
    ASSUME NoFragments, TypeOK, RoomInv, PhyInv, RxClkEdge, written' > 0
    PROVE  Frame' = Frame
<1>1. acc_state' # "IDLE"
  <2>1. PhyInv'
    BY PhyRxClkEdge
  <2> QED BY <2>1 DEF PhyInv, WriteInv, IdleInv
<1>2. CASE rx_clk_en
  BY <1>1, <1>2, SameFrameStep
<1>3. CASE ~rx_clk_en
  BY <1>3 DEF RxClkEdge, macVars, Frame
<1> QED BY <1>2, <1>3

\* Nothing is lost on the way into the FIFO.
LEMMA NothingDropped ==
    ASSUME TypeOK, RoomInv, RxClkEdge
    PROVE  fifo' = IF wr_req THEN Append(fifo, FifoWord(Note)) ELSE fifo
<1>1. wr_req => wrusedw < NUMWORDS
  <2>1. wr_req => wrusedw # NUMWORDS
    BY RoomIsEnough DEF FifoNotOverrun
  <2>2. wrusedw \in Len(fifo) .. NUMWORDS /\ NUMWORDS \in Nat
        /\ Len(fifo) \in Nat
    BY GmiiRxAssumption DEF GmiiRxAssumption, TypeOK, AccTypeOK
  <2> QED BY <2>1, <2>2
<1> QED BY <1>1 DEF RxClkEdge, WriteFifo

\* A data unit that is written follows the last one of its frame, which is in
\* the FIFO, or has been passed on with the packet that is open.
LEMMA QueueWritten ==
    ASSUME NoFragments, TypeOK, RoomInv, PhyInv, SentInv, QueueInv, ReadInv,
           RxClkEdge, wr_req
    PROVE  QueueInv' /\ ReadInv'
<1> DEFINE w == FifoWord(Note)
           n == Len(fifo)
<1>1. /\ WordOK(w) /\ w \in Words /\ w.note.frame = Frame
      /\ w.note.at = written /\ w.eop = eop_fifo
  BY WordIsOK
<1>2. fifo \in Seq(Words) /\ fifo' = Append(fifo, w) /\ written \in Nat
  BY NothingDropped DEF TypeOK
<1> HIDE DEF w
<1>3. /\ n \in Nat /\ Len(fifo') = n + 1 /\ fifo' # <<>>
      /\ \A i \in 1 .. n : fifo'[i] = fifo[i]
      /\ fifo'[n + 1] = w
      /\ fifo # <<>> <=> n >= 1
  BY <1>1, <1>2, AppendFacts
<1>4. UNCHANGED <<arbVars, packet>>
  BY DEF RxClkEdge
<1> HIDE DEF n
<1>5. \A i \in 1 .. n + 1 : WordOK(fifo'[i])
  BY <1>1, <1>3 DEF QueueInv, n
<1>6. ASSUME NEW i \in 1 .. n
      PROVE  Link(fifo'[i], fifo'[i + 1])
  <2>1. CASE i = n
    <3>1. n >= 1
      BY <1>3, <2>1
    <3>2. written > 0 => /\ fifo[n].note.frame = Frame
                         /\ fifo[n].note.at = written - 1
                         /\ ~fifo[n].eop
      BY <1>3, <3>1 DEF QueueInv, n
    <3>3. fifo'[i] = fifo[n] /\ fifo'[i + 1] = w
      BY <1>3, <2>1, <3>1
    <3> QED BY <1>1, <1>2, <3>2, <3>3 DEF Link
  <2>2. CASE i # n
    <3>1. i \in 1 .. n - 1 /\ i + 1 \in 1 .. n
      BY <1>3, <2>2
    <3> QED BY <1>3, <3>1 DEF QueueInv, n
  <2> QED BY <2>1, <2>2
<1>7. written' > 0 => /\ w.note.frame = Frame'
                      /\ w.note.at = written' - 1
                      /\ ~w.eop
  <2>1. SUFFICES ASSUME written' > 0
                 PROVE  /\ w.note.frame = Frame' /\ w.note.at = written' - 1
                        /\ ~w.eop
    OBVIOUS
  <2>2. ~eop_fifo /\ written' = written + 1
    BY <2>1, WriteCounts
  <2> QED BY <1>1, <1>2, <2>1, <2>2, FrameStays
<1>8. QueueInv'
  <2>1. Len(fifo') - 1 = n
    BY <1>3
  <2> QED BY <1>3, <1>5, <1>6, <1>7, <2>1 DEF QueueInv
<1>9. ReadInv'
  <2>1. /\ arb_state' = arb_state /\ pkt_len' = pkt_len /\ packet' = packet
    BY <1>4 DEF arbVars
  <2>2. CASE fifo = <<>>
    <3>1. n = 0 /\ fifo'[1] = w
      BY <1>3, <2>2 DEF n
    <3>2. arb_state = "READ_S" /\ w.note.at > 0 =>
             w.note.frame = packet[1].frame /\ w.note.at = Len(packet)
      BY <1>1, <2>2 DEF ReadInv
    <3> QED BY <1>3, <2>1, <3>1, <3>2 DEF ReadInv
  <2>3. CASE fifo # <<>>
    <3>1. fifo'[1] = fifo[1]
      BY <1>3, <2>3
    <3> QED BY <1>3, <2>1, <2>3, <3>1 DEF ReadInv
  <2> QED BY <2>2, <2>3
<1> QED BY <1>8, <1>9

LEMMA QueueRxClkEdge ==
    ASSUME NoFragments, TypeOK, RoomInv, PhyInv, SentInv, QueueInv, ReadInv,
           RxClkEdge
    PROVE  QueueInv' /\ ReadInv' /\ UnmarkedIsOneFrame'
<1>1. UnmarkedIsOneFrame'
  BY DEF RxClkEdge, NoTransfer, UnmarkedIsOneFrame
<1>2. CASE wr_req
  BY <1>1, <1>2, QueueWritten
<1>3. CASE ~wr_req
  <2>1. fifo' = fifo /\ written' = written /\ UNCHANGED <<arbVars, packet>>
    BY <1>3, NothingDropped, WriteCounts DEF RxClkEdge
  <2>2. written' > 0 => Frame' = Frame
    BY FrameStays
  <2> QED BY <1>1, <2>1, <2>2 DEF QueueInv, ReadInv, arbVars
<1> QED BY <1>2, <1>3

-----------------------------------------------------------------------------
(* The arbiter takes them out one after the other. *)

\* The length is counted modulo 2 ^ 16.
LEMMA LengthCounts ==
    ASSUME NEW x \in Nat, NEW y \in Nat
    PROVE  ((x % LEN_MOD) + y) % LEN_MOD = (x + y) % LEN_MOD
BY DEF LEN_MOD

\* A number below the modulus is its own remainder.
LEMMA ModSmall ==
    ASSUME NEW m \in Nat \ {0}, NEW x \in 0 .. m - 1
    PROVE  x % m = x
OBVIOUS

\* And a length that fits is not changed by that.
LEMMA LengthFits ==
    ASSUME NEW x \in 0 .. LEN_MOD - 1
    PROVE  x % LEN_MOD = x
<1>1. LEN_MOD \in Nat \ {0}
  BY DEF LEN_MOD
<1> QED BY <1>1, ModSmall

\* The packet that is open, when a data unit is passed on that does not end it.
LEMMA PacketGrows ==
    ASSUME IInv, QueueInv, ReadInv, NEW avail \in BOOLEAN, NEW full \in BOOLEAN,
           avail => fifo # <<>>,
           NEW word, word = IF avail THEN Head(fifo) ELSE NoWord
    PROVE  LET next == ArbNext(avail, full, word)
           IN  /\ avail => word = fifo[1] /\ WordOK(word) /\ fifo # <<>>
               /\ arb_state = "IDLE_S" /\ next = "READ_S" =>
                     avail /\ word.sop /\ ~word.eop /\ packet = <<>>
               /\ arb_state = "READ_S" /\ avail /\ next # "ERR_END_S" =>
                     /\ ~word.sop /\ packet # <<>>
                     /\ word.note.frame = packet[1].frame
                     /\ word.note.at = Len(packet)
                     /\ word.eop <=> next = "IDLE_S"
                     /\ next \in {"IDLE_S", "READ_S"}
               /\ next = "READ_S" => arb_state \in {"IDLE_S", "READ_S"}
<1>1. /\ arb_state \in {"IDLE_S", "READ_S", "DROP_S", "ERR_END_S"}
      /\ fifo \in Seq(Words) /\ OpenInState
  BY DEF IInv, TypeOK, ArbTypeOK
<1>2. avail => /\ word = fifo[1] /\ WordOK(word) /\ fifo # <<>>
               /\ word \in Words /\ word.note.at \in Nat
  <2>1. SUFFICES ASSUME avail
                 PROVE  /\ word = fifo[1] /\ WordOK(word) /\ fifo # <<>>
                        /\ word \in Words /\ word.note.at \in Nat
    OBVIOUS
  <2>2. /\ Head(fifo) \in Words /\ Head(fifo) = fifo[1]
        /\ Len(fifo) \in Nat \ {0}
    BY <1>1, <2>1, TailFacts
  <2>3. WordOK(fifo[1])
    BY <2>2 DEF QueueInv
  <2>4. Head(fifo).note.at \in Nat
    BY <2>2 DEF Words, Notes
  <2> QED BY <2>1, <2>2, <2>3, <2>4
<1>3. /\ arb_state = "IDLE_S" /\ ArbNext(avail, full, word) = "READ_S" =>
            avail /\ word.sop /\ ~word.eop
      /\ ArbNext(avail, full, word) = "READ_S" =>
            arb_state \in {"IDLE_S", "READ_S"}
  BY <1>1 DEF ArbNext
<1>4. arb_state = "READ_S" /\ avail /\ ArbNext(avail, full, word) # "ERR_END_S"
         => /\ ~word.sop
            /\ word.eop <=> ArbNext(avail, full, word) = "IDLE_S"
            /\ ArbNext(avail, full, word) \in {"IDLE_S", "READ_S"}
  BY DEF ArbNext
<1>5. arb_state = "READ_S" /\ avail /\ ~word.sop =>
         word.note.frame = packet[1].frame /\ word.note.at = Len(packet)
  BY <1>2 DEF ReadInv, WordOK
<1>6. /\ arb_state = "IDLE_S" => packet = <<>>
      /\ arb_state = "READ_S" => packet # <<>>
  BY <1>1 DEF OpenInState
<1> QED BY <1>2, <1>3, <1>4, <1>5, <1>6

\* Taking out the first data unit leaves the others linked.
LEMMA QueueRead ==
    ASSUME TypeOK, QueueInv, fifo # <<>>, fifo' = Tail(fifo),
           written' = written, Frame' = Frame
    PROVE  /\ QueueInv'
           /\ fifo' # <<>> => Link(fifo[1], fifo'[1])
           /\ fifo' = <<>> /\ written > 0 =>
                 /\ fifo[1].note.frame = Frame
                 /\ fifo[1].note.at = written - 1
<1> DEFINE n == Len(fifo)
<1>1. /\ n \in Nat \ {0} /\ Len(fifo') = n - 1
      /\ \A i \in 1 .. n - 1 : fifo'[i] = fifo[i + 1]
      /\ fifo' \in Seq(Words)
  BY TailFacts DEF TypeOK
<1>2. fifo' # <<>> <=> n >= 2
  BY <1>1
<1> HIDE DEF n
<1>3. ASSUME NEW i \in 1 .. n - 1 PROVE WordOK(fifo'[i])
  <2>1. i + 1 \in 1 .. n
    BY <1>1
  <2> QED BY <1>1, <2>1 DEF QueueInv, n
<1>4. ASSUME NEW i \in 1 .. n - 2 PROVE Link(fifo'[i], fifo'[i + 1])
  <2>1. i \in 1 .. n - 1 /\ i + 1 \in 1 .. n - 1
    BY <1>1
  <2> QED BY <1>1, <2>1 DEF QueueInv, n
<1>5. fifo' # <<>> /\ written > 0 =>
         /\ fifo'[Len(fifo')].note.frame = Frame
         /\ fifo'[Len(fifo')].note.at = written - 1
         /\ ~fifo'[Len(fifo')].eop
  <2>1. SUFFICES ASSUME fifo' # <<>>, written > 0
                 PROVE  /\ fifo'[Len(fifo')].note.frame = Frame
                        /\ fifo'[Len(fifo')].note.at = written - 1
                        /\ ~fifo'[Len(fifo')].eop
    OBVIOUS
  <2>2. Len(fifo') \in 1 .. n - 1 /\ Len(fifo') + 1 = n
    BY <1>1, <1>2, <2>1
  <2>3. fifo'[Len(fifo')] = fifo[n]
    BY <1>1, <2>2
  <2> QED BY <2>1, <2>3 DEF QueueInv, n
<1>6. QueueInv'
  <2>1. Len(fifo') - 1 = n - 2
    BY <1>1
  <2> QED BY <1>1, <1>3, <1>4, <1>5, <2>1 DEF QueueInv
<1>7. fifo' # <<>> => Link(fifo[1], fifo'[1])
  <2>1. SUFFICES ASSUME fifo' # <<>> PROVE Link(fifo[1], fifo'[1])
    OBVIOUS
  <2>2. 1 \in 1 .. n - 1 /\ fifo'[1] = fifo[1 + 1]
    BY <1>1, <1>2, <2>1
  <2> QED BY <2>2 DEF QueueInv, n
<1>8. fifo' = <<>> /\ written > 0 =>
         fifo[1].note.frame = Frame /\ fifo[1].note.at = written - 1
  <2>1. fifo' = <<>> => n = 1
    BY <1>1, <1>2
  <2> QED BY <2>1 DEF QueueInv, n
<1> QED BY <1>6, <1>7, <1>8

\* A packet that ends without a mark is what the MAC handed on of a frame.
LEMMA WholeFrame ==
    ASSUME IInv, QueueInv, ReadInv, NEW avail \in BOOLEAN, NEW full \in BOOLEAN,
           SysClkEdge(avail, full), out'.eop, ~out'.error
    PROVE  /\ \A i \in DOMAIN out'.data :
                 /\ out'.data[i].frame = out'.data[1].frame
                 /\ out'.data[i].at = i - 1
           /\ out'.pkt_len = Last(out'.data).len
           /\ Last(out'.data).whole
<1> DEFINE word == IF avail THEN Head(fifo) ELSE NoWord
           data == Append(packet, word.note)
           v == IF word.mod = 0 THEN 8 ELSE word.mod
<1>1. /\ avail => fifo # <<>>
      /\ out'.eop = pkt_eop(avail, full, word)
      /\ out'.error = pkt_error(word)
      /\ out'.pkt_len = pkt_len_out(word)
      /\ out'.data = IF pkt_eop(avail, full, word) THEN data ELSE <<>>
  BY DEF SysClkEdge
<1>2. Inputs(avail, word)
  BY <1>1, InputsOK
<1>3. packet \in Seq(Notes) /\ word.note \in Notes /\ word.mod \in 0 .. 7
  BY <1>2 DEF IInv, TypeOK, Inputs, Words
<1>4. /\ avail => word = fifo[1] /\ WordOK(word)
      /\ arb_state = "IDLE_S" /\ ArbNext(avail, full, word) = "READ_S" =>
            ~word.eop
      /\ arb_state = "READ_S" /\ avail
           /\ ArbNext(avail, full, word) # "ERR_END_S" =>
            /\ packet # <<>>
            /\ word.note.frame = packet[1].frame
            /\ word.note.at = Len(packet)
  BY <1>1, PacketGrows
<1> HIDE DEF word
<1>5. /\ out'.data = data /\ ~force_eop /\ word.eop /\ avail
      /\ fifo_rd_req(avail, full, word)
      /\ ArbNext(avail, full, word) \in {"READ_S", "IDLE_S"}
  BY <1>1 DEF pkt_eop, pkt_error, pkt_fifo_val, fifo_rd_req
<1>6. arb_state = "READ_S"
  <2>1. arb_state \in {"IDLE_S", "READ_S", "DROP_S", "ERR_END_S"}
    BY DEF IInv, TypeOK, ArbTypeOK
  <2>2. arb_state # "IDLE_S"
    BY <1>4, <1>5 DEF fifo_rd_req
  <2>3. arb_state \notin {"DROP_S", "ERR_END_S"}
    BY <1>5 DEF fifo_rd_req, force_eop
  <2> QED BY <2>1, <2>2, <2>3
<1>7. /\ word.note.frame = packet[1].frame /\ word.note.at = Len(packet)
      /\ packet # <<>> /\ WordOK(word)
  BY <1>4, <1>5, <1>6
<1>8. /\ pkt_len = (4 + 8 * Len(packet)) % LEN_MOD
      /\ \A i \in 1 .. Len(packet) : /\ packet[i].frame = packet[1].frame
                                     /\ packet[i].at = i - 1
  BY <1>6 DEF ReadInv
<1>9. /\ Len(packet) \in Nat \ {0} /\ DOMAIN data = 1 .. Len(packet) + 1
      /\ Len(data) = Len(packet) + 1
      /\ \A i \in 1 .. Len(packet) : data[i] = packet[i]
      /\ data[Len(packet) + 1] = word.note
  <2>1. Len(packet) # 0
    BY <1>3, <1>7
  <2> QED BY <1>3, <2>1, AppendFacts
<1> HIDE DEF data
<1>10. data[1] = packet[1] /\ Last(data) = word.note
  <2>1. 1 \in 1 .. Len(packet)
    BY <1>9
  <2> QED BY <1>9, <2>1 DEF Last
<1>11. ASSUME NEW i \in DOMAIN data
       PROVE  data[i].frame = data[1].frame /\ data[i].at = i - 1
  <2>1. CASE i = Len(packet) + 1
    BY <1>7, <1>9, <1>10, <2>1
  <2>2. CASE i # Len(packet) + 1
    <3>1. i \in 1 .. Len(packet)
      BY <1>9, <2>2
    <3> QED BY <1>8, <1>9, <1>10, <3>1
  <2> QED BY <2>1, <2>2
<1>12. pkt_len_out(word) = word.note.len
  <2>1. v \in Nat
    BY <1>3
  <2>2. /\ word.note.len = 8 * word.note.at + v + 4
        /\ word.note.len \in 0 .. LEN_MOD - 1
    BY <1>5, <1>7 DEF WordOK
  <2>3. pkt_len_out(word) = (pkt_len + v) % LEN_MOD
    BY <1>5 DEF pkt_len_out, pkt_mod
  <2> HIDE DEF v
  <2>4. 4 + 8 * Len(packet) \in Nat
    BY <1>9
  <2>5. pkt_len_out(word) = ((4 + 8 * Len(packet)) + v) % LEN_MOD
    BY <1>8, <2>1, <2>3, <2>4, LengthCounts
  <2>6. (4 + 8 * Len(packet)) + v = word.note.len
    BY <1>7, <1>9, <2>1, <2>2
  <2>7. word.note.len % LEN_MOD = word.note.len
    BY <2>2, LengthFits
  <2> QED BY <2>5, <2>6, <2>7
<1>13. word.note.whole
  BY <1>5, <1>7 DEF WordOK
<1> QED BY <1>1, <1>5, <1>10, <1>11, <1>12, <1>13

\* An edge of the system clock.
LEMMA QueueSysClkEdge ==
    ASSUME IInv, QueueInv, ReadInv, NEW avail \in BOOLEAN, NEW full \in BOOLEAN,
           SysClkEdge(avail, full)
    PROVE  QueueInv' /\ ReadInv' /\ UnmarkedIsOneFrame'
<1> DEFINE word == IF avail THEN Head(fifo) ELSE NoWord
           next == ArbNext(avail, full, word)
           data == Append(packet, word.note)
<1>1. /\ avail => fifo # <<>>
      /\ arb_state' = next /\ PktLen(avail, full, word)
      /\ fifo' = IF fifo_rd_req(avail, full, word) THEN Tail(fifo) ELSE fifo
      /\ packet' = IF ~pkt_fifo_val(avail, full, word) THEN packet
                   ELSE IF pkt_eop(avail, full, word)  THEN <<>> ELSE data
      /\ written' = written /\ Frame' = Frame
  BY DEF SysClkEdge, ArbEdge, macVars, Frame
<1>2. /\ fifo \in Seq(Words) /\ packet \in Seq(Notes) /\ TypeOK
      /\ arb_state \in {"IDLE_S", "READ_S", "DROP_S", "ERR_END_S"}
      /\ written \in Nat
  BY DEF IInv, TypeOK, ArbTypeOK
<1>3. word.note \in Notes
  BY <1>1, InputsOK DEF Inputs, Words
<1>4. UnmarkedIsOneFrame'
  BY WholeFrame DEF UnmarkedIsOneFrame
<1>5. /\ avail => word = fifo[1] /\ WordOK(word) /\ fifo # <<>>
      /\ arb_state = "IDLE_S" /\ next = "READ_S" =>
            avail /\ word.sop /\ ~word.eop /\ packet = <<>>
      /\ arb_state = "READ_S" /\ avail /\ next # "ERR_END_S" =>
            /\ ~word.sop /\ packet # <<>>
            /\ word.note.frame = packet[1].frame
            /\ word.note.at = Len(packet)
            /\ word.eop <=> next = "IDLE_S"
            /\ next \in {"IDLE_S", "READ_S"}
      /\ next = "READ_S" => arb_state \in {"IDLE_S", "READ_S"}
  BY <1>1, PacketGrows
<1> HIDE DEF word
<1>6. QueueInv'
  <2>1. CASE fifo_rd_req(avail, full, word)
    <3>1. fifo # <<>> /\ fifo' = Tail(fifo)
      BY <1>1, <2>1 DEF fifo_rd_req
    <3> QED BY <1>1, <1>2, <3>1, QueueRead
  <2>2. CASE ~fifo_rd_req(avail, full, word)
    BY <1>1, <2>2 DEF QueueInv
  <2> QED BY <2>1, <2>2
<1>7. arb_state' = "IDLE_S" => pkt_len' = 4
  BY <1>1 DEF PktLen
<1>8. ASSUME arb_state' = "READ_S" PROVE ReadInv'
  <2>1. /\ next = "READ_S" /\ arb_state \in {"IDLE_S", "READ_S"}
        /\ arb_state = "IDLE_S" => avail
    BY <1>1, <1>5, <1>8
  <2>2. CASE avail
    <3>1. /\ fifo_rd_req(avail, full, word) /\ pkt_fifo_val(avail, full, word)
          /\ ~word.eop /\ ~force_eop
      BY <1>5, <2>1, <2>2 DEF fifo_rd_req, pkt_fifo_val, force_eop
    <3>2. /\ fifo # <<>> /\ fifo' = Tail(fifo) /\ packet' = data
          /\ pkt_len' = (pkt_len + 8) % LEN_MOD
      BY <1>1, <1>5, <2>1, <2>2, <3>1 DEF pkt_eop, PktLen
    <3>3. /\ word = fifo[1] /\ WordOK(word)
          /\ arb_state = "IDLE_S" => word.sop /\ packet = <<>>
          /\ arb_state = "READ_S" =>
                /\ packet # <<>>
                /\ word.note.frame = packet[1].frame
                /\ word.note.at = Len(packet)
      BY <1>5, <2>1, <2>2
    <3>4. word.note.at = Len(packet)
      <4>1. CASE arb_state = "IDLE_S"
        <5>1. Len(packet) = 0
          BY <3>3, <4>1
        <5> QED BY <3>3, <4>1, <5>1 DEF WordOK
      <4>2. CASE arb_state = "READ_S"
        BY <3>3, <4>2
      <4> QED BY <2>1, <4>1, <4>2
    <3>5. /\ Len(packet) \in Nat /\ Len(data) = Len(packet) + 1
          /\ \A i \in 1 .. Len(packet) : data[i] = packet[i]
          /\ data[Len(packet) + 1] = word.note
      BY <1>2, <1>3, AppendFacts
    <3>6. pkt_len = (4 + 8 * Len(packet)) % LEN_MOD
      <4>1. CASE arb_state = "IDLE_S"
        <5>1. Len(packet) = 0 /\ pkt_len = 4
          BY <3>3, <4>1 DEF ReadInv
        <5> QED BY <5>1 DEF LEN_MOD
      <4>2. CASE arb_state = "READ_S"
        BY <4>2 DEF ReadInv
      <4> QED BY <2>1, <4>1, <4>2
    <3> HIDE DEF data, next
    <3>7. pkt_len' = (4 + 8 * Len(packet')) % LEN_MOD
      <4>1. 4 + 8 * Len(packet) \in Nat
        BY <3>5
      <4>2. pkt_len' = ((4 + 8 * Len(packet)) + 8) % LEN_MOD
        BY <3>2, <3>6, <4>1, LengthCounts
      <4>3. (4 + 8 * Len(packet)) + 8 = 4 + 8 * Len(packet')
        BY <3>2, <3>5
      <4> QED BY <4>2, <4>3
    <3>8. packet'[1].frame = word.note.frame
      <4>1. CASE Len(packet) = 0
        BY <3>2, <3>5, <4>1
      <4>2. CASE Len(packet) # 0
        <5>1. 1 \in 1 .. Len(packet) /\ packet # <<>>
          BY <1>2, <3>5, <4>2
        <5>2. arb_state = "READ_S"
          BY <2>1, <3>3, <5>1
        <5> QED BY <3>2, <3>3, <3>5, <5>1, <5>2
      <4> QED BY <4>1, <4>2
    <3>9. ASSUME NEW i \in 1 .. Len(packet')
          PROVE  packet'[i].frame = packet'[1].frame /\ packet'[i].at = i - 1
      <4>1. CASE i = Len(packet) + 1
        BY <3>2, <3>4, <3>5, <3>8, <4>1
      <4>2. CASE i # Len(packet) + 1
        <5>1. i \in 1 .. Len(packet) /\ packet # <<>>
          BY <1>2, <3>2, <3>5, <4>2
        <5>2. arb_state = "READ_S"
          BY <2>1, <3>3, <5>1
        <5>3. packet[i].frame = packet[1].frame /\ packet[i].at = i - 1
          BY <5>1, <5>2 DEF ReadInv
        <5> QED BY <3>2, <3>3, <3>5, <3>8, <5>1, <5>2, <5>3
      <4> QED BY <3>2, <3>5, <4>1, <4>2
    <3>10. /\ fifo' # <<>> => Link(fifo[1], fifo'[1])
           /\ fifo' = <<>> /\ written > 0 =>
                 /\ fifo[1].note.frame = Frame
                 /\ fifo[1].note.at = written - 1
      BY <1>1, <1>2, <3>2, QueueRead
    <3>11. fifo' # <<>> /\ fifo'[1].note.at > 0 =>
              /\ fifo'[1].note.frame = packet'[1].frame
              /\ fifo'[1].note.at = Len(packet')
      BY <3>2, <3>3, <3>4, <3>5, <3>8, <3>10 DEF Link
    <3>12. fifo' = <<>> /\ written' > 0 =>
              Frame' = packet'[1].frame /\ written' = Len(packet')
      <4>1. SUFFICES ASSUME fifo' = <<>>, written > 0
                     PROVE  Frame = packet'[1].frame /\ written = Len(packet')
        BY <1>1
      <4>2. word.note.frame = Frame /\ Len(packet) = written - 1
        BY <3>3, <3>4, <3>10, <4>1
      <4> QED BY <1>2, <3>2, <3>5, <3>8, <4>2
    <3> QED BY <1>8, <3>7, <3>9, <3>11, <3>12 DEF ReadInv
  <2>3. CASE ~avail
    <3>1. arb_state = "READ_S"
      BY <2>1, <2>3
    <3>2. ~fifo_rd_req(avail, full, word) /\ ~pkt_fifo_val(avail, full, word)
      BY <2>3, <3>1 DEF fifo_rd_req, pkt_fifo_val, force_eop
    <3>3. fifo' = fifo /\ packet' = packet /\ pkt_len' = pkt_len
      BY <1>1, <2>1, <3>2 DEF PktLen
    <3> QED BY <1>1, <1>8, <3>1, <3>3 DEF ReadInv
  <2> QED BY <2>2, <2>3
<1>9. ReadInv'
  BY <1>7, <1>8 DEF ReadInv
<1> QED BY <1>4, <1>6, <1>9

\* A reset empties the FIFO; the arbiter keeps its packet open.
LEMMA QueueReset ==
    ASSUME ReadInv, Reset
    PROVE  QueueInv' /\ ReadInv' /\ UnmarkedIsOneFrame'
<1>1. /\ fifo' = <<>> /\ written' = 0 /\ out' = NoTransfer
      /\ UNCHANGED <<arbVars, packet>>
  BY DEF Reset, AccClear
<1>2. Len(fifo') = 0
  BY <1>1
<1>3. QueueInv'
  BY <1>1, <1>2 DEF QueueInv
<1>4. ReadInv'
  BY <1>1 DEF ReadInv, arbVars
<1>5. UnmarkedIsOneFrame'
  BY <1>1 DEF UnmarkedIsOneFrame, NoTransfer
<1> QED BY <1>3, <1>4, <1>5

LEMMA QueueStart ==
    ASSUME Init
    PROVE  QueueInv /\ ReadInv /\ UnmarkedIsOneFrame
<1>1. /\ fifo = <<>> /\ written = 0 /\ out = NoTransfer
      /\ arb_state = "IDLE_S" /\ pkt_len = 4
  BY DEF Init, AccReset, ArbReset
<1>2. Len(fifo) = 0
  BY <1>1
<1> QED BY <1>1, <1>2 DEF QueueInv, ReadInv, UnmarkedIsOneFrame, NoTransfer

-----------------------------------------------------------------------------
(* The theorems. *)

\* The bytes of a frame keep their order and their place from the wire to the
\* traffic engine.
THEOREM GmiiRxFrameInvariant == NoFragments => (Spec => []FrameInv)
<1> SUFFICES ASSUME NoFragments PROVE Spec => []FrameInv
  OBVIOUS
<1>1. Init => FrameInv
  BY PhyInit, SentStart, QueueStart DEF FrameInv
<1>2. IInv /\ RoomInv /\ FrameInv /\ [Next]_vars => FrameInv'
  <2> SUFFICES ASSUME IInv, RoomInv, FrameInv, [Next]_vars PROVE FrameInv'
    OBVIOUS
  <2>1. TypeOK /\ PhyInv /\ SentInv /\ QueueInv /\ ReadInv
    BY DEF IInv, FrameInv
  <2>2. CASE RxClkEdge
    BY <2>1, <2>2, PhyRxClkEdge, SentRxClkEdge, QueueRxClkEdge DEF FrameInv
  <2>3. CASE \E avail, full \in BOOLEAN : SysClkEdge(avail, full)
    <3>1. PICK avail \in BOOLEAN, full \in BOOLEAN : SysClkEdge(avail, full)
      BY <2>3
    <3>2. PhyInv' /\ SentInv'
      BY <2>1, <3>1, PhyStandsStill, SentStandsStill DEF SysClkEdge
    <3> QED BY <2>1, <3>1, <3>2, QueueSysClkEdge DEF FrameInv
  <2>4. CASE Reset
    BY <2>1, <2>4, PhyReset, SentReset, QueueReset DEF FrameInv
  <2>5. CASE UNCHANGED vars
    <3>1. PhyInv' /\ SentInv'
      BY <2>1, <2>5, PhyStandsStill, SentStandsStill
         DEF vars, macSideVars, fifoVars
    <3>2. /\ fifo' = fifo /\ written' = written /\ Frame' = Frame
          /\ UNCHANGED arbVars /\ packet' = packet /\ out' = out
      BY <2>5 DEF vars, macSideVars, macVars, fifoVars, Frame
    <3>3. QueueInv' /\ ReadInv' /\ UnmarkedIsOneFrame'
      BY <2>1, <3>2
         DEF FrameInv, QueueInv, ReadInv, UnmarkedIsOneFrame, arbVars
    <3> QED BY <3>1, <3>3 DEF FrameInv
  <2> QED BY <2>2, <2>3, <2>4, <2>5 DEF Next
<1> QED BY GmiiRxInvariant, GmiiRxRoomInvariant, <1>1, <1>2, PTL DEF Spec

\* Every data unit written to the FIFO has the bytes of its place in the frame,
\* and every packet that reaches the traffic engine without a mark is what the
\* MAC handed on of one frame, in order from the first byte and with the length
\* of that: the whole frame the link partner sent if the MAC did not cut it, the
\* beginning of it if it did (FrameIsCarried).  This is where no frame is the
\* fragment that upsets sop_logic.
THEOREM GmiiRxFrameIsCarried == NoFragments => (Spec => []FrameIsCarried)
<1> SUFFICES ASSUME NoFragments PROVE Spec => []FrameIsCarried
  OBVIOUS
<1>1. IInv /\ RoomInv /\ FrameInv => FrameIsCarried
  BY WordsInPlace DEF IInv, FrameInv, FrameIsCarried
<1> QED BY GmiiRxInvariant, GmiiRxRoomInvariant, GmiiRxFrameInvariant, <1>1, PTL
=============================================================================
