----------------------------- MODULE GmiiRxFifo -----------------------------
(***************************************************************************)
(* conv_1G_rx_fifo.v: gathers the bytes of a frame to data units of eight  *)
(* and writes them to a FIFO between two clocks (stat_fifo_generic.sv).    *)
(* It stays at least four bytes behind, so that the CRC at the end of a    *)
(* frame is never written.                                                 *)
(***************************************************************************)
EXTENDS GbeRxMac, Sequences

CONSTANTS NUMWORDS,     \* 2 ^ AWIDTH
          SAFE_WORDS    \* of stat_fifo_generic

VARIABLES acc_state,
          counter,            \* bytes in pkt_fifo_data, modulo 8
          pkt_fifo_data,      \* the data unit being gathered
          pkt_fifo_tmp_data,  \* the last one that was complete
          wr_req,
          sop_logic,          \* <<bit 0, bit 1>>
          sop_fifo, eop_fifo, mod_fifo,
          fifo,               \* cge_stat_fifo_dual_clk
          wrusedw,            \* words in it, as the writing side sees it
          wr_almost_full

accVars == <<acc_state, counter, pkt_fifo_data, pkt_fifo_tmp_data, sop_fifo,
             eop_fifo, mod_fifo>>
fifoVars == <<accVars, wr_req, sop_logic, fifo, wrusedw, wr_almost_full>>

ALMOST_FULL_WORDS == NUMWORDS - 1 - SAFE_WORDS

DataUnit == [0 .. 7 -> Byte]
NoData == [k \in 0 .. 7 |-> [frame |-> 0, n |-> NoByte]]

AccTypeOK ==
    /\ acc_state \in {"IDLE", "ACCUM", "WRITE", "WRITE_EOP", "WRITE_EOP_SW",
                      "DROP_FRAG"}
    /\ counter \in 0 .. 7 /\ mod_fifo \in 0 .. 7
    /\ pkt_fifo_data \in DataUnit /\ pkt_fifo_tmp_data \in DataUnit
    /\ wr_req \in BOOLEAN /\ sop_logic \in BOOLEAN \X BOOLEAN
    /\ sop_fifo \in BOOLEAN /\ eop_fifo \in BOOLEAN
    /\ wrusedw \in Len(fifo) .. NUMWORDS /\ wr_almost_full \in BOOLEAN

AccReset ==
    /\ acc_state = "IDLE" /\ counter = 0
    /\ pkt_fifo_data = NoData /\ pkt_fifo_tmp_data = NoData
    /\ wr_req = FALSE /\ sop_logic = <<FALSE, FALSE>>
    /\ sop_fifo = FALSE /\ eop_fifo = FALSE /\ mod_fifo = 0
    /\ fifo = <<>> /\ wrusedw = 0 /\ wr_almost_full = FALSE

AccClear ==
    /\ acc_state' = "IDLE" /\ counter' = 0
    /\ pkt_fifo_data' = NoData /\ pkt_fifo_tmp_data' = NoData
    /\ wr_req' = FALSE /\ sop_logic' = <<FALSE, FALSE>>
    /\ sop_fifo' = FALSE /\ eop_fifo' = FALSE /\ mod_fifo' = 0
    /\ fifo' = <<>> /\ wrusedw' = 0 /\ wr_almost_full' = FALSE

\* next_state
AccNext ==
    CASE acc_state = "IDLE"  -> IF fifo_data_en THEN "ACCUM" ELSE "IDLE"
      [] acc_state = "ACCUM" ->
            IF fifo_data_end
            THEN IF sop_logic[1]  THEN "DROP_FRAG"
                 ELSE IF counter < 5 THEN "WRITE_EOP" ELSE "WRITE_EOP_SW"
            ELSE IF fifo_data_en /\ counter = 4 /\ sop_logic # <<TRUE, FALSE>>
                 THEN "WRITE" ELSE "ACCUM"
      [] acc_state = "WRITE" ->
            IF fifo_data_end THEN "WRITE_EOP_SW" ELSE "ACCUM"
      [] acc_state \in {"WRITE_EOP", "WRITE_EOP_SW", "DROP_FRAG"} -> "IDLE"

\* The registers behind clk_mac_en.
AccEdge ==
    /\ acc_state' = AccNext
    /\ counter' = IF fifo_data_en
                  THEN IF acc_state = "ACCUM" \/ AccNext \in {"ACCUM", "WRITE"}
                       THEN (counter + 1) % 8 ELSE 0
                  ELSE IF acc_state = "IDLE" THEN 0 ELSE counter
    /\ pkt_fifo_data' = IF AccNext # "IDLE" /\ fifo_data_en
                        THEN [pkt_fifo_data EXCEPT ![counter] = rx_d2.d]
                        ELSE pkt_fifo_data
    /\ pkt_fifo_tmp_data' = IF counter = 0 /\ acc_state = "ACCUM"
                            THEN pkt_fifo_data ELSE pkt_fifo_tmp_data
    /\ sop_fifo' = (AccNext = "WRITE" /\ sop_logic[1])
    /\ eop_fifo' = (AccNext \in {"WRITE_EOP", "WRITE_EOP_SW"})
    /\ mod_fifo' = IF AccNext \in {"WRITE_EOP", "WRITE_EOP_SW"}
                   THEN (counter + 4) % 8
                   ELSE IF AccNext = "IDLE" THEN 0 ELSE mod_fifo

\* The registers that clk_mac_en does not hold.
WrReq(en) ==
    wr_req' = (en /\ AccNext \in {"WRITE", "WRITE_EOP", "WRITE_EOP_SW"})

SopLogic ==
    sop_logic' = IF wr_req THEN <<FALSE, FALSE>>
                 ELSE IF acc_state = "IDLE" THEN <<TRUE, sop_logic[2]>>
                 ELSE IF counter = 0 /\ acc_state = "ACCUM"
                 THEN <<sop_logic[1], TRUE>>
                 ELSE sop_logic

\* Mutant: the last data unit is taken from the copy, too.
dataToWriteCopy == pkt_fifo_tmp_data

data_to_write == IF acc_state = "WRITE_EOP_SW" THEN pkt_fifo_data
                                               ELSE pkt_fifo_tmp_data

\* What is written on the edge that ends a cycle with wr_req.  note is what the
\* properties want to know of the data unit later.
FifoWord(note) == [sop |-> sop_fifo, eop |-> eop_fifo, mod |-> mod_fifo,
                   crc_err |-> crc_err_reg, note |-> note]

\* Mutant: no room is kept for what is written after the level is reached.
AlmostFullAtFull == wr_almost_full' = (wrusedw = NUMWORDS)

AlmostFull == wr_almost_full' = (wrusedw > ALMOST_FULL_WORDS)

\* The writing side sees its writes at once and reads only later.
WriteFifo(note) ==
    LET written_now == wr_req /\ wrusedw < NUMWORDS
    IN  /\ fifo' = IF written_now THEN Append(fifo, FifoWord(note)) ELSE fifo
        /\ wrusedw' \in {Len(fifo'), wrusedw + (IF written_now THEN 1 ELSE 0)}
=============================================================================
