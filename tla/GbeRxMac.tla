------------------------------ MODULE GbeRxMac ------------------------------
(***************************************************************************)
(* gbe_rx_mac_ctrl_simple.sv: finds a frame on the GMII, hands its bytes   *)
(* on and ends it, well or badly.                                          *)
(*                                                                         *)
(* A byte is named by what it is: n = PreambleByte or SfdByte before the   *)
(* frame, n = 1, 2, ... in it, and the frame by one bit, so that two       *)
(* frames next to each other differ.  A byte of a frame is never taken for *)
(* a preamble.                                                             *)
(***************************************************************************)
EXTENDS Integers

CONSTANTS RX_IFG_SET, RX_MIN_LEN, RX_MAX_LEN

VARIABLES mac_state,
          ifg_cnt,
          frame_len,     \* bytes of the frame, this one included
          crc_err_reg,
          rx_d1,         \* rx_dv_d1, rx_d_d1, rx_err_d1
          rx_d2          \* rx_d_d2, rx_err_d2

macVars == <<mac_state, ifg_cnt, frame_len, crc_err_reg, rx_d1, rx_d2>>

PreambleByte == 0
SfdByte == -1
NoByte == -2

Byte == [frame : {0, 1}, n : Int]

\* One byte time on the wire.
Line == [dv : BOOLEAN, d : Byte, err : BOOLEAN]

QuietLine == [dv |-> FALSE, d |-> [frame |-> 0, n |-> NoByte], err |-> FALSE]

MacTypeOK ==
    /\ mac_state \in {"IDLE_S", "PREAMBLE_S", "SFD_S", "DATA_S", "CHECK_CRC_S",
                      "OK_END_S", "DROP_S", "ERR_END_S", "CRC_ERR_END_S",
                      "FIFO_FULL_DROP_S", "FIFO_FULL_ERR_END_S", "IFG_S"}
    /\ ifg_cnt \in 0 .. RX_IFG_SET
    /\ frame_len \in 0 .. RX_MAX_LEN + 2
    /\ crc_err_reg \in BOOLEAN
    /\ rx_d1 \in Line /\ rx_d2 \in Line

MacReset ==
    /\ mac_state = "IDLE_S" /\ ifg_cnt = 0 /\ frame_len = 0
    /\ crc_err_reg = FALSE /\ rx_d1 = QuietLine /\ rx_d2 = QuietLine

\* The same, on the edge of the asynchronous reset.
MacClear ==
    /\ mac_state' = "IDLE_S" /\ ifg_cnt' = 0 /\ frame_len' = 0
    /\ crc_err_reg' = FALSE /\ rx_d1' = QuietLine /\ rx_d2' = QuietLine

too_short == frame_len < RX_MIN_LEN
too_long  == frame_len > RX_MAX_LEN

fifo_data_en  == mac_state = "DATA_S"
fifo_data_end == mac_state \in {"ERR_END_S", "OK_END_S", "CRC_ERR_END_S",
                                "FIFO_FULL_ERR_END_S"}

(* next_state.  full is the almost_full of the FIFO behind, crc_err what    *)
(* CRC_chk says of the bytes since the start of the frame.                 *)
MacNext(full, crc_err) ==
    CASE mac_state = "IDLE_S" ->
            IF rx_d1.dv /\ rx_d1.d.n = PreambleByte THEN "PREAMBLE_S"
                                                    ELSE "IDLE_S"
      [] mac_state = "PREAMBLE_S" ->
            IF ~rx_d1.dv                          THEN "ERR_END_S"
            ELSE IF rx_d2.err                     THEN "DROP_S"
            ELSE IF rx_d1.d.n = SfdByte           THEN "SFD_S"
            ELSE IF rx_d1.d.n = PreambleByte      THEN "PREAMBLE_S"
            ELSE "DROP_S"
      [] mac_state = "SFD_S" ->
            IF ~rx_d1.dv     THEN "ERR_END_S"
            ELSE IF rx_d2.err THEN "DROP_S" ELSE "DATA_S"
      [] mac_state = "DATA_S" ->
            IF ~rx_d1.dv
            THEN IF too_short \/ too_long THEN "ERR_END_S" ELSE "CHECK_CRC_S"
            ELSE IF full                  THEN "FIFO_FULL_ERR_END_S"
            ELSE IF rx_d2.err \/ too_long THEN "DROP_S" ELSE "DATA_S"
      [] mac_state = "CHECK_CRC_S" ->
            IF crc_err THEN "CRC_ERR_END_S" ELSE "OK_END_S"
      [] mac_state = "DROP_S" -> IF rx_d1.dv THEN "DROP_S" ELSE "ERR_END_S"
      [] mac_state \in {"OK_END_S", "ERR_END_S", "CRC_ERR_END_S"} -> "IFG_S"
      [] mac_state = "FIFO_FULL_ERR_END_S" -> "FIFO_FULL_DROP_S"
      [] mac_state = "FIFO_FULL_DROP_S" ->
            IF rx_d1.dv THEN "FIFO_FULL_DROP_S" ELSE "IFG_S"
      [] mac_state = "IFG_S" ->
            IF ifg_cnt = RX_IFG_SET - 4 THEN "IDLE_S" ELSE "IFG_S"

\* Mutant: the verdict is cleared as soon as the frame is over.
CrcErrRegCleared(crc_err) ==
    crc_err_reg' = (mac_state = "CHECK_CRC_S" /\ crc_err)

CrcErrReg(crc_err) ==
    crc_err_reg' = IF mac_state = "SFD_S" THEN FALSE
                   ELSE IF mac_state = "CHECK_CRC_S" THEN crc_err
                   ELSE crc_err_reg

\* An enabled clock edge with the byte that is on the wire.
MacEdge(line, full, crc_err) ==
    /\ rx_d1' = line
    /\ rx_d2' = rx_d1
    /\ mac_state' = MacNext(full, crc_err)
    /\ ifg_cnt' = IF mac_state = "IFG_S" THEN ifg_cnt + 1 ELSE 0
    /\ frame_len' = IF mac_state = "SFD_S" THEN 1
                    ELSE IF mac_state = "DATA_S" THEN frame_len + 1
                    ELSE frame_len
    /\ CrcErrReg(crc_err)
=============================================================================
