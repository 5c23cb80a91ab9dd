----------------------------- MODULE GmiiTxCtrl -----------------------------
(***************************************************************************)
(* The side of conv_1G_tx_ctrl.v that has the transmit clock: a state      *)
(* machine takes words out of the dual-clock FIFO, a byte at a time, and   *)
(* puts a gap, a preamble, padding and the CRC of CRC_gen.v around them.   *)
(* At 10 and 100 Mbit/s only every other edge is enabled (clk_en), while   *)
(* the FIFO is read by the edges themselves.                               *)
(*                                                                         *)
(* A byte is <<kind>>, or <<kind, whose, number>> for data and CRC.        *)
(***************************************************************************)
EXTENDS Integers, Sequences

CONSTANTS MIN_LAST,     \* the number of the last byte of the shortest frame
          NoWord        \* what the FIFO shows after a reset

VARIABLES
    state, ifg_counter, preamb_counter, pkt_counter, byte_counter,
    last_byte, read_req, read_req_dl,
    word,              \* the output of the FIFO: pkt_fifo_data, mod and eop
    crc, crc_counter,  \* CRC_gen: the bytes in CRC_reg; how many are read
    TxD, TxEn

ctrlVars == <<state, ifg_counter, preamb_counter, pkt_counter, byte_counter,
              last_byte, read_req, read_req_dl, word, crc, crc_counter,
              TxD, TxEn>>

IFG_LEN == 11
PREAMB_LEN == 6
FCS_LEN == 4

\* Mutant: the request of the cycle before is not looked at.
endFrameNoDl ==
    /\ state = "DATA" /\ word.eop
    /\ byte_counter = IF word.mod = 0 THEN 7 ELSE word.mod - 1

\* At 10 and 100 Mbit/s the word changes half way through byte 7.
end_frame ==
    /\ state = "DATA" /\ word.eop
    /\ IF word.mod = 0 THEN byte_counter = 7 /\ ~read_req_dl
                       ELSE byte_counter = word.mod - 1

CRC_end == crc_counter = FCS_LEN - 1

\* rd_used_words has three bits, so that it never exceeds 10, and the gap is
\* never the shorter one.
next_state(tx_data_ready) ==
    CASE state = "IFG"      -> IF ifg_counter >= IFG_LEN /\ tx_data_ready
                               THEN "PREAMBLE" ELSE "IFG"
      [] state = "PREAMBLE" -> IF preamb_counter < PREAMB_LEN
                               THEN "PREAMBLE" ELSE "SFD"
      [] state = "SFD"      -> "DATA"
      [] state = "DATA"     -> IF ~end_frame THEN "DATA"
                               ELSE IF pkt_counter < MIN_LAST THEN "PAD"
                               ELSE "FCS"
      [] state = "PAD"      -> IF pkt_counter < MIN_LAST THEN "PAD" ELSE "FCS"
      [] state = "FCS"      -> IF CRC_end THEN "IFG" ELSE "FCS"

Counters ==
    /\ ifg_counter' = IF state # "IFG" THEN 0
                      ELSE IF ifg_counter < 12 THEN ifg_counter + 1
                      ELSE ifg_counter
    /\ preamb_counter' =
           IF state = "IFG" THEN 0
           ELSE IF state = "PREAMBLE" /\ preamb_counter < PREAMB_LEN
                THEN preamb_counter + 1 ELSE preamb_counter
    /\ pkt_counter' = IF state = "IFG" THEN 0
                      ELSE IF state \in {"DATA", "PAD"} /\ pkt_counter # 255
                           THEN pkt_counter + 1 ELSE pkt_counter
    /\ byte_counter' = IF state = "IFG" THEN 0
                       ELSE IF state = "DATA" THEN (byte_counter + 1) % 8
                       ELSE byte_counter

pkt_fifo_data(n) == <<"data", word, n>>

\* Byte 7 has its own register: the FIFO may show the next word already.
data_byte == IF byte_counter = 7 THEN last_byte ELSE pkt_fifo_data(byte_counter)

tx_data_tmp ==
    CASE state = "IFG"      -> <<"07">>
      [] state = "PREAMBLE" -> <<"55">>
      [] state = "SFD"      -> <<"d5">>
      [] state = "DATA"     -> data_byte
      [] state = "PAD"      -> <<"00">>
      [] state = "FCS"      -> <<"fcs", crc, crc_counter>>

\* CRC_gen.v.  What is read of it depends on the bytes since Init.
CrcGen ==
    /\ crc' = IF state = "SFD" THEN <<>>
              ELSE IF state \in {"DATA", "PAD"} THEN Append(crc, tx_data_tmp)
              ELSE crc
    /\ crc_counter' = IF state = "FCS" THEN (crc_counter + 1) % 16 ELSE 0

\* An enabled edge, but for read_req, which falls on the others.
EnabledEdge(tx_data_ready) ==
    /\ state' = next_state(tx_data_ready)
    /\ Counters
    /\ CrcGen
    /\ last_byte' = IF byte_counter = 0 THEN pkt_fifo_data(7) ELSE last_byte
    /\ TxD' = tx_data_tmp
    /\ TxEn' = (state # "IFG")

ReadReq(tx_data_ready) ==
    \/ next_state(tx_data_ready) = "SFD"
    \/ state = "DATA" /\ byte_counter = 6 /\ ~word.eop

\* head is what the FIFO gives: no word or one.
CtrlEdge(clk_en, tx_data_ready, head) ==
    /\ IF clk_en THEN EnabledEdge(tx_data_ready)
       ELSE UNCHANGED <<state, ifg_counter, preamb_counter, pkt_counter,
                        byte_counter, last_byte, crc, crc_counter, TxD, TxEn>>
    /\ read_req' = (clk_en /\ ReadReq(tx_data_ready))
    /\ read_req_dl' = read_req
    /\ word' = IF head = <<>> THEN word ELSE head[1]

CtrlReset ==
    /\ state = "IFG"
    /\ ifg_counter = 0 /\ preamb_counter = 0 /\ pkt_counter = 0
    /\ byte_counter = 0 /\ last_byte = <<"data", NoWord, 7>>
    /\ read_req = FALSE /\ read_req_dl = FALSE
    /\ word = NoWord
    /\ crc = <<>> /\ crc_counter = 0
    /\ TxD = <<"00">> /\ TxEn = FALSE
=============================================================================
