----------------------------- MODULE GmiiRxArb ------------------------------
(***************************************************************************)
(* conv_1G_rx_arb.v: takes data units out of the receive FIFO and passes   *)
(* packets on to the traffic engine.  A packet that does not end, or that  *)
(* there is no room for, is ended by force and marked.                     *)
(*                                                                         *)
(* The inputs of a cycle are parameters: avail, full and the data unit     *)
(* word = [sop, eop, mod, crc_err, ...] at the head of the FIFO.            *)
(***************************************************************************)
EXTENDS Integers

CONSTANT MAX_TICK_WITHOUT_READ

LEN_MOD == 65536     \* pkt_len is 16 bits wide

VARIABLES arb_state, pkt_len, watchdog_cnt

arbVars == <<arb_state, pkt_len, watchdog_cnt>>

ArbTypeOK == /\ arb_state \in {"IDLE_S", "READ_S", "DROP_S", "ERR_END_S"}
             /\ pkt_len \in 0 .. LEN_MOD - 1
             /\ watchdog_cnt \in 0 .. MAX_TICK_WITHOUT_READ

\* rst_i is tied low; the first edge without a data unit sets pkt_len.
ArbReset == arb_state = "IDLE_S" /\ pkt_len = 4 /\ watchdog_cnt = 0

\* Mutant: one tick more than the counter is made for.
watchdogLate == watchdog_cnt > MAX_TICK_WITHOUT_READ

watchdog_failed == watchdog_cnt >= MAX_TICK_WITHOUT_READ

\* next_state
ArbNext(avail, full, word) ==
    CASE arb_state = "IDLE_S" ->
            IF avail /\ ~full
            THEN IF word.sop /\ ~word.eop THEN "READ_S" ELSE "DROP_S"
            ELSE "IDLE_S"
      [] arb_state = "READ_S" ->
            IF avail
            THEN IF word.sop      THEN "ERR_END_S"
                 ELSE IF word.eop THEN "IDLE_S"
                 ELSE IF full     THEN "ERR_END_S" ELSE "READ_S"
            ELSE IF watchdog_failed THEN "ERR_END_S" ELSE "READ_S"
      [] arb_state = "ERR_END_S" -> "DROP_S"
      [] arb_state = "DROP_S" -> IF avail /\ word.sop THEN "IDLE_S"
                                                     ELSE "DROP_S"

fifo_rd_req(avail, full, word) ==
    LET next == ArbNext(avail, full, word)
    IN  avail /\ \/ arb_state = "IDLE_S" /\ next \in {"READ_S", "DROP_S"}
                 \/ arb_state = "READ_S" /\ next \in {"IDLE_S", "READ_S"}
                 \/ arb_state = "DROP_S" /\ next = "DROP_S"

force_eop == arb_state = "ERR_END_S"

pkt_fifo_val(avail, full, word) ==
    \/ /\ fifo_rd_req(avail, full, word)
       /\ ArbNext(avail, full, word) \in {"READ_S", "IDLE_S"}
    \/ force_eop

\* Mutant: startofpacket is passed on as it is.
pktSopAsIs(avail, full, word) == word.sop

\* status[7], status[6], status[2:0], error[0] and pkt_len_o
pkt_sop(avail, full, word) ==
    /\ arb_state = "IDLE_S" /\ ArbNext(avail, full, word) = "READ_S"
    /\ word.sop

pkt_eop(avail, full, word) ==
    pkt_fifo_val(avail, full, word) /\ (force_eop \/ word.eop)

pkt_mod(word) == IF force_eop THEN 0 ELSE word.mod

pkt_error(word) == force_eop \/ word.crc_err

pkt_len_out(word) ==
    (pkt_len + (IF pkt_mod(word) = 0 THEN 8 ELSE pkt_mod(word))) % LEN_MOD

\* 4 for the CRC, which is not among the data.
PktLen(avail, full, word) ==
    pkt_len' = IF ArbNext(avail, full, word) = "IDLE_S" THEN 4
               ELSE IF pkt_fifo_val(avail, full, word)
               THEN (pkt_len + 8) % LEN_MOD ELSE pkt_len

\* Mutant: the counter has not the width for the limit and wraps.
WatchdogWraps(avail, full, word) ==
    watchdog_cnt' = IF arb_state # "READ_S" \/ fifo_rd_req(avail, full, word)
                    THEN 0
                    ELSE (watchdog_cnt + 1) % MAX_TICK_WITHOUT_READ

Watchdog(avail, full, word) ==
    watchdog_cnt' = IF arb_state # "READ_S" \/ fifo_rd_req(avail, full, word)
                    THEN 0
                    ELSE IF watchdog_failed THEN watchdog_cnt
                    ELSE watchdog_cnt + 1

ArbEdge(avail, full, word) ==
    /\ arb_state' = ArbNext(avail, full, word)
    /\ PktLen(avail, full, word)
    /\ Watchdog(avail, full, word)
=============================================================================
