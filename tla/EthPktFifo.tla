----------------------------- MODULE EthPktFifo -----------------------------
(***************************************************************************)
(* cge_lib/eth_pkt_fifo.v with DUAL_CLOCK = 0: a single-clock FIFO of the  *)
(* words of packets, with two registers that say how much room there is.   *)
(* Behind it is the megafunction of cge_pkt_fifo_one_clock.v, with the     *)
(* checks and the show-ahead mode that ScFifo describes.                   *)
(***************************************************************************)
EXTENDS Integers, ScFifo

\* usedw is AWIDTH bits wide, so that a full FIFO shows 0.
pkt_fifo_wrusedw(q, numwords) == Len(q) % numwords

ALMOST_FULL_WORDS(numwords, safe) == numwords - 1 - safe

\* The next value of wr_almost_full_o.
AlmostFullNext(q, numwords, safe) ==
    \/ FifoFull(q, numwords)
    \/ pkt_fifo_wrusedw(q, numwords) > ALMOST_FULL_WORDS(numwords, safe)

\* The next value of pkt_fifo_wremptyw.
EmptyWordsNext(q, numwords, safe) ==
    IF AlmostFullNext(q, numwords, safe) THEN 0
    ELSE ALMOST_FULL_WORDS(numwords, safe) - pkt_fifo_wrusedw(q, numwords)

empty_bytes(wremptyw) == 8 * wremptyw
=============================================================================
