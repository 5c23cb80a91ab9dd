-------------------------------- MODULE TxCpu --------------------------------
(***************************************************************************)
(* lib/eth/xge_cpubuf/tx_cpu.sv: packets from the processor are stored,    *)
(* and given to the network when they are there whole.  Beside the FIFO of *)
(* words is one that holds a token for every end of a packet; the words    *)
(* leave only while it is not empty.                                       *)
(*                                                                         *)
(* Behind it is the register stage pkt_tx_delay of mx_dual_phy_iface.sv.   *)
(***************************************************************************)
EXTENDS EthPktFifo

CONSTANTS PKT_WORDS, PKT_SAFE_WORDS,     \* of pkt_fifo
          STAT_WORDS, STAT_SAFE_WORDS    \* of stat_fifo

VARIABLES
    pkt_fifo, pkt_almost_full,
    stat_fifo, stat_almost_full,
    tx_delay       \* pkt_tx_delay: no word or one

txCpuVars == <<pkt_fifo, pkt_almost_full, stat_fifo, stat_almost_full,
               tx_delay>>

stat_fifo_wr_ready == ~stat_almost_full

\* Mutant: a word is given away as soon as it is there.
rdReadyAlways == TRUE

stat_fifo_rd_ready == ~FifoEmpty(stat_fifo)

\* pkt_i.ready of tx_cpu, and pkt_o.val
cpu_ready == ~pkt_almost_full /\ stat_fifo_wr_ready
cpu_val == ~FifoEmpty(pkt_fifo) /\ stat_fifo_rd_ready

\* The stage takes a word when it is empty or is being emptied; ready is that
\* of the converter.
delay_ready(ready) == tx_delay = <<>> \/ ready

Token(w) == IF w # <<>> /\ w[1].eop THEN <<"packet">> ELSE <<>>

\* w is no word or the one that is taken from the processor on this edge.
TxCpuEdge(w, ready) ==
    LET rd_req == cpu_val /\ delay_ready(ready)
        read   == IF rd_req THEN <<Head(pkt_fifo)>> ELSE <<>>
    IN  /\ pkt_fifo' = FifoEdge(pkt_fifo, PKT_WORDS, w, rd_req)
        /\ pkt_almost_full' =
               AlmostFullNext(pkt_fifo, PKT_WORDS, PKT_SAFE_WORDS)
        /\ stat_fifo' = FifoEdge(stat_fifo, STAT_WORDS, Token(w),
                                 Token(read) # <<>>)
        /\ stat_almost_full' =
               AlmostFullNext(stat_fifo, STAT_WORDS, STAT_SAFE_WORDS)
        /\ tx_delay' = IF delay_ready(ready) THEN read ELSE tx_delay

TxCpuReset ==
    /\ pkt_fifo = <<>> /\ pkt_almost_full = FALSE
    /\ stat_fifo = <<>> /\ stat_almost_full = FALSE
    /\ tx_delay = <<>>
=============================================================================
