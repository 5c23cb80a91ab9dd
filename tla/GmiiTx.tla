------------------------------- MODULE GmiiTx -------------------------------
(***************************************************************************)
(* From the packets of netdma to the transmit pins of the GMII: tx_cpu.sv  *)
(* and the writing half of the FIFO of conv_1G_tx_ctrl.v run with the      *)
(* system clock, the rest of the converter and gbe_phy_int.sv with the     *)
(* transmit clock.  A step is an edge of one of the clocks.                *)
(***************************************************************************)
EXTENDS TxCpu, GmiiTxCtrl

CONSTANTS
    READ_USED_WORDS,         \* READ_USED_WORDS_FOR_TX_DATA_READY
    NUM_WORDS, FULL_WORDS,   \* FIFO_NUM_WORDS, FIFO_ALMOST_FULL_WORDS
    RD_SYNC, WR_SYNC,        \* stages a count passes to the other clock
    EDGES,                   \* transmit edges between two system edges
    SPEEDS,                  \* the values of tx_sel_1000m looked at
    PACKETS,                 \* [words, mod]
    MAX_PACKETS, MAX_CUTS    \* bounds: packets begun, and cut short

\* All that may come before the end of a packet has to fit into pkt_fifo.
ASSUME GmiiTxAssumption ==
    /\ PKT_WORDS \in Nat /\ PKT_SAFE_WORDS \in 1 .. PKT_WORDS - 1
    /\ STAT_WORDS \in Nat /\ STAT_SAFE_WORDS \in 1 .. STAT_WORDS - 1
    /\ NUM_WORDS \in Nat /\ FULL_WORDS \in 1 .. NUM_WORDS - 1
    /\ READ_USED_WORDS \in 1 .. FULL_WORDS
    /\ RD_SYNC \in Nat \ {0} /\ WR_SYNC \in Nat \ {0} /\ EDGES \in Nat \ {0}
    /\ SPEEDS \subseteq BOOLEAN /\ MIN_LAST \in 0 .. 254
    /\ MAX_PACKETS \in Nat /\ MAX_CUTS \in Nat
    /\ PACKETS \subseteq [words : Nat \ {0}, mod : 0 .. 7]
    /\ \A pkt \in PACKETS :
           (MAX_CUTS + 1) * pkt.words <= PKT_WORDS - PKT_SAFE_WORDS

VARIABLES
    src,                     \* <<>>, or what of a packet netdma has given
    tx_fifo,                 \* tx_64b_fifo
    rd_unseen, wr_unseen,    \* writes, reads that a stage does not know of
    tx_sel_1000m, tx_clk_en,                  \* rgmii_clk_ctrl
    gmii_tx_d_d1, gmii_tx_en_d1, tx_mii_pos,  \* gbe_phy_int
    tx_d_o, tx_en_o,
    edges,       \* transmit edges since the last system edge
    begun, cuts, \* packets begun and cut short
    accepted,    \* history: the words tx_cpu took
    ends,        \* history: the places of ends of packets in accepted
    line, sent   \* history: the frame on the pins, and frames before it

srcVars == <<src, begun, cuts, accepted, ends>>
phyVars == <<gmii_tx_d_d1, gmii_tx_en_d1, tx_mii_pos, tx_d_o, tx_en_o>>
lineVars == <<line, sent>>
vars == <<txCpuVars, ctrlVars, srcVars, phyVars, lineVars, tx_fifo, rd_unseen,
          wr_unseen, tx_sel_1000m, tx_clk_en, edges>>

-----------------------------------------------------------------------------
(* netdma.  A word is named by its place in the stream.  The first word of  *)
(* a packet is marked, but the mark is not looked at by anyone.             *)

Word == [n : Nat, eop : BOOLEAN, mod : 0 .. 7]

NextWord(s) == [n |-> Len(accepted) + 1, eop |-> s.sent + 1 = s.pkt.words,
                mod |-> IF s.sent + 1 = s.pkt.words THEN s.pkt.mod ELSE 0]

\* The packets netdma may be giving a word of.
Sources == IF src # <<>> THEN {src[1]}
           ELSE IF begun < MAX_PACKETS
                THEN {[pkt |-> pkt, sent |-> 0] : pkt \in PACKETS} ELSE {}

Give(s) ==
    /\ accepted' = Append(accepted, NextWord(s))
    /\ ends' = IF NextWord(s).eop THEN Append(ends, Len(accepted) + 1) ELSE ends
    /\ src' = IF NextWord(s).eop THEN <<>>
              ELSE <<[s EXCEPT !.sent = s.sent + 1]>>
    /\ begun' = IF src = <<>> THEN begun + 1 ELSE begun
    /\ cuts' = cuts

-----------------------------------------------------------------------------
(* tx_64b_fifo: what each clock knows of the other's count.  used words have *)
(* three bits in the program; a full FIFO shows none.                        *)

rd_used == Len(tx_fifo) - rd_unseen[RD_SYNC]
wr_used == Len(tx_fifo) + wr_unseen[WR_SYNC]

\* Mutant: more than the least number of words is asked for.
dataReadyAbove ==
    rd_used = NUM_WORDS \/ rd_used % NUM_WORDS > READ_USED_WORDS

tx_data_ready == rd_used = NUM_WORDS \/ rd_used % NUM_WORDS >= READ_USED_WORDS

tx_fifo_full == wr_used % NUM_WORDS >= FULL_WORDS \/ wr_used = NUM_WORDS

fifo_empty == rd_used = 0

More(unseen, n) == [k \in DOMAIN unseen |-> unseen[k] + n]

Shift(unseen) == [k \in DOMAIN unseen |-> IF k = 1 THEN 0 ELSE unseen[k - 1]]

\* The system clock's side: a word of pkt_tx_delay is written.
WriteFifo ==
    LET written == IF tx_fifo_full THEN <<>> ELSE tx_delay
    IN  /\ tx_fifo' = tx_fifo \o written
        /\ rd_unseen' = More(rd_unseen, Len(written))
        /\ wr_unseen' = Shift(wr_unseen)

FifoHead == IF read_req /\ ~fifo_empty THEN <<Head(tx_fifo)>> ELSE <<>>

ReadFifo ==
    /\ tx_fifo' = IF FifoHead # <<>> THEN Tail(tx_fifo) ELSE tx_fifo
    /\ rd_unseen' = Shift(rd_unseen)
    /\ wr_unseen' = More(wr_unseen, Len(FifoHead))

-----------------------------------------------------------------------------
(* gbe_phy_int.sv, transmit: a byte, or half of it. *)

Symbol(byte, part) == [byte |-> byte, part |-> part]

Pins(pos) == Symbol(gmii_tx_d_d1, IF tx_sel_1000m THEN "all"
                                  ELSE IF pos THEN "high" ELSE "low")

NoSymbol == Symbol(<<"00">>, "all")

PhyInt ==
    /\ gmii_tx_d_d1' = TxD
    /\ gmii_tx_en_d1' = TxEn
    /\ tx_mii_pos' = (gmii_tx_en_d1 /\ ~tx_mii_pos)
    /\ tx_d_o' = IF gmii_tx_en_d1 THEN Pins(tx_mii_pos) ELSE NoSymbol
    /\ tx_en_o' = gmii_tx_en_d1

\* What the link partner has seen of the frame, and the frames before it.
Line ==
    /\ line' = IF tx_en_o THEN Append(line, tx_d_o) ELSE <<>>
    /\ sent' = IF ~tx_en_o /\ line # <<>> THEN sent + 1 ELSE sent

-----------------------------------------------------------------------------
(* Clock edges. *)

SysSide(w) == /\ TxCpuEdge(w, ~tx_fifo_full)
              /\ WriteFifo
              /\ edges' = 0
              /\ UNCHANGED <<ctrlVars, phyVars, lineVars, tx_sel_1000m,
                             tx_clk_en>>

\* netdma has no word, or it has to wait.
SysEdge == SysSide(<<>>) /\ UNCHANGED srcVars

Accept == /\ cpu_ready
          /\ \E s \in Sources : SysSide(<<NextWord(s)>>) /\ Give(s)

\* netdma is reset by the host: what is left of the packet never comes.
Cut == /\ src # <<>> /\ cuts < MAX_CUTS
       /\ SysSide(<<>>)
       /\ src' = <<>> /\ cuts' = cuts + 1
       /\ UNCHANGED <<begun, accepted, ends>>

\* At 10 and 100 Mbit/s every other transmit edge is enabled.
TxEdge == /\ edges < EDGES
          /\ edges' = edges + 1
          /\ tx_clk_en' = (tx_sel_1000m \/ ~tx_clk_en)
          /\ CtrlEdge(tx_clk_en, tx_data_ready, FifoHead)
          /\ ReadFifo
          /\ PhyInt
          /\ Line
          /\ UNCHANGED <<txCpuVars, srcVars, tx_sel_1000m>>

Init == /\ TxCpuReset /\ CtrlReset
        /\ src = <<>> /\ begun = 0 /\ cuts = 0 /\ accepted = <<>> /\ ends = <<>>
        /\ tx_fifo = <<>>
        /\ rd_unseen = [k \in 1 .. RD_SYNC |-> 0]
        /\ wr_unseen = [k \in 1 .. WR_SYNC |-> 0]
        /\ tx_sel_1000m \in SPEEDS /\ tx_clk_en = FALSE
        /\ gmii_tx_d_d1 = <<"00">> /\ gmii_tx_en_d1 = FALSE /\ tx_mii_pos = FALSE
        /\ tx_d_o = NoSymbol /\ tx_en_o = FALSE
        /\ edges = 0
        /\ line = <<>> /\ sent = 0

Next == SysEdge \/ Accept \/ Cut \/ TxEdge

Spec == Init /\ [][Next]_vars

\* Both clocks run.  Nothing is assumed of netdma.
FairSpec == Spec /\ WF_vars(SysEdge) /\ WF_vars(TxEdge)

-----------------------------------------------------------------------------
(* What should be on the pins. *)

Ended == Len(ends)

\* The words of packet n.
WordsOf(n) ==
    SubSeq(accepted, IF n = 1 THEN 1 ELSE ends[n - 1] + 1, ends[n])

\* The bytes of a word, and of words of which only the last is not full.
Size(w) == IF w.eop /\ w.mod # 0 THEN w.mod ELSE 8

BytesOf(words) ==
    [k \in 1 .. 8 * (Len(words) - 1) + Size(words[Len(words)]) |->
        <<"data", words[(k - 1) \div 8 + 1], (k - 1) % 8>>]

PaddedLen(len) == IF len > MIN_LAST THEN len ELSE MIN_LAST + 1

Padded(data) == [k \in 1 .. PaddedLen(Len(data)) |->
                    IF k <= Len(data) THEN data[k] ELSE <<"00">>]

\* Byte k of the frame around the padded data.
FrameByte(data, k) ==
    CASE k <= 7 -> <<"55">>
      [] k = 8 -> <<"d5">>
      [] k \in 9 .. 8 + Len(data) -> data[k - 8]
      [] k > 8 + Len(data) -> <<"fcs", data, k - Len(data) - 9>>

FrameLen(data) == 8 + Len(data) + FCS_LEN

\* At 10 and 100 Mbit/s a byte is two symbols, the low half first.
PerByte(fast) == IF fast THEN 1 ELSE 2

ByteOf(fast, j) == IF fast THEN j ELSE (j + 1) \div 2

PartOf(fast, j) == IF fast THEN "all" ELSE IF j % 2 = 1 THEN "low" ELSE "high"

OnLine(fast, data) ==
    [j \in 1 .. PerByte(fast) * FrameLen(data) |->
        Symbol(FrameByte(data, ByteOf(fast, j)), PartOf(fast, j))]

\* A frame that has ended on the pins is what the processor gave between two
\* ends of packets: a preamble, the bytes in their order, and none that is not
\* of the packet, padding up to the least length, and the CRC of exactly that;
\* at 10 and 100 Mbit/s the low half of each byte first.
FrameIsPacket ==
    ~tx_en_o /\ line # <<>> =>
        /\ sent < Ended
        /\ line = OnLine(tx_sel_1000m, Padded(BytesOf(WordsOf(sent + 1))))

\* conv_1G_tx_ctrl.v:382: the FIFO is not read when it is empty, at either
\* speed and however the clocks drift, while the stored packet streams past.
NoUnderrun == ~(read_req /\ fifo_empty)

\* A packet that is there whole is sent, unless it is one word with nothing
\* behind it: the transmitter waits for a second word.
PacketsSent ==
    \A n \in 1 .. MAX_PACKETS :
        (Ended >= n /\ (Ended > n \/ Len(WordsOf(n)) >= READ_USED_WORDS))
            ~> (sent >= n)
=============================================================================
