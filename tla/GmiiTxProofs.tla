---------------------------- MODULE GmiiTxProofs ----------------------------
(***************************************************************************)
(* The transmit converter never reads its FIFO when it is empty, and a     *)
(* frame on the pins is a packet, proved for every size of the FIFOs,      *)
(* every packet, both speeds and every drift of the two clocks within the  *)
(* bounds of Synced.                                                       *)
(*                                                                         *)
(* IInv says two things of the FIFO between the clocks, without any bound  *)
(* on the clocks: what a side knows of the other side's count is behind in *)
(* the safe direction (Counts), and after a word that does not end its     *)
(* packet the next one is at hand (AtHand).  The latter rests on tx_cpu:   *)
(* there is a token for every end of a packet in pkt_fifo (Tokens), and    *)
(* neither FIFO overflows (Room).                                          *)
(*                                                                         *)
(* TimeInv counts transmit edges.  Two reads are eight or more apart, so   *)
(* that the writing side is behind by few reads and finds room in time     *)
(* (ReadsApart); while the bytes of one word are sent the next is written, *)
(* and the count of it has come across when it is asked for (Due).         *)
(*                                                                         *)
(* FrameInv says what is where between netdma and the pins.  It rests on   *)
(* TimeInv: a read of an empty FIFO would send a word twice.               *)
(***************************************************************************)
EXTENDS GmiiTx, ScFifoTheorems

\* A word that is written within one system period is seen RD_SYNC edges
\* later, which the eight bytes of the word before it cover; and the reads that
\* the writing side does not know of never fill the FIFO by themselves.  The
\* stages and clocks of the code: 4 + 3 <= 8 and 4 * 3 <= 8 * 3.
Synced ==
    /\ RD_SYNC + EDGES <= 8
    /\ WR_SYNC * EDGES <= 8 * (FULL_WORDS - 1)

-----------------------------------------------------------------------------
(* The invariant. *)

Source == [pkt : PACKETS, sent : Nat]

Maybe(S) == {<<>>} \cup {<<x>> : x \in S}

States == {"IFG", "PREAMBLE", "SFD", "DATA", "PAD", "FCS"}

TypeOK ==
    /\ src \in Maybe(Source) /\ accepted \in Seq(Word)
    /\ pkt_fifo \in Seq(Word) /\ stat_fifo \in Seq({"packet"})
    /\ pkt_almost_full \in BOOLEAN /\ stat_almost_full \in BOOLEAN
    /\ tx_delay \in Maybe(Word) /\ tx_fifo \in Seq(Word)
    /\ rd_unseen \in [1 .. RD_SYNC -> Nat]
    /\ wr_unseen \in [1 .. WR_SYNC -> Nat]
    /\ edges \in 0 .. EDGES
    /\ tx_sel_1000m \in BOOLEAN /\ tx_clk_en \in BOOLEAN
    /\ state \in States /\ read_req \in BOOLEAN
    /\ byte_counter \in 0 .. 7 /\ preamb_counter \in 0 .. PREAMB_LEN

Room ==
    /\ Len(pkt_fifo) <= PKT_WORDS /\ Len(stat_fifo) <= STAT_WORDS
    /\ ~pkt_almost_full => Len(pkt_fifo) < PKT_WORDS
    /\ ~stat_almost_full => Len(stat_fifo) < STAT_WORDS

\* Each token stands for an end of a packet, by its number.
Tokens == \E pos : Numbers(pos, pkt_fifo, Len(stat_fifo))

\* The writes that stage k of the reading side's count does not know of.
Unseen(unseen, k) == IF k <= 0 THEN 0 ELSE unseen[k]
RdUnseen(k) == Unseen(rd_unseen, k)

Counts ==
    /\ \A k \in 1 .. RD_SYNC : RdUnseen(k - 1) <= RdUnseen(k)
    /\ RdUnseen(RD_SYNC) <= Len(tx_fifo)
    /\ \A k \in 2 .. WR_SYNC : wr_unseen[k - 1] <= wr_unseen[k]
    /\ wr_used <= FULL_WORDS

\* A word that does not end its packet has the next behind it: one in the
\* register stage has a token's packet in pkt_fifo, and the last one in the FIFO
\* between the clocks has the register stage.
AtHand ==
    /\ tx_delay # <<>> /\ ~tx_delay[1].eop => stat_fifo # <<>>
    /\ tx_fifo # <<>> /\ ~tx_fifo[Len(tx_fifo)].eop => tx_delay # <<>>

Control ==
    /\ state \in {"PREAMBLE", "SFD"} => byte_counter = 0
    /\ read_req => state = "SFD" \/ (state = "DATA" /\ byte_counter = 7)

IInv == TypeOK /\ Room /\ Tokens /\ Counts /\ AtHand /\ Control

\* The bytes of a word that has been read are being sent.
InWord == state \in {"SFD", "DATA"} /\ ~read_req

\* Transmit edges since the last read, at the least; and before the next.
SinceIn(req, st, byte, preamb) ==
    IF req THEN 7
    ELSE IF st = "DATA" THEN (IF byte = 7 THEN 0 ELSE byte)
    ELSE IF st = "PREAMBLE" THEN preamb + 1 ELSE 0
LeftIn(st, byte) == IF st = "DATA" /\ byte # 7 THEN 7 - byte ELSE 7

Since == SinceIn(read_req, state, byte_counter, preamb_counter)
Left == LeftIn(state, byte_counter)

\* Stage k of the writing side's count is as old as this, in transmit edges.
Age(k) == (k - 1) * EDGES + edges

\* Reads are eight transmit edges apart, so a stage lacks few of them.
ReadsApart ==
    \A k \in 1 .. WR_SYNC :
        wr_unseen[k] # 0 => 8 * (wr_unseen[k] - 1) + Since + 1 <= Age(k)

\* There is a word that the count will show by the time it is asked for.
Coming == Unseen(rd_unseen, RD_SYNC - Left) < Len(tx_fifo)

\* What is read is there; and within a packet the next word is there, or in the
\* register stage and written early enough.
Due ==
    /\ state = "PREAMBLE" \/ read_req => rd_used >= 1
    /\ InWord /\ ~word.eop =>
          \/ Coming
          \/ /\ tx_fifo = <<>> /\ tx_delay # <<>>
             /\ Left >= RD_SYNC + EDGES - edges

TimeInv == ReadsApart /\ Due

-----------------------------------------------------------------------------
(* The system clock: tx_cpu and the writing side. *)

\* No word or one.
LEMMA OneWord ==
    ASSUME NEW T, NEW w \in Maybe(T)
    PROVE  /\ w \in Seq(T) /\ Len(w) = (IF w = <<>> THEN 0 ELSE 1)
           /\ w # <<>> => w = <<w[1]>> /\ w[1] \in T
<1>1. CASE w = <<>>
  BY <1>1
<1>2. CASE w # <<>>
  <2>1. PICK x \in T : w = <<x>>
    BY <1>2 DEF Maybe
  <2> QED BY <2>1
<1> QED BY <1>1, <1>2

\* An almost_full register that is low has seen a FIFO with room for the word
\* of the edge it is from, and for another.
LEMMA AlmostFullRoom ==
    ASSUME NEW T, NEW q \in Seq(T), NEW n \in Nat, NEW safe \in 1 .. n - 1,
           Len(q) <= n, ~AlmostFullNext(q, n, safe)
    PROVE  Len(q) + 1 < n
<1>1. Len(q) \in Nat /\ Len(q) < n /\ ~(Len(q) % n > n - 1 - safe)
  BY DEF AlmostFullNext, FifoFull, pkt_fifo_wrusedw, ALMOST_FULL_WORDS
<1>2. Len(q) % n = Len(q)
  BY <1>1
<1> QED BY <1>1, <1>2

\* What an edge of the system clock takes from netdma, and what is left there.
LEMMA SysSideTakes ==
    ASSUME IInv, SysEdge \/ Accept \/ Cut
    PROVE  /\ src' \in Maybe(Source) /\ accepted' \in Seq(Word)
           /\ \E w \in Maybe(Word) :
                 /\ SysSide(w) /\ (w # <<>> => cpu_ready)
                 /\ accepted' = accepted \o w
                 /\ ends' = IF w # <<>> /\ w[1].eop
                            THEN Append(ends, Len(accepted) + 1) ELSE ends
<1> USE DEF IInv, TypeOK
<1>1. <<>> \in Maybe(Word) /\ <<>> \in Maybe(Source)
  BY DEF Maybe
<1>0. accepted \o <<>> = accepted
  OBVIOUS
<1>2. CASE SysEdge
  BY <1>0, <1>1, <1>2 DEF SysEdge, srcVars
<1>3. CASE Cut
  BY <1>0, <1>1, <1>3 DEF Cut
<1>4. CASE Accept
  <2>1. PICK s \in Sources : SysSide(<<NextWord(s)>>) /\ Give(s)
    BY <1>4 DEF Accept
  <2>2. s \in Source
    <3>1. CASE src # <<>>
      <4>1. src[1] \in Source
        BY <3>1, OneWord
      <4> QED BY <4>1, <2>1, <3>1 DEF Sources
    <3>2. CASE src = <<>>
      BY <2>1, <3>2 DEF Sources, Source
    <3> QED BY <3>1, <3>2
  <2>3. NextWord(s) \in Word
    <3>1. s.pkt.mod \in 0 .. 7 /\ Len(accepted) + 1 \in Nat
      BY <2>2, GmiiTxAssumption DEF Source
    <3> QED BY <3>1 DEF NextWord, Word
  <2>4. <<NextWord(s)>> \in Maybe(Word) /\ accepted' \in Seq(Word)
    BY <2>1, <2>3 DEF Give, Maybe
  <2>5. [s EXCEPT !.sent = s.sent + 1] \in Source
    <3>1. s.sent + 1 \in Nat
      BY <2>2 DEF Source
    <3> QED BY <3>1, <2>2 DEF Source
  <2>6. src' \in Maybe(Source)
    BY <2>1, <2>5 DEF Give, Maybe
  <2>7. accepted' = accepted \o <<NextWord(s)>>
    BY <2>1, <2>3 DEF Give
  <2>8. ends' = IF NextWord(s).eop THEN Append(ends, Len(accepted) + 1)
                ELSE ends
    BY <2>1 DEF Give
  <2>9. <<NextWord(s)>> # <<>> /\ <<NextWord(s)>>[1] = NextWord(s)
    OBVIOUS
  <2> HIDE DEF IInv, TypeOK
  <2>10. /\ cpu_ready /\ SysSide(<<NextWord(s)>>)
         /\ <<NextWord(s)>> \in Maybe(Word)
    BY <2>1, <2>4, <1>4 DEF Accept
  <2> QED BY <2>4, <2>6, <2>7, <2>8, <2>9, <2>10
<1> QED BY <1>2, <1>3, <1>4

\* The FIFO of words and that of tokens move together.
LEMMA CpuStep ==
    ASSUME IInv, NEW w \in Maybe(Word), w # <<>> => cpu_ready,
           NEW ready \in BOOLEAN, TxCpuEdge(w, ready)
    PROVE  /\ pkt_fifo' \in Seq(Word) /\ stat_fifo' \in Seq({"packet"})
           /\ pkt_almost_full' \in BOOLEAN /\ stat_almost_full' \in BOOLEAN
           /\ tx_delay' \in Maybe(Word)
           /\ Room' /\ Tokens'
           /\ tx_delay' # <<>> /\ ~tx_delay'[1].eop => stat_fifo' # <<>>
           /\ tx_delay # <<>> /\ ~tx_delay[1].eop => tx_delay' # <<>>
           /\ tx_delay # <<>> /\ ~ready => tx_delay' = tx_delay
           /\ \E r \in {0, 1} :
                 /\ Moves(pkt_fifo, pkt_fifo', r, Len(w))
                 /\ r = 1 => delay_ready(ready)
                 /\ delay_ready(ready) =>
                       tx_delay' = IF r = 1 THEN <<pkt_fifo[1]>> ELSE <<>>
           /\ w # <<>> => pkt_fifo'[Len(pkt_fifo')] = w[1]
<1>0. /\ pkt_fifo \in Seq(Word) /\ stat_fifo \in Seq({"packet"})
      /\ tx_delay \in Maybe(Word)
      /\ Room /\ Tokens /\ AtHand
  BY DEF IInv, TypeOK
<1>00. Len(pkt_fifo) \in Nat /\ Len(stat_fifo) \in Nat
  BY <1>0
<1> DEFINE rd   == cpu_val /\ delay_ready(ready)
           read == IF rd THEN <<Head(pkt_fifo)>> ELSE <<>>
           r    == IF rd THEN 1 ELSE 0
           d    == IF rd /\ pkt_fifo[1].eop THEN 1 ELSE 0
           e    == IF w # <<>> /\ w[1].eop THEN 1 ELSE 0
<1>1. rd \in BOOLEAN /\ (rd => pkt_fifo # <<>> /\ stat_fifo # <<>>)
  BY DEF cpu_val, delay_ready, stat_fifo_rd_ready, FifoEmpty
<1>2. /\ pkt_fifo' = FifoEdge(pkt_fifo, PKT_WORDS, w, rd)
      /\ stat_fifo' = FifoEdge(stat_fifo, STAT_WORDS, Token(w), d = 1)
      /\ pkt_almost_full' = AlmostFullNext(pkt_fifo, PKT_WORDS, PKT_SAFE_WORDS)
      /\ stat_almost_full' =
             AlmostFullNext(stat_fifo, STAT_WORDS, STAT_SAFE_WORDS)
      /\ tx_delay' = IF delay_ready(ready) THEN read ELSE tx_delay
  <2>1. (Token(read) # <<>>) = (d = 1)
    <3>1. rd => Head(pkt_fifo) = pkt_fifo[1]
      BY <1>0, <1>1
    <3> QED BY <3>1 DEF Token
  <2> QED BY <2>1 DEF TxCpuEdge
<1>3. /\ PKT_WORDS \in Nat /\ PKT_SAFE_WORDS \in 1 .. PKT_WORDS - 1
      /\ STAT_WORDS \in Nat /\ STAT_SAFE_WORDS \in 1 .. STAT_WORDS - 1
  BY GmiiTxAssumption
<1>4. /\ w \in Seq(Word) /\ Len(w) <= 1 /\ Len(w) \in {0, 1}
      /\ (Len(w) = 0 <=> w = <<>>)
      /\ w # <<>> => Len(pkt_fifo) < PKT_WORDS /\ Len(stat_fifo) < STAT_WORDS
  <2>1. w # <<>> => Len(pkt_fifo) < PKT_WORDS /\ Len(stat_fifo) < STAT_WORDS
    BY <1>0 DEF cpu_ready, stat_fifo_wr_ready, Room
  <2>2. w \in Seq(Word) /\ Len(w) = (IF w = <<>> THEN 0 ELSE 1)
    BY OneWord
  <2>3. Len(w) \in {0, 1} /\ (Len(w) = 0 <=> w = <<>>) /\ Len(w) <= 1
    <3>1. CASE w = <<>>
      BY <3>1, <2>2
    <3>2. CASE w # <<>>
      BY <3>2, <2>2
    <3> QED BY <3>1, <3>2
  <2> QED BY <2>1, <2>2, <2>3
<1>5. /\ Token(w) \in Seq({"packet"}) /\ Len(Token(w)) = e
      /\ (e = 1 <=> Token(w) # <<>>) /\ (e = 1 => w # <<>>)
  <2>1. CASE w # <<>> /\ w[1].eop
    <3>1. Token(w) = <<"packet">> /\ e = 1
      BY <2>1 DEF Token
    <3>2. <<"packet">> \in Seq({"packet"}) /\ Len(<<"packet">>) = 1
      OBVIOUS
    <3> QED BY <3>1, <3>2, <2>1
  <2>2. CASE ~(w # <<>> /\ w[1].eop)
    <3>1. Token(w) = <<>> /\ e = 0
      BY <2>2 DEF Token
    <3> QED BY <3>1
  <2> QED BY <2>1, <2>2
<1>6. /\ r \in {0, 1} /\ d \in {0, 1} /\ e \in {0, 1}
      /\ r = (IF rd /\ pkt_fifo # <<>> THEN 1 ELSE 0)
      /\ (d = 1 <=> r = 1 /\ pkt_fifo[1].eop)
      /\ d = (IF d = 1 /\ stat_fifo # <<>> THEN 1 ELSE 0)
      /\ (r = 1 <=> rd) /\ (e = 1 <=> w # <<>> /\ w[1].eop)
  BY <1>1
<1> HIDE DEF rd, r, d, e
<1>7. /\ pkt_fifo' \in Seq(Word)
      /\ Len(pkt_fifo') = Len(pkt_fifo) + Len(w) - r
      /\ Len(pkt_fifo') <= PKT_WORDS
  <2>1. Len(pkt_fifo) < PKT_WORDS \/ w = <<>>
    BY <1>4
  <2>2. pkt_fifo' \in Seq(Word) /\ Len(pkt_fifo') <= PKT_WORDS
    BY <1>0, <1>1, <1>2, <1>3, <1>4, FifoEdgeType DEF Room
  <2>3. Len(FifoEdge(pkt_fifo, PKT_WORDS, w, rd)) =
            Len(pkt_fifo) + Len(w)
                - (IF rd /\ pkt_fifo # <<>> THEN 1 ELSE 0)
    BY <2>1, <1>0, <1>1, <1>3, <1>4, FifoEdgeLen
  <2> QED BY <2>2, <2>3, <1>2, <1>6
<1>8. /\ stat_fifo' \in Seq({"packet"})
      /\ Len(stat_fifo') = Len(stat_fifo) - d + e
      /\ Len(stat_fifo') <= STAT_WORDS
  <2>1. Len(stat_fifo) < STAT_WORDS \/ Token(w) = <<>>
    BY <1>4, <1>5
  <2>2. (d = 1) \in BOOLEAN
    OBVIOUS
  <2>3. Len(Token(w)) <= 1
    BY <1>5, <1>6
  <2>4. stat_fifo' \in Seq({"packet"}) /\ Len(stat_fifo') <= STAT_WORDS
    BY <2>2, <2>3, <1>0, <1>2, <1>3, <1>5,
       FifoEdgeType DEF Room
  <2>5. Len(stat_fifo') = Len(stat_fifo) + Len(Token(w)) - d
    <3>1. ASSUME NEW b \in BOOLEAN
          PROVE  Len(FifoEdge(stat_fifo, STAT_WORDS, Token(w), b)) =
                     Len(stat_fifo) + Len(Token(w))
                         - (IF b /\ stat_fifo # <<>> THEN 1 ELSE 0)
      BY <2>1, <1>0, <1>3, <1>5, FifoEdgeLen
    <3> QED BY <3>1, <2>2, <1>2, <1>6
  <2> QED BY <2>4, <2>5, <1>00, <1>5, <1>6
<1>9. Moves(pkt_fifo, pkt_fifo', r, Len(w))
  <2>1. ASSUME NEW j \in 1 .. Len(pkt_fifo) - r
        PROVE  pkt_fifo'[j] = pkt_fifo[j + r]
    <3>1. Len(pkt_fifo) < PKT_WORDS \/ w = <<>>
      BY <1>4
    <3> QED BY <3>1, <1>0, <1>1, <1>2, <1>3, <1>4, <1>6, FifoEdgeKept
  <2>2. r = 1 => pkt_fifo # <<>>
    BY <1>1, <1>6
  <2> QED BY <2>1, <2>2, <1>4, <1>6, <1>7 DEF Moves
<1>19. w # <<>> => pkt_fifo'[Len(pkt_fifo')] = w[1] /\ Len(w) = 1
  <2> SUFFICES ASSUME w # <<>>
               PROVE  pkt_fifo'[Len(pkt_fifo')] = w[1] /\ Len(w) = 1
    OBVIOUS
  <2>1. pkt_fifo'[Len(FifoRead(pkt_fifo, rd)) + 1] = w[1]
    BY <1>0, <1>1, <1>2, <1>3, <1>4, FifoEdgeWritten
  <2>2. Len(FifoRead(pkt_fifo, rd)) = Len(pkt_fifo) - r
    BY <1>0, <1>1, <1>6, FifoReadType
  <2>3. Len(w) = 1
    BY <1>4
  <2>4. Len(FifoRead(pkt_fifo, rd)) + 1 = Len(pkt_fifo')
    BY <2>2, <2>3, <1>00, <1>7, <1>6
  <2> QED BY <2>1, <2>3, <2>4
<1>10. e = 1 <=> Len(w) = 1 /\ pkt_fifo'[Len(pkt_fifo')].eop
  <2>1. CASE w = <<>>
    BY <2>1, <1>4, <1>6
  <2>2. CASE w # <<>>
    BY <2>2, <1>6, <1>19
  <2> QED BY <2>1, <2>2
<1>20. \E x \in {0, 1} :
          /\ Moves(pkt_fifo, pkt_fifo', x, Len(w))
          /\ x = 1 => delay_ready(ready)
          /\ delay_ready(ready) =>
                tx_delay' = IF x = 1 THEN <<pkt_fifo[1]>> ELSE <<>>
  <2>1. rd => delay_ready(ready) /\ Head(pkt_fifo) = pkt_fifo[1]
    BY <1>0, <1>1 DEF rd
  <2>2. delay_ready(ready) =>
            tx_delay' = IF r = 1 THEN <<pkt_fifo[1]>> ELSE <<>>
    BY <2>1, <1>2, <1>6
  <2> QED BY <2>1, <2>2, <1>6, <1>9
<1>11. PICK pos : Numbers(pos, pkt_fifo, Len(stat_fifo))
  BY <1>0 DEF Tokens
<1>12. d <= Len(stat_fifo)
       /\ \E p2 : Renumbers(pos, p2, Len(stat_fifo), pkt_fifo', r, d, e)
  <2> QED BY <1>0, <1>00, <1>4, <1>6, <1>7, <1>9, <1>10, <1>11, Renumber
<1>13. Tokens'
  BY <1>8, <1>12 DEF Renumbers, Tokens
<1>14. Room'
  <2>1. ~pkt_almost_full' => Len(pkt_fifo') < PKT_WORDS
    <3> SUFFICES ASSUME ~pkt_almost_full' PROVE Len(pkt_fifo') < PKT_WORDS
      OBVIOUS
    <3>1. /\ ~AlmostFullNext(pkt_fifo, PKT_WORDS, PKT_SAFE_WORDS)
          /\ Len(pkt_fifo) <= PKT_WORDS
      BY <1>0, <1>2 DEF Room
    <3>2. Len(pkt_fifo) + 1 < PKT_WORDS
      BY <3>1, <1>0, <1>3, AlmostFullRoom
    <3> QED BY <3>2, <1>00, <1>3, <1>4, <1>6, <1>7
  <2>2. ~stat_almost_full' => Len(stat_fifo') < STAT_WORDS
    <3> SUFFICES ASSUME ~stat_almost_full' PROVE Len(stat_fifo') < STAT_WORDS
      OBVIOUS
    <3>1. /\ ~AlmostFullNext(stat_fifo, STAT_WORDS, STAT_SAFE_WORDS)
          /\ Len(stat_fifo) <= STAT_WORDS
      BY <1>0, <1>2 DEF Room
    <3>2. Len(stat_fifo) + 1 < STAT_WORDS
      BY <3>1, <1>0, <1>3, AlmostFullRoom
    <3> QED BY <3>2, <1>00, <1>3, <1>6, <1>8
  <2> QED BY <2>1, <2>2, <1>7, <1>8 DEF Room
<1>15. tx_delay' \in Maybe(Word)
  <2>1. rd => Head(pkt_fifo) \in Word
    BY <1>0, <1>1
  <2>2. read \in Maybe(Word)
    BY <2>1 DEF Maybe
  <2> QED BY <2>2, <1>0, <1>2
<1>16. tx_delay' # <<>> /\ ~tx_delay'[1].eop => stat_fifo' # <<>>
  <2> SUFFICES ASSUME tx_delay' # <<>>, ~tx_delay'[1].eop
               PROVE  stat_fifo' # <<>>
    OBVIOUS
  <2>1. stat_fifo # <<>> /\ d = 0
    <3>1. CASE delay_ready(ready)
      <4>1. rd /\ tx_delay' = <<Head(pkt_fifo)>>
        BY <3>1, <1>2
      <4>2. ~pkt_fifo[1].eop
        BY <4>1, <1>0, <1>1
      <4> QED BY <4>1, <4>2, <1>1, <1>6
    <3>2. CASE ~delay_ready(ready)
      <4>1. ~rd /\ tx_delay' = tx_delay
        BY <3>2, <1>2 DEF rd
      <4> QED BY <4>1, <1>0, <1>6 DEF AtHand
    <3> QED BY <3>1, <3>2
  <2>2. Len(stat_fifo) >= 1 /\ Len(stat_fifo) \in Nat
    BY <2>1, <1>0
  <2>3. Len(stat_fifo') >= 1
    BY <2>1, <2>2, <1>6, <1>8
  <2> QED BY <2>3
<1>17. tx_delay # <<>> /\ ~tx_delay[1].eop => tx_delay' # <<>>
  <2> SUFFICES ASSUME tx_delay # <<>>, ~tx_delay[1].eop
               PROVE  tx_delay' # <<>>
    OBVIOUS
  <2>1. stat_fifo # <<>>
    BY <1>0 DEF AtHand
  <2>2. pkt_fifo # <<>>
    <3>1. 1 \in 1 .. Len(stat_fifo)
      BY <2>1, <1>0
    <3>2. pos[1] \in 1 .. Len(pkt_fifo)
      BY <3>1, <1>11 DEF Numbers
    <3> QED BY <3>2
  <2>3. delay_ready(ready) => rd
    BY <2>1, <2>2 DEF rd, cpu_val, stat_fifo_rd_ready, FifoEmpty
  <2> QED BY <2>3, <1>2
<1>18. tx_delay # <<>> /\ ~ready => tx_delay' = tx_delay
  BY <1>2 DEF delay_ready
<1>21. pkt_almost_full' \in BOOLEAN /\ stat_almost_full' \in BOOLEAN
  BY <1>2 DEF AlmostFullNext, FifoFull
<1> QED BY <1>7, <1>8, <1>13, <1>14, <1>15, <1>16, <1>17, <1>18, <1>19,
           <1>20, <1>21


-----------------------------------------------------------------------------
(* The FIFO between the clocks. *)

\* What the two sides know are numbers, and the writing side's does not pass
\* the words that make the FIFO full.
LEMMA UsedFacts ==
    ASSUME TypeOK, Counts
    PROVE  /\ Len(tx_fifo) \in Nat
           /\ \A k \in Int : k <= RD_SYNC => RdUnseen(k) \in Nat
           /\ \A k \in 1 .. RD_SYNC : RdUnseen(k) = rd_unseen[k]
           /\ \A k \in 1 .. WR_SYNC : wr_unseen[k] \in Nat
           /\ rd_used = Len(tx_fifo) - RdUnseen(RD_SYNC) /\ rd_used \in Nat
           /\ wr_used = Len(tx_fifo) + wr_unseen[WR_SYNC] /\ wr_used \in Nat
           /\ tx_fifo_full <=> wr_used = FULL_WORDS
           /\ RD_SYNC \in Nat \ {0} /\ WR_SYNC \in Nat \ {0}
           /\ EDGES \in Nat \ {0} /\ FULL_WORDS \in Nat \ {0}
<1>1. /\ RD_SYNC \in Nat \ {0} /\ WR_SYNC \in Nat \ {0}
      /\ EDGES \in Nat \ {0} /\ READ_USED_WORDS \in 1 .. FULL_WORDS
      /\ FULL_WORDS < NUM_WORDS
      /\ FULL_WORDS \in Nat \ {0} /\ NUM_WORDS \in Nat \ {0}
  BY GmiiTxAssumption
<1>2. /\ Len(tx_fifo) \in Nat
      /\ rd_unseen \in [1 .. RD_SYNC -> Nat]
      /\ wr_unseen \in [1 .. WR_SYNC -> Nat]
  BY DEF TypeOK
<1>3. \A k \in Int : k <= RD_SYNC => RdUnseen(k) \in Nat
  BY <1>1, <1>2 DEF RdUnseen, Unseen
<1>4. \A k \in 1 .. RD_SYNC : RdUnseen(k) = rd_unseen[k]
  BY DEF RdUnseen, Unseen
<1>5. \A k \in 1 .. WR_SYNC : wr_unseen[k] \in Nat
  BY <1>2
<1>6. rd_used = Len(tx_fifo) - RdUnseen(RD_SYNC) /\ rd_used \in Nat
  <2>1. RD_SYNC \in 1 .. RD_SYNC
    BY <1>1
  <2>2. rd_used = Len(tx_fifo) - RdUnseen(RD_SYNC)
    BY <2>1, <1>4 DEF rd_used
  <2>3. RdUnseen(RD_SYNC) <= Len(tx_fifo)
    BY DEF Counts
  <2>4. RdUnseen(RD_SYNC) \in Nat
    BY <1>1, <1>3
  <2> QED BY <2>2, <2>3, <2>4, <1>2
<1>7. /\ wr_used = Len(tx_fifo) + wr_unseen[WR_SYNC] /\ wr_used \in Nat
      /\ wr_used <= FULL_WORDS
  <2>1. WR_SYNC \in 1 .. WR_SYNC
    BY <1>1
  <2>2. wr_unseen[WR_SYNC] \in Nat
    BY <2>1, <1>5
  <2>3. wr_used = Len(tx_fifo) + wr_unseen[WR_SYNC]
    BY DEF wr_used
  <2> QED BY <2>2, <2>3, <1>2 DEF Counts
<1>8. tx_fifo_full <=> wr_used = FULL_WORDS
  <2>1. wr_used % NUM_WORDS = wr_used /\ wr_used # NUM_WORDS
    BY <1>1, <1>7
  <2> QED BY <2>1, <1>1, <1>7 DEF tx_fifo_full
<1> QED BY <1>1, <1>2, <1>3, <1>4, <1>5, <1>6, <1>7, <1>8

\* n words, none or one, are written on an edge of the system clock.
LEMMA Writes ==
    ASSUME IInv, WriteFifo
    PROVE  \E n \in {0, 1} :
              /\ n = 1 <=> ~tx_fifo_full /\ tx_delay # <<>>
              /\ tx_fifo' \in Seq(Word) /\ Len(tx_fifo') = Len(tx_fifo) + n
              /\ n = 0 => tx_fifo' = tx_fifo
              /\ n = 1 => tx_fifo'[Len(tx_fifo')] = tx_delay[1]
              /\ \A j \in 1 .. Len(tx_fifo) : tx_fifo'[j] = tx_fifo[j]
              /\ rd_unseen' = [k \in 1 .. RD_SYNC |-> rd_unseen[k] + n]
              /\ wr_unseen' = [k \in 1 .. WR_SYNC |->
                                  IF k = 1 THEN 0 ELSE wr_unseen[k - 1]]
<1>1. /\ tx_fifo \in Seq(Word) /\ tx_delay \in Maybe(Word)
      /\ rd_unseen \in [1 .. RD_SYNC -> Nat]
      /\ wr_unseen \in [1 .. WR_SYNC -> Nat]
  BY DEF IInv, TypeOK
<1>2. wr_unseen' = [k \in 1 .. WR_SYNC |->
                       IF k = 1 THEN 0 ELSE wr_unseen[k - 1]]
  BY <1>1 DEF WriteFifo, Shift
<1>3. CASE ~tx_fifo_full /\ tx_delay # <<>>
  <2>1. tx_delay = <<tx_delay[1]>> /\ tx_delay[1] \in Word
    BY <1>1, <1>3, OneWord
  <2>2. tx_fifo' = tx_fifo \o <<tx_delay[1]>>
    BY <2>1, <1>3 DEF WriteFifo
  <2>3. /\ tx_fifo' \in Seq(Word) /\ Len(tx_fifo') = Len(tx_fifo) + 1
        /\ tx_fifo'[Len(tx_fifo')] = tx_delay[1]
        /\ \A j \in 1 .. Len(tx_fifo) : tx_fifo'[j] = tx_fifo[j]
    BY <2>1, <2>2, <1>1
  <2>4. rd_unseen' = [k \in 1 .. RD_SYNC |-> rd_unseen[k] + 1]
    <3>1. Len(tx_delay) = 1
      BY <2>1
    <3> QED BY <3>1, <1>1, <1>3 DEF WriteFifo, More
  <2> WITNESS 1 \in {0, 1}
  <2> QED BY <2>3, <2>4, <1>2, <1>3
<1>4. CASE ~(~tx_fifo_full /\ tx_delay # <<>>)
  <2>1. tx_fifo' = tx_fifo \o <<>>
    BY <1>4 DEF WriteFifo
  <2>2. tx_fifo' = tx_fifo /\ Len(tx_fifo') = Len(tx_fifo) + 0
    BY <2>1, <1>1
  <2>3. rd_unseen' = [k \in 1 .. RD_SYNC |-> rd_unseen[k] + 0]
    <3>1. Len(<<>>) = 0
      OBVIOUS
    <3> QED BY <3>1, <1>1, <1>4 DEF WriteFifo, More
  <2>4. tx_fifo' \in Seq(Word)
    BY <2>2, <1>1
  <2> WITNESS 0 \in {0, 1}
  <2> QED BY <2>2, <2>3, <2>4, <1>2, <1>4
<1> QED BY <1>3, <1>4

\* On an edge of the system clock nothing is read.
LEMMA SysStep ==
    ASSUME IInv, SysEdge \/ Accept \/ Cut
    PROVE  IInv'
<1>1. PICK w \in Maybe(Word) : SysSide(w) /\ (w # <<>> => cpu_ready)
  BY SysSideTakes
<1>2. /\ pkt_fifo' \in Seq(Word) /\ stat_fifo' \in Seq({"packet"})
      /\ pkt_almost_full' \in BOOLEAN /\ stat_almost_full' \in BOOLEAN
      /\ tx_delay' \in Maybe(Word)
      /\ Room' /\ Tokens'
      /\ tx_delay' # <<>> /\ ~tx_delay'[1].eop => stat_fifo' # <<>>
      /\ tx_delay # <<>> /\ ~tx_delay[1].eop => tx_delay' # <<>>
      /\ tx_delay # <<>> /\ tx_fifo_full => tx_delay' = tx_delay
  <2>1. tx_fifo_full \in BOOLEAN /\ TxCpuEdge(w, ~tx_fifo_full)
    BY <1>1 DEF SysSide, tx_fifo_full
  <2> QED BY <1>1, <2>1, CpuStep
<1>3. PICK n \in {0, 1} :
         /\ n = 1 <=> ~tx_fifo_full /\ tx_delay # <<>>
         /\ tx_fifo' \in Seq(Word) /\ Len(tx_fifo') = Len(tx_fifo) + n
         /\ n = 0 => tx_fifo' = tx_fifo
         /\ n = 1 => tx_fifo'[Len(tx_fifo')] = tx_delay[1]
         /\ rd_unseen' = [k \in 1 .. RD_SYNC |-> rd_unseen[k] + n]
         /\ wr_unseen' = [k \in 1 .. WR_SYNC |->
                             IF k = 1 THEN 0 ELSE wr_unseen[k - 1]]
  BY <1>1, Writes DEF SysSide
<1>4. /\ UNCHANGED ctrlVars /\ UNCHANGED <<tx_sel_1000m, tx_clk_en>>
      /\ edges' = 0
  BY <1>1 DEF SysSide
<1>5. TypeOK /\ Counts /\ AtHand /\ Control
  BY DEF IInv
<1>6. TypeOK'
  <2>1. rd_unseen' \in [1 .. RD_SYNC -> Nat]
    BY <1>3, <1>5 DEF TypeOK
  <2>2. wr_unseen' \in [1 .. WR_SYNC -> Nat]
    <3>1. ASSUME NEW k \in 1 .. WR_SYNC, k # 1 PROVE wr_unseen[k - 1] \in Nat
      <4>1. k - 1 \in 1 .. WR_SYNC
        BY <3>1, UsedFacts, <1>5
      <4> QED BY <4>1, <1>5 DEF TypeOK
    <3> QED BY <3>1, <1>3
  <2>3. edges' \in 0 .. EDGES
    BY <1>4, <1>5, UsedFacts
  <2>4. src' \in Maybe(Source) /\ accepted' \in Seq(Word)
    BY SysSideTakes
  <2> QED BY <2>1, <2>2, <2>3, <2>4, <1>2, <1>3, <1>4, <1>5
          DEF TypeOK, ctrlVars
<1>7. Counts'
  <2>1. \A k \in 1 .. RD_SYNC : RdUnseen(k - 1)' <= RdUnseen(k)'
    <3> TAKE k \in 1 .. RD_SYNC
    <3>1. RdUnseen(k - 1) <= RdUnseen(k) /\ RdUnseen(k) = rd_unseen[k]
          /\ RdUnseen(k) \in Nat
      BY <1>5, UsedFacts DEF Counts
    <3>2. RdUnseen(k)' = RdUnseen(k) + n
      BY <3>1, <1>3 DEF RdUnseen, Unseen
    <3>3. CASE k = 1
      BY <3>1, <3>2, <3>3 DEF RdUnseen, Unseen
    <3>4. CASE k # 1
      <4>1. k - 1 \in 1 .. RD_SYNC /\ ~(k - 1 <= 0)
        BY <3>4, <1>5, UsedFacts
      <4>2. /\ RdUnseen(k - 1)' = RdUnseen(k - 1) + n
            /\ RdUnseen(k - 1) \in Nat
        BY <4>1, <1>3, <1>5, UsedFacts DEF RdUnseen, Unseen
      <4> QED BY <3>1, <3>2, <4>2
    <3> QED BY <3>3, <3>4
  <2>2. RdUnseen(RD_SYNC)' <= Len(tx_fifo')
    <3>1. /\ RD_SYNC \in 1 .. RD_SYNC /\ ~(RD_SYNC <= 0)
          /\ RdUnseen(RD_SYNC) \in Nat /\ Len(tx_fifo) \in Nat
          /\ RdUnseen(RD_SYNC) <= Len(tx_fifo)
      BY <1>5, UsedFacts DEF Counts
    <3>2. RdUnseen(RD_SYNC)' = RdUnseen(RD_SYNC) + n
      BY <3>1, <1>3 DEF RdUnseen, Unseen
    <3> QED BY <3>1, <3>2, <1>3
  <2>3. \A k \in 2 .. WR_SYNC : wr_unseen'[k - 1] <= wr_unseen'[k]
    <3> TAKE k \in 2 .. WR_SYNC
    <3>1. k \in 1 .. WR_SYNC /\ k - 1 \in 1 .. WR_SYNC /\ k # 1
      BY <1>5, UsedFacts
    <3>2. wr_unseen'[k] = wr_unseen[k - 1] /\ wr_unseen[k - 1] \in Nat
      BY <3>1, <1>3, <1>5, UsedFacts
    <3>3. CASE k = 2
      <4>1. wr_unseen'[k - 1] = 0
        BY <3>1, <3>3, <1>3
      <4> QED BY <4>1, <3>2
    <3>4. CASE k # 2
      <4>1. k - 1 \in 2 .. WR_SYNC /\ k - 1 # 1
        BY <3>1, <3>4
      <4>2. wr_unseen'[k - 1] = wr_unseen[(k - 1) - 1]
        BY <3>1, <4>1, <1>3
      <4>3. wr_unseen[(k - 1) - 1] <= wr_unseen[k - 1]
        BY <4>1, <1>5 DEF Counts
      <4> QED BY <4>2, <4>3, <3>2
    <3> QED BY <3>3, <3>4
  <2>4. wr_used' <= FULL_WORDS
    <3>1. wr_unseen'[WR_SYNC] <= wr_unseen[WR_SYNC]
          /\ wr_unseen'[WR_SYNC] \in Nat /\ wr_unseen[WR_SYNC] \in Nat
      <4>1. WR_SYNC \in 1 .. WR_SYNC /\ wr_unseen[WR_SYNC] \in Nat
        BY <1>5, UsedFacts
      <4>2. CASE WR_SYNC = 1
        BY <4>1, <4>2, <1>3
      <4>3. CASE WR_SYNC # 1
        <5>1. WR_SYNC \in 2 .. WR_SYNC /\ WR_SYNC - 1 \in 1 .. WR_SYNC
          BY <4>1, <4>3
        <5>2. wr_unseen'[WR_SYNC] = wr_unseen[WR_SYNC - 1]
          BY <4>1, <4>3, <1>3
        <5>3. /\ wr_unseen[WR_SYNC - 1] <= wr_unseen[WR_SYNC]
              /\ wr_unseen[WR_SYNC - 1] \in Nat
          BY <5>1, <1>5, UsedFacts DEF Counts
        <5> QED BY <5>2, <5>3, <4>1
      <4> QED BY <4>2, <4>3
    <3>2. /\ wr_used = Len(tx_fifo) + wr_unseen[WR_SYNC] /\ wr_used \in Nat
          /\ (tx_fifo_full <=> wr_used = FULL_WORDS) /\ Len(tx_fifo) \in Nat
          /\ FULL_WORDS \in Nat
      BY <1>5, UsedFacts
    <3>3. wr_used <= FULL_WORDS
      BY <1>5 DEF Counts
    <3>4. n = 1 => wr_used < FULL_WORDS
      BY <3>2, <3>3, <1>3
    <3>5. wr_used' = (Len(tx_fifo) + n) + wr_unseen'[WR_SYNC]
      BY <1>3 DEF wr_used
    <3> QED BY <3>1, <3>2, <3>3, <3>4, <3>5, <1>3
  <2> QED BY <2>1, <2>2, <2>3, <2>4 DEF Counts
<1>8. AtHand'
  <2>1. ASSUME tx_fifo' # <<>>, ~tx_fifo'[Len(tx_fifo')].eop
        PROVE  tx_delay' # <<>>
    <3>1. CASE n = 1
      <4>1. tx_delay # <<>> /\ ~tx_delay[1].eop
        BY <3>1, <2>1, <1>3
      <4> QED BY <4>1, <1>2
    <3>2. CASE n = 0
      <4>1. tx_delay # <<>>
        BY <3>2, <2>1, <1>3, <1>5 DEF AtHand
      <4>2. tx_fifo_full
        BY <3>2, <4>1, <1>3
      <4> QED BY <4>1, <4>2, <1>2
    <3> QED BY <3>1, <3>2
  <2> QED BY <2>1, <1>2 DEF AtHand
<1>9. Control'
  BY <1>4, <1>5 DEF Control, ctrlVars
<1> QED BY <1>2, <1>6, <1>7, <1>8, <1>9 DEF IInv


-----------------------------------------------------------------------------
(* The transmit clock: the state machine. *)

\* The ways an edge of the transmit clock can take the state machine.
Held == /\ state' = state /\ byte_counter' = byte_counter
        /\ preamb_counter' = preamb_counter /\ ~read_req'

Gap == /\ state \in {"IFG", "PAD", "FCS"} /\ state' \in {"IFG", "PAD", "FCS"}
       /\ ~read_req'

Begins == /\ state = "IFG" /\ state' = "PREAMBLE" /\ tx_data_ready
          /\ byte_counter' = 0 /\ preamb_counter' = 0 /\ ~read_req'

Preamble == /\ state = "PREAMBLE" /\ preamb_counter < PREAMB_LEN
            /\ state' = "PREAMBLE" /\ preamb_counter' = preamb_counter + 1
            /\ byte_counter' = byte_counter /\ ~read_req'

Asks == /\ state = "PREAMBLE" /\ preamb_counter = PREAMB_LEN
        /\ state' = "SFD" /\ byte_counter' = byte_counter /\ read_req'

Delimits == /\ state = "SFD" /\ state' = "DATA"
            /\ byte_counter' = byte_counter /\ ~read_req'

Sends == /\ state = "DATA" /\ state' \in {"DATA", "PAD", "FCS"}
         /\ byte_counter' = (byte_counter + 1) % 8
         /\ read_req' => state' = "DATA" /\ byte_counter = 6 /\ ~word.eop
         /\ byte_counter = 6 /\ ~word.eop => read_req'

LEMMA CtrlMoves ==
    ASSUME TypeOK, TxEdge
    PROVE  /\ Held \/ Gap \/ Begins \/ Preamble \/ Asks \/ Delimits \/ Sends
           /\ byte_counter' \in 0 .. 7 /\ preamb_counter' \in 0 .. PREAMB_LEN
           /\ read_req' \in BOOLEAN
<1> USE DEF TypeOK, States
<1>1. CtrlEdge(tx_clk_en, tx_data_ready, FifoHead)
  BY DEF TxEdge
<1>2. read_req' = (tx_clk_en /\ ReadReq(tx_data_ready))
  BY <1>1 DEF CtrlEdge
<1>3. read_req' \in BOOLEAN
  BY <1>2
<1>4. CASE ~tx_clk_en
  BY <1>1, <1>2, <1>3, <1>4 DEF CtrlEdge, Held
<1>5. CASE tx_clk_en
  <2>1. /\ state' = next_state(tx_data_ready)
        /\ Counters
        /\ read_req' = ReadReq(tx_data_ready)
    <3>1. EnabledEdge(tx_data_ready)
      BY <1>1, <1>5 DEF CtrlEdge
    <3>2. ReadReq(tx_data_ready) \in BOOLEAN
      BY DEF ReadReq
    <3>3. read_req' = ReadReq(tx_data_ready)
      BY <3>2, <1>2, <1>5
    <3> QED BY <3>1, <3>3 DEF EnabledEdge
  <2>2. preamb_counter' \in 0 .. PREAMB_LEN
    BY <2>1 DEF Counters, PREAMB_LEN
  <2>3. byte_counter' \in 0 .. 7
    <3>1. (byte_counter + 1) % 8 \in 0 .. 7
      OBVIOUS
    <3> QED BY <3>1, <2>1 DEF Counters
  <2>4. CASE state = "IFG"
    BY <2>1, <2>2, <2>3, <2>4, <1>3
       DEF next_state, Counters, ReadReq, Gap, Begins
  <2>5. CASE state = "PREAMBLE"
    BY <2>1, <2>2, <2>3, <2>5, <1>3
       DEF next_state, Counters, ReadReq, Preamble, Asks, PREAMB_LEN
  <2>6. CASE state = "SFD"
    BY <2>1, <2>2, <2>3, <2>6, <1>3
       DEF next_state, Counters, ReadReq, Delimits
  <2>7. CASE state = "DATA"
    <3>1. /\ state' \in {"DATA", "PAD", "FCS"}
          /\ ~word.eop => state' = "DATA"
      BY <2>1, <2>7 DEF next_state, end_frame
    <3>2. read_req' = (byte_counter = 6 /\ ~word.eop)
      BY <2>1, <2>7, <3>1 DEF ReadReq
    <3>3. byte_counter' = (byte_counter + 1) % 8
      BY <2>1, <2>7 DEF Counters
    <3> QED BY <3>1, <3>2, <3>3, <2>2, <2>3, <2>7, <1>3 DEF Sends
  <2>8. CASE state \in {"PAD", "FCS"}
    BY <2>1, <2>2, <2>3, <2>8, <1>3 DEF next_state, ReadReq, Gap
  <2> QED BY <2>4, <2>5, <2>6, <2>7, <2>8
<1> QED BY <1>4, <1>5

LEMMA ByteCounted ==
    ASSUME NEW b \in 0 .. 7
    PROVE  (b + 1) % 8 = IF b = 7 THEN 0 ELSE b + 1
OBVIOUS

LEMMA SinceIs ==
    ASSUME NEW req \in BOOLEAN, NEW st, NEW byte, NEW preamb
    PROVE  /\ req => SinceIn(req, st, byte, preamb) = 7
           /\ ~req /\ st = "DATA" =>
                 SinceIn(req, st, byte, preamb) = IF byte = 7 THEN 0 ELSE byte
           /\ ~req /\ st = "PREAMBLE" =>
                 SinceIn(req, st, byte, preamb) = preamb + 1
           /\ ~req /\ st \notin {"DATA", "PREAMBLE"} =>
                 SinceIn(req, st, byte, preamb) = 0
BY DEF SinceIn

LEMMA SinceRange ==
    ASSUME TypeOK
    PROVE  Since \in 0 .. 7 /\ Left \in 1 .. 7
<1>1. /\ state \in States /\ read_req \in BOOLEAN
      /\ byte_counter \in 0 .. 7 /\ preamb_counter \in 0 .. 6
  BY DEF TypeOK, PREAMB_LEN
<1>2. Left \in 1 .. 7
  BY <1>1 DEF Left, LeftIn
<1> QED BY <1>1, <1>2, SinceIs DEF Since

\* A request is for one edge, and in eight edges there is at most one.
LEMMA CtrlCounts ==
    ASSUME TypeOK, Control, TxEdge
    PROVE  /\ state' \in States /\ Control'
           /\ Since \in 0 .. 7 /\ Since' \in 0 .. 7
           /\ read_req => Since = 7 /\ Since' = 0 /\ ~read_req'
           /\ ~read_req => Since' <= Since + 1
           /\ Left \in 1 .. 7 /\ Left' \in 1 .. 7
           /\ read_req => Left' = 7
           /\ ~read_req /\ InWord' => InWord
           /\ ~read_req /\ InWord' /\ ~word.eop =>
                  Left' = Left \/ Left' = Left - 1
           /\ ~read_req /\ state' = "PREAMBLE" =>
                  state = "PREAMBLE" \/ tx_data_ready
           /\ ~read_req /\ read_req' =>
                  \/ state = "PREAMBLE"
                  \/ InWord /\ ~word.eop /\ Left = 1
<1>1. /\ Held \/ Gap \/ Begins \/ Preamble \/ Asks \/ Delimits \/ Sends
      /\ byte_counter' \in 0 .. 7 /\ preamb_counter' \in 0 .. PREAMB_LEN
      /\ read_req' \in BOOLEAN
  BY CtrlMoves
<1>2. /\ state \in States /\ read_req \in BOOLEAN
      /\ byte_counter \in 0 .. 7 /\ preamb_counter \in 0 .. PREAMB_LEN
  BY DEF TypeOK
<1> USE <1>1, <1>2 DEF States, Control, InWord, PREAMB_LEN
<1>3. ASSUME Sends
      PROVE  byte_counter' = IF byte_counter = 7 THEN 0 ELSE byte_counter + 1
  BY <1>3, ByteCounted DEF Sends
<1>4. state' \in States
  BY DEF Held, Gap, Begins, Preamble, Asks, Delimits, Sends
<1>5. read_req => (Held /\ state \in {"SFD", "DATA"}) \/ Delimits
                  \/ (Sends /\ byte_counter = 7)
  BY DEF Gap, Begins, Preamble, Asks, Sends
<1>6. read_req => ~read_req'
  BY <1>5 DEF Held, Delimits, Sends
<1>7. Control'
  <2>1. state' \in {"PREAMBLE", "SFD"} => byte_counter' = 0
    BY DEF Held, Gap, Begins, Preamble, Asks, Delimits, Sends
  <2>2. read_req' => state' = "SFD"
                     \/ (state' = "DATA" /\ byte_counter' = 7)
    BY <1>3 DEF Held, Gap, Begins, Preamble, Asks, Delimits, Sends
  <2> QED BY <2>1, <2>2
<1>0. /\ Left = LeftIn(state, byte_counter)
      /\ Left' = LeftIn(state', byte_counter')
      /\ read_req => Since = 7
      /\ ~read_req /\ state = "DATA" =>
            Since = IF byte_counter = 7 THEN 0 ELSE byte_counter
      /\ ~read_req /\ state = "PREAMBLE" => Since = preamb_counter + 1
      /\ ~read_req /\ state \notin {"DATA", "PREAMBLE"} => Since = 0
      /\ read_req' => Since' = 7
      /\ ~read_req' /\ state' = "DATA" =>
            Since' = IF byte_counter' = 7 THEN 0 ELSE byte_counter'
      /\ ~read_req' /\ state' = "PREAMBLE" => Since' = preamb_counter' + 1
      /\ ~read_req' /\ state' \notin {"DATA", "PREAMBLE"} => Since' = 0
  BY SinceIs DEF Since, Left
<1>8. /\ Since \in 0 .. 7 /\ Since' \in 0 .. 7 /\ (read_req => Since = 7)
      /\ Left \in 1 .. 7 /\ Left' \in 1 .. 7
  <2>1. ASSUME NEW req \in BOOLEAN, NEW st \in States,
               NEW byte \in 0 .. 7, NEW preamb \in 0 .. 6
        PROVE  /\ SinceIn(req, st, byte, preamb) \in 0 .. 7
               /\ LeftIn(st, byte) \in 1 .. 7
    BY <2>1 DEF SinceIn, LeftIn
  <2> QED BY <2>1, <1>0, <1>4
<1>9. read_req => Since' = 0 /\ Left' = 7
  <2> SUFFICES ASSUME read_req PROVE Since' = 0 /\ Left' = 7
    OBVIOUS
  <2>1. state' # "PREAMBLE" /\ (state' = "DATA" => byte_counter' \in {0, 7})
    BY <1>3, <1>5 DEF Held, Delimits, Sends
  <2>2. ~read_req'
    BY <1>6
  <2>3. Since' = 0
    <3>1. CASE state' = "DATA"
      BY <3>1, <2>1, <2>2, <1>0
    <3>2. CASE state' # "DATA"
      BY <3>2, <2>1, <2>2, <1>0
    <3> QED BY <3>1, <3>2
  <2>4. Left' = 7
    <3>1. CASE state' = "DATA" /\ byte_counter' = 0
      BY <3>1, <1>0 DEF LeftIn
    <3>2. CASE ~(state' = "DATA" /\ byte_counter' # 7)
      BY <3>2, <1>0 DEF LeftIn
    <3> QED BY <3>1, <3>2, <2>1
  <2> QED BY <2>3, <2>4
<1>10. ~read_req => Since' <= Since + 1
  <2> SUFFICES ASSUME ~read_req PROVE Since' <= Since + 1
    OBVIOUS
  <2>1. CASE Held
    <3>1. Since' = Since
      BY <2>1, <1>0 DEF Held
    <3> QED BY <3>1, <1>8
  <2>2. CASE Gap \/ Begins \/ Delimits
    <3>1. Since' <= 1
      BY <2>2, <1>0 DEF Gap, Begins, Delimits
    <3> QED BY <3>1, <1>8
  <2>3. CASE Preamble \/ Asks
    BY <2>3, <1>0 DEF Preamble, Asks
  <2>4. CASE Sends
    BY <2>4, <1>3, <1>0 DEF Sends
  <2> QED BY <2>1, <2>2, <2>3, <2>4
<1>11. ~read_req /\ InWord' =>
          InWord /\ (~word.eop => Left' = Left \/ Left' = Left - 1)
  <2> SUFFICES ASSUME ~read_req, InWord'
               PROVE  InWord /\ (~word.eop => Left' = Left \/ Left' = Left - 1)
    OBVIOUS
  <2>1. CASE Held
    BY <2>1, <1>0 DEF Held, LeftIn
  <2>2. CASE Gap \/ Begins \/ Preamble \/ Asks
    BY <2>2 DEF Gap, Begins, Preamble, Asks
  <2>3. CASE Delimits
    BY <2>3, <1>0 DEF Delimits, LeftIn
  <2>4. CASE Sends
    BY <2>4, <1>3, <1>0 DEF Sends, LeftIn
  <2> QED BY <2>1, <2>2, <2>3, <2>4
<1>12. state' = "PREAMBLE" => state = "PREAMBLE" \/ tx_data_ready
  BY DEF Held, Gap, Begins, Preamble, Asks, Delimits, Sends
<1>13. ~read_req /\ read_req' => \/ state = "PREAMBLE"
                                 \/ InWord /\ ~word.eop /\ Left = 1
  BY <1>0 DEF Held, Gap, Begins, Preamble, Asks, Delimits, Sends, LeftIn
<1> QED BY <1>4, <1>6, <1>7, <1>8, <1>9, <1>10, <1>11, <1>12, <1>13

-----------------------------------------------------------------------------
(* The transmit clock: the reading side. *)

\* r words, none or one, are read on an edge of the transmit clock.
LEMMA ReadsWords ==
    ASSUME IInv, TxEdge
    PROVE  \E r \in {0, 1} :
              /\ r = 1 <=> read_req /\ rd_used >= 1
              /\ tx_fifo' \in Seq(Word) /\ Len(tx_fifo') = Len(tx_fifo) - r
              /\ r = 0 => tx_fifo' = tx_fifo /\ word' = word
              /\ r = 1 => tx_fifo # <<>> /\ word' = tx_fifo[1]
              /\ \A j \in 1 .. Len(tx_fifo') : tx_fifo'[j] = tx_fifo[j + r]
              /\ tx_fifo' # <<>> =>
                    tx_fifo'[Len(tx_fifo')] = tx_fifo[Len(tx_fifo)]
              /\ rd_unseen' = [k \in 1 .. RD_SYNC |->
                                  IF k = 1 THEN 0 ELSE rd_unseen[k - 1]]
              /\ wr_unseen' = [k \in 1 .. WR_SYNC |-> wr_unseen[k] + r]
<1>1. /\ tx_fifo \in Seq(Word)
      /\ rd_unseen \in [1 .. RD_SYNC -> Nat]
      /\ wr_unseen \in [1 .. WR_SYNC -> Nat]
  BY DEF IInv, TypeOK
<1>2. /\ rd_used \in Nat /\ rd_used <= Len(tx_fifo) /\ Len(tx_fifo) \in Nat
      /\ TypeOK /\ Counts
  <2>1. TypeOK /\ Counts
    BY DEF IInv
  <2>2. /\ rd_used \in Nat /\ rd_used = Len(tx_fifo) - RdUnseen(RD_SYNC)
        /\ RdUnseen(RD_SYNC) \in Nat /\ Len(tx_fifo) \in Nat
    BY <2>1, UsedFacts
  <2> QED BY <2>1, <2>2
<1>3. /\ tx_fifo' = IF FifoHead # <<>> THEN Tail(tx_fifo) ELSE tx_fifo
      /\ word' = IF FifoHead = <<>> THEN word ELSE FifoHead[1]
      /\ rd_unseen' = Shift(rd_unseen)
      /\ wr_unseen' = More(wr_unseen, Len(FifoHead))
  BY DEF TxEdge, ReadFifo, CtrlEdge
<1>4. rd_unseen' = [k \in 1 .. RD_SYNC |->
                       IF k = 1 THEN 0 ELSE rd_unseen[k - 1]]
  BY <1>1, <1>3 DEF Shift
<1>5. CASE read_req /\ rd_used >= 1
  <2>1. FifoHead = <<Head(tx_fifo)>> /\ Len(tx_fifo) >= 1
    BY <1>2, <1>5 DEF FifoHead, fifo_empty
  <2>2. tx_fifo # <<>> /\ Head(tx_fifo) = tx_fifo[1]
    BY <2>1, <1>1
  <2>3. tx_fifo' = Tail(tx_fifo) /\ word' = tx_fifo[1]
    BY <2>1, <2>2, <1>3
  <2>4. /\ tx_fifo' \in Seq(Word) /\ Len(tx_fifo') = Len(tx_fifo) - 1
        /\ \A j \in 1 .. Len(tx_fifo') : tx_fifo'[j] = tx_fifo[j + 1]
    BY <2>2, <2>3, <1>1
  <2>5. tx_fifo' # <<>> => tx_fifo'[Len(tx_fifo')] = tx_fifo[Len(tx_fifo)]
    BY <2>2, <2>3, <1>1
  <2>6. wr_unseen' = [k \in 1 .. WR_SYNC |-> wr_unseen[k] + 1]
    <3>1. Len(FifoHead) = 1
      BY <2>1
    <3> QED BY <3>1, <1>1, <1>3 DEF More
  <2> WITNESS 1 \in {0, 1}
  <2> QED BY <2>2, <2>3, <2>4, <2>5, <2>6, <1>4, <1>5
<1>6. CASE ~(read_req /\ rd_used >= 1)
  <2>1. FifoHead = <<>>
    BY <1>2, <1>6 DEF FifoHead, fifo_empty
  <2>2. tx_fifo' = tx_fifo /\ word' = word
    BY <2>1, <1>3
  <2>3. wr_unseen' = [k \in 1 .. WR_SYNC |-> wr_unseen[k] + 0]
    <3>1. Len(FifoHead) = 0
      BY <2>1
    <3> QED BY <3>1, <1>1, <1>3 DEF More
  <2>4. /\ Len(tx_fifo') = Len(tx_fifo) - 0 /\ tx_fifo' \in Seq(Word)
        /\ \A j \in 1 .. Len(tx_fifo') : tx_fifo'[j] = tx_fifo[j + 0]
    BY <2>2, <1>1, <1>2
  <2> WITNESS 0 \in {0, 1}
  <2> QED BY <2>2, <2>3, <2>4, <1>4, <1>6
<1> QED BY <1>5, <1>6


\* On an edge of the transmit clock nothing is written.
LEMMA TxStep ==
    ASSUME IInv, TxEdge
    PROVE  IInv'
<1>1. PICK r \in {0, 1} :
         /\ r = 1 <=> read_req /\ rd_used >= 1
         /\ tx_fifo' \in Seq(Word) /\ Len(tx_fifo') = Len(tx_fifo) - r
         /\ r = 0 => tx_fifo' = tx_fifo /\ word' = word
         /\ r = 1 => tx_fifo # <<>> /\ word' = tx_fifo[1]
         /\ tx_fifo' # <<>> =>
               tx_fifo'[Len(tx_fifo')] = tx_fifo[Len(tx_fifo)]
         /\ rd_unseen' = [k \in 1 .. RD_SYNC |->
                             IF k = 1 THEN 0 ELSE rd_unseen[k - 1]]
         /\ wr_unseen' = [k \in 1 .. WR_SYNC |-> wr_unseen[k] + r]
  BY ReadsWords
<1>2. TypeOK /\ Room /\ Tokens /\ Counts /\ AtHand /\ Control
  BY DEF IInv
<1>3. /\ UNCHANGED txCpuVars /\ UNCHANGED srcVars
      /\ tx_sel_1000m' = tx_sel_1000m
      /\ tx_clk_en' = (tx_sel_1000m \/ ~tx_clk_en)
      /\ edges < EDGES /\ edges' = edges + 1
  BY DEF TxEdge
<1>4. /\ state' \in States /\ Control' /\ (~read_req /\ InWord' => InWord)
      /\ byte_counter' \in 0 .. 7 /\ preamb_counter' \in 0 .. PREAMB_LEN
      /\ read_req' \in BOOLEAN
  BY <1>2, CtrlCounts, CtrlMoves
<1>5. TypeOK'
  <2>1. rd_unseen' \in [1 .. RD_SYNC -> Nat]
    <3>1. ASSUME NEW k \in 1 .. RD_SYNC, k # 1 PROVE rd_unseen[k - 1] \in Nat
      <4>1. k - 1 \in 1 .. RD_SYNC
        BY <3>1, <1>2, UsedFacts
      <4> QED BY <4>1, <1>2 DEF TypeOK
    <3> QED BY <3>1, <1>1
  <2>2. wr_unseen' \in [1 .. WR_SYNC -> Nat]
    BY <1>1, <1>2 DEF TypeOK
  <2>3. edges' \in 0 .. EDGES
    BY <1>2, <1>3, UsedFacts DEF TypeOK
  <2> QED BY <2>1, <2>2, <2>3, <1>1, <1>2, <1>3, <1>4
          DEF TypeOK, txCpuVars, srcVars
<1>6. Counts'
  <2>1. \A k \in 1 .. RD_SYNC : RdUnseen(k)' = RdUnseen(k - 1)
    <3> TAKE k \in 1 .. RD_SYNC
    <3>1. ~(k <= 0) /\ k \in Nat
      BY <1>2, UsedFacts
    <3>2. CASE k = 1
      BY <3>1, <3>2, <1>1 DEF RdUnseen, Unseen
    <3>3. CASE k # 1
      <4>1. ~(k - 1 <= 0)
        BY <3>1, <3>3
      <4> QED BY <4>1, <3>1, <3>3, <1>1 DEF RdUnseen, Unseen
    <3> QED BY <3>2, <3>3
  <2>2. \A k \in 1 .. RD_SYNC : RdUnseen(k - 1)' <= RdUnseen(k)'
    <3> TAKE k \in 1 .. RD_SYNC
    <3>1. RdUnseen(k)' = RdUnseen(k - 1) /\ RdUnseen(k - 1) \in Nat
          /\ k \in 1 .. RD_SYNC
      BY <2>1, <1>2, UsedFacts
    <3>2. CASE k = 1
      <4>1. RdUnseen(k - 1)' = 0
        BY <3>2 DEF RdUnseen, Unseen
      <4> QED BY <4>1, <3>1
    <3>3. CASE k # 1
      <4>1. k - 1 \in 1 .. RD_SYNC
        BY <3>3, <1>2, UsedFacts
      <4>2. RdUnseen(k - 1)' = RdUnseen((k - 1) - 1)
        BY <4>1, <2>1
      <4>3. RdUnseen((k - 1) - 1) <= RdUnseen(k - 1)
        BY <4>1, <1>2 DEF Counts
      <4> QED BY <4>2, <4>3, <3>1
    <3> QED BY <3>2, <3>3
  <2>3. RdUnseen(RD_SYNC)' <= Len(tx_fifo')
    <3>1. /\ RD_SYNC \in 1 .. RD_SYNC /\ RD_SYNC - 1 \in Int
          /\ RdUnseen(RD_SYNC) \in Nat /\ RdUnseen(RD_SYNC - 1) \in Nat
          /\ rd_used = Len(tx_fifo) - RdUnseen(RD_SYNC) /\ rd_used \in Nat
          /\ Len(tx_fifo) \in Nat
      BY <1>2, UsedFacts
    <3>2. RdUnseen(RD_SYNC - 1) <= RdUnseen(RD_SYNC)
      BY <3>1, <1>2 DEF Counts
    <3>3. RdUnseen(RD_SYNC)' = RdUnseen(RD_SYNC - 1)
      BY <3>1, <2>1
    <3>4. Len(tx_fifo') = Len(tx_fifo) - r /\ (r = 1 => rd_used >= 1)
      BY <1>1
    <3> QED BY <3>1, <3>2, <3>3, <3>4
  <2>4. \A k \in 2 .. WR_SYNC : wr_unseen'[k - 1] <= wr_unseen'[k]
    <3> TAKE k \in 2 .. WR_SYNC
    <3>1. k \in 1 .. WR_SYNC /\ k - 1 \in 1 .. WR_SYNC
      BY <1>2, UsedFacts
    <3>2. /\ wr_unseen'[k] = wr_unseen[k] + r
          /\ wr_unseen'[k - 1] = wr_unseen[k - 1] + r
      BY <3>1, <1>1
    <3>3. /\ wr_unseen[k] \in Nat /\ wr_unseen[k - 1] \in Nat
          /\ wr_unseen[k - 1] <= wr_unseen[k]
      BY <3>1, <1>2, UsedFacts DEF Counts
    <3> QED BY <3>2, <3>3
  <2>5. wr_used' <= FULL_WORDS
    <3>1. /\ wr_used = Len(tx_fifo) + wr_unseen[WR_SYNC]
          /\ WR_SYNC \in 1 .. WR_SYNC /\ wr_unseen[WR_SYNC] \in Nat
          /\ Len(tx_fifo) \in Nat /\ wr_used <= FULL_WORDS
      BY <1>2, UsedFacts DEF Counts
    <3>2. wr_used' = (Len(tx_fifo) - r) + (wr_unseen[WR_SYNC] + r)
      BY <3>1, <1>1 DEF wr_used
    <3> QED BY <3>1, <3>2
  <2> QED BY <2>2, <2>3, <2>4, <2>5 DEF Counts
<1>7. AtHand'
  <2>1. tx_delay' = tx_delay /\ stat_fifo' = stat_fifo
    BY <1>3 DEF txCpuVars
  <2>2. ASSUME tx_fifo' # <<>>, ~tx_fifo'[Len(tx_fifo')].eop
        PROVE  tx_delay # <<>>
    <3>1. tx_fifo # <<>>
      BY <2>2, <1>1
    <3> QED BY <3>1, <2>2, <1>1, <1>2 DEF AtHand
  <2> QED BY <2>1, <2>2, <1>2 DEF AtHand
<1>8. Room' /\ Tokens'
  BY <1>2, <1>3 DEF Room, Tokens, txCpuVars
<1> QED BY <1>4, <1>5, <1>6, <1>7, <1>8 DEF IInv

-----------------------------------------------------------------------------
(* Time. *)

LEMMA OneMore ==
    ASSUME NEW k \in Int, NEW m \in Int
    PROVE  (k - 1) * m + m = k * m /\ (k - 1) * m \in Int /\ k * m \in Int
OBVIOUS

\* The writing side knows of the reads late, but the reads it does not know of
\* are too few to fill the FIFO.
LEMMA FewUnseen ==
    ASSUME IInv, ReadsApart, Synced
    PROVE  wr_unseen[WR_SYNC] < FULL_WORDS
<1> DEFINE n == wr_unseen[WR_SYNC]
           t == (WR_SYNC - 1) * EDGES
<1>1. TypeOK /\ Counts /\ Control
  BY DEF IInv
<1>2. /\ WR_SYNC \in 1 .. WR_SYNC /\ n \in Nat /\ WR_SYNC \in Int
      /\ EDGES \in Int /\ FULL_WORDS \in Nat \ {0}
  BY <1>1, UsedFacts
<1>3. t \in Int /\ t + EDGES <= 8 * (FULL_WORDS - 1)
  BY <1>2, OneMore DEF Synced
<1>4. edges \in 0 .. EDGES
  BY <1>1 DEF TypeOK
<1>5. Since >= 0 /\ Since \in Int
  BY <1>1, SinceRange
<1>6. n # 0 => 8 * (n - 1) + Since + 1 <= t + edges
  BY <1>2 DEF ReadsApart, Age
<1> HIDE DEF n, t
<1> QED BY <1>2, <1>3, <1>4, <1>5, <1>6 DEF n


\* With the edge of the system clock the stages of the counts move on, and a
\* word that is at hand is written.
LEMMA SysTime ==
    ASSUME IInv, TimeInv, Synced, SysEdge \/ Accept \/ Cut
    PROVE  TimeInv'
<1>1. PICK w \in Maybe(Word) : SysSide(w) /\ (w # <<>> => cpu_ready)
  BY SysSideTakes
<1>2. PICK n \in {0, 1} :
         /\ n = 1 <=> ~tx_fifo_full /\ tx_delay # <<>>
         /\ tx_fifo' \in Seq(Word) /\ Len(tx_fifo') = Len(tx_fifo) + n
         /\ n = 0 => tx_fifo' = tx_fifo
         /\ n = 1 => tx_fifo'[Len(tx_fifo')] = tx_delay[1]
         /\ rd_unseen' = [k \in 1 .. RD_SYNC |-> rd_unseen[k] + n]
         /\ wr_unseen' = [k \in 1 .. WR_SYNC |->
                             IF k = 1 THEN 0 ELSE wr_unseen[k - 1]]
  BY <1>1, Writes DEF SysSide
<1>3. /\ UNCHANGED ctrlVars /\ edges' = 0
  BY <1>1 DEF SysSide
<1>4. TypeOK /\ Counts /\ Control /\ ReadsApart /\ Due
  BY DEF IInv, TimeInv
<1>5. Since' = Since /\ Left' = Left /\ InWord' = InWord /\ word' = word
      /\ state' = state /\ read_req' = read_req
  BY <1>3 DEF ctrlVars, Since, Left, InWord
<1>6. edges \in 0 .. EDGES /\ EDGES \in Nat \ {0} /\ RD_SYNC \in Nat \ {0}
      /\ WR_SYNC \in Nat \ {0} /\ Since \in 0 .. 7 /\ Left \in 1 .. 7
  BY <1>4, UsedFacts, SinceRange DEF TypeOK
<1>7. ReadsApart'
  <2> SUFFICES ASSUME NEW k \in 1 .. WR_SYNC, wr_unseen'[k] # 0
               PROVE  8 * (wr_unseen'[k] - 1) + Since' + 1 <= Age(k)'
    BY DEF ReadsApart
  <2>1. k # 1 /\ wr_unseen'[k] = wr_unseen[k - 1]
    BY <1>2
  <2>2. k - 1 \in 1 .. WR_SYNC /\ k \in Int
    BY <2>1, <1>6
  <2>3. 8 * (wr_unseen[k - 1] - 1) + Since + 1 <= Age(k - 1)
    BY <2>1, <2>2, <1>4 DEF ReadsApart
  <2>4. Age(k - 1) <= Age(k)'
    <3> DEFINE t == ((k - 1) - 1) * EDGES
               u == (k - 1) * EDGES
    <3>1. t + EDGES = u /\ t \in Int /\ u \in Int
      BY <2>2, <1>6, OneMore
    <3>2. Age(k - 1) = t + edges /\ Age(k)' = u + 0
      BY <1>3 DEF Age
    <3> HIDE DEF t, u
    <3> QED BY <3>1, <3>2, <1>6
  <2>5. /\ Age(k - 1) \in Int /\ Age(k)' \in Int
        /\ wr_unseen[k - 1] \in Nat
    <3>1. Age(k - 1) \in Int
      <4>1. ((k - 1) - 1) * EDGES \in Int
        BY <2>2, <1>6, OneMore
      <4> QED BY <4>1, <1>6 DEF Age
    <3>2. Age(k)' \in Int
      <4>1. (k - 1) * EDGES \in Int /\ Age(k)' = (k - 1) * EDGES + 0
        BY <2>2, <1>3, <1>6, OneMore DEF Age
      <4> QED BY <4>1
    <3> QED BY <3>1, <3>2, <2>2, <1>4, UsedFacts
  <2> HIDE DEF Age
  <2> QED BY <2>1, <2>3, <2>4, <2>5, <1>5, <1>6
<1>8. \A k \in Int : k <= RD_SYNC =>
         /\ RdUnseen(k)' <= RdUnseen(k) + n /\ RdUnseen(k) \in Nat
         /\ RdUnseen(k)' \in Nat
         /\ k <= 0 => RdUnseen(k)' = 0
         /\ k >= 1 => RdUnseen(k)' = RdUnseen(k) + n
  <2> TAKE k \in Int
  <2> HAVE k <= RD_SYNC
  <2>1. RdUnseen(k) \in Nat
    BY <1>4, UsedFacts
  <2>2. CASE k <= 0
    <3>1. RdUnseen(k)' = 0 /\ RdUnseen(k) = 0
      BY <2>2 DEF RdUnseen, Unseen
    <3> QED BY <3>1, <2>2
  <2>3. CASE k >= 1
    <3>1. k \in 1 .. RD_SYNC /\ ~(k <= 0)
      BY <2>3
    <3>2. RdUnseen(k)' = rd_unseen[k] + n /\ RdUnseen(k) = rd_unseen[k]
      BY <3>1, <1>2 DEF RdUnseen, Unseen
    <3> QED BY <3>1, <3>2, <2>1
  <2> QED BY <2>2, <2>3
<1>9. Len(tx_fifo) \in Nat /\ Len(tx_fifo') = Len(tx_fifo) + n
      /\ Len(tx_fifo') \in Nat
  BY <1>2, <1>4, UsedFacts
<1>10. state' = "PREAMBLE" \/ read_req' => rd_used' >= 1
  <2> SUFFICES ASSUME state = "PREAMBLE" \/ read_req PROVE rd_used' >= 1
    BY <1>5
  <2>1. rd_used >= 1
    BY <1>4 DEF Due
  <2>2. rd_used = Len(tx_fifo) - RdUnseen(RD_SYNC)
    BY <1>4, UsedFacts
  <2>3. RdUnseen(RD_SYNC)' = RdUnseen(RD_SYNC) + n
        /\ RdUnseen(RD_SYNC) \in Nat
    BY <1>6, <1>8
  <2>4. rd_used' = Len(tx_fifo') - RdUnseen(RD_SYNC)'
    BY <1>6 DEF rd_used, RdUnseen, Unseen
  <2> QED BY <2>1, <2>2, <2>3, <2>4, <1>9
<1>11. ASSUME InWord, ~word.eop PROVE Coming'
  <2>1. PICK k \in Int : k = RD_SYNC - Left /\ k <= RD_SYNC
    BY <1>6
  <2>2. /\ Coming <=> RdUnseen(k) < Len(tx_fifo)
        /\ Coming' <=> RdUnseen(k)' < Len(tx_fifo')
    <3>1. Coming' <=> Unseen(rd_unseen', RD_SYNC - Left') < Len(tx_fifo')
      BY DEF Coming
    <3> QED BY <3>1, <2>1, <1>5 DEF Coming, RdUnseen
  <2>3. CASE Coming
    BY <2>1, <2>2, <2>3, <1>8, <1>9
  <2>4. CASE tx_fifo = <<>> /\ tx_delay # <<>>
             /\ Left >= RD_SYNC + EDGES - edges
    <3>1. ~tx_fifo_full
      <4>1. wr_unseen[WR_SYNC] < FULL_WORDS
        BY <1>4, FewUnseen
      <4>2. Len(tx_fifo) = 0
        BY <2>4
      <4>3. wr_used = Len(tx_fifo) + wr_unseen[WR_SYNC]
            /\ wr_unseen[WR_SYNC] \in Nat
            /\ (tx_fifo_full <=> wr_used = FULL_WORDS)
            /\ FULL_WORDS \in Nat
        BY <1>4, <1>6, UsedFacts
      <4> QED BY <4>1, <4>2, <4>3
    <3>2. n = 1 /\ Len(tx_fifo') >= 1
      BY <3>1, <2>4, <1>2, <1>9
    <3>3. RdUnseen(k)' = 0
      <4>1. k <= 0
        BY <2>1, <2>4, <1>6
      <4> QED BY <4>1, <2>1, <1>8
    <3> QED BY <3>2, <3>3, <2>2, <1>9
  <2> QED BY <2>3, <2>4, <1>11, <1>4 DEF Due
<1>12. Due'
  BY <1>5, <1>10, <1>11 DEF Due
<1> QED BY <1>7, <1>12 DEF TimeInv


\* With an edge of the transmit clock the next word comes nearer, and so does
\* the request for it.
LEMMA TxTime ==
    ASSUME IInv, TimeInv, Synced, TxEdge
    PROVE  TimeInv'
<1>1. PICK r \in {0, 1} :
         /\ r = 1 <=> read_req /\ rd_used >= 1
         /\ tx_fifo' \in Seq(Word) /\ Len(tx_fifo') = Len(tx_fifo) - r
         /\ r = 0 => tx_fifo' = tx_fifo /\ word' = word
         /\ r = 1 => tx_fifo # <<>> /\ word' = tx_fifo[1]
         /\ tx_fifo' # <<>> =>
               tx_fifo'[Len(tx_fifo')] = tx_fifo[Len(tx_fifo)]
         /\ rd_unseen' = [k \in 1 .. RD_SYNC |->
                             IF k = 1 THEN 0 ELSE rd_unseen[k - 1]]
         /\ wr_unseen' = [k \in 1 .. WR_SYNC |-> wr_unseen[k] + r]
  BY ReadsWords
<1>2. TypeOK /\ Counts /\ AtHand /\ Control /\ ReadsApart /\ Due
  BY DEF IInv, TimeInv
<1>3. /\ tx_delay' = tx_delay /\ edges < EDGES /\ edges' = edges + 1
  BY DEF TxEdge, txCpuVars
<1>4. /\ Since \in 0 .. 7 /\ Since' \in 0 .. 7
      /\ read_req => Since = 7 /\ Since' = 0 /\ ~read_req'
      /\ ~read_req => Since' <= Since + 1
      /\ Left \in 1 .. 7 /\ Left' \in 1 .. 7
      /\ read_req => Left' = 7
      /\ ~read_req /\ InWord' => InWord
      /\ ~read_req /\ InWord' /\ ~word.eop =>
             Left' = Left \/ Left' = Left - 1
      /\ ~read_req /\ state' = "PREAMBLE" =>
             state = "PREAMBLE" \/ tx_data_ready
      /\ ~read_req /\ read_req' =>
             \/ state = "PREAMBLE"
             \/ InWord /\ ~word.eop /\ Left = 1
  BY <1>2, CtrlCounts
<1>5. /\ edges \in 0 .. EDGES /\ EDGES \in Nat \ {0} /\ RD_SYNC \in Nat \ {0}
      /\ WR_SYNC \in Nat \ {0}
      /\ RD_SYNC + EDGES <= 8
  BY <1>2, UsedFacts DEF TypeOK, Synced
<1>6. (r = 1 <=> read_req) /\ (read_req => rd_used >= 1)
  BY <1>1, <1>2 DEF Due
<1>7. ReadsApart'
  <2> SUFFICES ASSUME NEW k \in 1 .. WR_SYNC, wr_unseen'[k] # 0
               PROVE  8 * (wr_unseen'[k] - 1) + Since' + 1 <= Age(k)'
    BY DEF ReadsApart
  <2> DEFINE t == (k - 1) * EDGES
             n == wr_unseen[k]
  <2>1. wr_unseen'[k] = n + r /\ n \in Nat
    BY <1>1, <1>2, UsedFacts
  <2>2. Age(k)' = t + (edges + 1) /\ t \in Nat
    <3>1. k - 1 \in Nat /\ EDGES \in Nat
      BY <1>5
    <3>2. t \in Nat
      BY <3>1
    <3> QED BY <3>2, <1>3 DEF Age
  <2>3. n # 0 => 8 * (n - 1) + Since + 1 <= t + edges
    BY <1>2 DEF ReadsApart, Age
  <2> HIDE DEF t, n
  <2>4. CASE r = 1
    <3>1. Since = 7 /\ Since' = 0
      BY <2>4, <1>4, <1>6
    <3>2. n + r = n + 1 /\ edges \in Nat
      BY <2>4, <1>5
    <3>3. 8 * ((n + 1) - 1) + 0 + 1 <= t + (edges + 1)
      <4>1. CASE n = 0
        BY <4>1, <3>2, <2>2
      <4>2. CASE n # 0
        BY <4>2, <3>1, <3>2, <2>1, <2>2, <2>3
      <4> QED BY <4>1, <4>2
    <3> QED BY <3>1, <3>2, <3>3, <2>1, <2>2
  <2>5. CASE r = 0
    <3>1. Since' <= Since + 1 /\ Since \in Nat /\ Since' \in Nat
      BY <2>5, <1>4, <1>6
    <3>2. wr_unseen'[k] = n
      BY <2>1, <2>5
    <3>3. n # 0 /\ n \in Nat
      BY <3>2, <2>1
    <3>4. 8 * (n - 1) + Since + 1 <= t + edges
      BY <3>3, <2>3
    <3>5. \A s, u, c, e \in Nat :
             /\ u <= s + 1
             /\ 8 * (n - 1) + s + 1 <= c + e
             => 8 * (n - 1) + u + 1 <= c + (e + 1)
      BY <3>3
    <3>6. 8 * (n - 1) + Since' + 1 <= t + (edges + 1)
      BY <3>1, <3>4, <3>5, <2>2, <1>5
    <3> QED BY <3>2, <3>6, <2>2
  <2> QED BY <2>4, <2>5
<1>8. /\ \A k \in 1 .. RD_SYNC : RdUnseen(k)' = RdUnseen(k - 1)
      /\ \A k \in Int : k <= RD_SYNC =>
             RdUnseen(k) \in Nat /\ RdUnseen(k)' \in Nat
      /\ \A k \in Int : k <= 0 => RdUnseen(k)' = 0
      /\ \A k \in 1 .. RD_SYNC : RdUnseen(k - 1) <= RdUnseen(k)
  <2>1. \A k \in 1 .. RD_SYNC : RdUnseen(k)' = RdUnseen(k - 1)
    <3> TAKE k \in 1 .. RD_SYNC
    <3>1. CASE k = 1
      BY <3>1, <1>1 DEF RdUnseen, Unseen
    <3>2. CASE k # 1
      <4>1. ~(k - 1 <= 0) /\ ~(k <= 0)
        BY <3>2, <1>5
      <4> QED BY <4>1, <3>2, <1>1 DEF RdUnseen, Unseen
    <3> QED BY <3>1, <3>2
  <2>2. \A k \in Int : k <= RD_SYNC => RdUnseen(k) \in Nat
    BY <1>2, UsedFacts
  <2>3. \A k \in Int : k <= 0 => RdUnseen(k)' = 0
    BY DEF RdUnseen, Unseen
  <2>4. \A k \in Int : k <= RD_SYNC => RdUnseen(k)' \in Nat
    <3> TAKE k \in Int
    <3> HAVE k <= RD_SYNC
    <3>1. CASE k <= 0
      BY <3>1, <2>3
    <3>2. CASE k >= 1
      BY <3>2, <2>1, <2>2, <1>5
    <3> QED BY <3>1, <3>2
  <2> QED BY <2>1, <2>2, <2>3, <2>4, <1>2 DEF Counts
<1>9. /\ Len(tx_fifo) \in Nat /\ Len(tx_fifo') = Len(tx_fifo) - r
      /\ Len(tx_fifo') \in Nat
      /\ rd_used = Len(tx_fifo) - RdUnseen(RD_SYNC)
      /\ rd_used' = Len(tx_fifo') - RdUnseen(RD_SYNC)'
  <2>1. rd_used' = Len(tx_fifo') - RdUnseen(RD_SYNC)'
    BY <1>5 DEF rd_used, RdUnseen, Unseen
  <2>2. Len(tx_fifo') \in Nat
    BY <1>1
  <2> QED BY <2>1, <2>2, <1>1, <1>2, UsedFacts
\* The count of the next edge is that of the stage before.
<1>10. rd_used' = Len(tx_fifo') - RdUnseen(RD_SYNC - 1)
  BY <1>5, <1>8, <1>9
<1>11. ASSUME state' = "PREAMBLE" \/ read_req' PROVE rd_used' >= 1
  <2>1. ~read_req
    <3>1. CASE read_req'
      BY <3>1, <1>4
    <3>2. CASE state' = "PREAMBLE" /\ read_req
      <4>1. /\ Held \/ Gap \/ Begins \/ Preamble \/ Asks \/ Delimits \/ Sends
        BY <1>2, CtrlMoves
      <4>2. state = "SFD" \/ state = "DATA"
        BY <3>2, <1>2 DEF Control
      <4> QED BY <4>1, <4>2, <3>2
              DEF Held, Gap, Begins, Preamble, Asks, Delimits, Sends
    <3> QED BY <3>1, <3>2, <1>11
  <2>2. r = 0
    BY <2>1, <1>6
  <2>3. ASSUME rd_used >= 1 PROVE rd_used' >= 1
    <3>1. RD_SYNC \in 1 .. RD_SYNC /\ RD_SYNC - 1 \in Int
          /\ RD_SYNC - 1 <= RD_SYNC
      BY <1>5
    <3>2. RdUnseen(RD_SYNC - 1) <= RdUnseen(RD_SYNC)
          /\ RdUnseen(RD_SYNC - 1) \in Nat /\ RdUnseen(RD_SYNC) \in Nat
      BY <3>1, <1>8
    <3> QED BY <3>2, <2>2, <2>3, <1>9, <1>10
  <2>4. CASE state = "PREAMBLE"
    BY <2>3, <2>4, <1>2 DEF Due
  <2>5. CASE tx_data_ready
    <3>1. rd_used # 0 /\ rd_used \in Nat
      <4>1. rd_used \in Nat
        BY <1>2, UsedFacts
      <4>2. NUM_WORDS \in Nat \ {0} /\ READ_USED_WORDS \in Nat \ {0}
        BY GmiiTxAssumption
      <4>3. 0 % NUM_WORDS = 0
        BY <4>2
      <4> QED BY <4>1, <4>2, <4>3, <2>5 DEF tx_data_ready
    <3> QED BY <3>1, <2>3
  <2>6. CASE InWord /\ ~word.eop /\ Left = 1
    <3>1. Coming
      BY <2>6, <1>2, <1>3, <1>5 DEF Due
    <3>2. RdUnseen(RD_SYNC - 1) < Len(tx_fifo)
      BY <3>1, <2>6 DEF Coming, RdUnseen
    <3>3. RdUnseen(RD_SYNC - 1) \in Nat
      BY <1>5, <1>8
    <3> QED BY <3>2, <3>3, <2>2, <1>9, <1>10
  <2> QED BY <2>1, <2>4, <2>5, <2>6, <1>4, <1>11
<1>12. ASSUME InWord', ~word'.eop
       PROVE  \/ Coming'
              \/ /\ tx_fifo' = <<>> /\ tx_delay' # <<>>
                 /\ Left' >= RD_SYNC + EDGES - edges'
  <2>1. PICK k \in Int : k = RD_SYNC - Left' /\ k <= RD_SYNC - 1
    <3>1. ASSUME NEW l \in 1 .. 7
          PROVE  RD_SYNC - l \in Int /\ RD_SYNC - l <= RD_SYNC - 1
      BY <1>5
    <3>2. Left' \in 1 .. 7
      BY <1>4
    <3>3. RD_SYNC - Left' \in Int /\ RD_SYNC - Left' <= RD_SYNC - 1
      BY <3>1, <3>2
    <3> QED BY <3>3
  <2>2. Coming' <=> RdUnseen(k)' < Len(tx_fifo')
    <3>1. Coming' <=> Unseen(rd_unseen', RD_SYNC - Left') < Len(tx_fifo')
      BY DEF Coming
    <3> QED BY <3>1, <2>1 DEF RdUnseen
  \* A word has just been read; the next one is there, or on its way.
  <2>3. CASE read_req
    <3>1. r = 1 /\ Left' = 7 /\ k <= 0
      BY <2>1, <2>3, <1>4, <1>5, <1>6
    <3>2. CASE tx_fifo' # <<>>
      <4>1. Len(tx_fifo') > 0
        BY <3>2, <1>1
      <4> QED BY <4>1, <3>1, <2>2, <1>8
    <3>3. CASE tx_fifo' = <<>>
      <4>1. Len(tx_fifo) = 1
        <5>1. Len(tx_fifo') = 0
          BY <3>3
        <5> QED BY <5>1, <3>1, <1>9
      <4>2. tx_fifo # <<>> /\ ~tx_fifo[Len(tx_fifo)].eop
        BY <4>1, <3>1, <1>1, <1>12
      <4>3. tx_delay' # <<>>
        BY <4>2, <1>2, <1>3 DEF AtHand
      <4>4. Left' >= RD_SYNC + EDGES - edges'
        BY <3>1, <1>3, <1>5
      <4> QED BY <4>3, <4>4, <3>3
    <3> QED BY <3>2, <3>3
  <2>4. CASE ~read_req
    <3>1. /\ r = 0 /\ tx_fifo' = tx_fifo /\ word' = word
          /\ InWord /\ ~word.eop /\ (Left' = Left \/ Left' = Left - 1)
      BY <2>4, <1>1, <1>4, <1>6, <1>12
    <3>2. CASE Coming
      <4>1. PICK j \in Int : j = RD_SYNC - Left /\ j <= RD_SYNC - 1
        BY <1>4, <1>5
      <4>2. RdUnseen(j) < Len(tx_fifo)
        BY <4>1, <3>2 DEF Coming, RdUnseen
      <4>3. RdUnseen(k)' <= RdUnseen(j)
        <5>1. RdUnseen(j) \in Nat
          BY <4>1, <1>5, <1>8
        <5>2. CASE k <= 0
          BY <5>1, <5>2, <1>8
        <5>3. CASE k >= 1
          <6>1. RdUnseen(k)' = RdUnseen(k - 1) /\ RdUnseen(k - 1) <= RdUnseen(k)
            <7>1. k \in 1 .. RD_SYNC
              BY <5>3, <2>1, <1>5
            <7> QED BY <7>1, <1>8
          <6>2. k - 1 = j \/ k = j
            <7>1. CASE Left' = Left
              BY <7>1, <2>1, <4>1
            <7>2. CASE Left' = Left - 1
              BY <7>2, <2>1, <4>1, <1>4, <1>5
            <7> QED BY <7>1, <7>2, <3>1
          <6> QED BY <6>1, <6>2, <5>1
        <5> QED BY <5>2, <5>3
      <4>4. RdUnseen(k)' \in Nat /\ RdUnseen(j) \in Nat
        BY <2>1, <4>1, <1>5, <1>8
      <4> QED BY <4>2, <4>3, <4>4, <3>1, <2>2, <1>9
    <3>3. CASE tx_fifo = <<>> /\ tx_delay # <<>>
               /\ Left >= RD_SYNC + EDGES - edges
      BY <3>1, <3>3, <1>3, <1>4, <1>5
    <3> QED BY <3>1, <3>2, <3>3, <1>2 DEF Due
  <2> QED BY <2>3, <2>4
<1>13. Due'
  BY <1>11, <1>12 DEF Due
<1> QED BY <1>7, <1>13 DEF TimeInv

-----------------------------------------------------------------------------
(* The theorems. *)

LEMMA InitInv ==
    ASSUME Init
    PROVE  IInv /\ TimeInv
<1> USE DEF Init, TxCpuReset, CtrlReset
<1>1. /\ RD_SYNC \in Nat \ {0} /\ WR_SYNC \in Nat \ {0}
      /\ EDGES \in Nat \ {0} /\ FULL_WORDS \in Nat
      /\ PKT_WORDS \in Nat \ {0} /\ STAT_WORDS \in Nat \ {0}
      /\ SPEEDS \subseteq BOOLEAN
  BY GmiiTxAssumption
<1>2. TypeOK
  <2>1. /\ src = <<>> /\ tx_delay = <<>> /\ accepted = <<>>
        /\ pkt_fifo = <<>> /\ stat_fifo = <<>> /\ tx_fifo = <<>>
        /\ <<>> \in Maybe(Source) /\ <<>> \in Maybe(Word)
    BY DEF Maybe
  <2>2. /\ rd_unseen \in [1 .. RD_SYNC -> Nat]
        /\ wr_unseen \in [1 .. WR_SYNC -> Nat]
    OBVIOUS
  <2>3. edges \in 0 .. EDGES /\ tx_sel_1000m \in BOOLEAN
    BY <1>1
  <2>4. /\ accepted \in Seq(Word) /\ pkt_fifo \in Seq(Word)
        /\ stat_fifo \in Seq({"packet"}) /\ tx_fifo \in Seq(Word)
    BY <2>1
  <2>5. /\ pkt_almost_full \in BOOLEAN /\ stat_almost_full \in BOOLEAN
        /\ tx_clk_en \in BOOLEAN /\ state \in States
        /\ read_req \in BOOLEAN /\ byte_counter \in 0 .. 7
        /\ preamb_counter \in 0 .. PREAMB_LEN
    <3>1. /\ pkt_almost_full = FALSE /\ stat_almost_full = FALSE
          /\ tx_clk_en = FALSE /\ state = "IFG" /\ read_req = FALSE
          /\ byte_counter = 0 /\ preamb_counter = 0
      OBVIOUS
    <3>2. "IFG" \in States /\ 0 \in 0 .. 7 /\ 0 \in 0 .. PREAMB_LEN
          /\ FALSE \in BOOLEAN
      BY DEF States, PREAMB_LEN
    <3> QED BY ONLY <3>1, <3>2
  <2>6. src \in Maybe(Source) /\ tx_delay \in Maybe(Word)
    BY <2>1
  <2> QED BY <2>2, <2>3, <2>4, <2>5, <2>6 DEF TypeOK
<1>3. Room
  BY <1>1 DEF Room
<1>4. Tokens
  <2>1. Numbers([k \in 1 .. 0 |-> 0], pkt_fifo, Len(stat_fifo))
    BY DEF Numbers
  <2> QED BY <2>1 DEF Tokens
<1>5. Counts
  <2>1. \A k \in Int : k <= RD_SYNC => RdUnseen(k) = 0
    BY DEF RdUnseen, Unseen
  <2>2. \A k \in 1 .. WR_SYNC : wr_unseen[k] = 0
    OBVIOUS
  <2>3. Len(tx_fifo) = 0
    OBVIOUS
  <2>4. wr_used = 0
    BY <2>2, <2>3, <1>1 DEF wr_used
  <2>5. \A k \in 1 .. RD_SYNC : RdUnseen(k - 1) = 0 /\ RdUnseen(k) = 0
    BY <2>1, <1>1
  <2>6. \A k \in 2 .. WR_SYNC : wr_unseen[k - 1] = 0 /\ wr_unseen[k] = 0
    BY <2>2, <1>1
  <2>7. RdUnseen(RD_SYNC) = 0
    BY <2>1, <1>1
  <2> QED BY <2>3, <2>4, <2>5, <2>6, <2>7, <1>1 DEF Counts
<1>6. AtHand
  BY DEF AtHand
<1>7. Control
  BY DEF Control
<1>8. ReadsApart
  BY DEF ReadsApart
<1>9. Due
  BY DEF Due, InWord
<1> QED BY <1>2, <1>3, <1>4, <1>5, <1>6, <1>7, <1>8, <1>9 DEF IInv, TimeInv

LEMMA StutterInv ==
    ASSUME UNCHANGED vars
    PROVE  (IInv => IInv') /\ (TimeInv => TimeInv')
<1> USE DEF vars, txCpuVars, ctrlVars, srcVars
<1>1. TypeOK => TypeOK'
  BY DEF TypeOK
<1>2. (Room => Room') /\ (Tokens => Tokens') /\ (AtHand => AtHand')
      /\ (Control => Control')
  BY DEF Room, Tokens, AtHand, Control
<1>3. Counts => Counts'
  BY DEF Counts, RdUnseen, Unseen, wr_used
<1>4. ReadsApart => ReadsApart'
  BY DEF ReadsApart, Age, Since
<1>5. Due => Due'
  BY DEF Due, rd_used, InWord, Coming, Left
<1> QED BY <1>1, <1>2, <1>3, <1>4, <1>5 DEF IInv, TimeInv

\* tx_cpu and the FIFO between the clocks (tx_cpu.sv, conv_1G_tx_ctrl.v):
\* neither FIFO of tx_cpu overflows, there is a token for every whole packet
\* and for no other, the count of either side of tx_64b_fifo errs to the safe
\* side, and behind a word that does not end its packet the next one is at hand.
THEOREM GmiiTxInvariant == Spec => []IInv
<1>1. Init => IInv
  BY InitInv
<1>2. IInv /\ [Next]_vars => IInv'
  BY SysStep, TxStep, StutterInv DEF Next
<1> QED BY <1>1, <1>2, PTL DEF Spec

\* conv_1G_tx_ctrl.v:382: the FIFO is never read when it is empty, for all
\* synchronisers and clocks of Synced, at either speed.
THEOREM GmiiTxNoUnderrun == Synced => (Spec => []NoUnderrun)
<1> SUFFICES ASSUME Synced PROVE Spec => []NoUnderrun
  OBVIOUS
<1>1. Init => IInv /\ TimeInv
  BY InitInv
<1>2. IInv /\ TimeInv /\ [Next]_vars => IInv' /\ TimeInv'
  BY SysStep, TxStep, SysTime, TxTime, StutterInv DEF Next
<1>3. TimeInv => NoUnderrun
  <2> SUFFICES ASSUME TimeInv, read_req PROVE ~fifo_empty
    BY DEF NoUnderrun
  <2> QED BY DEF TimeInv, Due, fifo_empty
<1> QED BY <1>1, <1>2, <1>3, PTL DEF Spec

-----------------------------------------------------------------------------
(***************************************************************************)
(* What is on the pins.  The words that the transmitter has not read yet   *)
(* are the last of those that netdma gave, in their order, in the three    *)
(* FIFOs (Chain).  The CRC register has the bytes of the frame so far,     *)
(* those of the words since the end of the packet before (Body).  Behind   *)
(* the state machine are three registers, the last of them the pins; each  *)
(* holds what was in the one before a transmit edge ago, so that place and *)
(* speed say which byte of the frame it is (Pipe).                         *)
(***************************************************************************)

IsList(s) == s \in Seq({s[k] : k \in DOMAIN s})

\* The words that the transmitter has read.
Taken == Len(accepted) - (Len(tx_fifo) + Len(tx_delay) + Len(pkt_fifo))

Chain ==
    /\ Taken >= 0 /\ (Taken >= 1 => word = accepted[Taken])
    /\ \A j \in 1 .. Len(tx_fifo) : tx_fifo[j] = accepted[Taken + j]
    /\ tx_delay # <<>> => tx_delay[1] = accepted[Taken + Len(tx_fifo) + 1]
    /\ \A j \in 1 .. Len(pkt_fifo) :
           pkt_fifo[j] = accepted[Taken + Len(tx_fifo) + Len(tx_delay) + j]

EndsInv ==
    /\ Numbers(ends, accepted, Len(ends)) /\ ends \in Seq(Nat)
    /\ sent \in 0 .. Len(ends)

RegistersOK ==
    /\ IsList(crc) /\ IsList(line)
    /\ pkt_counter \in 0 .. 255 /\ ifg_counter \in 0 .. 12
    /\ read_req_dl \in BOOLEAN /\ tx_mii_pos \in BOOLEAN

\* The first word of the frame that is sent now or next.
StartIn(e, n) == IF n = 0 THEN 1 ELSE e[n] + 1
Start == StartIn(ends, sent)

\* The word that bytes are taken of.  At 10 and 100 Mbit/s the next one is
\* there half way through byte 7.
CurIn(n, byte, dl) == IF byte = 7 /\ dl THEN n - 1 ELSE n
Cur == CurIn(Taken, byte_counter, read_req_dl)

\* Of the bytes so far the first d are those of words, from word s on.
DataByte(acc, s, k) == <<"data", acc[s + (k - 1) \div 8], (k - 1) % 8>>

Gathered(bytes, acc, s, d) ==
    \A k \in 1 .. Len(bytes) : /\ k <= d => bytes[k] = DataByte(acc, s, k)
                               /\ k > d => bytes[k] = <<"00">>

\* All data of the packet has been sent.
DataLen == 8 * (Taken - Start) + Size(accepted[Taken])
AllSent == /\ Taken >= Start /\ sent < Len(ends) /\ ends[sent + 1] = Taken
           /\ Gathered(crc, accepted, Start, DataLen)

Saturated(n) == IF n <= 255 THEN n ELSE 255

InData ==
    /\ Cur >= Start /\ Len(crc) = 8 * (Cur - Start) + byte_counter
    /\ Gathered(crc, accepted, Start, Len(crc))
    /\ \A i \in Start .. Cur - 1 : ~accepted[i].eop
    /\ accepted[Cur].eop => /\ ~read_req /\ Cur = Taken
                            /\ byte_counter < Size(accepted[Cur])
    /\ byte_counter >= 1 => last_byte = <<"data", accepted[Cur], 7>>
    /\ byte_counter = 7 /\ ~accepted[Cur].eop => read_req \/ read_req_dl
    /\ read_req => ~read_req_dl
    /\ byte_counter = 7 /\ read_req_dl => tx_clk_en
    /\ pkt_counter = Saturated(Len(crc))

Body ==
    /\ state = "PREAMBLE" => Taken = Start - 1 /\ pkt_counter = 0
    /\ state = "SFD" => /\ read_req => Taken = Start - 1
                        /\ ~read_req => Taken = Start
                        /\ pkt_counter = 0
    /\ state = "DATA" => InData
    /\ state = "PAD" => /\ AllSent /\ DataLen <= Len(crc)
                        /\ Len(crc) <= MIN_LAST /\ pkt_counter = Len(crc)
    /\ state \in {"FCS", "IFG"} => AllSent /\ Len(crc) = PaddedLen(DataLen)
    /\ state = "FCS" => crc_counter \in 0 .. FCS_LEN - 1

\* The number of the byte in TxD, which goes on counting in the gap, and of
\* the last byte of the frame so far.
PosIn(st, preamb, n, cnt, gap) ==
    CASE st = "PREAMBLE" -> preamb
      [] st = "SFD" -> 7
      [] st \in {"DATA", "PAD"} -> 8 + n
      [] st = "FCS" -> 8 + n + cnt
      [] st = "IFG" -> 8 + n + FCS_LEN + gap
Pos == PosIn(state, preamb_counter, Len(crc), crc_counter, ifg_counter)

TopIn(st, pos, n) == IF st = "IFG" THEN 8 + n + FCS_LEN ELSE pos
Top == TopIn(state, Pos, Len(crc))

\* The number of the symbol on the pins, and of the last of the bytes so far.
SymIn(fast, en, pos) ==
    (IF fast THEN pos ELSE IF en THEN 2 * pos ELSE 2 * pos - 1) - 2
Sym == SymIn(tx_sel_1000m, tx_clk_en, Pos)

Last == PerByte(tx_sel_1000m) * Top

SymbolAt(fast, data, j) ==
    Symbol(FrameByte(data, ByteOf(fast, j)), PartOf(fast, j))

Pipe ==
    /\ TxEn <=> Pos \in 1 .. Top
    /\ TxEn => TxD = FrameByte(crc, Pos)
    /\ gmii_tx_en_d1 <=> Sym + 1 \in 1 .. Last
    /\ gmii_tx_en_d1 =>
          /\ gmii_tx_d_d1 = FrameByte(crc, ByteOf(tx_sel_1000m, Sym + 1))
          /\ ~tx_sel_1000m => (tx_mii_pos <=> Sym % 2 = 1)
    /\ tx_en_o <=> Sym \in 1 .. Last
    /\ tx_en_o => tx_d_o = SymbolAt(tx_sel_1000m, crc, Sym)
    /\ Sym >= 1 => Len(line) = Sym - 1
    /\ Sym < 1 => line = <<>>
    /\ \A j \in 1 .. Len(line) : line[j] = SymbolAt(tx_sel_1000m, crc, j)

Idle == /\ state = "IFG" /\ Taken = Start - 1
        /\ ~TxEn /\ ~gmii_tx_en_d1 /\ ~tx_en_o /\ line = <<>>

Sending == /\ Body /\ Pipe /\ Sym <= Last + 1
           /\ tx_sel_1000m => tx_clk_en

FrameInv == Chain /\ EndsInv /\ RegistersOK /\ (Idle \/ Sending)

-----------------------------------------------------------------------------
(* Lists of anything, and the bytes and symbols of a frame. *)

LEMMA ListFacts ==
    ASSUME NEW s, IsList(s)
    PROVE  Len(s) \in Nat /\ DOMAIN s = 1 .. Len(s)
BY DEF IsList

LEMMA ListAppend ==
    ASSUME NEW s, IsList(s), NEW e
    PROVE  /\ IsList(Append(s, e)) /\ Len(Append(s, e)) = Len(s) + 1
           /\ \A j \in 1 .. Len(s) : Append(s, e)[j] = s[j]
           /\ Append(s, e)[Len(s) + 1] = e
<1> DEFINE S == {s[k] : k \in DOMAIN s}
           T == S \cup {e}
           t == Append(s, e)
<1>1. s \in Seq(T) /\ e \in T
  <2>1. s \in Seq(S) /\ S \subseteq T
    BY DEF IsList
  <2> HIDE DEF S, T
  <2>2. s \in Seq(T)
    BY <2>1
  <2> QED BY <2>2 DEF T
<1> HIDE DEF S, T
<1>2. /\ t \in Seq(T) /\ Len(t) = Len(s) + 1
      /\ \A j \in 1 .. Len(s) : t[j] = s[j]
      /\ t[Len(s) + 1] = e
  BY <1>1
<1> HIDE DEF t
<1>3. t \in Seq({t[k] : k \in DOMAIN t})
  BY <1>2
<1> QED BY <1>2, <1>3 DEF t, IsList

LEMMA ListOf ==
    ASSUME NEW n \in Nat, NEW f, f = [j \in 1 .. n |-> f[j]]
    PROVE  IsList(f) /\ Len(f) = n
<1>1. f \in Seq({f[k] : k \in DOMAIN f})
  <2>1. DOMAIN f = 1 .. n /\ f \in [1 .. n -> {f[k] : k \in 1 .. n}]
    OBVIOUS
  <2> QED BY <2>1
<1> QED BY <1>1 DEF IsList

LEMMA ListEqual ==
    ASSUME NEW s, IsList(s), NEW t, IsList(t), Len(s) = Len(t),
           \A j \in 1 .. Len(s) : s[j] = t[j]
    PROVE  s = t
BY DEF IsList

LEMMA EmptyList == IsList(<<>>) /\ Len(<<>>) = 0
BY DEF IsList

LEMMA EmptyIfZero ==
    ASSUME NEW s, IsList(s), Len(s) = 0
    PROVE  s = <<>>
BY DEF IsList

\* Each byte of a frame, by its number.
LEMMA FrameByteIs ==
    ASSUME NEW data, Len(data) \in Nat, NEW k \in Int
    PROVE  /\ k <= 7 => FrameByte(data, k) = <<"55">>
           /\ k = 8 => FrameByte(data, k) = <<"d5">>
           /\ k \in 9 .. 8 + Len(data) => FrameByte(data, k) = data[k - 8]
           /\ k > 8 + Len(data) =>
                 FrameByte(data, k) = <<"fcs", data, k - Len(data) - 9>>
<1>1. CASE k <= 7
  BY <1>1 DEF FrameByte
<1>2. CASE k = 8
  BY <1>2 DEF FrameByte
<1>3. CASE k \in 9 .. 8 + Len(data)
  BY <1>3 DEF FrameByte
<1>4. CASE k > 8 + Len(data)
  BY <1>4 DEF FrameByte
<1> QED BY <1>1, <1>2, <1>3, <1>4

\* A byte more changes none of the bytes before it.
LEMMA FrameByteKept ==
    ASSUME NEW s, IsList(s), NEW e, NEW k \in Int, k <= 8 + Len(s)
    PROVE  FrameByte(Append(s, e), k) = FrameByte(s, k)
<1> DEFINE t == Append(s, e)
<1>1. /\ Len(s) \in Nat /\ Len(t) = Len(s) + 1 /\ Len(t) \in Nat
      /\ \A j \in 1 .. Len(s) : t[j] = s[j]
  BY ListFacts, ListAppend
<1> HIDE DEF t
<1>2. /\ k <= 7 => FrameByte(s, k) = <<"55">>
      /\ k = 8 => FrameByte(s, k) = <<"d5">>
      /\ k \in 9 .. 8 + Len(s) => FrameByte(s, k) = s[k - 8]
  BY <1>1, FrameByteIs
<1>3. /\ k <= 7 => FrameByte(t, k) = <<"55">>
      /\ k = 8 => FrameByte(t, k) = <<"d5">>
      /\ k \in 9 .. 8 + Len(t) => FrameByte(t, k) = t[k - 8]
  BY <1>1, FrameByteIs
<1>4. CASE k \in 9 .. 8 + Len(s)
  <2>1. k - 8 \in 1 .. Len(s) /\ k \in 9 .. 8 + Len(t)
    BY <1>1, <1>4
  <2>2. FrameByte(t, k) = t[k - 8] /\ FrameByte(s, k) = s[k - 8]
    BY <2>1, <1>2, <1>3, <1>4
  <2> QED BY <2>1, <2>2, <1>1 DEF t
<1>5. CASE k <= 8
  <2>1. k <= 7 \/ k = 8
    BY <1>5
  <2> QED BY <2>1, <1>2, <1>3 DEF t
<1>6. k \in 9 .. 8 + Len(s) \/ k <= 8
  BY <1>1
<1> QED BY <1>4, <1>5, <1>6

LEMMA SizeFacts ==
    ASSUME NEW w \in Word
    PROVE  Size(w) \in 1 .. 8
BY DEF Word, Size

-----------------------------------------------------------------------------
(* The system clock. *)

\* What an edge of the system clock leaves alone, and what it moves on.
LEMMA SysMoves ==
    ASSUME IInv, SysEdge \/ Accept \/ Cut
    PROVE  /\ UNCHANGED <<ctrlVars, phyVars, lineVars, tx_sel_1000m, tx_clk_en>>
           /\ \E w \in Maybe(Word), n \in {0, 1}, r \in {0, 1} :
                 /\ accepted' = accepted \o w
                 /\ ends' = IF w # <<>> /\ w[1].eop
                            THEN Append(ends, Len(accepted) + 1) ELSE ends
                 /\ Len(tx_fifo') = Len(tx_fifo) + n
                 /\ \A j \in 1 .. Len(tx_fifo) : tx_fifo'[j] = tx_fifo[j]
                 /\ n = 1 => /\ tx_delay # <<>>
                             /\ tx_fifo'[Len(tx_fifo')] = tx_delay[1]
                 /\ Moves(pkt_fifo, pkt_fifo', r, Len(w))
                 /\ w # <<>> => pkt_fifo'[Len(pkt_fifo')] = w[1]
                 /\ \/ /\ n = 0 /\ r = 0 /\ tx_delay # <<>>
                       /\ tx_delay' = tx_delay
                    \/ /\ n = Len(tx_delay)
                       /\ tx_delay' = IF r = 1 THEN <<pkt_fifo[1]>> ELSE <<>>
<1>1. PICK w \in Maybe(Word) :
         /\ SysSide(w) /\ (w # <<>> => cpu_ready)
         /\ accepted' = accepted \o w
         /\ ends' = IF w # <<>> /\ w[1].eop
                    THEN Append(ends, Len(accepted) + 1) ELSE ends
  BY SysSideTakes
<1>2. PICK n \in {0, 1} :
         /\ n = 1 <=> ~tx_fifo_full /\ tx_delay # <<>>
         /\ Len(tx_fifo') = Len(tx_fifo) + n
         /\ n = 1 => tx_fifo'[Len(tx_fifo')] = tx_delay[1]
         /\ \A j \in 1 .. Len(tx_fifo) : tx_fifo'[j] = tx_fifo[j]
  BY <1>1, Writes DEF SysSide
<1>3. (~tx_fifo_full) \in BOOLEAN
  BY DEF tx_fifo_full
<1>4. TxCpuEdge(w, ~tx_fifo_full)
  BY <1>1 DEF SysSide
<1>5. /\ tx_delay # <<>> /\ tx_fifo_full => tx_delay' = tx_delay
      /\ w # <<>> => pkt_fifo'[Len(pkt_fifo')] = w[1]
      /\ \E r \in {0, 1} :
            /\ Moves(pkt_fifo, pkt_fifo', r, Len(w))
            /\ r = 1 => delay_ready(~tx_fifo_full)
            /\ delay_ready(~tx_fifo_full) =>
                  tx_delay' = IF r = 1 THEN <<pkt_fifo[1]>> ELSE <<>>
  <2> DEFINE ready == ~tx_fifo_full
  <2>1. ready \in BOOLEAN /\ TxCpuEdge(w, ready)
    BY <1>3, <1>4
  <2> HIDE DEF ready
  <2>2. /\ tx_delay # <<>> /\ ~ready => tx_delay' = tx_delay
        /\ w # <<>> => pkt_fifo'[Len(pkt_fifo')] = w[1]
        /\ \E r \in {0, 1} :
              /\ Moves(pkt_fifo, pkt_fifo', r, Len(w))
              /\ r = 1 => delay_ready(ready)
              /\ delay_ready(ready) =>
                    tx_delay' = IF r = 1 THEN <<pkt_fifo[1]>> ELSE <<>>
    BY <2>1, <1>1, CpuStep
  <2> QED BY <2>2 DEF ready
<1>6. PICK r \in {0, 1} :
         /\ Moves(pkt_fifo, pkt_fifo', r, Len(w))
         /\ r = 1 => delay_ready(~tx_fifo_full)
         /\ delay_ready(~tx_fifo_full) =>
               tx_delay' = IF r = 1 THEN <<pkt_fifo[1]>> ELSE <<>>
  BY <1>5
<1>7. UNCHANGED <<ctrlVars, phyVars, lineVars, tx_sel_1000m, tx_clk_en>>
  BY <1>1 DEF SysSide
<1>8. \/ n = 0 /\ r = 0 /\ tx_delay # <<>> /\ tx_delay' = tx_delay
      \/ /\ n = Len(tx_delay)
         /\ tx_delay' = IF r = 1 THEN <<pkt_fifo[1]>> ELSE <<>>
  <2>1. tx_delay \in Maybe(Word)
    BY DEF IInv, TypeOK
  <2>2. Len(tx_delay) = IF tx_delay = <<>> THEN 0 ELSE 1
    BY <2>1, OneWord
  <2>3. CASE delay_ready(~tx_fifo_full)
    <3>1. n = Len(tx_delay)
      BY <2>2, <2>3, <1>2 DEF delay_ready
    <3> QED BY <3>1, <2>3, <1>6
  <2>4. CASE ~delay_ready(~tx_fifo_full)
    <3>1. tx_delay # <<>> /\ tx_fifo_full
      BY <2>4 DEF delay_ready
    <3> QED BY <3>1, <2>4, <1>2, <1>5, <1>6
  <2> QED BY <2>3, <2>4
<1> QED BY <1>1, <1>2, <1>5, <1>6, <1>7, <1>8

LEMMA WordNumber ==
    ASSUME NEW k \in Nat \ {0}, NEW n \in Nat, k <= 8 * n + 8
    PROVE  (k - 1) \div 8 \in 0 .. n
OBVIOUS

LEMMA GatheredSame ==
    ASSUME NEW bytes, Len(bytes) \in Nat, NEW acc, NEW acc2,
           NEW s \in Nat \ {0}, NEW t \in Nat, s <= t,
           NEW d \in Nat, d <= 8 * (t - s) + 8,
           \A i \in 1 .. t : acc2[i] = acc[i],
           Gathered(bytes, acc, s, d)
    PROVE  Gathered(bytes, acc2, s, d)
<1>1. ASSUME NEW k \in 1 .. Len(bytes), k <= d
      PROVE  DataByte(acc2, s, k) = DataByte(acc, s, k)
  <2>1. t - s \in Nat /\ k \in Nat \ {0} /\ k <= 8 * (t - s) + 8
    BY <1>1
  <2>2. (k - 1) \div 8 \in 0 .. t - s
    BY <2>1, WordNumber
  <2>3. s + (k - 1) \div 8 \in 1 .. t
    BY <2>2
  <2> QED BY <2>3 DEF DataByte
<1> QED BY <1>1 DEF Gathered

\* Types and ranges that the following rests on.
LEMMA FrameFacts ==
    ASSUME IInv, EndsInv, RegistersOK
    PROVE  /\ accepted \in Seq(Word) /\ Len(accepted) \in Nat
           /\ \A i \in 1 .. Len(accepted) : accepted[i] \in Word
           /\ Taken \in Int /\ Taken <= Len(accepted) /\ Start \in Nat \ {0}
           /\ Len(ends) \in Nat /\ sent \in Nat /\ Len(crc) \in Nat
           /\ byte_counter \in 0 .. 7 /\ read_req \in BOOLEAN
           /\ read_req_dl \in BOOLEAN /\ tx_clk_en \in BOOLEAN
           /\ tx_sel_1000m \in BOOLEAN /\ state \in States
           /\ Cur \in Int
<1>1. /\ accepted \in Seq(Word) /\ tx_fifo \in Seq(Word)
      /\ pkt_fifo \in Seq(Word) /\ tx_delay \in Maybe(Word)
      /\ byte_counter \in 0 .. 7 /\ read_req \in BOOLEAN
      /\ tx_clk_en \in BOOLEAN /\ tx_sel_1000m \in BOOLEAN /\ state \in States
  BY DEF IInv, TypeOK
<1>2. /\ Len(accepted) \in Nat /\ Len(tx_fifo) \in Nat /\ Len(pkt_fifo) \in Nat
      /\ \A i \in 1 .. Len(accepted) : accepted[i] \in Word
  BY <1>1
<1>3. Len(tx_delay) \in Nat
  BY <1>1, OneWord
<1>4. Taken \in Int /\ Taken <= Len(accepted)
  BY <1>2, <1>3 DEF Taken
<1>5. ends \in Seq(Nat) /\ sent \in 0 .. Len(ends) /\ Len(ends) \in Nat
  BY DEF EndsInv
<1>6. Start \in Nat \ {0}
  <2>1. CASE sent = 0
    BY <2>1 DEF Start, StartIn
  <2>2. CASE sent # 0
    <3>1. sent \in 1 .. Len(ends) /\ ends[sent] \in Nat
      BY <1>5, <2>2
    <3> QED BY <3>1, <2>2 DEF Start, StartIn
  <2> QED BY <2>1, <2>2
<1>7. Len(crc) \in Nat /\ read_req_dl \in BOOLEAN
  BY ListFacts DEF RegistersOK
<1>8. Cur \in Int
  BY <1>4 DEF Cur, CurIn
<1> QED BY <1>1, <1>2, <1>4, <1>5, <1>6, <1>7, <1>8

\* Numbers of ends, when a word is given.
LEMMA NumbersAppend ==
    ASSUME NEW M \in Nat, NEW N \in Nat, NEW q, NEW q2, NEW e, NEW e2,
           Numbers(e, q, M), Len(q) = N, Len(q2) = N + 1,
           \A i \in 1 .. N : q2[i] = q[i], q2[N + 1].eop,
           e2 = [a \in 1 .. M + 1 |-> e2[a]],
           \A a \in 1 .. M : e2[a] = e[a], e2[M + 1] = N + 1
    PROVE  Numbers(e2, q2, M + 1)
<1>1. e \in [1 .. M -> 1 .. N]
  BY DEF Numbers
<1>2. \A a \in 1 .. M : e[a] \in 1 .. N
  BY <1>1
<1>3. \A a, b \in 1 .. M : a < b => e[a] < e[b]
  BY DEF Numbers
<1>4. \A a \in 1 .. M : q[e[a]].eop
  BY DEF Numbers
<1>5. \A j \in 1 .. N : q[j].eop => \E a \in 1 .. M : e[a] = j
  BY DEF Numbers
<1>6. \A a \in 1 .. M + 1 : a \in 1 .. M \/ a = M + 1
  OBVIOUS
<1>7. M + 1 \in 1 .. M + 1 /\ \A a \in 1 .. M : a \in 1 .. M + 1
  OBVIOUS
<1>8. \A a \in 1 .. M + 1 : e2[a] \in 1 .. N + 1 /\ q2[e2[a]].eop
  <2> TAKE a \in 1 .. M + 1
  <2>1. CASE a \in 1 .. M
    <3>1. e2[a] = e[a] /\ e[a] \in 1 .. N
      BY <2>1, <1>2
    <3>2. q2[e[a]].eop
      BY <2>1, <3>1, <1>4
    <3> QED BY <3>1, <3>2
  <2>2. CASE a = M + 1
    BY <2>2
  <2> QED BY <2>1, <2>2, <1>6
<1>9. e2 \in [1 .. M + 1 -> 1 .. N + 1]
  BY <1>8
<1>10. \A a, b \in 1 .. M + 1 : a < b => e2[a] < e2[b]
  <2> TAKE a, b \in 1 .. M + 1
  <2> HAVE a < b
  <2>1. a \in 1 .. M
    OBVIOUS
  <2>2. e2[a] = e[a] /\ e[a] \in 1 .. N
    BY <2>1, <1>2
  <2>3. CASE b \in 1 .. M
    BY <2>1, <2>2, <2>3, <1>3
  <2>4. CASE b = M + 1
    BY <2>2, <2>4
  <2> QED BY <2>3, <2>4, <1>6
<1>11. \A j \in 1 .. N + 1 : q2[j].eop => \E a \in 1 .. M + 1 : e2[a] = j
  <2> TAKE j \in 1 .. N + 1
  <2> HAVE q2[j].eop
  <2>1. CASE j \in 1 .. N
    <3>1. PICK a \in 1 .. M : e[a] = j
      BY <2>1, <1>5
    <3>2. a \in 1 .. M + 1 /\ e2[a] = j
      BY <3>1, <1>7
    <3> QED BY <3>2
  <2>2. CASE j = N + 1
    BY <2>2, <1>7
  <2> QED BY <2>1, <2>2
<1> QED BY <1>8, <1>9, <1>10, <1>11 DEF Numbers

\* A word without an end leaves the numbers as they are.
LEMMA NumbersKept ==
    ASSUME NEW M \in Nat, NEW N \in Nat, NEW q, NEW q2, NEW e,
           Numbers(e, q, M), Len(q) = N, Len(q2) \in {N, N + 1},
           \A i \in 1 .. N : q2[i] = q[i],
           Len(q2) = N + 1 => ~q2[N + 1].eop
    PROVE  Numbers(e, q2, M)
<1>1. e \in [1 .. M -> 1 .. N]
  BY DEF Numbers
<1>2. \A a \in 1 .. M : e[a] \in 1 .. N
  BY <1>1
<1>3. \A a, b \in 1 .. M : a < b => e[a] < e[b]
  BY DEF Numbers
<1>4. \A a \in 1 .. M : q[e[a]].eop
  BY DEF Numbers
<1>5. \A j \in 1 .. N : q[j].eop => \E a \in 1 .. M : e[a] = j
  BY DEF Numbers
<1>6. 1 .. N \subseteq 1 .. Len(q2)
  OBVIOUS
<1>7. e \in [1 .. M -> 1 .. Len(q2)]
  BY <1>1, <1>6
<1>8. \A a \in 1 .. M : q2[e[a]].eop
  BY <1>2, <1>4
<1>9. \A j \in 1 .. Len(q2) : q2[j].eop => \E a \in 1 .. M : e[a] = j
  <2> TAKE j \in 1 .. Len(q2)
  <2> HAVE q2[j].eop
  <2>1. j \in 1 .. N
    OBVIOUS
  <2> QED BY <2>1, <1>5
<1> QED BY <1>3, <1>7, <1>8, <1>9 DEF Numbers

\* An end that netdma gives is numbered after the others.
LEMMA EndsStep ==
    ASSUME accepted \in Seq(Word), EndsInv, NEW w \in Maybe(Word),
           accepted' = accepted \o w, sent' = sent,
           ends' = IF w # <<>> /\ w[1].eop
                   THEN Append(ends, Len(accepted) + 1) ELSE ends
    PROVE  /\ EndsInv' /\ Len(ends') >= Len(ends)
           /\ \A m \in 1 .. Len(ends) : ends'[m] = ends[m]
<1> DEFINE N == Len(accepted)
           M == Len(ends)
<1>1. /\ ends \in Seq(Nat) /\ N \in Nat /\ M \in Nat
      /\ sent \in 0 .. M
  BY DEF EndsInv
<1>2. Numbers(ends, accepted, M)
  BY DEF EndsInv
<1>3. /\ \A i \in 1 .. N : accepted'[i] = accepted[i]
      /\ w = <<>> => Len(accepted') = N
      /\ w # <<>> => Len(accepted') = N + 1 /\ accepted'[N + 1] = w[1]
  <2>1. w \in Seq(Word) /\ Len(w) = IF w = <<>> THEN 0 ELSE 1
    BY OneWord
  <2>2. /\ Len(accepted') = N + Len(w)
        /\ \A i \in 1 .. N : accepted'[i] = accepted[i]
        /\ w # <<>> => accepted'[N + 1] = w[1]
    BY <2>1
  <2> QED BY <2>1, <2>2, <1>1
<1>4. CASE w # <<>> /\ w[1].eop
  <2>1. ends' = Append(ends, N + 1) /\ N + 1 \in Nat
    BY <1>1, <1>4
  <2>2. /\ ends' \in Seq(Nat) /\ Len(ends') = M + 1
        /\ \A a \in 1 .. M : ends'[a] = ends[a]
        /\ ends'[M + 1] = N + 1
    BY <2>1, <1>1
  <2>3. ends' = [a \in 1 .. M + 1 |-> ends'[a]]
    BY <2>2
  <2>4. /\ Len(accepted') = N + 1 /\ accepted'[N + 1].eop
        /\ \A i \in 1 .. N : accepted'[i] = accepted[i]
    BY <1>3, <1>4
  <2>5. Numbers(ends', accepted', M + 1)
    <3>1. M \in Nat /\ N \in Nat /\ Len(accepted) = N
      BY <1>1
    <3>2. /\ \A a \in 1 .. M : ends'[a] = ends[a]
          /\ ends'[M + 1] = N + 1
      BY <2>2
    <3> HIDE DEF M, N
    <3> QED BY <3>1, <3>2, <2>3, <2>4, <1>2, NumbersAppend
  <2>6. sent' \in 0 .. M + 1
    BY <1>1
  <2>7. EndsInv'
    BY <2>5, <2>2, <2>6 DEF EndsInv
  <2> QED BY <2>2, <2>7, <1>1
<1>5. CASE ~(w # <<>> /\ w[1].eop)
  <2>1. ends' = ends
    BY <1>5
  <2>2. Numbers(ends, accepted', M)
    <3>1. /\ M \in Nat /\ N \in Nat /\ Len(accepted) = N
          /\ Len(accepted') \in {N, N + 1}
          /\ Len(accepted') = N + 1 => ~accepted'[N + 1].eop
          /\ \A i \in 1 .. N : accepted'[i] = accepted[i]
      BY <1>1, <1>3, <1>5
    <3> HIDE DEF M, N
    <3> QED BY <3>1, <1>2, NumbersKept
  <2>3. EndsInv'
    BY <2>1, <2>2, <1>1 DEF EndsInv
  <2> QED BY <2>1, <2>3, <1>1
<1> QED BY <1>4, <1>5

\* The words move on, and nobody overtakes.
LEMMA ChainSys ==
    ASSUME IInv, Chain, EndsInv, SysEdge \/ Accept \/ Cut
    PROVE  /\ Chain' /\ EndsInv' /\ Taken' = Taken
           /\ \A i \in 1 .. Len(accepted) : accepted'[i] = accepted[i]
           /\ Len(ends') >= Len(ends)
           /\ \A m \in 1 .. Len(ends) : ends'[m] = ends[m]
<1>1. PICK w \in Maybe(Word), n \in {0, 1}, r \in {0, 1} :
         /\ accepted' = accepted \o w
         /\ ends' = IF w # <<>> /\ w[1].eop
                    THEN Append(ends, Len(accepted) + 1) ELSE ends
         /\ Len(tx_fifo') = Len(tx_fifo) + n
         /\ \A j \in 1 .. Len(tx_fifo) : tx_fifo'[j] = tx_fifo[j]
         /\ n = 1 => /\ tx_delay # <<>>
                     /\ tx_fifo'[Len(tx_fifo')] = tx_delay[1]
         /\ Moves(pkt_fifo, pkt_fifo', r, Len(w))
         /\ w # <<>> => pkt_fifo'[Len(pkt_fifo')] = w[1]
         /\ \/ /\ n = 0 /\ r = 0 /\ tx_delay # <<>>
               /\ tx_delay' = tx_delay
            \/ /\ n = Len(tx_delay)
               /\ tx_delay' = IF r = 1 THEN <<pkt_fifo[1]>> ELSE <<>>
  BY SysMoves
<1>2. UNCHANGED <<ctrlVars, phyVars, lineVars, tx_sel_1000m, tx_clk_en>>
  BY SysMoves
<1>3. /\ accepted \in Seq(Word) /\ tx_fifo \in Seq(Word)
      /\ pkt_fifo \in Seq(Word) /\ tx_delay \in Maybe(Word)
  BY DEF IInv, TypeOK
<1>4. /\ EndsInv' /\ Len(ends') >= Len(ends)
      /\ \A m \in 1 .. Len(ends) : ends'[m] = ends[m]
  <2>1. sent' = sent
    BY <1>2 DEF lineVars
  <2> QED BY <2>1, <1>1, <1>3, EndsStep
<1> DEFINE N == Len(accepted)
           p == Len(pkt_fifo)
           d == Len(tx_delay)
           t == Len(tx_fifo)
           l == Len(w)
           d2 == Len(tx_delay')
<1>5. N \in Nat /\ p \in Nat /\ t \in Nat
  BY <1>3
<1>6. /\ d \in {0, 1} /\ (d = 0 <=> tx_delay = <<>>)
      /\ l \in {0, 1} /\ (l = 0 <=> w = <<>>) /\ w \in Seq(Word)
  <2>1. /\ d = (IF tx_delay = <<>> THEN 0 ELSE 1)
        /\ l = (IF w = <<>> THEN 0 ELSE 1) /\ w \in Seq(Word)
    BY <1>3, OneWord
  <2> HIDE DEF d, l
  <2> QED BY <2>1
<1>7. /\ Len(accepted') = N + l
      /\ \A i \in 1 .. N : accepted'[i] = accepted[i]
      /\ l = 1 => accepted'[N + 1] = w[1]
  <2>1. /\ Len(accepted') = N + Len(w)
        /\ \A i \in 1 .. N : accepted'[i] = accepted[i]
        /\ w # <<>> => accepted'[N + 1] = w[1]
    BY <1>1, <1>3, <1>6
  <2> HIDE DEF N, l
  <2> QED BY <2>1, <1>6 DEF l
<1>8. /\ Len(pkt_fifo') = p - r + l /\ (r = 1 => pkt_fifo # <<>>)
      /\ \A j \in 1 .. p - r : pkt_fifo'[j] = pkt_fifo[j + r]
  BY <1>1 DEF Moves
<1>9. d - n + r = d2 /\ n <= d
      /\ (tx_delay' # <<>> => \/ n = 0 /\ r = 0 /\ d = 1 /\ tx_delay' = tx_delay
                              \/ n = d /\ r = 1 /\ tx_delay'[1] = pkt_fifo[1])
      /\ ((n = 0 /\ r = 0 /\ d = 1) \/ n = d)
  <2>1. CASE n = 0 /\ r = 0 /\ tx_delay # <<>> /\ tx_delay' = tx_delay
    BY <2>1, <1>6
  <2>2. CASE /\ n = Len(tx_delay)
             /\ tx_delay' = IF r = 1 THEN <<pkt_fifo[1]>> ELSE <<>>
    <3>1. CASE r = 1
      <4>1. tx_delay' = <<pkt_fifo[1]>>
        BY <2>2, <3>1
      <4>2. d2 = 1 /\ tx_delay'[1] = pkt_fifo[1]
        BY <4>1
      <4> QED BY <4>2, <3>1, <2>2, <1>6
    <3>2. CASE r = 0
      <4>1. tx_delay' = <<>> /\ d2 = 0
        BY <2>2, <3>2
      <4> QED BY <4>1, <3>2, <2>2, <1>6
    <3> QED BY <3>1, <3>2
  <2> QED BY <2>1, <2>2, <1>1
<1>10. r = 1 => p >= 1
  BY <1>3, <1>8
<1>11. Taken = N - (t + d + p)
  BY DEF Taken
<1>12. Taken' = (N + l) - ((t + n) + d2 + (p - r + l))
  BY <1>1, <1>7, <1>8 DEF Taken
<1>13. /\ Taken >= 0 /\ (Taken >= 1 => word = accepted[Taken])
       /\ \A j \in 1 .. t : tx_fifo[j] = accepted[Taken + j]
       /\ tx_delay # <<>> => tx_delay[1] = accepted[Taken + t + 1]
       /\ \A j \in 1 .. p : pkt_fifo[j] = accepted[Taken + t + d + j]
  BY DEF Chain
<1> DEFINE k == Taken
<1>14. k = N - (t + d + p) /\ k \in Nat /\ k <= N
  BY <1>5, <1>6, <1>11, <1>13
<1>15. n = 1 => tx_fifo'[t + 1] = tx_delay[1] /\ tx_delay # <<>>
  BY <1>1
<1>16. /\ Len(tx_fifo') = t + n /\ \A j \in 1 .. t : tx_fifo'[j] = tx_fifo[j]
  BY <1>1
<1> HIDE DEF N, p, d, t, l, d2, k
<1>17. Taken' = k
  BY <1>5, <1>6, <1>9, <1>12, <1>14
<1>18. k >= 1 => word' = accepted'[k]
  <2>1. word' = word
    BY <1>2 DEF ctrlVars
  <2> QED BY <2>1, <1>7, <1>13, <1>14 DEF k
<1>19. \A j \in 1 .. t + n : tx_fifo'[j] = accepted'[k + j]
  <2> TAKE j \in 1 .. t + n
  <2>1. CASE j \in 1 .. t
    <3>1. k + j \in 1 .. N
      BY <2>1, <1>5, <1>6, <1>14
    <3>2. tx_fifo'[j] = accepted[k + j]
      BY <2>1, <1>13, <1>16 DEF k
    <3> QED BY <3>1, <3>2, <1>7
  <2>2. CASE j \notin 1 .. t
    <3>1. j = t + 1 /\ n = 1
      BY <2>2, <1>5
    <3>2. d = 1
      BY <3>1, <1>6, <1>15
    <3>3. k + j = k + t + 1 /\ k + j \in 1 .. N
      BY <3>1, <3>2, <1>5, <1>14
    <3>4. tx_fifo'[j] = accepted[k + t + 1]
      BY <3>1, <1>13, <1>15 DEF k
    <3> QED BY <3>3, <3>4, <1>7
  <2> QED BY <2>1, <2>2
<1>20. tx_delay' # <<>> => tx_delay'[1] = accepted'[k + (t + n) + 1]
  <2> SUFFICES ASSUME tx_delay' # <<>>
               PROVE  tx_delay'[1] = accepted'[k + (t + n) + 1]
    OBVIOUS
  <2>1. CASE n = 0 /\ r = 0 /\ d = 1 /\ tx_delay' = tx_delay
    <3>1. k + (t + n) + 1 = k + t + 1 /\ k + t + 1 \in 1 .. N
      BY <2>1, <1>5, <1>14
    <3>2. tx_delay'[1] = accepted[k + t + 1]
      BY <2>1, <1>6, <1>13 DEF k
    <3> QED BY <3>1, <3>2, <1>7
  <2>2. CASE n = d /\ r = 1 /\ tx_delay'[1] = pkt_fifo[1]
    <3>1. 1 \in 1 .. p
      BY <2>2, <1>5, <1>10
    <3>2. pkt_fifo[1] = accepted[k + t + d + 1]
      BY <3>1, <1>13 DEF k
    <3>3. k + (t + n) + 1 = k + t + d + 1 /\ k + t + d + 1 \in 1 .. N
      BY <3>1, <2>2, <1>5, <1>6, <1>14
    <3> QED BY <3>2, <3>3, <2>2, <1>7
  <2> QED BY <2>1, <2>2, <1>9
<1>21. \A j \in 1 .. p - r + l :
          pkt_fifo'[j] = accepted'[k + (t + n) + d2 + j]
  <2> TAKE j \in 1 .. p - r + l
  <2>1. k + (t + n) + d2 + j = k + t + d + (j + r)
    BY <1>5, <1>6, <1>9, <1>14
  <2>2. CASE j \in 1 .. p - r
    <3>1. j + r \in 1 .. p
      BY <2>2, <1>5
    <3>2. k + t + d + (j + r) \in 1 .. N
      BY <3>1, <1>5, <1>6, <1>14
    <3>3. pkt_fifo'[j] = accepted[k + t + d + (j + r)]
      BY <3>1, <2>2, <1>8, <1>13 DEF k
    <3> QED BY <3>2, <3>3, <2>1, <1>7
  <2>3. CASE j \notin 1 .. p - r
    <3>1. l = 1 /\ j = p - r + 1
      BY <2>3, <1>5, <1>6, <1>10
    <3>2. pkt_fifo'[j] = w[1]
      BY <3>1, <1>1, <1>6, <1>8
    <3>3. k + t + d + (j + r) = N + 1
      BY <3>1, <1>5, <1>6, <1>14
    <3> QED BY <3>1, <3>2, <3>3, <2>1, <1>7
  <2> QED BY <2>2, <2>3
<1>22. Chain'
  <2>1. k >= 0
    BY <1>14
  <2>2. Len(tx_fifo') = t + n /\ Len(pkt_fifo') = p - r + l /\ Len(tx_delay') = d2
    BY <1>8, <1>16 DEF d2
  <2>3. \A j \in 1 .. Len(tx_fifo') : tx_fifo'[j] = accepted'[Taken' + j]
    BY <2>2, <1>17, <1>19
  <2>4. tx_delay' # <<>> =>
            tx_delay'[1] = accepted'[Taken' + Len(tx_fifo') + 1]
    BY <2>2, <1>17, <1>20
  <2>5. \A j \in 1 .. Len(pkt_fifo') :
            pkt_fifo'[j] =
                accepted'[Taken' + Len(tx_fifo') + Len(tx_delay') + j]
    BY <2>2, <1>17, <1>21
  <2>6. Taken' >= 0 /\ (Taken' >= 1 => word' = accepted'[Taken'])
    BY <2>1, <1>17, <1>18
  <2> QED BY <2>3, <2>4, <2>5, <2>6 DEF Chain
<1> QED BY <1>4, <1>7, <1>17, <1>22 DEF N, k

\* What an edge leaves alone, the registers and the words that have been read,
\* says the same as before.
LEMMA FrameSys ==
    ASSUME IInv, FrameInv, SysEdge \/ Accept \/ Cut
    PROVE  FrameInv'
<1>1. /\ Chain /\ EndsInv /\ RegistersOK /\ (Idle \/ Sending)
  BY DEF FrameInv
<1>2. UNCHANGED <<ctrlVars, phyVars, lineVars, tx_sel_1000m, tx_clk_en>>
  BY SysMoves
<1>3. /\ Chain' /\ EndsInv' /\ Taken' = Taken
      /\ \A i \in 1 .. Len(accepted) : accepted'[i] = accepted[i]
      /\ Len(ends') >= Len(ends)
      /\ \A m \in 1 .. Len(ends) : ends'[m] = ends[m]
  BY <1>1, ChainSys
<1> DEFINE N == Len(accepted)
<1>4. /\ N \in Nat
      /\ Taken \in Int /\ Taken <= N /\ Start \in Nat \ {0}
      /\ Len(ends) \in Nat /\ sent \in Nat /\ Len(crc) \in Nat
      /\ byte_counter \in 0 .. 7
      /\ \A i \in 1 .. N : accepted[i] \in Word
      /\ Cur \in Int
  BY <1>1, FrameFacts
<1>5. sent \in 0 .. Len(ends) /\ sent' = sent
  BY <1>1, <1>2 DEF EndsInv, lineVars
<1>6. RegistersOK'
  BY <1>1, <1>2 DEF RegistersOK, ctrlVars, lineVars, phyVars
<1>7. Start' = Start
  <2>1. sent # 0 => ends'[sent] = ends[sent]
    BY <1>3, <1>4, <1>5
  <2> QED BY <2>1, <1>5 DEF Start, StartIn
<1>8. Cur' = Cur /\ (Cur = Taken \/ Cur = Taken - 1)
  BY <1>2, <1>3 DEF Cur, CurIn, ctrlVars
<1>9. ASSUME AllSent
      PROVE  AllSent' /\ DataLen' = DataLen
  <2>1. /\ Taken >= Start /\ sent < Len(ends) /\ ends[sent + 1] = Taken
        /\ Gathered(crc, accepted, Start, DataLen)
    BY <1>9 DEF AllSent
  <2>2. Taken \in 1 .. N
    BY <2>1, <1>4
  <2>3. accepted'[Taken] = accepted[Taken] /\ accepted[Taken] \in Word
    BY <2>2, <1>3, <1>4
  <2>4. DataLen' = DataLen
    BY <2>3, <1>3, <1>7 DEF DataLen
  <2>5. DataLen \in Nat /\ DataLen <= 8 * (Taken - Start) + 8
    BY <2>1, <2>3, <1>4, SizeFacts DEF DataLen
  <2>6. \A i \in 1 .. Taken : accepted'[i] = accepted[i]
    BY <2>2, <1>3, <1>4
  <2>7. Gathered(crc, accepted', Start, DataLen)
    BY <2>1, <2>2, <2>5, <2>6, <1>4, GatheredSame
  <2>8. crc' = crc
    BY <1>2 DEF ctrlVars
  <2>9. sent + 1 \in 1 .. Len(ends)
    BY <2>1, <1>4
  <2>10. sent' < Len(ends') /\ ends'[sent' + 1] = Taken'
    <3>1. EndsInv' => Len(ends') \in Nat
      BY DEF EndsInv
    <3> QED BY <3>1, <2>1, <2>9, <1>3, <1>4, <1>5
  <2>11. Gathered(crc', accepted', Start', DataLen')
    BY <2>4, <2>7, <2>8, <1>7
  <2> QED BY <2>1, <2>4, <2>10, <2>11, <1>3, <1>7 DEF AllSent
<1>10. ASSUME InData
       PROVE  InData'
  <2>1. /\ Cur >= Start /\ Len(crc) = 8 * (Cur - Start) + byte_counter
        /\ Gathered(crc, accepted, Start, Len(crc))
        /\ \A i \in Start .. Cur - 1 : ~accepted[i].eop
    BY <1>10 DEF InData
  <2>2. Cur \in 1 .. N
    BY <2>1, <1>4, <1>8
  <2>3. accepted'[Cur] = accepted[Cur]
    BY <2>2, <1>3
  <2>4. \A i \in 1 .. Cur : accepted'[i] = accepted[i]
    BY <2>2, <1>3, <1>4
  <2>5. Gathered(crc, accepted', Start, Len(crc))
    <3>1. Len(crc) <= 8 * (Cur - Start) + 8 /\ Cur \in Nat
      BY <2>1, <2>2, <1>4
    <3> QED BY <3>1, <2>1, <2>4, <1>4, GatheredSame
  <2>6. \A i \in Start .. Cur - 1 : ~accepted'[i].eop
    BY <2>1, <2>4, <1>4
  <2> QED BY <2>1, <2>3, <2>5, <2>6, <1>2, <1>3, <1>7, <1>8, <1>10
          DEF InData, ctrlVars
<1>11. Body => Body'
  BY <1>2, <1>3, <1>7, <1>9, <1>10 DEF Body, ctrlVars
<1>12. Pos' = Pos /\ Top' = Top /\ Sym' = Sym /\ Last' = Last
  <2>1. Pos' = Pos
    BY <1>2 DEF Pos, ctrlVars
  <2>2. Top' = Top
    BY <2>1, <1>2 DEF Top, ctrlVars
  <2> QED BY <2>1, <2>2, <1>2 DEF Sym, Last
<1>13. Pipe => Pipe'
  BY <1>2, <1>12 DEF Pipe, ctrlVars, phyVars, lineVars
<1>14. Sending => Sending'
  BY <1>2, <1>11, <1>12, <1>13 DEF Sending
<1>15. Idle => Idle'
  BY <1>2, <1>3, <1>7 DEF Idle, ctrlVars, phyVars, lineVars
<1> QED BY <1>1, <1>3, <1>6, <1>14, <1>15 DEF FrameInv

-----------------------------------------------------------------------------
(* The transmit clock. *)

\* A word is read when it is asked for.
LEMMA ChainTx ==
    ASSUME IInv, TimeInv, Chain, EndsInv, RegistersOK, TxEdge
    PROVE  /\ Chain' /\ accepted' = accepted /\ ends' = ends
           /\ tx_sel_1000m' = tx_sel_1000m
           /\ tx_clk_en' = (tx_sel_1000m \/ ~tx_clk_en)
           /\ read_req_dl' = read_req
           /\ read_req => Taken' = Taken + 1
           /\ ~read_req => Taken' = Taken
<1>1. PICK r \in {0, 1} :
         /\ r = 1 <=> read_req /\ rd_used >= 1
         /\ Len(tx_fifo') = Len(tx_fifo) - r
         /\ r = 0 => word' = word
         /\ r = 1 => tx_fifo # <<>> /\ word' = tx_fifo[1]
         /\ \A j \in 1 .. Len(tx_fifo') : tx_fifo'[j] = tx_fifo[j + r]
  BY ReadsWords
<1>2. r = 1 <=> read_req
  BY <1>1 DEF TimeInv, Due
<1>3. /\ UNCHANGED txCpuVars /\ UNCHANGED srcVars
      /\ tx_sel_1000m' = tx_sel_1000m
      /\ tx_clk_en' = (tx_sel_1000m \/ ~tx_clk_en)
      /\ read_req_dl' = read_req
  BY DEF TxEdge, CtrlEdge
<1>4. /\ accepted' = accepted /\ ends' = ends
      /\ tx_delay' = tx_delay /\ pkt_fifo' = pkt_fifo
  BY <1>3 DEF txCpuVars, srcVars
<1> DEFINE N == Len(accepted)
           t == Len(tx_fifo)
           d == Len(tx_delay)
           p == Len(pkt_fifo)
           k == Taken
<1>5. N \in Nat /\ t \in Nat /\ d \in Nat /\ p \in Nat
  <2>1. /\ accepted \in Seq(Word) /\ tx_fifo \in Seq(Word)
        /\ pkt_fifo \in Seq(Word) /\ tx_delay \in Maybe(Word)
    BY DEF IInv, TypeOK
  <2> QED BY <2>1, OneWord
<1>6. k = N - (t + d + p) /\ k \in Int
  BY <1>5 DEF Taken
<1>7. Taken' = N - ((t - r) + d + p)
  BY <1>1, <1>4 DEF Taken
<1>8. /\ k >= 0
      /\ \A j \in 1 .. t : tx_fifo[j] = accepted[k + j]
      /\ tx_delay # <<>> => tx_delay[1] = accepted[k + t + 1]
      /\ \A j \in 1 .. p : pkt_fifo[j] = accepted[k + t + d + j]
      /\ k >= 1 => word = accepted[k]
  BY DEF Chain
<1>9. r = 1 => t >= 1
  <2>1. tx_fifo \in Seq(Word)
    BY DEF IInv, TypeOK
  <2> QED BY <2>1, <1>1
<1> HIDE DEF N, t, d, p, k
<1>10. Taken' = k + r
  BY <1>5, <1>6, <1>7
<1>11. Len(tx_fifo') = t - r
  BY <1>1 DEF t
<1>12. \A j \in 1 .. t - r : tx_fifo'[j] = accepted[(k + r) + j]
  <2> TAKE j \in 1 .. t - r
  <2>1. j + r \in 1 .. t /\ k + (j + r) = (k + r) + j
    BY <1>5, <1>6
  <2>2. tx_fifo'[j] = tx_fifo[j + r]
    BY <1>1, <1>11
  <2> QED BY <2>1, <2>2, <1>8
<1>13. /\ (k + r) + (t - r) + 1 = k + t + 1
       /\ \A j \in 1 .. p : (k + r) + (t - r) + d + j = k + t + d + j
  BY <1>5, <1>6
<1>14. k + r >= 1 => word' = accepted[k + r]
  <2>1. CASE r = 1
    <3>1. 1 \in 1 .. t
      BY <2>1, <1>5, <1>9
    <3> QED BY <3>1, <2>1, <1>1, <1>8
  <2>2. CASE r = 0
    <3>1. k + r = k
      BY <2>2, <1>6
    <3> QED BY <3>1, <2>2, <1>1, <1>8
  <2> QED BY <2>1, <2>2
<1>15. Chain'
  <2>1. Taken' >= 0 /\ (Taken' >= 1 => word' = accepted'[Taken'])
    BY <1>4, <1>6, <1>8, <1>10, <1>14
  <2>2. \A j \in 1 .. Len(tx_fifo') : tx_fifo'[j] = accepted'[Taken' + j]
    BY <1>4, <1>10, <1>11, <1>12
  <2>3. tx_delay' # <<>> =>
            tx_delay'[1] = accepted'[Taken' + Len(tx_fifo') + 1]
    BY <1>4, <1>8, <1>10, <1>11, <1>13
  <2>4. \A j \in 1 .. Len(pkt_fifo') :
            pkt_fifo'[j] =
                accepted'[Taken' + Len(tx_fifo') + Len(tx_delay') + j]
    BY <1>4, <1>8, <1>10, <1>11, <1>13 DEF p, d
  <2> QED BY <2>1, <2>2, <2>3, <2>4 DEF Chain
<1>16. /\ read_req => Taken' = Taken + 1
       /\ ~read_req => Taken' = Taken
  BY <1>2, <1>6, <1>10 DEF k
<1> QED BY <1>3, <1>4, <1>15, <1>16

\* What an enabled edge does in each state; the others do nothing.
Stays == UNCHANGED <<state, ifg_counter, preamb_counter, pkt_counter,
                     byte_counter, last_byte, crc, crc_counter, TxD, TxEn>>

LEMMA CtrlStates ==
    ASSUME IInv, TxEdge
    PROVE  /\ ~tx_clk_en => Stays /\ ~read_req'
           /\ tx_clk_en => EnabledEdge(tx_data_ready)
                           /\ read_req' = ReadReq(tx_data_ready)
           /\ read_req => (state = "SFD" /\ byte_counter = 0)
                          \/ (state = "DATA" /\ byte_counter = 7)
           /\ state \in {"PREAMBLE", "SFD"} => byte_counter = 0
<1>1. /\ IF tx_clk_en THEN EnabledEdge(tx_data_ready) ELSE Stays
      /\ read_req' = (tx_clk_en /\ ReadReq(tx_data_ready))
  BY DEF TxEdge, CtrlEdge, Stays
<1>2. ReadReq(tx_data_ready) \in BOOLEAN
  BY DEF ReadReq
<1>3. tx_clk_en \in BOOLEAN /\ Control
  BY DEF IInv, TypeOK
<1> QED BY <1>1, <1>2, <1>3 DEF Control

LEMMA GatheredData ==
    ASSUME NEW bytes, IsList(bytes), NEW acc, NEW s, NEW e,
           Gathered(bytes, acc, s, Len(bytes)),
           e = DataByte(acc, s, Len(bytes) + 1)
    PROVE  Gathered(Append(bytes, e), acc, s, Len(bytes) + 1)
<1> DEFINE n == Len(bytes)
           t == Append(bytes, e)
<1>1. /\ n \in Nat /\ Len(t) = n + 1 /\ t[n + 1] = e
      /\ \A j \in 1 .. n : t[j] = bytes[j]
  BY ListFacts, ListAppend
<1>2. \A k \in 1 .. n : bytes[k] = DataByte(acc, s, k)
  BY <1>1 DEF Gathered
<1> HIDE DEF n, t
<1>3. \A k \in 1 .. n + 1 : t[k] = DataByte(acc, s, k) /\ ~(k > n + 1)
  <2> TAKE k \in 1 .. n + 1
  <2>1. k \in 1 .. n \/ k = n + 1
    BY <1>1
  <2>2. ~(k > n + 1)
    BY <1>1
  <2> QED BY <2>1, <2>2, <1>1, <1>2 DEF n
<1>4. Gathered(t, acc, s, n + 1)
  BY <1>1, <1>3 DEF Gathered
<1> QED BY <1>4 DEF n, t

LEMMA GatheredPad ==
    ASSUME NEW bytes, IsList(bytes), NEW acc, NEW s, NEW d \in Nat,
           d <= Len(bytes), Gathered(bytes, acc, s, d)
    PROVE  Gathered(Append(bytes, <<"00">>), acc, s, d)
<1> DEFINE n == Len(bytes)
           t == Append(bytes, <<"00">>)
<1>1. /\ n \in Nat /\ Len(t) = n + 1 /\ t[n + 1] = <<"00">>
      /\ \A j \in 1 .. n : t[j] = bytes[j]
  BY ListFacts, ListAppend
<1>2. \A k \in 1 .. n : /\ k <= d => bytes[k] = DataByte(acc, s, k)
                        /\ k > d => bytes[k] = <<"00">>
  BY DEF Gathered
<1>3. d <= n
  OBVIOUS
<1> HIDE DEF n, t
<1>4. \A k \in 1 .. n + 1 : /\ k <= d => t[k] = DataByte(acc, s, k)
                            /\ k > d => t[k] = <<"00">>
  <2> TAKE k \in 1 .. n + 1
  <2>1. CASE k \in 1 .. n
    BY <2>1, <1>1, <1>2
  <2>2. CASE k = n + 1
    <3>1. ~(k <= d)
      BY <2>2, <1>1, <1>3
    <3> QED BY <3>1, <2>2, <1>1
  <2> QED BY <2>1, <2>2, <1>1
<1>5. Gathered(t, acc, s, d)
  BY <1>1, <1>4 DEF Gathered
<1> QED BY <1>5 DEF t

\* The first end from Start on is the one after the ends of the frames sent.
LEMMA NextEnd ==
    ASSUME EndsInv, NEW n \in Nat, n >= Start, n <= Len(accepted),
           Len(accepted) \in Nat, accepted[n].eop,
           \A i \in Start .. n - 1 : ~accepted[i].eop
    PROVE  sent < Len(ends) /\ ends[sent + 1] = n
<1> DEFINE M == Len(ends)
           N == Len(accepted)
<1>1. /\ ends \in Seq(Nat) /\ M \in Nat /\ sent \in 0 .. M /\ N \in Nat
      /\ Numbers(ends, accepted, M) /\ n \in Nat /\ n <= N
  BY DEF EndsInv
<1>2. Start = IF sent = 0 THEN 1 ELSE ends[sent] + 1
  BY DEF Start, StartIn
<1> HIDE DEF M, N
<1>3. \A a \in 1 .. M : ends[a] \in 1 .. N
  <2>1. ends \in [1 .. M -> 1 .. N]
    BY <1>1 DEF Numbers, N
  <2> QED BY <2>1
<1>4. \A a, b \in 1 .. M : a < b => ends[a] < ends[b]
  BY <1>1 DEF Numbers
<1>5. \A a \in 1 .. M : accepted[ends[a]].eop
  BY <1>1 DEF Numbers
<1>6. \A j \in 1 .. N : accepted[j].eop => \E a \in 1 .. M : ends[a] = j
  BY <1>1 DEF Numbers, N
<1>7. Start \in Nat \ {0} /\ (sent # 0 => ends[sent] < Start)
  <2>1. sent # 0 => sent \in 1 .. M
    BY <1>1
  <2> QED BY <2>1, <1>2, <1>3
<1>8. n \in 1 .. N
  BY <1>1, <1>7
<1>9. PICK a \in 1 .. M : ends[a] = n
  BY <1>6, <1>8
<1>10. a > sent
  <2> SUFFICES ASSUME a <= sent PROVE FALSE
    BY <1>1
  <2>1. sent \in 1 .. M /\ (a = sent \/ a < sent)
    BY <1>1
  <2>2. ends[a] <= ends[sent] /\ ends[sent] \in 1 .. N
    BY <2>1, <1>3, <1>4
  <2>3. ends[sent] < Start /\ ends[sent] \in Int
    BY <2>1, <2>2, <1>7
  <2> QED BY <2>2, <2>3, <1>7, <1>9
<1>11. a = sent + 1
  <2> SUFFICES ASSUME a > sent + 1 PROVE FALSE
    BY <1>1, <1>10
  <2>1. sent + 1 \in 1 .. M
    BY <1>1
  <2>2. ends[sent + 1] < n /\ ends[sent + 1] \in 1 .. N
    BY <2>1, <1>3, <1>4, <1>9
  <2>3. accepted[ends[sent + 1]].eop
    BY <2>1, <1>5
  <2>4. Start <= ends[sent + 1]
    <3>1. CASE sent = 0
      BY <3>1, <2>2, <1>2
    <3>2. CASE sent # 0
      <4>1. sent \in 1 .. M /\ sent < sent + 1
        BY <3>2, <1>1
      <4>2. ends[sent] < ends[sent + 1] /\ ends[sent] \in 1 .. N
        BY <4>1, <2>1, <1>3, <1>4
      <4> QED BY <4>2, <3>2, <2>2, <1>2
    <3> QED BY <3>1, <3>2
  <2>5. ends[sent + 1] \in Start .. n - 1
    BY <2>2, <2>4, <1>7, <1>1
  <2> QED BY <2>3, <2>5
<1>12. sent < M /\ ends[sent + 1] = n
  BY <1>1, <1>9, <1>11
<1> QED BY <1>12 DEF M

\* AllSent goes on while the words read, the bytes and the frame are the same.
LEMMA AllSentKept ==
    ASSUME AllSent, Taken' = Taken, Start' = Start, accepted' = accepted,
           ends' = ends, sent' = sent, crc' = crc
    PROVE  AllSent' /\ DataLen' = DataLen
<1>1. DataLen' = DataLen
  BY DEF DataLen
<1> QED BY <1>1 DEF AllSent

LEMMA AllSentLen ==
    ASSUME IInv, EndsInv, RegistersOK, AllSent
    PROVE  DataLen \in Nat
<1>1. Taken \in 1 .. Len(accepted) /\ Start \in Nat /\ Taken \in Int
      /\ Taken >= Start
  BY FrameFacts DEF AllSent
<1>2. Size(accepted[Taken]) \in 1 .. 8
  BY <1>1, FrameFacts, SizeFacts
<1> QED BY <1>1, <1>2 DEF DataLen

\* An edge that is not enabled: the next word may come.
LEMMA BodyHeld ==
    ASSUME IInv, TimeInv, Chain, EndsInv, RegistersOK, TxEdge, Body,
           ~tx_clk_en, sent' = sent
    PROVE  Body'
<1>1. /\ accepted' = accepted /\ ends' = ends
      /\ tx_clk_en' = TRUE /\ read_req_dl' = read_req
      /\ read_req => Taken' = Taken + 1
      /\ ~read_req => Taken' = Taken
  BY ChainTx
<1>2. /\ state' = state /\ ifg_counter' = ifg_counter
      /\ preamb_counter' = preamb_counter /\ pkt_counter' = pkt_counter
      /\ byte_counter' = byte_counter /\ last_byte' = last_byte
      /\ crc' = crc /\ crc_counter' = crc_counter
      /\ ~read_req'
  BY CtrlStates DEF Stays
<1>3. /\ Taken \in Int /\ Start \in Nat \ {0} /\ byte_counter \in 0 .. 7
      /\ read_req \in BOOLEAN /\ read_req_dl \in BOOLEAN /\ state \in States
  BY FrameFacts
<1>4. /\ read_req => state \in {"SFD", "DATA"}
      /\ read_req /\ state = "DATA" => byte_counter = 7
  BY CtrlStates
<1>5. Start' = Start
  BY <1>1 DEF Start
<1>6. CASE state = "PREAMBLE"
  BY <1>1, <1>2, <1>4, <1>5, <1>6 DEF Body
<1>7. CASE state = "SFD"
  <2>1. Taken' = Start' /\ pkt_counter' = 0
    BY <1>1, <1>2, <1>3, <1>5, <1>7 DEF Body
  <2> QED BY <2>1, <1>2, <1>7 DEF Body
<1>8. CASE state = "DATA"
  <2>1. InData
    BY <1>8 DEF Body
  <2>2. CASE read_req
    <3>1. byte_counter = 7 /\ ~read_req_dl /\ ~accepted[Cur].eop
      BY <2>1, <2>2, <1>4, <1>8 DEF InData
    <3>2. Cur = Taken
      BY <3>1 DEF Cur, CurIn
    <3>3. Cur' = Taken' - 1
      BY <3>1, <2>2, <1>1, <1>2 DEF Cur, CurIn
    <3>4. Cur' = Cur
      BY <3>2, <3>3, <2>2, <1>1, <1>3
    <3>5. InData'
      BY <3>1, <3>4, <2>1, <2>2, <1>1, <1>2, <1>5 DEF InData
    <3> QED BY <3>5, <1>2, <1>8 DEF Body
  <2>3. CASE ~read_req
    <3>1. ~(byte_counter = 7 /\ read_req_dl)
      BY <2>1 DEF InData
    <3>2. Cur = Taken
      BY <3>1 DEF Cur, CurIn
    <3>3. Cur' = Taken'
      BY <2>3, <1>1 DEF Cur, CurIn
    <3>4. Cur' = Cur /\ Cur' = Taken'
      BY <3>2, <3>3, <2>3, <1>1
    <3>5. InData'
      BY <3>1, <3>4, <2>1, <2>3, <1>1, <1>2, <1>5 DEF InData
    <3> QED BY <3>5, <1>2, <1>8 DEF Body
  <2> QED BY <2>2, <2>3
<1>9. CASE state \in {"PAD", "FCS", "IFG"}
  <2>1. AllSent /\ Taken' = Taken
    BY <1>1, <1>4, <1>9 DEF Body
  <2>2. AllSent' /\ DataLen' = DataLen
    BY <2>1, <1>1, <1>2, <1>5, AllSentKept
  <2> QED BY <2>2, <1>2, <1>9 DEF Body
<1> QED BY <1>3, <1>6, <1>7, <1>8, <1>9 DEF States

\* Which byte is sent in a word, and whether it is the last of the packet.
LEMMA ThisByte ==
    ASSUME IInv, Chain, EndsInv, RegistersOK, InData, state = "DATA"
    PROVE  /\ Cur \in 1 .. Len(accepted) /\ accepted[Cur] \in Word
           /\ data_byte = <<"data", accepted[Cur], byte_counter>>
           /\ end_frame <=> /\ accepted[Cur].eop
                            /\ byte_counter = Size(accepted[Cur]) - 1
           /\ accepted[Cur].eop => Cur = Taken /\ ~read_req
           /\ byte_counter # 7 \/ ~read_req_dl =>
                  Cur = Taken /\ word = accepted[Cur]
<1>1. /\ Taken \in Int /\ Taken <= Len(accepted) /\ Start \in Nat \ {0}
      /\ byte_counter \in 0 .. 7 /\ read_req_dl \in BOOLEAN
      /\ \A i \in 1 .. Len(accepted) : accepted[i] \in Word
      /\ Len(accepted) \in Nat
  BY FrameFacts
<1>2. /\ Cur >= Start /\ Cur \in Int
      /\ accepted[Cur].eop => Cur = Taken /\ ~read_req
      /\ byte_counter >= 1 => last_byte = <<"data", accepted[Cur], 7>>
  BY FrameFacts DEF InData
<1>3. CASE byte_counter # 7 \/ ~read_req_dl
  <2>1. Cur = Taken
    BY <1>3 DEF Cur, CurIn
  <2>2. Cur \in 1 .. Len(accepted) /\ word = accepted[Cur]
    BY <2>1, <1>1, <1>2 DEF Chain
  <2>3. accepted[Cur] \in Word
    BY <2>2, <1>1
  <2>4. data_byte = <<"data", accepted[Cur], byte_counter>>
    <3>1. CASE byte_counter = 7
      BY <3>1, <1>2 DEF data_byte
    <3>2. CASE byte_counter # 7
      BY <3>2, <2>2 DEF data_byte, pkt_fifo_data
    <3> QED BY <3>1, <3>2
  <2>5. end_frame <=> /\ accepted[Cur].eop
                      /\ byte_counter = Size(accepted[Cur]) - 1
    <3>1. CASE accepted[Cur].mod = 0
      <4>1. Size(accepted[Cur]) = 8
        BY <3>1 DEF Size
      <4>2. end_frame <=> accepted[Cur].eop /\ byte_counter = 7
        BY <3>1, <2>2, <1>3 DEF end_frame
      <4> QED BY <4>1, <4>2
    <3>2. CASE accepted[Cur].mod # 0
      <4>1. accepted[Cur].eop => Size(accepted[Cur]) = accepted[Cur].mod
        BY <3>2 DEF Size
      <4>2. end_frame <=> accepted[Cur].eop
                          /\ byte_counter = accepted[Cur].mod - 1
        BY <3>2, <2>2 DEF end_frame
      <4> QED BY <4>1, <4>2
    <3> QED BY <3>1, <3>2
  <2> QED BY <2>1, <2>2, <2>3, <2>4, <2>5, <1>2
<1>4. CASE byte_counter = 7 /\ read_req_dl
  <2>1. Cur = Taken - 1
    BY <1>4 DEF Cur, CurIn
  <2>2. /\ Cur \in 1 .. Len(accepted) /\ Taken \in 1 .. Len(accepted)
        /\ word = accepted[Taken]
    BY <2>1, <1>1, <1>2 DEF Chain
  <2>3. accepted[Cur] \in Word /\ word \in Word
    BY <2>2, <1>1
  <2>4. ~accepted[Cur].eop
    BY <2>1, <1>1, <1>2
  <2>5. data_byte = <<"data", accepted[Cur], byte_counter>>
    BY <1>2, <1>4 DEF data_byte
  <2>6. ~end_frame
    <3>1. word.mod \in 0 .. 7
      BY <2>3 DEF Word
    <3>2. word.mod # 0 => byte_counter # word.mod - 1
      BY <3>1, <1>4
    <3> QED BY <3>2, <1>4 DEF end_frame
  <2> QED BY <2>2, <2>3, <2>4, <2>5, <2>6, <1>4
<1> QED BY <1>3, <1>4

LEMMA DataNumber ==
    ASSUME NEW n \in Nat, NEW b \in 0 .. 7
    PROVE  (8 * n + b) \div 8 = n /\ (8 * n + b) % 8 = b
OBVIOUS

LEMMA Counted ==
    ASSUME NEW n \in Nat, NEW c, c = Saturated(n)
    PROVE  /\ (IF c # 255 THEN c + 1 ELSE c) = Saturated(n + 1)
           /\ n <= 255 => c = n
           /\ n > 255 => c = 255
BY DEF Saturated

\* A byte of a word goes to the pins and into the CRC.
LEMMA DataStep ==
    ASSUME IInv, TimeInv, Chain, EndsInv, RegistersOK, TxEdge, Body,
           tx_clk_en, state = "DATA", sent' = sent
    PROVE  Body'
<1>1. /\ accepted' = accepted /\ ends' = ends /\ read_req_dl' = read_req
      /\ read_req => Taken' = Taken + 1
      /\ ~read_req => Taken' = Taken
  BY ChainTx
<1>2. /\ state' = next_state(tx_data_ready) /\ Counters /\ CrcGen
      /\ last_byte' = IF byte_counter = 0 THEN pkt_fifo_data(7) ELSE last_byte
      /\ read_req' = ReadReq(tx_data_ready)
  BY CtrlStates DEF EnabledEdge
<1> DEFINE L == Len(crc)
           e == <<"data", accepted[Cur], byte_counter>>
<1>3. /\ Taken \in Int /\ Start \in Nat \ {0} /\ byte_counter \in 0 .. 7
      /\ read_req \in BOOLEAN /\ read_req_dl \in BOOLEAN /\ L \in Nat
      /\ Len(accepted) \in Nat /\ Cur \in Int
  BY FrameFacts
<1>4. Start' = Start
  BY <1>1 DEF Start
<1>5. InData
  BY DEF Body
<1>6. /\ Cur \in 1 .. Len(accepted) /\ accepted[Cur] \in Word
      /\ data_byte = e
      /\ end_frame <=> /\ accepted[Cur].eop
                       /\ byte_counter = Size(accepted[Cur]) - 1
      /\ accepted[Cur].eop => Cur = Taken /\ ~read_req
      /\ byte_counter # 7 \/ ~read_req_dl =>
             Cur = Taken /\ word = accepted[Cur]
  BY <1>5, ThisByte
<1>7. Size(accepted[Cur]) \in 1 .. 8
  BY <1>6, SizeFacts
<1>8. /\ Cur >= Start /\ L = 8 * (Cur - Start) + byte_counter
      /\ Gathered(crc, accepted, Start, L)
      /\ \A i \in Start .. Cur - 1 : ~accepted[i].eop
      /\ accepted[Cur].eop => byte_counter < Size(accepted[Cur])
      /\ byte_counter >= 1 => last_byte = <<"data", accepted[Cur], 7>>
      /\ byte_counter = 7 /\ ~accepted[Cur].eop => read_req \/ read_req_dl
      /\ read_req => ~read_req_dl
      /\ pkt_counter = Saturated(L)
  BY <1>5 DEF InData
<1>9. /\ crc' = Append(crc, e) /\ crc_counter' = 0
      /\ byte_counter' = IF byte_counter = 7 THEN 0 ELSE byte_counter + 1
      /\ pkt_counter' = IF pkt_counter # 255 THEN pkt_counter + 1
                        ELSE pkt_counter
  <2>1. tx_data_tmp = e
    BY <1>6 DEF tx_data_tmp
  <2>2. (byte_counter + 1) % 8 = IF byte_counter = 7 THEN 0 ELSE byte_counter + 1
    BY <1>3, ByteCounted
  <2> QED BY <2>1, <2>2, <1>2 DEF CrcGen, Counters
<1>10. e = DataByte(accepted, Start, L + 1)
  <2>1. Cur - Start \in Nat /\ (L + 1) - 1 = 8 * (Cur - Start) + byte_counter
    BY <1>3, <1>8
  <2>2. ((L + 1) - 1) \div 8 = Cur - Start /\ ((L + 1) - 1) % 8 = byte_counter
    BY <2>1, <1>3, DataNumber
  <2>3. Start + (Cur - Start) = Cur
    BY <1>3
  <2> QED BY <2>2, <2>3 DEF DataByte
<1>11. IsList(crc)
  BY DEF RegistersOK
<1>12. Gathered(crc', accepted, Start, L + 1) /\ Len(crc') = L + 1
  BY <1>8, <1>9, <1>10, <1>11, GatheredData, ListAppend
<1>13. /\ pkt_counter' = Saturated(L + 1)
       /\ L <= 255 => pkt_counter = L
       /\ L > 255 => pkt_counter = 255
  <2>1. pkt_counter = Saturated(L) /\ L \in Nat
    BY <1>3, <1>8
  <2> HIDE DEF L
  <2>2. /\ (IF pkt_counter # 255 THEN pkt_counter + 1 ELSE pkt_counter)
               = Saturated(L + 1)
        /\ L <= 255 => pkt_counter = L
        /\ L > 255 => pkt_counter = 255
    BY <2>1, Counted
  <2> QED BY <2>2, <1>9
<1> HIDE DEF L, e
<1>14. CASE end_frame
  <2>1. /\ Cur = Taken /\ ~read_req /\ accepted[Taken].eop
        /\ byte_counter = Size(accepted[Taken]) - 1
    BY <1>6, <1>14
  <2>2. Taken' = Taken
    BY <2>1, <1>1
  <2>3. sent < Len(ends) /\ ends[sent + 1] = Taken
    <3>1. Taken \in Nat /\ Taken >= Start /\ Taken <= Len(accepted)
      BY <2>1, <1>6, <1>8
    <3>2. \A i \in Start .. Taken - 1 : ~accepted[i].eop
      BY <2>1, <1>8
    <3> QED BY <2>1, <3>1, <3>2, <1>3, NextEnd
  <2>4. DataLen' = L + 1
    <3>1. DataLen = 8 * (Cur - Start) + (byte_counter + 1)
      <4>1. Size(accepted[Taken]) = byte_counter + 1
        BY <2>1, <1>3, <1>7
      <4> QED BY <4>1, <2>1 DEF DataLen
    <3>2. DataLen' = DataLen
      BY <2>2, <1>1, <1>4 DEF DataLen
    <3> QED BY <3>1, <3>2, <1>3, <1>8
  <2>5. AllSent'
    <3>1. Taken' >= Start'
      BY <2>1, <2>2, <1>4, <1>8
    <3>2. sent' < Len(ends') /\ ends'[sent' + 1] = Taken'
      BY <2>2, <2>3, <1>1
    <3>3. Gathered(crc', accepted', Start', DataLen')
      BY <2>4, <1>1, <1>4, <1>12
    <3> QED BY <3>1, <3>2, <3>3 DEF AllSent
  <2>6. MIN_LAST \in 0 .. 254
    BY GmiiTxAssumption
  <2>7. state' = IF pkt_counter < MIN_LAST THEN "PAD" ELSE "FCS"
    BY <1>2, <1>14 DEF next_state
  <2>8. CASE pkt_counter < MIN_LAST
    <3>1. L < MIN_LAST
      BY <2>6, <2>8, <1>3, <1>13
    <3>2. pkt_counter = L
      BY <3>1, <2>6, <1>3, <1>13
    <3>3. /\ DataLen' <= Len(crc') /\ Len(crc') <= MIN_LAST
          /\ pkt_counter' = Len(crc')
      BY <3>1, <3>2, <2>4, <2>6, <1>3, <1>9, <1>12
    <3> QED BY <3>3, <2>5, <2>7, <2>8 DEF Body
  <2>9. CASE ~(pkt_counter < MIN_LAST)
    <3>1. L >= MIN_LAST
      BY <2>6, <2>9, <1>3, <1>13
    <3>2. PaddedLen(DataLen') = L + 1
      BY <3>1, <2>4, <2>6, <1>3 DEF PaddedLen
    <3>3. PaddedLen(DataLen)' = L + 1
      BY <3>2 DEF PaddedLen
    <3>4. crc_counter' \in 0 .. FCS_LEN - 1
      BY <1>9 DEF FCS_LEN
    <3> QED BY <3>3, <3>4, <2>5, <2>7, <2>9, <1>12 DEF Body
  <2> QED BY <2>8, <2>9
<1>15. CASE ~end_frame
  <2>1. state' = "DATA"
    BY <1>2, <1>15 DEF next_state
  <2>2. read_req' <=> byte_counter = 6 /\ ~word.eop
    BY <2>1, <1>2 DEF ReadReq
  <2>3. CASE byte_counter # 7
    <3>1. Cur = Taken /\ word = accepted[Cur]
      BY <2>3, <1>6
    <3>2. ~read_req
      BY <2>3, CtrlStates
    <3>3. byte_counter' = byte_counter + 1 /\ Taken' = Taken /\ ~read_req_dl'
      BY <2>3, <3>2, <1>1, <1>9
    <3>4. Cur' = Taken'
      BY <3>3 DEF Cur, CurIn
    <3>5. Cur' = Cur /\ Cur' = Taken'
      BY <3>1, <3>3, <3>4
    <3>6. Len(crc') = 8 * (Cur - Start) + byte_counter'
      BY <3>3, <1>3, <1>8, <1>12
    <3>7. accepted[Cur].eop => ~read_req' /\ byte_counter' < Size(accepted[Cur])
      BY <3>1, <3>3, <2>2, <1>3, <1>6, <1>7, <1>8, <1>15
    <3>8. last_byte' = <<"data", accepted[Cur], 7>>
      <4>1. CASE byte_counter = 0
        BY <4>1, <3>1, <1>2 DEF pkt_fifo_data
      <4>2. CASE byte_counter # 0
        BY <4>2, <1>2, <1>3, <1>8
      <4> QED BY <4>1, <4>2
    <3>9. byte_counter' = 7 /\ ~accepted[Cur].eop => read_req'
      BY <3>1, <3>3, <2>2, <1>3
    <3>10. Gathered(crc', accepted', Start', Len(crc'))
      BY <1>1, <1>4, <1>12
    <3>11. pkt_counter' = Saturated(Len(crc'))
      BY <1>12, <1>13
    <3>12. InData'
      BY <3>3, <3>5, <3>6, <3>7, <3>8, <3>9, <3>10, <3>11,
         <1>1, <1>4, <1>8 DEF InData, Saturated
    <3> QED BY <2>1, <3>12 DEF Body
  <2>4. CASE byte_counter = 7
    <3>1. ~accepted[Cur].eop
      <4>1. SUFFICES ASSUME accepted[Cur].eop PROVE FALSE
        OBVIOUS
      <4>2. Size(accepted[Cur]) = 8
        BY <4>1, <2>4, <1>7, <1>8
      <4> QED BY <4>1, <4>2, <2>4, <1>6, <1>15
    <3>2. read_req \/ read_req_dl
      BY <3>1, <2>4, <1>8
    <3>3. byte_counter' = 0 /\ ~read_req'
      BY <2>2, <2>4, <1>9
    <3>4. Cur' = Taken'
      BY <3>3 DEF Cur, CurIn
    <3>5. Taken' = Cur + 1
      <4>1. CASE read_req
        <5>1. ~read_req_dl
          BY <4>1, <1>8
        <5> QED BY <4>1, <5>1, <1>1, <1>6
      <4>2. CASE ~read_req
        <5>1. Cur = Taken - 1
          BY <4>2, <3>2, <2>4 DEF Cur, CurIn
        <5> QED BY <4>2, <5>1, <1>1, <1>3
      <4> QED BY <4>1, <4>2
    <3>6. Cur' = Cur + 1 /\ Cur' = Taken'
      BY <3>4, <3>5
    <3>7. Len(crc') = 8 * ((Cur + 1) - Start) + 0
      BY <2>4, <1>3, <1>8, <1>12
    <3>8. \A i \in Start .. (Cur + 1) - 1 : ~accepted[i].eop
      <4> TAKE i \in Start .. (Cur + 1) - 1
      <4>1. i \in Start .. Cur - 1 \/ i = Cur
        BY <1>3
      <4> QED BY <4>1, <3>1, <1>8
    <3>9. /\ Taken' \in 1 .. Len(accepted)
          /\ accepted[Cur + 1] \in Word
      <4>1. Len(accepted') \in Nat /\ Taken' <= Len(accepted')
        <5>1. IInv' /\ EndsInv' /\ Chain'
          <6>1. EndsInv'
            BY <1>1 DEF EndsInv
          <6> QED BY <6>1, TxStep, ChainTx
        <5>2. tx_fifo' \in Seq(Word) /\ pkt_fifo' \in Seq(Word)
              /\ tx_delay' \in Maybe(Word) /\ accepted' \in Seq(Word)
          BY <5>1 DEF IInv, TypeOK
        <5>3. /\ Len(tx_fifo') \in Nat /\ Len(pkt_fifo') \in Nat
              /\ Len(accepted') \in Nat /\ Len(tx_delay') \in Nat
          BY <5>2, OneWord
        <5> QED BY <5>3 DEF Taken
      <4>2. Taken' \in 1 .. Len(accepted)
        BY <4>1, <3>5, <1>1, <1>6
      <4> QED BY <4>2, <3>5, FrameFacts
    <3>10. Size(accepted[Cur + 1]) \in 1 .. 8
      BY <3>9, SizeFacts
    <3>11. Gathered(crc', accepted', Start', Len(crc'))
      BY <1>1, <1>4, <1>12
    <3>12. pkt_counter' = Saturated(Len(crc'))
      BY <1>12, <1>13
    <3>13. Cur + 1 >= Start
      BY <1>3, <1>8
    <3>14. InData'
      BY <3>3, <3>6, <3>7, <3>8, <3>10, <3>11, <3>12, <3>13, <1>1, <1>4
         DEF InData, Saturated
    <3> QED BY <2>1, <3>14 DEF Body
  <2> QED BY <2>3, <2>4
<1> QED BY <1>14, <1>15

\* The other enabled edges: around the words, what is in the CRC stays, but
\* for padding, and the start delimiter empties it.
LEMMA AroundStep ==
    ASSUME IInv, TimeInv, Chain, EndsInv, RegistersOK, TxEdge, Body,
           tx_clk_en, state # "DATA", sent' = sent,
           state = "IFG" => ifg_counter < IFG_LEN
    PROVE  Body'
<1>1. /\ accepted' = accepted /\ ends' = ends /\ read_req_dl' = read_req
      /\ read_req => Taken' = Taken + 1
      /\ ~read_req => Taken' = Taken
  BY ChainTx
<1>2. /\ state' = next_state(tx_data_ready) /\ Counters /\ CrcGen
      /\ read_req' = ReadReq(tx_data_ready)
      /\ read_req => state = "SFD"
      /\ state \in {"PREAMBLE", "SFD"} => byte_counter = 0
  BY CtrlStates DEF EnabledEdge
<1>3. /\ Taken \in Int /\ Start \in Nat \ {0} /\ state \in States
      /\ read_req \in BOOLEAN /\ Len(crc) \in Nat /\ IsList(crc)
      /\ MIN_LAST \in 0 .. 254
  BY FrameFacts, GmiiTxAssumption DEF RegistersOK
<1>4. Start' = Start
  BY <1>1 DEF Start
<1>5. CASE state = "PREAMBLE"
  <2>1. Taken = Start - 1 /\ pkt_counter = 0 /\ Taken' = Taken
    BY <1>1, <1>2, <1>5 DEF Body
  <2>2. pkt_counter' = 0
    BY <2>1, <1>2, <1>5 DEF Counters
  <2>3. state' = "PREAMBLE" \/ (state' = "SFD" /\ read_req')
    BY <1>2, <1>5 DEF next_state, ReadReq
  <2> QED BY <2>1, <2>2, <2>3, <1>4 DEF Body
<1>6. CASE state = "SFD"
  <2>1. Taken' = Start /\ pkt_counter = 0
    BY <1>1, <1>3, <1>6 DEF Body
  <2>2. /\ state' = "DATA" /\ ~read_req' /\ crc' = <<>>
        /\ byte_counter' = 0 /\ pkt_counter' = 0
    BY <2>1, <1>2, <1>6 DEF next_state, ReadReq, CrcGen, Counters
  <2>3. Cur' = Taken'
    BY <2>2 DEF Cur, CurIn
  <2>4. Cur' = Start
    BY <2>1, <2>3
  <2>5. Start \in 1 .. Len(accepted) /\ accepted[Start] \in Word
    <3>1. Len(accepted') \in Nat /\ Taken' <= Len(accepted')
      <4>1. EndsInv'
        BY <1>1 DEF EndsInv
      <4>2. tx_fifo' \in Seq(Word) /\ pkt_fifo' \in Seq(Word)
            /\ tx_delay' \in Maybe(Word) /\ accepted' \in Seq(Word)
        BY TxStep DEF IInv, TypeOK
      <4>3. /\ Len(tx_fifo') \in Nat /\ Len(pkt_fifo') \in Nat
            /\ Len(accepted') \in Nat /\ Len(tx_delay') \in Nat
        BY <4>2, OneWord
      <4> QED BY <4>3 DEF Taken
    <3>2. Start \in 1 .. Len(accepted)
      BY <3>1, <2>1, <1>1, <1>3
    <3> QED BY <3>2, FrameFacts
  <2>6. Size(accepted[Start]) \in 1 .. 8
    BY <2>5, SizeFacts
  <2>7. Len(crc') = 0 /\ Gathered(crc', accepted', Start', Len(crc'))
    <3>1. Len(crc') = 0
      BY <2>2, EmptyList
    <3> QED BY <3>1 DEF Gathered
  <2>8. Len(crc') = 8 * (Start - Start) + 0
    BY <2>7, <1>3
  <2>9. InData'
    BY <2>1, <2>2, <2>4, <2>6, <2>7, <2>8, <1>1, <1>3, <1>4
       DEF InData, Saturated
  <2> QED BY <2>2, <2>9 DEF Body
<1>7. CASE state = "PAD"
  <2>1. /\ AllSent /\ DataLen <= Len(crc) /\ Len(crc) <= MIN_LAST
        /\ pkt_counter = Len(crc) /\ Taken' = Taken
    BY <1>1, <1>2, <1>7 DEF Body
  <2>2. /\ crc' = Append(crc, <<"00">>) /\ crc_counter' = 0
        /\ pkt_counter' = pkt_counter + 1
        /\ state' = IF pkt_counter < MIN_LAST THEN "PAD" ELSE "FCS"
    <3>1. pkt_counter # 255
      <4> DEFINE L == Len(crc)
      <4>1. pkt_counter = L /\ L <= MIN_LAST /\ L \in Nat
        BY <2>1, <1>3
      <4> HIDE DEF L
      <4>2. L <= 254
        BY <4>1, <1>3
      <4> QED BY <4>1, <4>2
    <3>2. tx_data_tmp = <<"00">>
      BY <1>7 DEF tx_data_tmp
    <3>3. crc' = Append(crc, <<"00">>) /\ crc_counter' = 0
      BY <3>2, <1>2, <1>7 DEF CrcGen
    <3>4. pkt_counter' = pkt_counter + 1
      BY <3>1, <1>2, <1>7 DEF Counters
    <3>5. state' = IF pkt_counter < MIN_LAST THEN "PAD" ELSE "FCS"
      BY <1>2, <1>7 DEF next_state
    <3> QED BY <3>3, <3>4, <3>5
  <2>3. DataLen \in Nat /\ DataLen' = DataLen
    <3>1. DataLen' = DataLen
      BY <2>1, <1>1, <1>4 DEF DataLen
    <3> QED BY <3>1, <2>1, AllSentLen
  <2>4. Gathered(crc', accepted, Start, DataLen)
    BY <2>1, <2>2, <2>3, <1>3, GatheredPad DEF AllSent
  <2>5. AllSent'
    BY <2>1, <2>3, <2>4, <1>1, <1>4 DEF AllSent
  <2>6. Len(crc') = Len(crc) + 1
    BY <2>2, <1>3, ListAppend
  <2>7. CASE pkt_counter < MIN_LAST
    <3>1. /\ DataLen' <= Len(crc') /\ Len(crc') <= MIN_LAST
          /\ pkt_counter' = Len(crc')
      BY <2>1, <2>2, <2>3, <2>6, <2>7, <1>3
    <3> QED BY <3>1, <2>2, <2>5, <2>7 DEF Body
  <2>8. CASE ~(pkt_counter < MIN_LAST)
    <3>1. Len(crc) = MIN_LAST
      BY <2>1, <2>8, <1>3
    <3>2. PaddedLen(DataLen)' = MIN_LAST + 1
      BY <3>1, <2>1, <2>3, <1>3 DEF PaddedLen
    <3>3. crc_counter' \in 0 .. FCS_LEN - 1
      BY <2>2 DEF FCS_LEN
    <3> QED BY <3>1, <3>2, <3>3, <2>2, <2>5, <2>6, <2>8 DEF Body
  <2> QED BY <2>7, <2>8
<1>8. CASE state \in {"FCS", "IFG"}
  <2>1. AllSent /\ Len(crc) = PaddedLen(DataLen) /\ Taken' = Taken
    BY <1>1, <1>2, <1>8 DEF Body
  <2>2. crc' = crc
    BY <1>2, <1>8 DEF CrcGen
  <2>3. AllSent' /\ DataLen' = DataLen
    BY <2>1, <2>2, <1>1, <1>4, AllSentKept
  <2>4. PaddedLen(DataLen)' = PaddedLen(DataLen)
    BY <2>3 DEF PaddedLen
  <2>5. state' \in {"FCS", "IFG"} /\ (state' = "FCS" => state = "FCS" /\ ~CRC_end)
    <3>1. state = "IFG" => ~(ifg_counter >= IFG_LEN)
      BY DEF RegistersOK, IFG_LEN
    <3>2. CASE state = "IFG"
      BY <3>1, <3>2, <1>2 DEF next_state
    <3>3. CASE state = "FCS"
      BY <3>3, <1>2 DEF next_state
    <3> QED BY <3>2, <3>3, <1>8
  <2>6. state' = "FCS" => crc_counter' \in 0 .. FCS_LEN - 1
    <3> SUFFICES ASSUME state' = "FCS"
                 PROVE  crc_counter' \in 0 .. FCS_LEN - 1
      OBVIOUS
    <3>1. crc_counter \in 0 .. 3 /\ crc_counter # 3 /\ state = "FCS"
      BY <2>5 DEF Body, FCS_LEN, CRC_end
    <3>2. (crc_counter + 1) % 16 = crc_counter + 1
      BY <3>1
    <3>3. crc_counter' = crc_counter + 1
      BY <3>1, <3>2, <1>2 DEF CrcGen
    <3> QED BY <3>1, <3>3 DEF FCS_LEN
  <2> QED BY <2>1, <2>2, <2>3, <2>4, <2>5, <2>6 DEF Body
<1> QED BY <1>3, <1>5, <1>6, <1>7, <1>8 DEF States

LEMMA BodyStep ==
    ASSUME IInv, TimeInv, Chain, EndsInv, RegistersOK, TxEdge, Body,
           sent' = sent, state = "IFG" => ifg_counter < IFG_LEN
    PROVE  Body'
BY BodyHeld, DataStep, AroundStep

-----------------------------------------------------------------------------
(* The registers behind the state machine. *)

LEMMA PosFacts ==
    ASSUME IInv, EndsInv, RegistersOK, Body
    PROVE  /\ Pos \in Nat /\ Top \in Nat /\ Len(crc) \in Nat
           /\ state # "IFG" => Top = Pos
           /\ state = "IFG" => /\ Pos = Top + ifg_counter
                               /\ Top = 8 + Len(crc) + 4
           /\ state = "PREAMBLE" => Pos = preamb_counter /\ Pos \in 0 .. 6
           /\ state = "SFD" => Pos = 7
           /\ state \in {"DATA", "PAD"} => Pos = 8 + Len(crc)
           /\ state = "FCS" => /\ Pos = 8 + Len(crc) + crc_counter
                               /\ crc_counter \in 0 .. 3
<1>1. /\ Len(crc) \in Nat /\ state \in States
      /\ ifg_counter \in 0 .. 12 /\ preamb_counter \in 0 .. 6
  BY FrameFacts DEF RegistersOK, IInv, TypeOK, PREAMB_LEN
<1>2. state = "FCS" => crc_counter \in 0 .. 3
  BY DEF Body, FCS_LEN
<1>3. /\ state = "PREAMBLE" => Pos = preamb_counter
      /\ state = "SFD" => Pos = 7
      /\ state \in {"DATA", "PAD"} => Pos = 8 + Len(crc)
      /\ state = "FCS" => Pos = 8 + Len(crc) + crc_counter
      /\ state = "IFG" => Pos = 8 + Len(crc) + 4 + ifg_counter
  BY DEF Pos, PosIn, FCS_LEN
<1>4. /\ state # "IFG" => Top = Pos
      /\ state = "IFG" => Top = 8 + Len(crc) + 4
  BY DEF Top, TopIn, FCS_LEN
<1> DEFINE L == Len(crc)
           P == Pos
           T == Top
<1>5. L \in Nat /\ P \in Nat /\ T \in Nat
  <2>1. CASE state = "PREAMBLE"
    BY <2>1, <1>1, <1>3, <1>4
  <2>2. CASE state = "SFD"
    BY <2>2, <1>1, <1>3, <1>4
  <2>3. CASE state \in {"DATA", "PAD"}
    BY <2>3, <1>1, <1>3, <1>4
  <2>4. CASE state = "FCS"
    BY <2>4, <1>1, <1>2, <1>3, <1>4
  <2>5. CASE state = "IFG"
    BY <2>5, <1>1, <1>3, <1>4
  <2> QED BY <2>1, <2>2, <2>3, <2>4, <2>5, <1>1 DEF States
<1>6. state = "IFG" => Pos = Top + ifg_counter
  BY <1>1, <1>3, <1>4
<1> QED BY <1>1, <1>2, <1>3, <1>4, <1>5, <1>6

\* The places of the pins, by speed.
LEMMA SymFacts ==
    ASSUME IInv, EndsInv, RegistersOK, Sending
    PROVE  /\ tx_sel_1000m => /\ tx_clk_en /\ Sym = Pos - 2 /\ Last = Top
           /\ ~tx_sel_1000m /\ tx_clk_en => Sym = 2 * Pos - 2
           /\ ~tx_sel_1000m /\ ~tx_clk_en => Sym = 2 * Pos - 3
           /\ ~tx_sel_1000m => Last = 2 * Top
           /\ Sym \in Int /\ Last \in Nat
<1>1. Pos \in Nat /\ Top \in Nat
  BY PosFacts DEF Sending
<1>2. /\ tx_sel_1000m => tx_clk_en /\ Sym = Pos - 2 /\ Last = Top
      /\ ~tx_sel_1000m /\ tx_clk_en => Sym = 2 * Pos - 2
      /\ ~tx_sel_1000m /\ ~tx_clk_en => Sym = 2 * Pos - 3
      /\ ~tx_sel_1000m => Last = 2 * Top
  BY <1>1 DEF Sending, Sym, SymIn, Last, PerByte
<1> QED BY <1>1, <1>2

\* The frame is gone from the pins before the gap is over.
LEMMA GapShort ==
    ASSUME IInv, EndsInv, RegistersOK, Sending, state = "IFG"
    PROVE  ifg_counter \in 0 .. 3
<1>1. /\ Pos = Top + ifg_counter /\ Top \in Nat
      /\ ifg_counter \in 0 .. 12 /\ Sym <= Last + 1
  BY PosFacts DEF Sending, RegistersOK
<1>2. CASE tx_sel_1000m
  BY <1>1, <1>2, SymFacts
<1>3. CASE ~tx_sel_1000m
  <2>1. Sym >= 2 * Pos - 3 /\ Last = 2 * Top
    BY <1>1, <1>3, SymFacts
  <2> QED BY <2>1, <1>1, SymFacts
<1> QED BY <1>2, <1>3

\* An enabled edge puts the next byte into TxD.
LEMMA PosStep ==
    ASSUME IInv, EndsInv, RegistersOK, Sending, TxEdge
    PROVE  /\ ~tx_clk_en => /\ Pos' = Pos /\ Top' = Top
                            /\ TxEn' = TxEn /\ TxD' = TxD
           /\ tx_clk_en => Pos' = Pos + 1 /\ (TxEn' <=> state # "IFG")
           /\ tx_clk_en /\ state = "IFG" => Top' = Top
           /\ tx_clk_en /\ state # "IFG" =>
                 Top' = Top + 1 /\ TxD' = FrameByte(crc', Pos + 1)
           /\ \A k \in Int : k <= Top => FrameByte(crc', k) = FrameByte(crc, k)
<1>1. /\ Body /\ IsList(crc) /\ state \in States
      /\ ifg_counter \in 0 .. 12 /\ preamb_counter \in 0 .. 6
  BY FrameFacts DEF Sending, RegistersOK, IInv, TypeOK, PREAMB_LEN
<1>2. /\ Pos \in Nat /\ Top \in Nat /\ Len(crc) \in Nat
      /\ state # "IFG" => Top = Pos
      /\ state = "IFG" => Pos = Top + ifg_counter /\ Top = 8 + Len(crc) + 4
      /\ state = "PREAMBLE" => Pos = preamb_counter /\ Pos \in 0 .. 6
      /\ state = "SFD" => Pos = 7
      /\ state \in {"DATA", "PAD"} => Pos = 8 + Len(crc)
      /\ state = "FCS" => /\ Pos = 8 + Len(crc) + crc_counter
                          /\ crc_counter \in 0 .. 3
  BY <1>1, PosFacts
<1>3. /\ Pos' = PosIn(state', preamb_counter', Len(crc'), crc_counter',
                      ifg_counter')
      /\ Top' = TopIn(state', Pos', Len(crc'))
  BY DEF Pos, Top
<1>4. CASE ~tx_clk_en
  <2>1. Stays
    BY <1>4, CtrlStates
  <2>2. Pos' = Pos
    BY <2>1 DEF Stays, Pos
  <2>3. Top' = Top
    BY <2>1, <2>2 DEF Stays, Top
  <2> QED BY <2>1, <2>2, <2>3, <1>4 DEF Stays
<1>5. CASE tx_clk_en
  <2>1. EnabledEdge(tx_data_ready)
    BY <1>5, CtrlStates
  <2>2. /\ state' = next_state(tx_data_ready) /\ Counters /\ CrcGen
        /\ TxD' = tx_data_tmp /\ (TxEn' <=> state # "IFG")
    BY <2>1 DEF EnabledEdge
  <2>3. CASE state = "IFG"
    <3>1. ifg_counter \in 0 .. 3
      BY <2>3, GapShort
    <3>2. state' = "IFG"
      BY <2>2, <2>3, <3>1 DEF next_state, IFG_LEN
    <3>3. ifg_counter' = ifg_counter + 1 /\ crc' = crc
      BY <2>2, <2>3, <3>1 DEF Counters, CrcGen
    <3>4. Pos' = 8 + Len(crc) + 4 + (ifg_counter + 1)
      BY <3>2, <3>3, <1>3 DEF PosIn, FCS_LEN
    <3>5. Top' = 8 + Len(crc) + 4
      BY <3>2, <3>3, <1>3 DEF TopIn, FCS_LEN
    <3>6. Pos' = Pos + 1 /\ Top' = Top
      BY <3>4, <3>5, <2>3, <1>1, <1>2
    <3> QED BY <3>3, <3>6, <2>2, <2>3, <1>5
  <2>4. CASE state = "PREAMBLE"
    <3>1. Pos' = Pos + 1 /\ Top' = Top + 1
      <4>1. CASE preamb_counter < 6
        <5>1. state' = "PREAMBLE" /\ preamb_counter' = preamb_counter + 1
          BY <2>2, <2>4, <4>1 DEF next_state, Counters, PREAMB_LEN
        <5>2. Pos' = preamb_counter + 1 /\ Top' = Pos'
          BY <5>1, <1>3 DEF PosIn, TopIn
        <5> QED BY <5>2, <2>4, <1>2
      <4>2. CASE preamb_counter = 6
        <5>1. state' = "SFD"
          BY <2>2, <2>4, <4>2 DEF next_state, PREAMB_LEN
        <5>2. Pos' = 7 /\ Top' = Pos'
          BY <5>1, <1>3 DEF PosIn, TopIn
        <5> QED BY <5>2, <4>2, <2>4, <1>2
      <4> QED BY <4>1, <4>2, <1>1
    <3>2. crc' = crc /\ TxD' = <<"55">>
      BY <2>2, <2>4 DEF CrcGen, tx_data_tmp
    <3>3. FrameByte(crc', Pos + 1) = <<"55">>
      <4>1. Pos + 1 \in Int /\ Pos + 1 <= 7
        BY <2>4, <1>2
      <4>2. \A k \in Int : k <= 7 => FrameByte(crc', k) = <<"55">>
        BY DEF FrameByte
      <4> QED BY <4>1, <4>2
    <3> QED BY <3>1, <3>2, <3>3, <2>2, <2>4, <1>5
  <2>5. CASE state = "SFD"
    <3>1. state' = "DATA" /\ crc' = <<>> /\ TxD' = <<"d5">>
      BY <2>2, <2>5 DEF next_state, CrcGen, tx_data_tmp
    <3>2. Pos' = 8 /\ Top' = 8
      <4>1. Len(crc') = 0
        BY <3>1, EmptyList
      <4>2. Pos' = 8 + 0 /\ Top' = Pos'
        BY <4>1, <3>1, <1>3 DEF PosIn, TopIn
      <4> QED BY <4>2
    <3>3. FrameByte(crc', 8) = <<"d5">>
      BY DEF FrameByte
    <3>4. \A k \in Int : k <= 7 => FrameByte(crc', k) = FrameByte(crc, k)
      BY DEF FrameByte
    <3>5. Pos + 1 = 8 /\ Top = 7
      BY <2>5, <1>2
    <3> QED BY <3>1, <3>2, <3>3, <3>4, <3>5, <2>2, <2>5, <1>5
  <2>6. CASE state \in {"DATA", "PAD"}
    <3>1. /\ crc' = Append(crc, tx_data_tmp) /\ crc_counter' = 0
      BY <2>2, <2>6 DEF CrcGen
    <3>2. state' \in {"DATA", "PAD", "FCS"}
      BY <2>2, <2>6 DEF next_state
    <3>3. /\ IsList(crc') /\ Len(crc') = Len(crc) + 1
          /\ crc'[Len(crc) + 1] = tx_data_tmp
      BY <3>1, <1>1, ListAppend
    <3>4. Pos' = 8 + (Len(crc) + 1) /\ Top' = Pos'
      <4>1. CASE state' \in {"DATA", "PAD"}
        BY <4>1, <3>3, <1>3 DEF PosIn, TopIn
      <4>2. CASE state' = "FCS"
        <5>1. Pos' = 8 + (Len(crc) + 1) + 0 /\ Top' = Pos'
          BY <4>2, <3>1, <3>3, <1>3 DEF PosIn, TopIn
        <5> QED BY <5>1, <1>2
      <4> QED BY <4>1, <4>2, <3>2
    <3>5. Pos' = Pos + 1 /\ Top' = Top + 1
      BY <3>4, <2>6, <1>2
    <3>6. FrameByte(crc', Pos + 1) = tx_data_tmp
      <4>1. /\ Len(crc') \in Nat /\ Pos + 1 \in 9 .. 8 + Len(crc')
            /\ (Pos + 1) - 8 = Len(crc) + 1
        BY <3>3, <2>6, <1>2
      <4>2. FrameByte(crc', Pos + 1) = crc'[(Pos + 1) - 8]
        BY <4>1, FrameByteIs
      <4> QED BY <4>1, <4>2, <3>3
    <3>7. \A k \in Int : k <= Top => FrameByte(crc', k) = FrameByte(crc, k)
      <4> TAKE k \in Int
      <4> HAVE k <= Top
      <4>1. k <= 8 + Len(crc)
        BY <2>6, <1>2
      <4> QED BY <4>1, <3>1, <1>1, FrameByteKept
    <3> QED BY <3>5, <3>6, <3>7, <2>2, <2>6, <1>5
  <2>7. CASE state = "FCS"
    <3>1. crc' = crc /\ TxD' = <<"fcs", crc, crc_counter>>
      BY <2>2, <2>7 DEF CrcGen, tx_data_tmp
    <3>2. Pos' = Pos + 1 /\ Top' = Top + 1
      <4>1. CASE crc_counter = 3
        <5>1. state' = "IFG" /\ ifg_counter' = 0
          BY <4>1, <2>2, <2>7 DEF next_state, CRC_end, FCS_LEN, Counters
        <5>2. Pos' = 8 + Len(crc) + 4 + 0 /\ Top' = 8 + Len(crc) + 4
          BY <5>1, <3>1, <1>3 DEF PosIn, TopIn, FCS_LEN
        <5> QED BY <5>2, <4>1, <2>7, <1>2
      <4>2. CASE crc_counter # 3
        <5>1. state' = "FCS"
          BY <4>2, <2>2, <2>7 DEF next_state, CRC_end, FCS_LEN
        <5>2. (crc_counter + 1) % 16 = crc_counter + 1
          BY <2>7, <1>2
        <5>3. crc_counter' = crc_counter + 1
          BY <5>2, <2>2, <2>7 DEF CrcGen
        <5>4. Pos' = 8 + Len(crc) + (crc_counter + 1) /\ Top' = Pos'
          BY <5>1, <5>3, <3>1, <1>3 DEF PosIn, TopIn
        <5> QED BY <5>4, <2>7, <1>2
      <4> QED BY <4>1, <4>2
    <3>3. FrameByte(crc, Pos + 1) = <<"fcs", crc, crc_counter>>
      <4>1. /\ Pos + 1 > 8 + Len(crc) /\ Pos + 1 \in Int
            /\ (Pos + 1) - Len(crc) - 9 = crc_counter
        BY <2>7, <1>2
      <4>2. FrameByte(crc, Pos + 1) =
                <<"fcs", crc, (Pos + 1) - Len(crc) - 9>>
        BY <4>1, <1>2, FrameByteIs
      <4> QED BY <4>1, <4>2
    <3> QED BY <3>1, <3>2, <3>3, <2>2, <2>7, <1>5
  <2> QED BY <2>3, <2>4, <2>5, <2>6, <2>7, <1>1 DEF States
<1> QED BY <1>4, <1>5

LEMMA ByteOfIs ==
    ASSUME NEW fast \in BOOLEAN, NEW j \in Int, NEW top \in Nat
    PROVE  /\ ByteOf(fast, j) \in Int
           /\ fast => ByteOf(fast, j) = j
           /\ ~fast => ByteOf(fast, 2 * j) = j /\ ByteOf(fast, 2 * j - 1) = j
           /\ j <= PerByte(fast) * top => ByteOf(fast, j) <= top
<1>1. CASE fast
  BY <1>1 DEF ByteOf, PerByte
<1>2. CASE ~fast
  <2>1. (2 * j + 1) \div 2 = j /\ ((2 * j - 1) + 1) \div 2 = j
    OBVIOUS
  <2>2. j <= 2 * top => (j + 1) \div 2 <= top
    OBVIOUS
  <2>3. (j + 1) \div 2 \in Int
    OBVIOUS
  <2> QED BY <2>1, <2>2, <2>3, <1>2 DEF ByteOf, PerByte
<1> QED BY <1>1, <1>2

\* A transmit edge is a symbol.  The symbol after the next is of the byte in
\* TxD, and what the frame has got by this edge is behind that.
LEMMA SymStep ==
    ASSUME IInv, TimeInv, Chain, EndsInv, RegistersOK, Sending, TxEdge
    PROVE  /\ Sym \in Int /\ Last \in Nat /\ Sym' = Sym + 1
           /\ Last' \in Nat /\ Last' >= Last
           /\ Last' > Last => Sym + 2 <= Last
           /\ Pos \in 1 .. Top <=> Sym + 2 \in 1 .. Last
           /\ ByteOf(tx_sel_1000m, Sym + 2) = Pos
           /\ \A j \in Int : j <= Last =>
                 /\ FrameByte(crc', ByteOf(tx_sel_1000m, j)) =
                        FrameByte(crc, ByteOf(tx_sel_1000m, j))
                 /\ SymbolAt(tx_sel_1000m, crc', j) =
                        SymbolAt(tx_sel_1000m, crc, j)
<1> DEFINE fast == tx_sel_1000m
<1>1. /\ fast \in BOOLEAN /\ tx_clk_en \in BOOLEAN
      /\ tx_sel_1000m' = fast /\ tx_clk_en' = (fast \/ ~tx_clk_en)
      /\ fast => tx_clk_en
  BY FrameFacts, ChainTx DEF Sending
<1>2. tx_clk_en' \in BOOLEAN /\ (tx_clk_en' <=> fast \/ ~tx_clk_en)
  BY <1>1
<1>3. Pos \in Nat /\ Top \in Nat /\ (state # "IFG" => Top = Pos)
  BY PosFacts DEF Sending
<1>4. /\ ~tx_clk_en => Pos' = Pos /\ Top' = Top
      /\ tx_clk_en => Pos' = Pos + 1
      /\ tx_clk_en /\ state = "IFG" => Top' = Top
      /\ tx_clk_en /\ state # "IFG" => Top' = Top + 1
      /\ \A k \in Int : k <= Top => FrameByte(crc', k) = FrameByte(crc, k)
  BY PosStep
<1>5. /\ Sym' = SymIn(fast, tx_clk_en', Pos') /\ Last' = PerByte(fast) * Top'
      /\ Sym = SymIn(fast, tx_clk_en, Pos) /\ Last = PerByte(fast) * Top
  BY <1>1 DEF Sym, Last
<1>6. /\ Pos' = (IF tx_clk_en THEN Pos + 1 ELSE Pos)
      /\ Top' \in {Top, Top + 1} /\ (Top' # Top => Top = Pos)
  BY <1>3, <1>4
<1>7. ASSUME NEW j \in Int, j <= Last
      PROVE  /\ FrameByte(crc', ByteOf(fast, j)) = FrameByte(crc, ByteOf(fast, j))
             /\ SymbolAt(fast, crc', j) = SymbolAt(fast, crc, j)
  <2>1. ByteOf(fast, j) \in Int /\ ByteOf(fast, j) <= Top
    BY <1>1, <1>3, <1>5, <1>7, ByteOfIs
  <2>2. FrameByte(crc', ByteOf(fast, j)) = FrameByte(crc, ByteOf(fast, j))
    BY <2>1, <1>4
  <2> QED BY <2>2 DEF SymbolAt
<1> DEFINE P == Pos
           T == Top
           P2 == Pos'
           T2 == Top'
           S == Sym
           S2 == Sym'
           M == Last
           M2 == Last'
<1>8. CASE fast
  <2>1. S = P - 2 /\ M = T /\ M2 = T2 /\ S2 = P2 - 2 /\ P2 = P + 1
    <3>1. S = P - 2 /\ S2 = P2 - 2 /\ P2 = P + 1
      BY <1>1, <1>5, <1>6, <1>8 DEF SymIn
    <3>2. M = 1 * T /\ M2 = 1 * T2 /\ T \in Nat /\ T2 \in Nat
      BY <1>3, <1>5, <1>6, <1>8 DEF PerByte
    <3> HIDE DEF T, T2, M, M2
    <3> QED BY <3>1, <3>2
  <2>2. ByteOf(fast, S + 2) = S + 2
    BY <1>8 DEF ByteOf
  <2> HIDE DEF P, T, P2, T2, S, S2, M, M2, fast
  <2>3. S \in Int /\ M \in Nat /\ S2 = S + 1 /\ S + 2 = P
    BY <2>1, <1>3 DEF P, T
  <2>4. M2 \in Nat /\ M2 >= M /\ (M2 > M => S + 2 <= M)
    BY <2>1, <2>3, <1>3, <1>6 DEF P, T, T2
  <2> QED BY <2>1, <2>2, <2>3, <2>4, <1>7
            DEF P, T, P2, T2, S, S2, M, M2, fast
<1>9. CASE ~fast
  <2>1. M = 2 * T /\ M2 = 2 * T2
    BY <1>5, <1>9 DEF PerByte
  <2>2. \/ S = 2 * P - 2 /\ P2 = P + 1 /\ S2 = 2 * P2 - 3
        \/ S = 2 * P - 3 /\ P2 = P /\ S2 = 2 * P2 - 2
    <3>1. CASE tx_clk_en
      <4>1. S = 2 * P - 2 /\ P2 = P + 1 /\ S2 = 2 * P2 - 1 - 2
        BY <3>1, <1>1, <1>5, <1>6, <1>9 DEF SymIn
      <4> HIDE DEF P, P2, S, S2
      <4>2. S2 = 2 * P2 - 3
        BY <4>1, <1>3 DEF P
      <4> QED BY <4>1, <4>2
    <3>2. CASE ~tx_clk_en
      <4>1. S = 2 * P - 1 - 2 /\ P2 = P /\ S2 = 2 * P2 - 2
        BY <3>2, <1>1, <1>5, <1>6, <1>9 DEF SymIn
      <4> HIDE DEF P, P2, S, S2
      <4>2. S = 2 * P - 3
        BY <4>1, <1>3 DEF P
      <4> QED BY <4>1, <4>2
    <3> QED BY <3>1, <3>2
  <2>3. /\ P \in Nat /\ T \in Nat /\ T2 \in {T, T + 1} /\ (T2 # T => T = P)
    BY <1>3, <1>6
  <2> HIDE DEF P, T, P2, T2, S, S2, M, M2, fast
  <2>4. S \in Int /\ S2 = S + 1 /\ (S + 2 = 2 * P \/ S + 2 = 2 * P - 1)
    BY <2>2, <2>3
  <2>5. M \in Nat /\ M2 \in Nat /\ M2 >= M
    BY <2>1, <2>3
  <2>6. M2 > M => S + 2 <= M
    BY <2>1, <2>3, <2>4
  <2>7. P \in 1 .. T <=> S + 2 \in 1 .. M
    BY <2>1, <2>3, <2>4
  <2>8. ByteOf(fast, S + 2) = P
    <3>1. fast \in BOOLEAN /\ P \in Int /\ T \in Nat
      BY <2>3, <1>1
    <3>2. ByteOf(fast, 2 * P) = P /\ ByteOf(fast, 2 * P - 1) = P
      BY <3>1, <1>9, ByteOfIs
    <3> QED BY <3>2, <2>4
  <2> QED BY <2>4, <2>5, <2>6, <2>7, <2>8, <1>7
            DEF P, T, S, S2, M, M2, fast
<1> QED BY <1>8, <1>9

LEMMA Parity ==
    ASSUME NEW n \in Int
    PROVE  /\ n % 2 = 1 <=> (n + 1) % 2 # 1
           /\ n = 0 => n % 2 # 1
OBVIOUS

\* Each register has what the one before it had.
LEMMA PipeStep ==
    ASSUME IInv, TimeInv, Chain, EndsInv, RegistersOK, Sending, TxEdge,
           Sym <= Last
    PROVE  Pipe' /\ sent' = sent
<1> DEFINE fast == tx_sel_1000m
           S == Sym
           M == Last
           M2 == Last'
<1>1. /\ Sym' = S + 1 /\ M2 \in Nat /\ M2 >= M
      /\ M2 > M => S + 2 <= M
      /\ Pos \in 1 .. Top <=> S + 2 \in 1 .. M
      /\ ByteOf(fast, S + 2) = Pos
      /\ \A j \in Int : j <= M =>
            /\ FrameByte(crc', ByteOf(fast, j)) = FrameByte(crc, ByteOf(fast, j))
            /\ SymbolAt(fast, crc', j) = SymbolAt(fast, crc, j)
  BY SymStep
<1>2. S \in Int /\ M \in Nat /\ fast \in BOOLEAN /\ S <= M
      /\ tx_mii_pos \in BOOLEAN
  BY SymFacts, FrameFacts DEF RegistersOK
<1>3. Pipe
  BY DEF Sending
<1>4. /\ gmii_tx_d_d1' = TxD /\ gmii_tx_en_d1' = TxEn
      /\ tx_mii_pos' = (gmii_tx_en_d1 /\ ~tx_mii_pos)
      /\ tx_d_o' = IF gmii_tx_en_d1 THEN Pins(tx_mii_pos) ELSE NoSymbol
      /\ tx_en_o' = gmii_tx_en_d1
      /\ line' = IF tx_en_o THEN Append(line, tx_d_o) ELSE <<>>
      /\ sent' = IF ~tx_en_o /\ line # <<>> THEN sent + 1 ELSE sent
      /\ tx_sel_1000m' = fast
  BY ChainTx DEF TxEdge, PhyInt, Line
<1>5. /\ TxEn' <=> Pos' \in 1 .. Top'
      /\ TxEn' => TxD' = FrameByte(crc', Pos')
  <2>1. /\ Pos \in Nat /\ Top \in Nat
        /\ state # "IFG" => Top = Pos
        /\ state = "IFG" => Pos = Top + ifg_counter
        /\ ifg_counter \in 0 .. 12
    BY PosFacts DEF Sending, RegistersOK
  <2>2. CASE ~tx_clk_en
    <3>1. Pos' = Pos /\ Top' = Top /\ TxEn' = TxEn /\ TxD' = TxD
      BY <2>2, PosStep
    <3>2. TxEn => Pos \in Int /\ Pos <= Top
      BY <1>3, <2>1 DEF Pipe
    <3>3. TxEn => FrameByte(crc', Pos) = FrameByte(crc, Pos)
      BY <3>2, PosStep
    <3>4. (TxEn <=> Pos \in 1 .. Top) /\ (TxEn => TxD = FrameByte(crc, Pos))
      BY <1>3 DEF Pipe
    <3> QED BY <3>1, <3>3, <3>4
  <2>3. CASE tx_clk_en /\ state = "IFG"
    <3>1. Pos' = Pos + 1 /\ Top' = Top /\ ~TxEn'
      BY <2>3, PosStep
    <3>2. ~(Pos' \in 1 .. Top')
      BY <3>1, <2>1, <2>3
    <3> QED BY <3>1, <3>2
  <2>4. CASE tx_clk_en /\ state # "IFG"
    <3>1. /\ Pos' = Pos + 1 /\ Top' = Top + 1 /\ TxEn'
          /\ TxD' = FrameByte(crc', Pos + 1)
      BY <2>4, PosStep
    <3>2. Pos' \in 1 .. Top'
      BY <3>1, <2>1, <2>4
    <3> QED BY <3>1, <3>2
  <2> QED BY <2>2, <2>3, <2>4
<1>6. /\ TxEn <=> S + 2 \in 1 .. M
      /\ TxEn => TxD = FrameByte(crc, ByteOf(fast, S + 2))
  BY <1>1, <1>3 DEF Pipe
<1>7. /\ gmii_tx_en_d1 <=> S + 1 \in 1 .. M
      /\ gmii_tx_en_d1 =>
            /\ gmii_tx_d_d1 = FrameByte(crc, ByteOf(fast, S + 1))
            /\ ~fast => (tx_mii_pos <=> S % 2 = 1)
      /\ tx_en_o <=> S \in 1 .. M
      /\ tx_en_o => tx_d_o = SymbolAt(fast, crc, S)
      /\ S >= 1 => Len(line) = S - 1
      /\ S < 1 => line = <<>>
      /\ \A j \in 1 .. Len(line) : line[j] = SymbolAt(fast, crc, j)
  BY <1>3 DEF Pipe
<1>8. IsList(line)
  BY DEF RegistersOK
<1> HIDE DEF S, M, M2
<1>9. /\ S + 2 \in 1 .. M <=> S + 2 \in 1 .. M2
      /\ S + 1 \in 1 .. M <=> S + 1 \in 1 .. M2
  BY <1>1, <1>2
<1>10. /\ gmii_tx_en_d1' <=> (S + 1) + 1 \in 1 .. M2
       /\ gmii_tx_en_d1' =>
             gmii_tx_d_d1' = FrameByte(crc', ByteOf(fast, (S + 1) + 1))
  <2>1. (S + 1) + 1 = S + 2
    BY <1>2
  <2>2. gmii_tx_en_d1' <=> S + 2 \in 1 .. M2
    BY <1>4, <1>6, <1>9
  <2>3. gmii_tx_en_d1' => S + 2 \in Int /\ S + 2 <= M
    BY <2>2, <1>2, <1>9
  <2>4. gmii_tx_en_d1' => gmii_tx_d_d1' = FrameByte(crc', ByteOf(fast, S + 2))
    BY <2>3, <1>1, <1>4, <1>6
  <2> QED BY <2>1, <2>2, <2>4
<1>11. gmii_tx_en_d1' /\ ~fast => (tx_mii_pos' <=> (S + 1) % 2 = 1)
  <2> SUFFICES ASSUME gmii_tx_en_d1', ~fast
               PROVE  (tx_mii_pos' <=> (S + 1) % 2 = 1)
    OBVIOUS
  <2>1. S + 2 \in 1 .. M
    BY <1>4, <1>6
  <2>2. CASE gmii_tx_en_d1
    <3>1. tx_mii_pos <=> S % 2 = 1
      BY <2>2, <1>7
    <3>2. S % 2 = 1 <=> ~((S + 1) % 2 = 1)
      BY <1>2, Parity
    <3>3. tx_mii_pos' <=> ~tx_mii_pos
      BY <2>2, <1>2, <1>4
    <3> QED BY <3>1, <3>2, <3>3
  <2>3. CASE ~gmii_tx_en_d1
    <3>1. S + 1 = 0
      BY <2>1, <2>3, <1>2, <1>7
    <3>2. ~((S + 1) % 2 = 1)
      BY <3>1, Parity
    <3>3. ~tx_mii_pos'
      BY <2>3, <1>4
    <3> QED BY <3>2, <3>3
  <2> QED BY <2>2, <2>3
<1>12. /\ tx_en_o' <=> S + 1 \in 1 .. M2
       /\ tx_en_o' => tx_d_o' = SymbolAt(fast, crc', S + 1)
  <2>1. tx_en_o' <=> S + 1 \in 1 .. M2
    BY <1>4, <1>7, <1>9
  <2>2. ASSUME tx_en_o'
        PROVE  tx_d_o' = SymbolAt(fast, crc', S + 1)
    <3>1. gmii_tx_en_d1 /\ S + 1 \in Int /\ S + 1 <= M
      BY <2>1, <2>2, <1>2, <1>4, <1>9
    <3>2. tx_d_o' = Symbol(FrameByte(crc, ByteOf(fast, S + 1)),
                           IF fast THEN "all"
                           ELSE IF tx_mii_pos THEN "high" ELSE "low")
      BY <3>1, <1>4, <1>7 DEF Pins
    <3>3. (IF fast THEN "all" ELSE IF tx_mii_pos THEN "high" ELSE "low")
              = PartOf(fast, S + 1)
      <4>1. CASE fast
        BY <4>1 DEF PartOf
      <4>2. CASE ~fast
        <5>1. tx_mii_pos <=> S % 2 = 1
          BY <4>2, <3>1, <1>7
        <5>2. S % 2 = 1 <=> ~((S + 1) % 2 = 1)
          BY <1>2, Parity
        <5> QED BY <4>2, <5>1, <5>2 DEF PartOf
      <4> QED BY <4>1, <4>2
    <3>4. tx_d_o' = SymbolAt(fast, crc, S + 1)
      BY <3>2, <3>3 DEF SymbolAt
    <3> QED BY <3>1, <3>4, <1>1
  <2> QED BY <2>1, <2>2
<1>13. CASE tx_en_o
  <2>1. S \in 1 .. M /\ tx_d_o = SymbolAt(fast, crc, S) /\ Len(line) = S - 1
    BY <1>2, <1>7, <1>13
  <2>2. /\ line' = Append(line, tx_d_o) /\ sent' = sent
    BY <1>4, <1>13
  <2>3. /\ Len(line') = S /\ line'[S] = SymbolAt(fast, crc, S)
        /\ \A j \in 1 .. S - 1 : line'[j] = SymbolAt(fast, crc, j)
    <3>1. /\ Len(line') = Len(line) + 1 /\ line'[Len(line) + 1] = tx_d_o
          /\ \A j \in 1 .. Len(line) : line'[j] = line[j]
      BY <2>2, <1>8, ListAppend
    <3>2. Len(line) + 1 = S
      BY <2>1, <1>2
    <3> QED BY <3>1, <3>2, <2>1, <1>7
  <2>4. \A j \in 1 .. Len(line') : line'[j] = SymbolAt(fast, crc', j)
    <3> TAKE j \in 1 .. Len(line')
    <3>1. j \in Int /\ j <= M /\ (j \in 1 .. S - 1 \/ j = S)
      BY <2>1, <2>3, <1>2
    <3>2. line'[j] = SymbolAt(fast, crc, j)
      BY <3>1, <2>3
    <3> QED BY <3>1, <3>2, <1>1
  <2>5. Len(line') = (S + 1) - 1 /\ ~(S + 1 < 1)
    BY <2>1, <2>3, <1>2
  <2> QED BY <2>2, <2>4, <2>5, <1>1, <1>4, <1>5, <1>10, <1>11, <1>12
          DEF Pipe, M2
<1>14. CASE ~tx_en_o
  <2>1. S < 1
    BY <1>2, <1>7, <1>14
  <2>2. line' = <<>> /\ sent' = sent
    BY <2>1, <1>4, <1>7, <1>14
  <2>3. S + 1 >= 1 => (S + 1) - 1 = 0
    BY <2>1, <1>2
  <2>4. Len(line') = 0
    BY <2>2, EmptyList
  <2>5. \A j \in 1 .. Len(line') : line'[j] = SymbolAt(fast, crc', j)
    BY <2>4
  <2> QED BY <2>2, <2>3, <2>4, <2>5, <1>1, <1>4, <1>5, <1>10, <1>11, <1>12
          DEF Pipe, M2
<1> QED BY <1>13, <1>14

LEMMA RegistersStep ==
    ASSUME IInv, TimeInv, Chain, EndsInv, RegistersOK, TxEdge
    PROVE  RegistersOK'
<1>1. /\ IsList(crc) /\ IsList(line)
      /\ pkt_counter \in 0 .. 255 /\ ifg_counter \in 0 .. 12
  BY DEF RegistersOK
<1>2. read_req_dl' \in BOOLEAN
  BY ChainTx, FrameFacts
<1>3. tx_mii_pos' \in BOOLEAN
  BY DEF TxEdge, PhyInt
<1>4. IsList(line')
  <2>1. line' = Append(line, tx_d_o) \/ line' = <<>>
    BY DEF TxEdge, Line
  <2>2. IsList(Append(line, tx_d_o))
    BY <1>1, ListAppend
  <2> QED BY <2>1, <2>2, EmptyList
<1>5. IsList(crc') /\ pkt_counter' \in 0 .. 255 /\ ifg_counter' \in 0 .. 12
  <2>1. CASE ~tx_clk_en
    BY <2>1, <1>1, CtrlStates DEF Stays
  <2>2. CASE tx_clk_en
    <3>1. Counters /\ CrcGen
      BY <2>2, CtrlStates DEF EnabledEdge
    <3>2. crc' = crc \/ crc' = <<>> \/ crc' = Append(crc, tx_data_tmp)
      BY <3>1 DEF CrcGen
    <3>3. IsList(crc')
      <4>1. IsList(Append(crc, tx_data_tmp))
        BY <1>1, ListAppend
      <4> QED BY <3>2, <4>1, <1>1, EmptyList
    <3>4. pkt_counter' \in 0 .. 255
      BY <3>1, <1>1 DEF Counters
    <3>5. ifg_counter' \in 0 .. 12
      BY <3>1, <1>1 DEF Counters
    <3> QED BY <3>3, <3>4, <3>5
  <2> QED BY <2>1, <2>2
<1> QED BY <1>2, <1>3, <1>4, <1>5 DEF RegistersOK

\* Between two frames nothing happens until the next preamble.
LEMMA IdleStep ==
    ASSUME IInv, TimeInv, Chain, EndsInv, RegistersOK, Idle, TxEdge
    PROVE  sent' = sent /\ (Idle' \/ Sending')
<1>1. /\ state = "IFG" /\ Taken = Start - 1
      /\ ~TxEn /\ ~gmii_tx_en_d1 /\ ~tx_en_o /\ line = <<>>
  BY DEF Idle
<1>2. /\ accepted' = accepted /\ ends' = ends
      /\ tx_sel_1000m' = tx_sel_1000m
      /\ tx_clk_en' = (tx_sel_1000m \/ ~tx_clk_en)
  BY ChainTx
<1>3. /\ gmii_tx_en_d1' = TxEn /\ tx_en_o' = gmii_tx_en_d1
      /\ line' = <<>> /\ sent' = sent
  BY <1>1 DEF TxEdge, PhyInt, Line
<1>4. ~read_req /\ Taken' = Taken
  <2>1. ~read_req
    BY <1>1, CtrlStates
  <2> QED BY <2>1, ChainTx
<1>5. Start' = Start
  BY <1>2, <1>3 DEF Start
<1>6. ~TxEn'
  <2>1. CASE ~tx_clk_en
    BY <2>1, <1>1, CtrlStates DEF Stays
  <2>2. CASE tx_clk_en
    BY <2>2, <1>1, CtrlStates DEF EnabledEdge
  <2> QED BY <2>1, <2>2
<1>7. \/ state' = "IFG"
      \/ state' = "PREAMBLE" /\ preamb_counter' = 0 /\ pkt_counter' = 0
  <2>1. CASE ~tx_clk_en
    BY <2>1, <1>1, CtrlStates DEF Stays
  <2>2. CASE tx_clk_en
    <3>1. state' = next_state(tx_data_ready) /\ Counters
      BY <2>2, CtrlStates DEF EnabledEdge
    <3> QED BY <3>1, <1>1 DEF next_state, Counters
  <2> QED BY <2>1, <2>2
<1>8. CASE state' = "IFG"
  BY <1>1, <1>3, <1>4, <1>5, <1>6, <1>8 DEF Idle
<1>9. CASE state' = "PREAMBLE" /\ preamb_counter' = 0 /\ pkt_counter' = 0
  <2>1. Body'
    BY <1>1, <1>4, <1>5, <1>9 DEF Body
  <2>2. Pos' = 0
    BY <1>9 DEF Pos, PosIn
  <2>3. Top' = 0
    BY <2>2, <1>9 DEF Top, TopIn
  <2>4. Last' = 0
    <3>1. Last' = PerByte(tx_sel_1000m') * Top'
      BY DEF Last
    <3>2. Last' = 1 * 0 \/ Last' = 2 * 0
      BY <3>1, <2>3 DEF PerByte
    <3> QED BY <3>2
  <2>5. Sym' \in {-2, -3}
    <3>1. Sym' = SymIn(tx_sel_1000m', tx_clk_en', 0)
      BY <2>2 DEF Sym
    <3>2. Sym' = 0 - 2 \/ Sym' = 2 * 0 - 2 \/ Sym' = 2 * 0 - 1 - 2
      BY <3>1 DEF SymIn
    <3> QED BY <3>2
  <2>6. tx_sel_1000m' => tx_clk_en'
    BY <1>2
  <2>7. Pipe'
    <3> DEFINE S == Sym'
               M == Last'
    <3>1. /\ ~(0 \in 1 .. 0) /\ ~(S \in 1 .. M) /\ ~(S + 1 \in 1 .. M)
          /\ S < 1 /\ ~(S >= 1)
      BY <2>4, <2>5
    <3>2. ~TxEn' /\ ~gmii_tx_en_d1' /\ ~tx_en_o'
      BY <1>1, <1>3, <1>6
    <3>3. \A j \in 1 .. Len(line') : line'[j] = SymbolAt(tx_sel_1000m', crc', j)
      BY <1>3, EmptyList
    <3> QED BY <3>1, <3>2, <3>3, <2>2, <2>3, <1>3 DEF Pipe
  <2>8. Sym' <= Last' + 1
    BY <2>4, <2>5
  <2>9. Sending'
    BY <2>1, <2>6, <2>7, <2>8 DEF Sending
  <2> QED BY <2>9, <1>3
<1> QED BY <1>7, <1>8, <1>9

\* One symbol after the last, the state machine is in the gap.
LEMMA FrameEnds ==
    ASSUME IInv, EndsInv, RegistersOK, Sending, Sym > Last
    PROVE  /\ state = "IFG" /\ Sym = Last + 1 /\ AllSent
           /\ Len(crc) = PaddedLen(DataLen) /\ Top = 8 + Len(crc) + 4
           /\ ~tx_en_o /\ ~gmii_tx_en_d1 /\ ~TxEn
           /\ Len(line) = Last /\ Last >= 12
<1>1. /\ Pos \in Nat /\ Top \in Nat /\ Len(crc) \in Nat
      /\ state # "IFG" => Top = Pos
      /\ state = "IFG" => Pos = Top + ifg_counter /\ Top = 8 + Len(crc) + 4
      /\ ifg_counter \in 0 .. 12
  BY PosFacts DEF Sending, RegistersOK
<1>2. /\ tx_sel_1000m => Sym = Pos - 2 /\ Last = Top
      /\ ~tx_sel_1000m => Sym = 2 * Pos - 2 \/ Sym = 2 * Pos - 3
      /\ ~tx_sel_1000m => Last = 2 * Top
      /\ Sym \in Int /\ Last \in Nat
  BY SymFacts
<1>3. Sym = Last + 1
  BY <1>2 DEF Sending
<1> DEFINE P == Pos
           T == Top
           S == Sym
           M == Last
           n == Len(crc)
<1>4. P > T /\ T <= M
  <2>1. /\ P \in Nat /\ T \in Nat /\ S > M /\ S \in Int /\ M \in Nat
        /\ \/ S = P - 2 /\ M = T
           \/ (S = 2 * P - 2 \/ S = 2 * P - 3) /\ M = 2 * T
    BY <1>1, <1>2
  <2> HIDE DEF P, T, S, M
  <2> QED BY <2>1
<1>5. state = "IFG"
  BY <1>1, <1>4
<1>6. Top = 8 + Len(crc) + 4 /\ Last >= 12
  <2>1. T = 8 + n + 4 /\ n \in Nat /\ T <= M /\ M \in Nat
    BY <1>1, <1>2, <1>4, <1>5
  <2> HIDE DEF P, T, S, M, n
  <2>2. M >= 12
    BY <2>1
  <2> QED BY <2>1, <2>2 DEF T, M, n
<1>7. AllSent /\ Len(crc) = PaddedLen(DataLen)
  BY <1>5 DEF Sending, Body
<1>8. /\ ~(S \in 1 .. M) /\ ~(S + 1 \in 1 .. M) /\ ~(P \in 1 .. T)
      /\ S >= 1 /\ S - 1 = M
  <2>1. S = M + 1 /\ M \in Nat /\ P > T /\ P \in Nat /\ T \in Nat
    BY <1>1, <1>2, <1>3, <1>4
  <2> HIDE DEF P, T, S, M
  <2> QED BY <2>1
<1>9. Pipe
  BY DEF Sending
<1> QED BY <1>3, <1>5, <1>6, <1>7, <1>8, <1>9 DEF Pipe

\* The frame is complete: the next one begins with the next word.
LEMMA LastStep ==
    ASSUME IInv, TimeInv, Chain, EndsInv, RegistersOK, Sending, TxEdge,
           Sym > Last
    PROVE  sent' = sent + 1 /\ sent < Len(ends) /\ Idle'
<1>1. /\ state = "IFG" /\ AllSent
      /\ ~tx_en_o /\ ~gmii_tx_en_d1 /\ ~TxEn
      /\ Len(line) = Last /\ Last >= 12
  BY FrameEnds
<1>2. accepted' = accepted /\ ends' = ends
  BY ChainTx
<1>3. ~read_req /\ Taken' = Taken
  <2>1. ~read_req
    BY <1>1, CtrlStates
  <2> QED BY <2>1, ChainTx
<1>4. line # <<>>
  <2>1. Len(line) # 0
    BY <1>1
  <2> QED BY <2>1, EmptyList
<1>5. /\ gmii_tx_en_d1' = TxEn /\ tx_en_o' = gmii_tx_en_d1
      /\ line' = <<>> /\ sent' = sent + 1
  BY <1>1, <1>4 DEF TxEdge, PhyInt, Line
<1>6. ~TxEn' /\ state' = "IFG"
  <2>1. CASE ~tx_clk_en
    BY <2>1, <1>1, CtrlStates DEF Stays
  <2>2. CASE tx_clk_en
    <3>1. state' = next_state(tx_data_ready) /\ (TxEn' <=> state # "IFG")
      BY <2>2, CtrlStates DEF EnabledEdge
    <3>2. ifg_counter \in 0 .. 3
      BY <1>1, GapShort
    <3>3. state' = "IFG"
      BY <3>1, <3>2, <1>1 DEF next_state, IFG_LEN
    <3> QED BY <3>1, <3>3, <1>1
  <2> QED BY <2>1, <2>2
<1>7. sent < Len(ends) /\ ends[sent + 1] = Taken
  BY <1>1 DEF AllSent
<1>8. Taken' = Start' - 1
  <2>1. sent \in Nat /\ Taken \in Int
    BY FrameFacts
  <2>2. sent' # 0
    BY <2>1, <1>5
  <2>3. Start' = ends'[sent'] + 1
    BY <2>2 DEF Start, StartIn
  <2>4. Start' = Taken + 1
    BY <2>3, <1>2, <1>5, <1>7
  <2> QED BY <2>1, <2>4, <1>3
<1>9. Idle'
  BY <1>1, <1>5, <1>6, <1>8 DEF Idle
<1> QED BY <1>5, <1>7, <1>9

LEMMA FrameTx ==
    ASSUME IInv, TimeInv, FrameInv, TxEdge
    PROVE  FrameInv'
<1>1. Chain /\ EndsInv /\ RegistersOK /\ (Idle \/ Sending)
  BY DEF FrameInv
<1>2. Chain' /\ RegistersOK' /\ accepted' = accepted /\ ends' = ends
  BY <1>1, ChainTx, RegistersStep
<1>3. /\ Idle' \/ Sending'
      /\ sent' = sent \/ (sent' = sent + 1 /\ sent < Len(ends))
  <2>1. CASE Idle
    BY <2>1, <1>1, IdleStep
  <2>2. CASE Sending /\ Sym > Last
    BY <2>2, <1>1, LastStep
  <2>3. CASE Sending /\ ~(Sym > Last)
    <3>1. /\ Sym \in Int /\ Last \in Nat /\ Sym' = Sym + 1
          /\ Last' \in Nat /\ Last' >= Last
      BY <2>3, <1>1, SymStep
    <3>2. Sym <= Last
      BY <3>1, <2>3
    <3>3. Pipe' /\ sent' = sent
      BY <3>2, <2>3, <1>1, PipeStep
    <3>4. state = "IFG" => ifg_counter < IFG_LEN
      <4>1. state = "IFG" => ifg_counter \in 0 .. 3
        BY <2>3, <1>1, GapShort
      <4> QED BY <4>1 DEF IFG_LEN
    <3>5. Body'
      BY <3>3, <3>4, <2>3, <1>1, BodyStep DEF Sending
    <3>6. Sym' <= Last' + 1
      <4>1. \A a, b \in Int, c \in Nat : a <= b /\ c >= b => a + 1 <= c + 1
        OBVIOUS
      <4>2. Last \in Int
        BY <3>1
      <4> QED BY <4>1, <4>2, <3>1, <3>2
    <3>7. tx_sel_1000m' => tx_clk_en'
      BY <1>1, ChainTx
    <3> QED BY <3>3, <3>5, <3>6, <3>7 DEF Sending
  <2> QED BY <2>1, <2>2, <2>3, <1>1
<1>4. EndsInv'
  <2>1. sent \in 0 .. Len(ends) /\ Len(ends) \in Nat
    BY <1>1 DEF EndsInv
  <2>2. sent' \in 0 .. Len(ends)
    BY <2>1, <1>3
  <2> QED BY <2>2, <1>1, <1>2 DEF EndsInv
<1> QED BY <1>2, <1>3, <1>4 DEF FrameInv

-----------------------------------------------------------------------------
(* The theorem. *)

LEMMA SliceFacts ==
    ASSUME NEW T, NEW s \in Seq(T), NEW a \in Nat \ {0}, NEW b \in Nat,
           a <= b, b <= Len(s)
    PROVE  /\ Len(SubSeq(s, a, b)) = b - a + 1
           /\ \A i \in 1 .. b - a + 1 : SubSeq(s, a, b)[i] = s[a + i - 1]
OBVIOUS

LEMMA PaddedIs ==
    ASSUME NEW data, Len(data) \in Nat
    PROVE  /\ PaddedLen(Len(data)) \in Nat
           /\ IsList(Padded(data)) /\ Len(Padded(data)) = PaddedLen(Len(data))
           /\ \A k \in 1 .. PaddedLen(Len(data)) :
                 Padded(data)[k] = IF k <= Len(data) THEN data[k] ELSE <<"00">>
<1>1. PaddedLen(Len(data)) \in Nat
  BY GmiiTxAssumption DEF PaddedLen
<1>2. Padded(data) = [k \in 1 .. PaddedLen(Len(data)) |-> Padded(data)[k]]
  BY DEF Padded
<1> QED BY <1>1, <1>2, ListOf DEF Padded

\* The bytes in the CRC are those of the packet, padded.
LEMMA BytesAreThePacket ==
    ASSUME IInv, EndsInv, RegistersOK, AllSent,
           Len(crc) = PaddedLen(DataLen)
    PROVE  crc = Padded(BytesOf(WordsOf(sent + 1)))
<1> DEFINE n == Taken - Start + 1
           ws == WordsOf(sent + 1)
           data == BytesOf(ws)
           d == DataLen
<1>1. /\ accepted \in Seq(Word) /\ Taken \in Int /\ Taken <= Len(accepted)
      /\ Start \in Nat \ {0} /\ Len(accepted) \in Nat /\ sent \in Nat
  BY FrameFacts
<1>2. /\ Taken >= Start /\ ends[sent + 1] = Taken
      /\ Gathered(crc, accepted, Start, d)
  BY DEF AllSent
<1>3. ws = SubSeq(accepted, Start, Taken)
  <2>1. (IF sent + 1 = 1 THEN 1 ELSE ends[(sent + 1) - 1] + 1) = Start
    BY <1>1 DEF Start, StartIn
  <2> QED BY <2>1, <1>2 DEF WordsOf
<1>4. Len(ws) = n /\ \A i \in 1 .. n : ws[i] = accepted[Start + i - 1]
  <2>1. Taken \in Nat /\ Start <= Taken
    BY <1>1, <1>2
  <2>2. /\ Len(SubSeq(accepted, Start, Taken)) = Taken - Start + 1
        /\ \A i \in 1 .. Taken - Start + 1 :
              SubSeq(accepted, Start, Taken)[i] = accepted[Start + i - 1]
    BY <2>1, <1>1, SliceFacts
  <2> QED BY <2>2, <1>3
<1>5. n \in Nat \ {0} /\ n - 1 = Taken - Start
  BY <1>1, <1>2
<1>6. ws[Len(ws)] = accepted[Taken]
  <2>1. n \in 1 .. n /\ Start + n - 1 = Taken
    BY <1>1, <1>5
  <2> HIDE DEF n, ws
  <2> QED BY <2>1, <1>4
<1>7. d \in Nat /\ d = 8 * (Len(ws) - 1) + Size(ws[Len(ws)])
  <2>1. d = 8 * (Taken - Start) + Size(accepted[Taken])
    BY DEF DataLen
  <2> QED BY <2>1, <1>4, <1>5, <1>6, AllSentLen
<1>8. d <= 8 * (n - 1) + 8
  <2>1. Taken \in 1 .. Len(accepted)
    BY <1>1, <1>2
  <2>2. Size(accepted[Taken]) \in 1 .. 8
    BY <2>1, FrameFacts, SizeFacts
  <2> QED BY <2>2, <1>4, <1>5, <1>6, <1>7
<1> HIDE DEF n, ws, d
<1>9. data = [k \in 1 .. d |-> <<"data", ws[(k - 1) \div 8 + 1], (k - 1) % 8>>]
  BY <1>7 DEF BytesOf
<1>10. \A k \in 1 .. d : data[k] = DataByte(accepted, Start, k)
  <2> TAKE k \in 1 .. d
  <2>1. k \in Nat \ {0} /\ n - 1 \in Nat /\ k <= 8 * (n - 1) + 8
    BY <1>5, <1>7, <1>8
  <2>2. (k - 1) \div 8 \in 0 .. n - 1
    BY <2>1, WordNumber
  <2>3. (k - 1) \div 8 + 1 \in 1 .. n
    BY <2>2, <1>5
  <2>4. ws[(k - 1) \div 8 + 1] = accepted[Start + ((k - 1) \div 8 + 1) - 1]
    BY <2>3, <1>4
  <2>5. Start + ((k - 1) \div 8 + 1) - 1 = Start + (k - 1) \div 8
    BY <2>2, <1>1
  <2> QED BY <2>4, <2>5, <1>9 DEF DataByte
<1>11. Len(data) = d
  <2>1. data = [k \in 1 .. d |-> data[k]]
    BY <1>9
  <2> HIDE DEF data
  <2> QED BY <2>1, <1>7, ListOf
<1> HIDE DEF data
<1>12. /\ IsList(Padded(data)) /\ Len(Padded(data)) = PaddedLen(d)
       /\ \A k \in 1 .. PaddedLen(d) :
             Padded(data)[k] = IF k <= d THEN data[k] ELSE <<"00">>
  BY <1>7, <1>11, PaddedIs
<1>13. IsList(crc) /\ Len(crc) = PaddedLen(d) /\ Len(crc) \in Nat
  BY ListFacts DEF RegistersOK, d
<1>14. \A k \in 1 .. Len(crc) : crc[k] = Padded(data)[k]
  <2> TAKE k \in 1 .. Len(crc)
  <2>1. Padded(data)[k] = IF k <= d THEN data[k] ELSE <<"00">>
    BY <1>12, <1>13
  <2>2. CASE k <= d
    <3>1. k \in 1 .. d
      BY <2>2, <1>7, <1>13
    <3> QED BY <3>1, <2>1, <2>2, <1>2, <1>10 DEF Gathered
  <2>3. CASE ~(k <= d)
    <3>1. k > d
      BY <2>3, <1>7, <1>13
    <3> QED BY <3>1, <2>1, <2>3, <1>2 DEF Gathered
  <2> QED BY <2>2, <2>3
<1>15. crc = Padded(data)
  BY <1>12, <1>13, <1>14, ListEqual
<1> QED BY <1>15 DEF data, ws

LEMMA FrameInvImplies ==
    ASSUME IInv, FrameInv
    PROVE  FrameIsPacket
<1> SUFFICES ASSUME ~tx_en_o, line # <<>>
             PROVE  /\ sent < Ended
                    /\ line = OnLine(tx_sel_1000m,
                                     Padded(BytesOf(WordsOf(sent + 1))))
  BY DEF FrameIsPacket
<1>1. EndsInv /\ RegistersOK /\ Sending
  BY DEF FrameInv, Idle
<1>2. Pipe /\ Sym \in Int /\ Last \in Nat
  BY <1>1, SymFacts DEF Sending
<1>3. Sym > Last
  <2>1. ~(Sym < 1) /\ ~(Sym \in 1 .. Last)
    BY <1>2 DEF Pipe
  <2> QED BY <2>1, <1>2
<1>4. /\ AllSent /\ Len(crc) = PaddedLen(DataLen)
      /\ Top = 8 + Len(crc) + 4 /\ Len(line) = Last
  BY <1>1, <1>3, FrameEnds
<1>5. crc = Padded(BytesOf(WordsOf(sent + 1)))
  BY <1>1, <1>4, BytesAreThePacket
<1>6. sent < Ended
  BY <1>4 DEF AllSent, Ended
<1> DEFINE t == OnLine(tx_sel_1000m, crc)
           m == PerByte(tx_sel_1000m) * FrameLen(crc)
<1>7. Last = m
  BY <1>4 DEF Last, FrameLen, FCS_LEN
<1>8. t = [j \in 1 .. m |-> SymbolAt(tx_sel_1000m, crc, j)]
  BY DEF OnLine, SymbolAt
<1> HIDE DEF m, t
<1>9. IsList(t) /\ Len(t) = m
  <2>1. t = [j \in 1 .. m |-> t[j]] /\ m \in Nat
    BY <1>2, <1>7, <1>8
  <2> QED BY <2>1, ListOf
<1>10. \A j \in 1 .. Len(line) : line[j] = t[j]
  <2> TAKE j \in 1 .. Len(line)
  <2>1. line[j] = SymbolAt(tx_sel_1000m, crc, j)
    BY <1>2 DEF Pipe
  <2>2. j \in 1 .. m
    BY <1>4, <1>7
  <2> QED BY <2>1, <2>2, <1>8
<1>11. line = t
  <2>1. IsList(line) /\ Len(line) = Len(t)
    BY <1>1, <1>4, <1>7, <1>9 DEF RegistersOK
  <2> QED BY <2>1, <1>9, <1>10, ListEqual
<1> QED BY <1>5, <1>6, <1>11 DEF t

LEMMA InitFrame ==
    ASSUME Init
    PROVE  FrameInv
<1>1. /\ accepted = <<>> /\ ends = <<>> /\ sent = 0 /\ line = <<>>
      /\ tx_fifo = <<>> /\ tx_delay = <<>> /\ pkt_fifo = <<>>
      /\ crc = <<>> /\ state = "IFG" /\ pkt_counter = 0 /\ ifg_counter = 0
      /\ read_req_dl = FALSE /\ tx_mii_pos = FALSE
      /\ TxEn = FALSE /\ gmii_tx_en_d1 = FALSE /\ tx_en_o = FALSE
  BY DEF Init, CtrlReset, TxCpuReset
<1>2. Taken = 0
  <2>1. Len(accepted) = 0 /\ Len(tx_fifo) = 0 /\ Len(tx_delay) = 0
        /\ Len(pkt_fifo) = 0
    BY <1>1, EmptyList
  <2>2. Taken = 0 - (0 + 0 + 0)
    BY <2>1 DEF Taken
  <2> QED BY <2>2
<1>3. Chain
  BY <1>1, <1>2, EmptyList DEF Chain
<1>4. EndsInv
  <2>1. Numbers(<<>>, <<>>, 0)
    BY EmptyList DEF Numbers
  <2>2. ends \in Seq(Nat) /\ Len(ends) = 0
    BY <1>1
  <2> QED BY <2>1, <2>2, <1>1 DEF EndsInv
<1>5. RegistersOK
  <2>1. IsList(crc) /\ IsList(line)
    BY <1>1, EmptyList
  <2>2. pkt_counter \in 0 .. 255 /\ ifg_counter \in 0 .. 12
    BY <1>1
  <2>3. read_req_dl \in BOOLEAN /\ tx_mii_pos \in BOOLEAN
    BY <1>1
  <2> QED BY <2>1, <2>2, <2>3 DEF RegistersOK
<1>6. Start = 1
  BY <1>1 DEF Start, StartIn
<1>7. Idle
  BY <1>1, <1>2, <1>6 DEF Idle
<1> QED BY <1>3, <1>4, <1>5, <1>7 DEF FrameInv

LEMMA StutterFrame ==
    ASSUME FrameInv, UNCHANGED vars
    PROVE  FrameInv'
<1>1. UNCHANGED <<accepted, ends, sent, line, tx_fifo, tx_delay, pkt_fifo,
                  word, crc, state, pkt_counter, ifg_counter, preamb_counter,
                  byte_counter, crc_counter, last_byte, read_req, read_req_dl,
                  tx_mii_pos, TxEn, TxD, gmii_tx_en_d1, gmii_tx_d_d1, tx_en_o,
                  tx_d_o, tx_clk_en, tx_sel_1000m>>
  BY DEF vars, txCpuVars, ctrlVars, srcVars, phyVars, lineVars
<1>2. /\ Taken' = Taken /\ Start' = Start /\ Cur' = Cur /\ DataLen' = DataLen
      /\ Pos' = Pos
  BY <1>1 DEF Taken, Start, Cur, DataLen, Pos
<1>3. Top' = Top /\ Sym' = Sym
  BY <1>1, <1>2 DEF Top, Sym
<1>4. Last' = Last
  BY <1>1, <1>3 DEF Last
<1>5. Chain' = Chain /\ EndsInv' = EndsInv /\ RegistersOK' = RegistersOK
  BY <1>1, <1>2 DEF Chain, EndsInv, RegistersOK
<1>6. AllSent' = AllSent
  BY <1>1, <1>2 DEF AllSent
<1>7. InData' = InData
  BY <1>1, <1>2 DEF InData
<1>8. Body' = Body
  BY <1>1, <1>2, <1>6, <1>7 DEF Body
<1>9. Pipe' = Pipe
  BY <1>1, <1>2, <1>3, <1>4 DEF Pipe
<1>10. Idle' = Idle /\ Sending' = Sending
  BY <1>1, <1>2, <1>3, <1>4, <1>8, <1>9 DEF Idle, Sending
<1> QED BY <1>5, <1>10 DEF FrameInv

\* conv_1G_tx_ctrl.v, CRC_gen.v, gbe_phy_int.sv: in every state the FIFOs hold
\* the words that are still to be sent, in their order; the CRC register those
\* of the frame so far, and the registers up to the pins the bytes before.
THEOREM GmiiTxFrameInvariant == Synced => (Spec => []FrameInv)
<1> SUFFICES ASSUME Synced PROVE Spec => []FrameInv
  OBVIOUS
<1>1. Init => IInv /\ TimeInv /\ FrameInv
  BY InitInv, InitFrame
<1>2. IInv /\ TimeInv /\ FrameInv /\ [Next]_vars =>
          IInv' /\ TimeInv' /\ FrameInv'
  <2> SUFFICES ASSUME IInv, TimeInv, FrameInv, [Next]_vars
               PROVE  IInv' /\ TimeInv' /\ FrameInv'
    OBVIOUS
  <2>1. CASE SysEdge \/ Accept \/ Cut
    BY <2>1, SysStep, SysTime, FrameSys
  <2>2. CASE TxEdge
    BY <2>2, TxStep, TxTime, FrameTx
  <2>3. CASE UNCHANGED vars
    BY <2>3, StutterInv, StutterFrame
  <2> QED BY <2>1, <2>2, <2>3 DEF Next
<1> QED BY <1>1, <1>2, PTL DEF Spec

\* conv_1G_tx_ctrl.v, gbe_phy_int.sv: a frame that has ended on the pins is a
\* packet that netdma gave, whole and in its order, with the preamble, padding
\* and CRC around it, at either speed.
THEOREM GmiiTxFrameIsPacket == Synced => (Spec => []FrameIsPacket)
<1> SUFFICES ASSUME Synced PROVE Spec => []FrameIsPacket
  OBVIOUS
<1>1. Spec => []FrameInv
  BY GmiiTxFrameInvariant
<1>2. Spec => []IInv
  BY GmiiTxInvariant
<1>3. IInv /\ FrameInv => FrameIsPacket
  BY FrameInvImplies
<1> QED BY <1>1, <1>2, <1>3, PTL
=============================================================================
