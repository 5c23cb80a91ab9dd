-------------------------- MODULE TrafEngineProofs --------------------------
(***************************************************************************)
(* The receiving half of the traffic engine, for every FIFO size, limit,   *)
(* mode and set of packets: each packet is judged by its own status, the   *)
(* processor gets whole packets and only those it wants, and no FIFO is    *)
(* written when it is full.                                                *)
(*                                                                         *)
(* The invariant has the ends of packets in rx_fifo numbered, by a         *)
(* function pos: as many as there are statuses, and one more while a       *)
(* status is on its way through the delay line.  That the status FIFO is   *)
(* not overrun is a matter of time: once a status is there a word leaves   *)
(* rx_fifo in every cycle, and the ends are MIN_EOP_GAP cycles apart, so   *)
(* the k-th end is the nearer to the head the more statuses came after it  *)
(* (Drained).  The rest of a packet that a reset cut has no start to take  *)
(* a direction with: it meets the direction that the reset left (ReadInv). *)
(***************************************************************************)
EXTENDS TrafEngine, ScFifoTheorems, FiniteSetTheorems, SequenceTheorems

\* As many words as are ever in rx_fifo: they pile up only while no status is
\* there, behind the start of one packet, and five cycles after its end.
Backlogs == {b \in Nat : \/ b >= RX_WORDS
                         \/ \A pkt \in PACKETS : NumWords(pkt) + 5 <= b}

\* Room for the word that ends a packet after almost_full, and time for the
\* statuses.  The engine has 40 safe words, 256 statuses and packets of up to
\* 1200 words: with 1205 in Backlogs the six cycles that TrafEngineAssumption
\* asks for are enough.
RxSized ==
    /\ RX_SAFE_WORDS >= 2
    /\ \E b \in Backlogs : STAT_WORDS * MIN_EOP_GAP > b

\* Room for the three words on their way when the room is counted.
CpuSized == CPU_SAFE_WORDS >= 2

Maybe(S) == {<<>>} \cup {<<x>> : x \in S}

CASTS == {"broadcast", "multicast", "usercast", "none"}

Status == [cast : CASTS, crc_err : BOOLEAN, runt : BOOLEAN,
           oversize : BOOLEAN, pkt_size : Nat]

TypeOK ==
    /\ rx_fifo \in Seq(Word) /\ rx_fifo_full \in BOOLEAN
    /\ rxsfifo_wen_delay \in Seq(BOOLEAN) /\ Len(rxsfifo_wen_delay) = 5
    /\ crcerr_dl \in BOOLEAN /\ pktlen_dl \in Nat
    /\ data_pos_0 \in BOOLEAN /\ macd \in MACS \cup {"none"}
    /\ eop_d1 \in BOOLEAN /\ head_lock_macd \in MACS \cup {"none"}
    /\ cast \in CASTS /\ runt \in BOOLEAN /\ oversize \in BOOLEAN
    /\ stat_fifo \in Seq(Status)
    /\ rx_d1 \in Maybe(Word) /\ rx_dir_d1 \in {"CPU", "DROP"}
    /\ rx_dmx \in Maybe(Word) /\ written \in Maybe(Word)
    /\ cpu_fifo \in Seq(Word) /\ Len(cpu_fifo) <= CPU_WORDS
    /\ cpu_almost_full \in BOOLEAN /\ cpu_wremptyw \in Nat
    /\ src \in Maybe([pkt : PACKETS, sent : Nat, whole : BOOLEAN])
    /\ gap \in 1 .. MIN_EOP_GAP

SourceInv ==
    src # <<>> => /\ src[1].sent >= 1 /\ src[1].sent < NumWords(src[1].pkt)
                  /\ gap < MIN_EOP_GAP => src[1].sent < gap

ParserInv ==
    /\ src = <<>> => data_pos_0
    /\ src # <<>> /\ src[1].whole => ~data_pos_0 /\ macd = src[1].pkt.macd
    /\ eop_d1 => gap = 1

\* v and w are of one packet, w the n-th word after v.
Same(v, w, n) == w.pkt = v.pkt /\ w.i = v.i + n /\ w.whole = v.whole

WordOK(w) ==
    /\ w.i >= 1 /\ w.i <= NumWords(w.pkt)
    /\ w.i = 1 => w.whole
    /\ w.eop => w.i >= 2
    /\ w.eop /\ ~w.crc_err => w.size = w.pkt.len /\ w.i = NumWords(w.pkt)

QueueInv ==
    /\ \A j \in 1 .. Len(rx_fifo) : WordOK(rx_fifo[j])
    /\ \A j \in 1 .. Len(rx_fifo), k \in 1 .. Len(rx_fifo) :
          j <= k /\ (\A m \in j .. k - 1 : ~rx_fifo[m].eop) =>
             Same(rx_fifo[j], rx_fifo[k], k - j)
    /\ \A j \in 1 .. Len(rx_fifo) - 1 :
          rx_fifo[j].eop => rx_fifo[j + 1].i = 1

\* What is stored last, and what is to come.
TailInv ==
    LET last == rx_fifo[Len(rx_fifo)]
    IN  /\ rx_fifo # <<>> /\ src = <<>> => last.eop
        /\ rx_fifo # <<>> /\ src # <<>> =>
              /\ ~last.eop /\ last.pkt = src[1].pkt
              /\ last.i = src[1].sent /\ last.whole = src[1].whole
        /\ rx_fifo = <<>> /\ src # <<>> => ~src[1].whole

\* What leaves rx_fifo next, whenever that is, starts a packet.
AtStart == /\ rx_fifo # <<>> => rx_fifo[1].i = 1
           /\ rx_fifo = <<>> => src = <<>>

\* What left rx_fifo last, and what is at its head.
ReadInv ==
    /\ rx_d1 # <<>> => WordOK(rx_d1[1])
    /\ rx_d1 # <<>> /\ ~rx_d1[1].eop =>
          /\ stat_fifo # <<>> /\ rx_fifo # <<>>
          /\ Same(rx_d1[1], rx_fifo[1], 1)
    /\ rx_d1 # <<>> /\ rx_d1[1].eop => AtStart
    /\ rx_d1 = <<>> /\ rx_dir_d1 = "CPU" => AtStart

Pending == \E g \in 1 .. 5 : rxsfifo_wen_delay[g]

NumEnds == Len(stat_fifo) + (IF Pending THEN 1 ELSE 0)

Numbered(pos) == Numbers(pos, rx_fifo, NumEnds)

Judged(pos) ==
    \A k \in 1 .. Len(stat_fifo) : IsStatusOf(stat_fifo[k], rx_fifo[pos[k]])

\* The status on its way, stage by stage, is of the last packet.
StatusComes(pos) ==
    \A g \in 1 .. 5 : rxsfifo_wen_delay[g] =>
        LET w == rx_fifo[pos[NumEnds]]
        IN  /\ gap = g
            /\ crcerr_dl = w.crc_err /\ pktlen_dl = w.size
            /\ w.whole => head_lock_macd = w.pkt.macd
            /\ g >= 2 => /\ cast = Cast(head_lock_macd)
                         /\ runt = (w.size < FRM_LEN_MIN)
                         /\ oversize = (w.size > FRM_LEN_MAX)

Gaps(n) == n * MIN_EOP_GAP

\* Cycles since the last status was written, as far as gap tells.
SinceStatus == gap - 6 + (IF Pending THEN MIN_EOP_GAP ELSE 0)

Drained(pos) ==
    \A b \in Backlogs, k \in 1 .. Len(stat_fifo) :
        pos[k] + Gaps(Len(stat_fifo) - k) + SinceStatus <= b

StatusInv == \E pos : /\ Numbered(pos) /\ Judged(pos)
                      /\ StatusComes(pos) /\ Drained(pos)

RxRoom ==
    /\ Len(rx_fifo) <= RX_WORDS
    /\ \A b \in Backlogs : Len(rx_fifo) <= b
    /\ src # <<>> => Len(rx_fifo) < RX_WORDS
    /\ ~rx_fifo_full => Len(rx_fifo) <= RX_WORDS - RX_SAFE_WORDS

\* The word that left rx_fifo goes to the processor.
ToCpu == rx_d1 # <<>> /\ rx_dir_d1 = "CPU"

LastOut == IF rx_dmx # <<>> THEN rx_dmx ELSE written

CpuInv ==
    /\ ToCpu =>
          /\ rx_d1[1].whole
          /\ rx_d1[1].eop => Wanted(rx_d1[1])
          /\ ~rx_d1[1].eop => \A e \in 1 .. Len(rx_fifo) :
                                 FirstEnd(e) => Wanted(rx_fifo[e])
    /\ LastOut # <<>> /\ ~LastOut[1].eop =>
          ToCpu /\ Same(LastOut[1], rx_d1[1], 1)
    /\ (LastOut = <<>> \/ LastOut[1].eop) /\ ToCpu => rx_d1[1].i = 1

\* Words on their way to cpu_fifo, up to the end e of their packet.
Level == ALMOST_FULL_WORDS(CPU_WORDS, CPU_SAFE_WORDS)

CpuRoom ==
    /\ cpu_wremptyw > 0 => Len(cpu_fifo) + cpu_wremptyw <= Level + 1
    /\ Len(cpu_fifo) + Len(rx_dmx) <= CPU_WORDS
    /\ ToCpu => Len(cpu_fifo) + Len(rx_dmx) + 1 <= CPU_WORDS
    /\ ToCpu /\ ~rx_d1[1].eop =>
          \A e \in 1 .. Len(rx_fifo) : FirstEnd(e) =>
             Len(cpu_fifo) + Len(rx_dmx) + 1 + e <= CPU_WORDS

IInv == /\ TypeOK /\ SourceInv /\ ParserInv /\ QueueInv /\ TailInv /\ ReadInv
        /\ StatusInv /\ RxRoom /\ CpuInv

-----------------------------------------------------------------------------
(* What the source presents, and what is stored of it. *)

\* A word, if any, that the packet under way can go on with.
Presents(w) ==
    /\ w \in Maybe(Word)
    /\ w # <<>> =>
          /\ WordOK(w[1])
          /\ src = <<>> => w[1].i = 1 /\ ~w[1].eop
          /\ src # <<>> =>
                /\ w[1].pkt = src[1].pkt /\ w[1].i = src[1].sent + 1
                /\ w[1].whole = src[1].whole
          /\ ~w[1].eop => ~rx_fifo_full /\ w[1].i < NumWords(w[1].pkt)
          /\ w[1].eop => gap = MIN_EOP_GAP

LEMMA MaybeSeq ==
    ASSUME NEW S, NEW x \in Maybe(S)
    PROVE  /\ x \in Seq(S) /\ Len(x) = (IF x = <<>> THEN 0 ELSE 1)
           /\ x # <<>> => x[1] \in S /\ x = <<x[1]>>
<1>1. CASE x = <<>>
  BY <1>1
<1>2. CASE x # <<>>
  <2>1. PICK y \in S : x = <<y>>
    BY <1>2 DEF Maybe
  <2> QED BY <2>1
<1> QED BY <1>1, <1>2

LEMMA InMaybe ==
    ASSUME NEW S, NEW x \in S
    PROVE  <<x>> \in Maybe(S) /\ <<x>> # <<>> /\ <<x>>[1] = x
BY DEF Maybe

LEMMA PacketFacts ==
    ASSUME NEW pkt \in PACKETS
    PROVE  pkt.len \in Nat /\ pkt.macd \in MACS /\ NumWords(pkt) \in Nat
           /\ NumWords(pkt) >= 2
<1>1. pkt \in [macd : MACS, len : Nat] /\ NumWords(pkt) >= 2
  BY TrafEngineAssumption DEF TrafEngineAssumption
<1>2. pkt.len \in Nat /\ pkt.macd \in MACS
  BY <1>1
<1>3. NumWords(pkt) \in Nat
  BY <1>2 DEF NumWords
<1> QED BY <1>1, <1>2, <1>3

LEMMA SourceFacts ==
    ASSUME TypeOK, SourceInv, src # <<>>
    PROVE  /\ src[1] \in [pkt : PACKETS, sent : Nat, whole : BOOLEAN]
           /\ src = <<src[1]>> /\ Range(src) = {src[1]}
           /\ src[1].pkt \in PACKETS /\ src[1].sent \in Nat
           /\ src[1].whole \in BOOLEAN /\ src[1].sent >= 1
           /\ src[1].sent < NumWords(src[1].pkt)
<1>1. /\ src[1] \in [pkt : PACKETS, sent : Nat, whole : BOOLEAN]
      /\ src = <<src[1]>>
  BY MaybeSeq DEF TypeOK
<1>2. DOMAIN src = {1}
  BY <1>1
<1>3. Range(src) = {src[1]}
  BY <1>2 DEF Range
<1> QED BY <1>1, <1>3 DEF SourceInv

LEMMA SourcePresents ==
    ASSUME TypeOK, SourceInv,
           NEW w \in {<<>>} \cup Starts \cup Continues \cup Ends \cup ForcedEnds
    PROVE  Presents(w)
<1>1. CASE w = <<>>
  BY <1>1 DEF Presents, Maybe
<1>2. CASE w \in Starts
  <2>1. PICK pkt \in PACKETS :
           /\ src = <<>> /\ ~rx_fifo_full
           /\ w = <<NextWord([pkt |-> pkt, sent |-> 0, whole |-> TRUE],
                             FALSE, FALSE, 0)>>
    BY <1>2 DEF Starts
  <2> DEFINE v == [pkt |-> pkt, i |-> 1, eop |-> FALSE, crc_err |-> FALSE,
                   size |-> 0, whole |-> TRUE]
  <2>2. w = <<v>>
    BY <2>1 DEF NextWord
  <2>3. v \in Word
    BY DEF Word
  <2>4. w \in Maybe(Word) /\ w[1] = v
    BY <2>2, <2>3, InMaybe
  <2>5. WordOK(v) /\ v.i < NumWords(v.pkt) /\ v.i = 1 /\ ~v.eop
    BY PacketFacts DEF WordOK
  <2> QED BY <2>1, <2>4, <2>5 DEF Presents
<1>3. CASE w \in Continues \cup Ends \cup ForcedEnds
  <2>1. src # <<>>
    <3>1. ASSUME src = <<>> PROVE FALSE
      <4>1. Range(src) = {}
        BY <3>1 DEF Range
      <4>2. Continues = {} /\ ForcedEnds = {}
        BY <4>1 DEF Continues, ForcedEnds
      <4>3. Ends = {}
        BY <4>1 DEF Ends
      <4> QED BY <4>2, <4>3, <1>3
    <3> QED BY <3>1
  <2>2. /\ src[1].pkt \in PACKETS /\ src[1].sent \in Nat /\ src[1].sent >= 1
        /\ src[1].whole \in BOOLEAN /\ src[1].sent < NumWords(src[1].pkt)
        /\ Range(src) = {src[1]}
    BY <2>1, SourceFacts
  <2>3. src[1].pkt.len \in Nat
    BY <2>2, PacketFacts
  <2>4. PICK eop \in BOOLEAN, crc_err \in BOOLEAN, size \in Nat :
           /\ w = <<NextWord(src[1], eop, crc_err, size)>>
           /\ ~eop => ~rx_fifo_full /\ src[1].sent + 1 < NumWords(src[1].pkt)
           /\ eop => gap = MIN_EOP_GAP
           /\ eop /\ ~crc_err => /\ size = src[1].pkt.len
                                 /\ src[1].sent + 1 = NumWords(src[1].pkt)
    <3>1. CASE w \in Continues
      <4>1. /\ w = <<NextWord(src[1], FALSE, FALSE, 0)>> /\ ~rx_fifo_full
            /\ src[1].sent + 1 < NumWords(src[1].pkt)
        BY <3>1, <2>2 DEF Continues
      <4> QED BY <4>1
    <3>2. CASE w \in Ends
      <4>1. PICK crc_err \in BOOLEAN :
               /\ w = <<NextWord(src[1], TRUE, crc_err, src[1].pkt.len)>>
               /\ src[1].sent + 1 = NumWords(src[1].pkt) /\ gap = MIN_EOP_GAP
        <5> DEFINE last == {t \in Range(src) : /\ t.sent + 1 = NumWords(t.pkt)
                                               /\ gap = MIN_EOP_GAP}
                   end(crc_err, s) == <<NextWord(s, TRUE, crc_err, s.pkt.len)>>
        <5>1. Ends = {end(crc_err, s) : crc_err \in BOOLEAN, s \in last}
          BY DEF Ends
        <5> HIDE DEF last, end
        <5>2. PICK crc_err \in BOOLEAN, s \in last : w = end(crc_err, s)
          BY <3>2, <5>1
        <5>3. /\ s = src[1] /\ s.sent + 1 = NumWords(s.pkt)
              /\ gap = MIN_EOP_GAP
          BY <2>2 DEF last
        <5> QED BY <5>2, <5>3 DEF end
      <4> QED BY <4>1, <2>3
    <3>3. CASE w \in ForcedEnds
      <4>1. /\ w = <<NextWord(src[1], TRUE, TRUE, 8 * (src[1].sent + 1) + 4)>>
            /\ gap = MIN_EOP_GAP
        BY <3>3, <2>2 DEF ForcedEnds
      <4>2. 8 * (src[1].sent + 1) + 4 \in Nat
        BY <2>2
      <4> QED BY <4>1, <4>2
    <3> QED BY <1>3, <3>1, <3>2, <3>3
  <2> DEFINE v == [pkt |-> src[1].pkt, i |-> src[1].sent + 1, eop |-> eop,
                   crc_err |-> crc_err, size |-> size, whole |-> src[1].whole]
  <2>5. w = <<v>>
    BY <2>4 DEF NextWord
  <2>6. v \in Word
    BY <2>2 DEF Word
  <2>7. w \in Maybe(Word) /\ w[1] = v
    BY <2>5, <2>6, InMaybe
  <2>8. WordOK(v)
    <3>1. v.i >= 2 /\ v.i <= NumWords(v.pkt)
      BY <2>2, PacketFacts
    <3> QED BY <3>1, <2>2, <2>4 DEF WordOK
  <2> QED BY <2>1, <2>2, <2>4, <2>7, <2>8 DEF Presents
<1> QED BY <1>1, <1>2, <1>3

LEMMA NextIsEdge ==
    ASSUME TypeOK, SourceInv, Next
    PROVE  \/ \E w, ready : /\ Presents(w) /\ ready \in BOOLEAN
                            /\ EngineEdge(w, ready)
           \/ Reset
<1>1. CASE Pause
  <2>1. PICK ready \in BOOLEAN : EngineEdge(<<>>, ready)
    BY <1>1 DEF Pause
  <2> QED BY <2>1, SourcePresents
<1>2. CASE Start \/ Proceed \/ End \/ ForceEnd
  <2>1. PICK w \in Starts \cup Continues \cup Ends \cup ForcedEnds,
             ready \in BOOLEAN : EngineEdge(w, ready)
    BY <1>2 DEF Start, Proceed, End, ForceEnd
  <2>2. Presents(w)
    BY <2>1, SourcePresents
  <2> QED BY <2>1, <2>2
<1> QED BY <1>1, <1>2 DEF Next

\* Since a packet ended there was time for a word in each cycle but the first.
LEMMA SentSince ==
    ASSUME TypeOK, SourceInv, NEW w, Presents(w), w # <<>>, ~w[1].eop,
           gap' = IF gap < MIN_EOP_GAP THEN gap + 1 ELSE gap
    PROVE  gap' < MIN_EOP_GAP => w[1].i < gap'
<1> HAVE gap' < MIN_EOP_GAP
<1>1. gap \in Nat /\ gap >= 1 /\ MIN_EOP_GAP \in Nat
  BY TrafEngineAssumption DEF TypeOK, TrafEngineAssumption
<1>2. gap < MIN_EOP_GAP /\ gap' = gap + 1
  BY <1>1
<1>3. CASE src = <<>>
  BY <1>1, <1>2, <1>3 DEF Presents
<1>4. CASE src # <<>>
  <2>1. w[1].i = src[1].sent + 1 /\ src[1].sent \in Nat /\ src[1].sent < gap
    BY <1>2, <1>4, SourceFacts DEF Presents, SourceInv
  <2> QED BY <1>1, <1>2, <2>1
<1> QED BY <1>3, <1>4

\* The place of a word in a packet stays within it, and the source keeps count.
LEMMA SourceStep ==
    ASSUME TypeOK, SourceInv, NEW w, Presents(w), SourceEdge(w)
    PROVE  /\ src' \in Maybe([pkt : PACKETS, sent : Nat, whole : BOOLEAN])
           /\ gap' \in 1 .. MIN_EOP_GAP
           /\ SourceInv'
<1>1. MIN_EOP_GAP \in Nat /\ MIN_EOP_GAP >= 6
  BY TrafEngineAssumption DEF TrafEngineAssumption
<1>2. gap' \in 1 .. MIN_EOP_GAP
  BY <1>1 DEF TypeOK, SourceEdge
<1>3. CASE w = <<>>
  <2>1. src' = src /\ (gap' < MIN_EOP_GAP => gap < MIN_EOP_GAP /\ gap < gap')
    BY <1>1, <1>3 DEF SourceEdge, TypeOK
  <2> QED BY <1>2, <2>1 DEF TypeOK, SourceInv, Maybe
<1>4. CASE w # <<>>
  <2>1. w[1] \in Word
    BY <1>4, MaybeSeq DEF Presents
  <2>2. CASE w[1].eop
    BY <1>2, <1>4, <2>2 DEF SourceEdge, SourceInv, Maybe
  <2>3. CASE ~w[1].eop
    <3> DEFINE s == [pkt |-> w[1].pkt, sent |-> w[1].i, whole |-> w[1].whole]
    <3>1. src' = <<s>>
      BY <1>4, <2>3 DEF SourceEdge
    <3>2. s \in [pkt : PACKETS, sent : Nat, whole : BOOLEAN]
      BY <2>1 DEF Word
    <3>3. src' \in Maybe([pkt : PACKETS, sent : Nat, whole : BOOLEAN])
          /\ src'[1] = s
      BY <3>1, <3>2, InMaybe
    <3>4. s.sent >= 1 /\ s.sent < NumWords(s.pkt)
      BY <1>4, <2>3 DEF Presents, WordOK
    <3>5. gap' < MIN_EOP_GAP => s.sent < gap'
      BY <1>1, <1>4, <2>3, SentSince DEF SourceEdge
    <3> QED BY <1>2, <3>3, <3>4, <3>5 DEF SourceInv
  <2> QED BY <2>2, <2>3
<1> QED BY <1>3, <1>4

-----------------------------------------------------------------------------
(* What an edge does to the two FIFOs of the engine. *)

LEMMA SizeFacts ==
    /\ RX_WORDS \in Nat /\ RX_SAFE_WORDS \in Nat /\ RX_SAFE_WORDS < RX_WORDS
    /\ STAT_WORDS \in Nat /\ STAT_WORDS >= 1
    /\ MIN_EOP_GAP \in Nat /\ MIN_EOP_GAP >= 6
    /\ CPU_WORDS \in Nat /\ CPU_SAFE_WORDS \in Nat
    /\ CPU_SAFE_WORDS < CPU_WORDS
    /\ FRM_LEN_MIN \in Nat /\ FRM_LEN_MAX \in Nat /\ MTU \in Nat
BY TrafEngineAssumption DEF TrafEngineAssumption

LEMMA GapsFacts ==
    ASSUME NEW n \in Nat
    PROVE  Gaps(n) \in Nat /\ Gaps(n + 1) = Gaps(n) + MIN_EOP_GAP
<1> DEFINE g == MIN_EOP_GAP
<1>1. g \in Nat
  BY SizeFacts
<1> HIDE DEF g
<1>2. n * g \in Nat /\ (n + 1) * g = n * g + g
  BY <1>1
<1> QED BY <1>2 DEF Gaps, g

\* A status that is there has its packet in rx_fifo, and is written before the
\* status FIFO can be full: by then the first of STAT_WORDS is gone.
LEMMA StatusFacts ==
    ASSUME TypeOK, RxSized,
           NEW pos, Numbered(pos), StatusComes(pos), Drained(pos)
    PROVE  /\ Len(stat_fifo) \in Nat /\ NumEnds \in Nat
           /\ Len(stat_fifo) <= NumEnds
           /\ stat_fifo # <<>> => rx_fifo # <<>>
           /\ pkt_rx_read <=> stat_fifo # <<>>
           /\ rxsfifo_wen_dl => Len(stat_fifo) < STAT_WORDS
           /\ \A g \in 1 .. 5 : rxsfifo_wen_delay[g] => gap = g
<1>1. Len(stat_fifo) \in Nat /\ NumEnds \in Nat /\ Len(stat_fifo) <= NumEnds
      /\ Len(rx_fifo) \in Nat
  BY DEF TypeOK, NumEnds
<1>2. stat_fifo # <<>> => rx_fifo # <<>>
  <2> HAVE stat_fifo # <<>>
  <2>1. Len(stat_fifo) >= 1
    BY DEF TypeOK
  <2>2. 1 \in 1 .. NumEnds
    BY <1>1, <2>1
  <2>3. pos[1] \in 1 .. Len(rx_fifo)
    BY <2>2 DEF Numbered, Numbers
  <2> QED BY <2>3, <1>1
<1>3. pkt_rx_read <=> stat_fifo # <<>>
  BY <1>2 DEF pkt_rx_read, pkt_rx_avail, FifoEmpty
<1>4. \A g \in 1 .. 5 : rxsfifo_wen_delay[g] => gap = g
  BY DEF StatusComes
<1>5. rxsfifo_wen_dl => Len(stat_fifo) < STAT_WORDS
  <2> SUFFICES ASSUME rxsfifo_wen_dl, Len(stat_fifo) >= STAT_WORDS PROVE FALSE
    BY <1>1, SizeFacts
  <2> DEFINE n == Len(stat_fifo)
             k == n - (STAT_WORDS - 1)
  <2>1. k \in 1 .. n /\ n - k = STAT_WORDS - 1 /\ STAT_WORDS - 1 \in Nat
    BY <1>1, SizeFacts
  <2>2. rxsfifo_wen_delay[5] /\ gap = 5 /\ Pending
    BY <1>4 DEF rxsfifo_wen_dl, Pending
  <2> PICK b \in Backlogs : STAT_WORDS * MIN_EOP_GAP > b
    BY DEF RxSized
  <2>3. b \in Nat /\ pos[k] + Gaps(STAT_WORDS - 1) + SinceStatus <= b
    BY <2>1 DEF Drained, Backlogs
  <2>4. SinceStatus = MIN_EOP_GAP - 1
    BY <2>2, SizeFacts DEF SinceStatus
  <2>5. pos[k] \in 1 .. Len(rx_fifo)
    BY <2>1, <1>1 DEF Numbered, Numbers
  <2>6. Gaps(STAT_WORDS - 1) \in Nat
        /\ Gaps(STAT_WORDS) = Gaps(STAT_WORDS - 1) + MIN_EOP_GAP
    <3>1. (STAT_WORDS - 1) + 1 = STAT_WORDS
      BY SizeFacts
    <3> QED BY <2>1, <3>1, GapsFacts
  <2>7. Gaps(STAT_WORDS) > b
    BY DEF Gaps
  <2> QED BY <2>3, <2>4, <2>5, <2>6, <2>7, SizeFacts
<1> QED BY <1>1, <1>2, <1>3, <1>4, <1>5

\* One word is read from rx_fifo in this cycle, and it is the end of a packet.
Reads == IF stat_fifo # <<>> THEN 1 ELSE 0
ReadsEnd == IF stat_fifo # <<>> /\ rx_fifo[1].eop THEN 1 ELSE 0

LEMMA RxFifoStep ==
    ASSUME TypeOK, RxSized, RxRoom,
           NEW pos, Numbered(pos), StatusComes(pos), Drained(pos),
           NEW w, Presents(w), RxFifos(w)
    PROVE  /\ rx_fifo' \in Seq(Word) /\ Reads \in {0, 1}
           /\ Reads = 1 => rx_fifo # <<>>
           /\ Len(rx_fifo') = Len(rx_fifo) - Reads + Len(w)
           /\ \A j \in 1 .. Len(rx_fifo) - Reads :
                 rx_fifo'[j] = rx_fifo[j + Reads]
           /\ w # <<>> => rx_fifo'[Len(rx_fifo')] = w[1]
<1>1. w \in Seq(Word) /\ Len(w) = (IF w = <<>> THEN 0 ELSE 1)
  BY MaybeSeq DEF Presents
<1>2. rx_fifo \in Seq(Word) /\ Len(rx_fifo) \in Nat
  BY DEF TypeOK
<1>3. Len(rx_fifo) < RX_WORDS \/ w = <<>>
  <2>1. CASE w # <<>> /\ src = <<>>
    <3>1. ~rx_fifo_full
      BY <2>1 DEF Presents
    <3> QED BY <1>2, <3>1, SizeFacts DEF RxRoom, RxSized
  <2>2. CASE src # <<>>
    BY <2>2 DEF RxRoom
  <2> QED BY <2>1, <2>2
<1>4. pkt_rx_read \in BOOLEAN /\ (pkt_rx_read <=> stat_fifo # <<>>)
      /\ (stat_fifo # <<>> => rx_fifo # <<>>)
  <2>1. pkt_rx_read \in BOOLEAN
    BY DEF pkt_rx_read
  <2> QED BY <2>1, StatusFacts
<1>5. Reads \in {0, 1}
      /\ Reads = (IF pkt_rx_read /\ rx_fifo # <<>> THEN 1 ELSE 0)
  BY <1>4 DEF Reads
<1>6. rx_fifo' = FifoEdge(rx_fifo, RX_WORDS, w, pkt_rx_read)
  BY DEF RxFifos
<1>7. /\ rx_fifo' \in Seq(Word)
      /\ Len(rx_fifo') = Len(rx_fifo) - Reads + Len(w)
  <2>1. rx_fifo' \in Seq(Word)
    BY <1>1, <1>2, <1>3, <1>4, <1>6, SizeFacts, FifoEdgeAppends
  <2>2. Len(rx_fifo') = Len(rx_fifo) + Len(w)
                         - (IF pkt_rx_read /\ rx_fifo # <<>> THEN 1 ELSE 0)
    <3>1. pkt_rx_read \in BOOLEAN /\ w \in Seq(Word) /\ RX_WORDS \in Nat
      BY <1>1, <1>4, SizeFacts
    <3> QED BY <1>2, <1>3, <1>6, <3>1, FifoEdgeLen
  <2> QED BY <1>1, <1>2, <1>5, <2>1, <2>2
<1>8. \A j \in 1 .. Len(rx_fifo) - Reads : rx_fifo'[j] = rx_fifo[j + Reads]
  <2> TAKE j \in 1 .. Len(rx_fifo) - Reads
  <2> QED BY <1>1, <1>2, <1>3, <1>4, <1>5, <1>6, SizeFacts, FifoEdgeKept
<1>9. w # <<>> => rx_fifo'[Len(rx_fifo')] = w[1]
  <2> HAVE w # <<>>
  <2>1. rx_fifo'[Len(FifoRead(rx_fifo, pkt_rx_read)) + 1] = w[1]
    BY <1>1, <1>2, <1>3, <1>4, <1>6, SizeFacts, FifoEdgeWritten
  <2>2. Len(FifoRead(rx_fifo, pkt_rx_read)) = Len(rx_fifo) - Reads
    BY <1>2, <1>4, <1>5, FifoReadType
  <2>3. Len(rx_fifo') = Len(rx_fifo) - Reads + 1
    BY <1>1, <1>7
  <2> QED BY <2>1, <2>2, <2>3
<1> QED BY <1>4, <1>5, <1>7, <1>8, <1>9

LEMMA WdataType ==
    ASSUME TypeOK
    PROVE  rxsfifo_wdata \in Status
BY DEF TypeOK, rxsfifo_wdata, Status

LEMMA StatFifoStep ==
    ASSUME TypeOK, RxSized,
           NEW pos, Numbered(pos), StatusComes(pos), Drained(pos),
           NEW w, Presents(w), RxFifos(w),
           NEW c \in {0, 1}, c = 1 <=> rxsfifo_wen_dl
    PROVE  /\ stat_fifo' \in Seq(Status) /\ ReadsEnd \in {0, 1}
           /\ ReadsEnd = 1 => stat_fifo # <<>>
           /\ ReadsEnd = 1 <=> Reads = 1 /\ rx_fifo[1].eop
           /\ Len(stat_fifo') = Len(stat_fifo) - ReadsEnd + c
           /\ \A j \in 1 .. Len(stat_fifo) - ReadsEnd :
                 stat_fifo'[j] = stat_fifo[j + ReadsEnd]
           /\ c = 1 => stat_fifo'[Len(stat_fifo')] = rxsfifo_wdata
<1> DEFINE sw == IF rxsfifo_wen_dl THEN <<rxsfifo_wdata>> ELSE <<>>
<1>1. /\ sw \in Seq(Status) /\ Len(sw) = c
      /\ c = 1 => sw # <<>> /\ sw[1] = rxsfifo_wdata
  BY WdataType
<1>2. stat_fifo \in Seq(Status) /\ Len(stat_fifo) \in Nat
  BY DEF TypeOK
<1>3. Len(stat_fifo) < STAT_WORDS \/ sw = <<>>
  BY StatusFacts
<1>4. /\ rxsfifo_rd_req \in BOOLEAN
      /\ rxsfifo_rd_req <=> stat_fifo # <<>> /\ rx_fifo[1].eop
  <2>1. rxsfifo_rd_req <=> pkt_rx_read /\ Head(rx_fifo).eop
    BY DEF rxsfifo_rd_req
  <2>2. Head(rx_fifo) = rx_fifo[1]
    OBVIOUS
  <2>3. pkt_rx_read <=> stat_fifo # <<>>
    BY StatusFacts
  <2>4. rxsfifo_rd_req \in BOOLEAN
    BY DEF rxsfifo_rd_req
  <2> QED BY <2>1, <2>2, <2>3, <2>4
<1>5. /\ ReadsEnd \in {0, 1} /\ (ReadsEnd = 1 => stat_fifo # <<>>)
      /\ ReadsEnd = (IF rxsfifo_rd_req /\ stat_fifo # <<>> THEN 1 ELSE 0)
      /\ ReadsEnd = 1 <=> Reads = 1 /\ rx_fifo[1].eop
  BY <1>4 DEF ReadsEnd, Reads
<1>6. stat_fifo' = FifoEdge(stat_fifo, STAT_WORDS, sw, rxsfifo_rd_req)
  BY DEF RxFifos
<1> HIDE DEF sw
<1>7. /\ stat_fifo' \in Seq(Status)
      /\ Len(stat_fifo') = Len(stat_fifo) - ReadsEnd + c
  BY <1>1, <1>2, <1>3, <1>4, <1>5, <1>6, SizeFacts, FifoEdgeAppends, FifoEdgeLen
<1>8. \A j \in 1 .. Len(stat_fifo) - ReadsEnd :
         stat_fifo'[j] = stat_fifo[j + ReadsEnd]
  <2> TAKE j \in 1 .. Len(stat_fifo) - ReadsEnd
  <2> QED BY <1>1, <1>2, <1>3, <1>4, <1>5, <1>6, SizeFacts, FifoEdgeKept
<1>9. c = 1 => stat_fifo'[Len(stat_fifo')] = rxsfifo_wdata
  <2> HAVE c = 1
  <2>1. stat_fifo'[Len(FifoRead(stat_fifo, rxsfifo_rd_req)) + 1] = sw[1]
    BY <1>1, <1>2, <1>3, <1>4, <1>6, SizeFacts, FifoEdgeWritten
  <2>2. Len(FifoRead(stat_fifo, rxsfifo_rd_req)) = Len(stat_fifo) - ReadsEnd
    BY <1>2, <1>4, <1>5, FifoReadType
  <2> QED BY <1>1, <1>7, <2>1, <2>2
<1> QED BY <1>5, <1>7, <1>8, <1>9

-----------------------------------------------------------------------------
(* Room in rx_fifo. *)

LEMMA SmallMod ==
    ASSUME NEW m \in Nat \ {0}, NEW y \in Nat, y < m
    PROVE  y % m = y
OBVIOUS

\* What almost_full and wremptyw say is true of the cycle before.
LEMMA AlmostFullFacts ==
    ASSUME NEW T, NEW q \in Seq(T), NEW words \in Nat \ {0}, NEW safe \in Nat,
           Len(q) <= words, ~AlmostFullNext(q, words, safe)
    PROVE  Len(q) <= words - 1 - safe /\ pkt_fifo_wrusedw(q, words) = Len(q)
<1>1. Len(q) \in Nat /\ Len(q) < words
  BY DEF AlmostFullNext, FifoFull
<1>2. Len(q) % words = Len(q)
  BY <1>1, SmallMod
<1> QED BY <1>1, <1>2 DEF AlmostFullNext, pkt_fifo_wrusedw, ALMOST_FULL_WORDS

\* Where a status is there a word leaves in every cycle.  Where none is, what
\* is stored is the start of one packet, or a packet of which the status is on
\* its way, and the words that came in the meantime.
LEMMA BacklogStep ==
    ASSUME TypeOK, RxSized, SourceInv, QueueInv, TailInv, RxRoom,
           NEW pos, Numbered(pos), StatusComes(pos), Drained(pos),
           NEW w, Presents(w), RxFifos(w), NEW b \in Nat,
           \A pkt \in PACKETS : NumWords(pkt) + 5 <= b
    PROVE  Len(rx_fifo') <= b
<1> DEFINE q == rx_fifo
           n == Len(rx_fifo)
<1>1. Len(w) = (IF w = <<>> THEN 0 ELSE 1) /\ (w # <<>> => w[1] \in Word)
  BY MaybeSeq DEF Presents
<1>2. Len(rx_fifo') = n - Reads + Len(w) /\ Reads \in {0, 1}
  BY RxFifoStep
<1>3. n \in Nat /\ \A j \in 1 .. n : q[j] \in Word /\ WordOK(q[j])
  BY DEF TypeOK, QueueInv
<1>4. CASE Reads = 1
  <2>1. b \in Backlogs
    BY DEF Backlogs
  <2> QED BY <2>1, <1>1, <1>2, <1>3, <1>4 DEF RxRoom
<1>5. CASE Reads = 0 /\ n = 0
  <2>1. CASE w = <<>>
    BY <2>1, <1>1, <1>2, <1>5
  <2>2. CASE w # <<>>
    <3>1. w[1].pkt \in PACKETS
      BY <2>2, <1>1 DEF Word
    <3>2. NumWords(w[1].pkt) \in Nat /\ NumWords(w[1].pkt) + 5 <= b
      BY <3>1, PacketFacts
    <3> QED BY <2>2, <3>2, <1>1, <1>2, <1>5
  <2> QED BY <2>1, <2>2
<1>6. CASE Reads = 0 /\ n >= 1
  <2>1. Len(stat_fifo) = 0
    BY <1>6 DEF Reads, TypeOK
  <2>2. SUFFICES n + 1 <= b
    BY <1>1, <1>2, <1>3, <1>6
  <2>3. n \in 1 .. n /\ 1 \in 1 .. n /\ Len(q) = n
    BY <1>3, <1>6
  <2>4. ASSUME ~q[n].eop
        PROVE  /\ src # <<>> /\ q[n].i = src[1].sent
               /\ src[1].sent \in Nat /\ src[1].sent < NumWords(src[1].pkt)
               /\ src[1].pkt \in PACKETS
               /\ gap < MIN_EOP_GAP => src[1].sent < gap
    <3>1. rx_fifo # <<>>
      BY <2>3, <1>6
    <3>2. src # <<>> /\ q[n].i = src[1].sent
      BY <2>4, <3>1 DEF TailInv
    <3> QED BY <3>2, SourceFacts DEF SourceInv
  <2>5. CASE ~Pending
    <3>1. NumEnds = 0
      BY <2>1, <2>5 DEF NumEnds
    <3>2. \A j \in 1 .. n : ~q[j].eop
      BY <3>1 DEF Numbered, Numbers
    <3>3. Same(q[1], q[n], n - 1)
      BY <2>3, <3>2, <1>3 DEF QueueInv
    <3>4. q[n].i >= n
      BY <2>3, <3>3, <1>3 DEF Same, WordOK, Word
    <3>5. NumWords(src[1].pkt) \in Nat /\ NumWords(src[1].pkt) + 5 <= b
      BY <2>3, <2>4, <3>2, PacketFacts
    <3> QED BY <2>3, <2>4, <3>2, <3>4, <3>5, <1>3
  <2>6. CASE Pending
    <3>1. NumEnds = 1 /\ 1 \in 1 .. NumEnds
      BY <2>1, <2>6 DEF NumEnds
    <3> DEFINE p == pos[1]
    <3>2. /\ p \in 1 .. n /\ q[p].eop
          /\ \A j \in 1 .. n : q[j].eop => j = p
      BY <3>1 DEF Numbered, Numbers
    <3> HIDE DEF p
    <3>3. Same(q[1], q[p], p - 1)
      BY <2>3, <3>2, <1>3 DEF QueueInv
    <3>4. /\ q[p].i >= p /\ q[p].i <= NumWords(q[p].pkt)
          /\ q[p].pkt \in PACKETS /\ q[p].i \in Nat
      BY <2>3, <3>2, <3>3, <1>3 DEF Same, WordOK, Word
    <3>5. NumWords(q[p].pkt) \in Nat /\ NumWords(q[p].pkt) + 5 <= b
      BY <3>4, PacketFacts
    <3>6. p + 5 <= b
      BY <3>2, <3>4, <3>5
    <3>7. CASE p = n
      BY <3>6, <3>7, <1>3
    <3>8. CASE p # n
      <4>1. p + 1 \in 1 .. n /\ p \in 1 .. n - 1 /\ p + 1 <= n
        BY <3>2, <3>8, <1>3
      <4>2. q[p + 1].i = 1
        BY <3>2, <4>1 DEF QueueInv
      <4>3. \A m \in p + 1 .. n - 1 : ~q[m].eop
        <5> TAKE m \in p + 1 .. n - 1
        <5>1. m \in 1 .. n /\ m # p
          BY <4>1, <1>3
        <5> QED BY <5>1, <3>2
      <4>4. Same(q[p + 1], q[n], n - (p + 1))
        BY <2>3, <4>1, <4>3 DEF QueueInv
      <4>5. q[n].i = n - p
        BY <4>1, <4>2, <4>4, <1>3 DEF Same
      <4>6. gap \in Nat /\ gap <= 5
        BY <2>6 DEF Pending, StatusComes, TypeOK
      <4>7. n - p < 5
        BY <2>3, <2>4, <3>2, <3>8, <4>5, <4>6, SizeFacts
      <4> QED BY <3>2, <3>6, <4>7, <1>3
    <3> QED BY <3>7, <3>8
  <2> QED BY <2>5, <2>6
<1> QED BY <1>2, <1>3, <1>4, <1>5, <1>6

LEMMA RxRoomStep ==
    ASSUME TypeOK, RxSized, SourceInv, QueueInv, TailInv, RxRoom,
           NEW pos, Numbered(pos), StatusComes(pos), Drained(pos),
           NEW w, Presents(w), RxFifos(w), SourceEdge(w)
    PROVE  RxRoom'
<1>1. Len(w) = (IF w = <<>> THEN 0 ELSE 1)
  BY MaybeSeq DEF Presents
<1>2. Len(rx_fifo') = Len(rx_fifo) - Reads + Len(w) /\ Reads \in {0, 1}
  BY RxFifoStep
<1>3. rx_fifo \in Seq(Word) /\ Len(rx_fifo) \in Nat
  BY DEF TypeOK
<1>4. RX_WORDS \in Nat \ {0} /\ RX_SAFE_WORDS \in Nat /\ RX_SAFE_WORDS >= 2
  BY SizeFacts DEF RxSized
<1>5. Len(rx_fifo') <= Len(rx_fifo) + 1
  BY <1>1, <1>2, <1>3
<1>6. ~rx_fifo_full' => Len(rx_fifo') <= RX_WORDS - RX_SAFE_WORDS
  <2> HAVE ~rx_fifo_full'
  <2>1. ~AlmostFullNext(rx_fifo, RX_WORDS, RX_SAFE_WORDS)
    BY DEF RxFifos
  <2>2. Len(rx_fifo) <= RX_WORDS - 1 - RX_SAFE_WORDS
    BY <2>1, <1>3, <1>4, AlmostFullFacts DEF RxRoom
  <2> QED BY <2>2, <1>3, <1>4, <1>5
<1>7. Len(rx_fifo') <= RX_WORDS /\ (src' # <<>> => Len(rx_fifo') < RX_WORDS)
  <2>1. CASE w = <<>>
    <3>1. src' = src
      BY <2>1 DEF SourceEdge
    <3>2. Len(rx_fifo') <= Len(rx_fifo)
      BY <2>1, <1>1, <1>2, <1>3
    <3> QED BY <3>1, <3>2, <1>2, <1>3, <1>4 DEF RxRoom
  <2>2. CASE w # <<>> /\ ~w[1].eop
    <3>1. Len(rx_fifo) <= RX_WORDS - RX_SAFE_WORDS
      BY <2>2 DEF Presents, RxRoom
    <3> QED BY <3>1, <1>3, <1>4, <1>5
  <2>3. CASE w # <<>> /\ w[1].eop
    <3>1. src # <<>> /\ src' = <<>>
      BY <2>3 DEF Presents, SourceEdge
    <3> QED BY <3>1, <1>3, <1>4, <1>5 DEF RxRoom
  <2> QED BY <2>1, <2>2, <2>3
<1>8. ASSUME NEW b \in Backlogs PROVE Len(rx_fifo') <= b
  <2>1. b \in Nat
    BY DEF Backlogs
  <2>2. Len(rx_fifo') \in Nat
    BY RxFifoStep
  <2>3. CASE b >= RX_WORDS
    BY <2>1, <2>2, <2>3, <1>4, <1>7
  <2>4. CASE \A pkt \in PACKETS : NumWords(pkt) + 5 <= b
    BY <2>1, <2>4, BacklogStep
  <2> QED BY <2>3, <2>4 DEF Backlogs
<1> QED BY <1>6, <1>7, <1>8 DEF RxRoom

-----------------------------------------------------------------------------
(* Statuses and ends of packets. *)

LEMMA DelayLine ==
    ASSUME NEW d \in Seq(BOOLEAN), Len(d) = 5, NEW b \in BOOLEAN
    PROVE  LET x == <<b>> \o SubSeq(d, 1, 4)
           IN  /\ x \in Seq(BOOLEAN) /\ Len(x) = 5 /\ x[1] = b
               /\ \A g \in 1 .. 4 : x[g + 1] = d[g]
<1> DEFINE t == SubSeq(d, 1, 4)
           x == <<b>> \o t
<1>1. t \in Seq(BOOLEAN) /\ Len(t) = 4 /\ \A g \in 1 .. 4 : t[g] = d[g]
  <2>1. \A g \in 1 .. Len(d) : d[g] \in BOOLEAN
    BY ElementOfSeq
  <2>2. \A g \in 1 .. 4 : d[g] \in BOOLEAN
    BY <2>1
  <2> QED BY <2>2, SubSeqProperties
<1>2. <<b>> \in Seq(BOOLEAN) /\ Len(<<b>>) = 1 /\ <<b>>[1] = b
  OBVIOUS
<1> DEFINE s == <<b>>
<1> HIDE DEF t, s
<1>3. /\ s \o t \in Seq(BOOLEAN) /\ Len(s \o t) = 5
      /\ \A i \in 1 .. 5 : (s \o t)[i] = IF i <= 1 THEN s[i] ELSE t[i - 1]
  <2>1. s \in Seq(BOOLEAN) /\ Len(s) = 1 /\ Len(s) + Len(t) = 5
    BY <1>1, <1>2 DEF s
  <2>2. \A i \in 1 .. Len(s) + Len(t) :
           (s \o t)[i] = IF i <= Len(s) THEN s[i] ELSE t[i - Len(s)]
    BY <1>1, <2>1, ConcatProperties
  <2>3. s \o t \in Seq(BOOLEAN) /\ Len(s \o t) = Len(s) + Len(t)
    BY <1>1, <2>1, ConcatProperties
  <2> QED BY <2>1, <2>2, <2>3
<1>4. (s \o t)[1] = b
  BY <1>2, <1>3 DEF s
<1>5. \A g \in 1 .. 4 : (s \o t)[g + 1] = d[g]
  <2> TAKE g \in 1 .. 4
  <2>1. g + 1 \in 1 .. 5 /\ ~(g + 1 <= 1) /\ (g + 1) - 1 = g
    OBVIOUS
  <2>2. (s \o t)[g + 1] = t[(g + 1) - 1]
    BY <2>1, <1>3
  <2> QED BY <2>1, <2>2, <1>1
<1> QED BY <1>3, <1>4, <1>5 DEF s, t

LEMMA DelayStep ==
    ASSUME TypeOK, NEW w, Presents(w), StatusRegisters(w)
    PROVE  /\ rxsfifo_wen_delay' \in Seq(BOOLEAN)
           /\ Len(rxsfifo_wen_delay') = 5
           /\ rxsfifo_wen_delay'[1] = pkt_eop(w)
           /\ \A g \in 1 .. 4 : rxsfifo_wen_delay'[g + 1] = rxsfifo_wen_delay[g]
<1>1. pkt_eop(w) \in BOOLEAN
  BY MaybeSeq DEF Presents, pkt_eop, en, Word
<1>2. rxsfifo_wen_delay' = <<pkt_eop(w)>> \o SubSeq(rxsfifo_wen_delay, 1, 4)
  BY DEF StatusRegisters
<1>3. rxsfifo_wen_delay \in Seq(BOOLEAN) /\ Len(rxsfifo_wen_delay) = 5
  BY DEF TypeOK
<1> QED BY <1>1, <1>2, <1>3, DelayLine

LEMMA OneLater ==
    ASSUME NEW a \in Int, NEW b \in Int, NEW late \in Int, b <= a + 1
    PROVE  (b - 6) + late <= ((a - 6) + late) + 1
OBVIOUS

\* The delay line is as long as a packet's gap, so that one status at most is
\* on its way, and the time since the last one is known.
LEMMA PendingStep ==
    ASSUME TypeOK, RxSized,
           NEW pos, Numbered(pos), StatusComes(pos), Drained(pos),
           NEW w, Presents(w), SourceEdge(w), RxFifos(w), StatusRegisters(w),
           NEW c \in {0, 1}, c = 1 <=> rxsfifo_wen_dl,
           NEW e \in {0, 1}, e = 1 <=> pkt_eop(w)
    PROVE  /\ NumEnds' = NumEnds - ReadsEnd + e
           /\ NumEnds = Len(stat_fifo) + (IF Pending THEN 1 ELSE 0)
           /\ c = 1 => Pending /\ ~Pending' /\ e = 0
           /\ e = 1 => ~Pending
           /\ c = 0 => SinceStatus' <= SinceStatus + 1
           /\ c = 1 => SinceStatus' = 0 /\ SinceStatus = MIN_EOP_GAP - 1
           /\ SinceStatus \in Int /\ SinceStatus' \in Int
<1> DEFINE d == rxsfifo_wen_delay
           G == MIN_EOP_GAP
<1>1. G \in Nat /\ G >= 6 /\ gap \in 1 .. G
  BY SizeFacts DEF TypeOK
<1>2. gap' = (IF e = 1 THEN 1 ELSE IF gap < G THEN gap + 1 ELSE gap)
  BY DEF SourceEdge, pkt_eop, en
<1>3. e = 1 => gap = G
  BY DEF Presents, pkt_eop, en
<1>4. \A g \in 1 .. 5 : d[g] => gap = g
  BY StatusFacts
<1>5. d'[1] = pkt_eop(w) /\ \A g \in 1 .. 4 : d'[g + 1] = d[g]
  BY DelayStep
<1>6. /\ ReadsEnd \in {0, 1}
      /\ Len(stat_fifo') = Len(stat_fifo) - ReadsEnd + c
      /\ Len(stat_fifo) \in Nat
  BY StatFifoStep, StatusFacts
<1>7. c = 1 <=> d[5]
  BY DEF rxsfifo_wen_dl
<1>8. Pending' <=> e = 1 \/ \E g \in 1 .. 4 : d[g]
  <2>1. Pending' <=> \E g \in 1 .. 5 : d'[g]
    BY DEF Pending
  <2>2. ASSUME Pending' PROVE e = 1 \/ \E g \in 1 .. 4 : d[g]
    <3>1. PICK g \in 1 .. 5 : d'[g]
      BY <2>1, <2>2
    <3>2. CASE g = 1
      BY <3>1, <3>2, <1>5
    <3>3. CASE g # 1
      <4>1. g - 1 \in 1 .. 4 /\ (g - 1) + 1 = g
        BY <3>3
      <4> QED BY <4>1, <3>1, <1>5
    <3> QED BY <3>2, <3>3
  <2>3. ASSUME e = 1 \/ \E g \in 1 .. 4 : d[g] PROVE Pending'
    <3>1. CASE e = 1
      <4>1. 1 \in 1 .. 5 /\ d'[1]
        BY <3>1, <1>5
      <4> QED BY <4>1, <2>1
    <3>2. CASE \E g \in 1 .. 4 : d[g]
      <4>1. PICK g \in 1 .. 4 : d[g]
        BY <3>2
      <4>2. g + 1 \in 1 .. 5 /\ d'[g + 1]
        BY <4>1, <1>5
      <4> QED BY <4>2, <2>1
    <3> QED BY <2>3, <3>1, <3>2
  <2> QED BY <2>2, <2>3
<1>9. Pending <=> c = 1 \/ \E g \in 1 .. 4 : d[g]
  <2>1. Pending <=> \E g \in 1 .. 5 : d[g]
    BY DEF Pending
  <2>2. (\E g \in 1 .. 5 : d[g]) <=> d[5] \/ \E g \in 1 .. 4 : d[g]
    OBVIOUS
  <2> QED BY <2>1, <2>2, <1>7
<1>10. c = 1 => gap = 5 /\ e = 0 /\ ~\E g \in 1 .. 4 : d[g]
  BY <1>1, <1>3, <1>4, <1>7
<1>11. (\E g \in 1 .. 4 : d[g]) => gap \in 1 .. 4 /\ c = 0 /\ e = 0
  BY <1>1, <1>3, <1>4, <1>7
<1>12. e = 1 => c = 0 /\ gap = G /\ ~\E g \in 1 .. 4 : d[g]
  BY <1>1, <1>3, <1>4, <1>7
<1> DEFINE p == IF Pending THEN 1 ELSE 0
           p2 == IF Pending' THEN 1 ELSE 0
<1>13. p \in {0, 1} /\ p2 \in {0, 1} /\ p2 = p - c + e
       /\ (c = 1 => p = 1) /\ (e = 1 => p = 0)
  BY <1>8, <1>9, <1>10, <1>11, <1>12
<1>14. NumEnds = Len(stat_fifo) + p /\ NumEnds' = Len(stat_fifo') + p2
  BY DEF NumEnds
<1>15. /\ SinceStatus = gap - 6 + (IF Pending THEN G ELSE 0)
       /\ SinceStatus' = gap' - 6 + (IF Pending' THEN G ELSE 0)
  BY DEF SinceStatus
<1>16. gap' \in Int
  BY <1>1, <1>2
<1> HIDE DEF p, p2, G, d
<1>17. NumEnds' = NumEnds - ReadsEnd + e
  BY <1>6, <1>13, <1>14
<1>18. c = 1 => Pending /\ ~Pending' /\ e = 0
  BY <1>8, <1>9, <1>10
<1>19. c = 0 => SinceStatus' <= SinceStatus + 1
  <2> HAVE c = 0
  <2>1. CASE e = 1
    BY <2>1, <1>1, <1>2, <1>8, <1>9, <1>12, <1>15
  <2>2. CASE e = 0
    <3>1. Pending' <=> Pending
      BY <1>8, <1>9, <2>2
    <3>2. gap' <= gap + 1
      BY <1>1, <1>2, <2>2
    <3>3. PICK late \in Int : /\ SinceStatus = (gap - 6) + late
                              /\ SinceStatus' = (gap' - 6) + late
      BY <3>1, <1>1, <1>15
    <3>4. (gap' - 6) + late <= ((gap - 6) + late) + 1
      <4>1. gap \in Int
        BY <1>1
      <4> QED BY <3>2, <4>1, <1>16, OneLater
    <3> QED BY <3>3, <3>4
  <2> QED BY <2>1, <2>2
<1>20. c = 1 => SinceStatus' = 0 /\ SinceStatus = MIN_EOP_GAP - 1
  BY <1>1, <1>2, <1>10, <1>15, <1>18 DEF G
<1>21. SinceStatus \in Int /\ SinceStatus' \in Int
  BY <1>1, <1>15, <1>16
<1>22. e = 1 => ~Pending
  BY <1>9, <1>12
<1> QED BY <1>14, <1>17, <1>18, <1>19, <1>20, <1>21, <1>22 DEF p

\* Six cycles after a packet ended, its status is what it should be.
LEMMA WdataIsStatus ==
    ASSUME TypeOK, NEW pos, StatusComes(pos), rxsfifo_wen_dl
    PROVE  IsStatusOf(rxsfifo_wdata, rx_fifo[pos[NumEnds]])
<1> DEFINE w == rx_fifo[pos[NumEnds]]
<1>1. rxsfifo_wen_delay[5] /\ 5 \in 1 .. 5
  BY DEF rxsfifo_wen_dl
<1>2. /\ crcerr_dl = w.crc_err /\ pktlen_dl = w.size
      /\ w.whole => head_lock_macd = w.pkt.macd
      /\ cast = Cast(head_lock_macd)
      /\ runt = (w.size < FRM_LEN_MIN) /\ oversize = (w.size > FRM_LEN_MAX)
  BY <1>1 DEF StatusComes
<1> HIDE DEF w
<1>3. /\ rxsfifo_wdata.crc_err = w.crc_err /\ rxsfifo_wdata.pkt_size = w.size
      /\ rxsfifo_wdata.runt = (w.size < FRM_LEN_MIN)
      /\ rxsfifo_wdata.oversize = (w.size > FRM_LEN_MAX)
      /\ rxsfifo_wdata.cast = cast
  BY <1>2 DEF rxsfifo_wdata
<1>4. w.whole => cast = Cast(w.pkt.macd)
  BY <1>2
<1> QED BY <1>3, <1>4 DEF IsStatusOf, w

\* The stages of the status follow the word that ends a packet.
LEMMA StageStep ==
    ASSUME TypeOK, RxSized, ParserInv,
           NEW pos, Numbered(pos), StatusComes(pos), Drained(pos),
           NEW w, Presents(w), SourceEdge(w), HeadLock(w), L2Classer,
           StatusRegisters(w), NEW g \in 1 .. 5, rxsfifo_wen_delay'[g],
           NEW v, IF pkt_eop(w) THEN v = w[1] ELSE v = rx_fifo[pos[NumEnds]]
    PROVE  /\ gap' = g
           /\ crcerr_dl' = v.crc_err /\ pktlen_dl' = v.size
           /\ v.whole => head_lock_macd' = v.pkt.macd
           /\ g >= 2 => /\ cast' = Cast(head_lock_macd')
                        /\ runt' = (v.size < FRM_LEN_MIN)
                        /\ oversize' = (v.size > FRM_LEN_MAX)
           /\ ~pkt_eop(w) => Pending
<1> DEFINE d == rxsfifo_wen_delay
<1>1. MIN_EOP_GAP \in Nat /\ MIN_EOP_GAP >= 6
  BY SizeFacts
<1>2. d'[1] = pkt_eop(w) /\ \A k \in 1 .. 4 : d'[k + 1] = d[k]
  BY DelayStep
<1>3. \A k \in 1 .. 5 : d[k] => gap = k
  BY StatusFacts
<1>4. CASE g = 1
  <2>1. pkt_eop(w) /\ w # <<>> /\ w[1].eop /\ v = w[1]
    BY <1>2, <1>4 DEF pkt_eop, en
  <2>2. gap = MIN_EOP_GAP
    BY <2>1 DEF Presents
  <2>3. ~d[5] /\ ~eop_d1
    BY <2>2, <1>1, <1>3 DEF ParserInv
  <2>4. crcerr_dl' = w[1].crc_err /\ pktlen_dl' = w[1].size
    BY <2>1, <2>3 DEF StatusRegisters, rxsfifo_wen_dl
  <2>5. src # <<>> /\ w[1].whole = src[1].whole /\ w[1].pkt = src[1].pkt
    BY <2>1 DEF Presents
  <2>6. w[1].whole => head_lock_macd' = w[1].pkt.macd
    BY <2>1, <2>3, <2>5 DEF HeadLock, ParserInv
  <2>7. gap' = 1
    BY <2>1 DEF SourceEdge
  <2> QED BY <1>4, <2>1, <2>4, <2>6, <2>7
<1>5. CASE g # 1
  <2>1. g - 1 \in 1 .. 4 /\ (g - 1) + 1 = g /\ g - 1 \in 1 .. 5
    BY <1>5
  <2>2. d[g - 1]
    BY <2>1, <1>2
  <2>3. gap = g - 1
    BY <2>1, <2>2, <1>3
  <2>4. gap < MIN_EOP_GAP /\ ~d[5]
    <3>1. d[5] => gap = 5
      BY <1>3
    <3> QED BY <2>1, <2>3, <3>1, <1>1
  <2>5. ~pkt_eop(w) /\ v = rx_fifo[pos[NumEnds]] /\ Pending
    BY <2>1, <2>2, <2>4, <1>1 DEF Presents, pkt_eop, en, Pending
  <2>6. gap' = g
    BY <2>1, <2>3, <2>4, <2>5 DEF SourceEdge, pkt_eop, en
  <2>7. /\ crcerr_dl = v.crc_err /\ pktlen_dl = v.size
        /\ v.whole => head_lock_macd = v.pkt.macd
    BY <2>1, <2>2, <2>5 DEF StatusComes
  <2>8. /\ crcerr_dl' = crcerr_dl /\ pktlen_dl' = pktlen_dl
        /\ head_lock_macd' = head_lock_macd
    BY <2>4, <2>5 DEF StatusRegisters, rxsfifo_wen_dl, HeadLock
  <2>9. /\ cast' = Cast(head_lock_macd) /\ runt' = (pktlen_dl < FRM_LEN_MIN)
        /\ oversize' = (pktlen_dl > FRM_LEN_MAX)
    BY DEF L2Classer
  <2> QED BY <2>5, <2>6, <2>7, <2>8, <2>9
<1> QED BY <1>4, <1>5

LEMMA SlotStays ==
    ASSUME NEW p \in Int, NEW x \in Int, NEW a \in Int, NEW b \in Int,
           NEW words \in Int, p + x + a <= words, b <= a + 1
    PROVE  (p - 1) + x + b <= words
OBVIOUS

\* The statuses go on being those of the packets, in their order and in time.
LEMMA StatusStep ==
    ASSUME TypeOK, RxSized, ParserInv, RxRoom, RxRoom', StatusInv,
           NEW w, Presents(w), SourceEdge(w), HeadLock(w), L2Classer,
           StatusRegisters(w), RxFifos(w)
    PROVE  StatusInv'
<1> PICK pos : Numbered(pos) /\ Judged(pos) /\ StatusComes(pos) /\ Drained(pos)
  BY DEF StatusInv
<1> DEFINE q == rx_fifo
           q2 == rx_fifo'
           n == Len(stat_fifo)
           m == NumEnds
           r == Reads
           d == ReadsEnd
           c == IF rxsfifo_wen_dl THEN 1 ELSE 0
           e == IF pkt_eop(w) THEN 1 ELSE 0
<1>1. /\ c \in {0, 1} /\ (c = 1 <=> rxsfifo_wen_dl)
      /\ e \in {0, 1} /\ (e = 1 <=> pkt_eop(w))
  OBVIOUS
<1>2. /\ q \in Seq(Word) /\ q2 \in Seq(Word) /\ r \in {0, 1}
      /\ r = 1 => q # <<>>
      /\ Len(q2) = Len(q) - r + Len(w)
      /\ \A j \in 1 .. Len(q) - r : q2[j] = q[j + r]
      /\ w # <<>> => q2[Len(q2)] = w[1]
  BY RxFifoStep DEF TypeOK
<1>3. Len(w) = (IF w = <<>> THEN 0 ELSE 1) /\ (e = 1 => w # <<>>)
      /\ Len(w) \in {0, 1} /\ (e = 1 <=> Len(w) = 1 /\ q2[Len(q2)].eop)
  <2>1. Len(w) = (IF w = <<>> THEN 0 ELSE 1)
    BY MaybeSeq DEF Presents
  <2> QED BY <2>1, <1>2 DEF pkt_eop, en
<1>4. /\ n \in Nat /\ m \in Nat /\ n <= m
      /\ \A g \in 1 .. 5 : rxsfifo_wen_delay[g] => gap = g
  BY StatusFacts
<1>5. /\ stat_fifo' \in Seq(Status) /\ d \in {0, 1}
      /\ d = 1 => stat_fifo # <<>>
      /\ d = 1 <=> r = 1 /\ q[1].eop
      /\ Len(stat_fifo') = n - d + c
      /\ \A j \in 1 .. n - d : stat_fifo'[j] = stat_fifo[j + d]
      /\ c = 1 => stat_fifo'[Len(stat_fifo')] = rxsfifo_wdata
  BY <1>1, StatFifoStep
<1>6. /\ NumEnds' = m - d + e
      /\ m = n + (IF Pending THEN 1 ELSE 0)
      /\ c = 1 => Pending /\ ~Pending' /\ e = 0
      /\ e = 1 => ~Pending
      /\ c = 0 => SinceStatus' <= SinceStatus + 1
      /\ c = 1 => SinceStatus' = 0 /\ SinceStatus = MIN_EOP_GAP - 1
      /\ SinceStatus \in Int /\ SinceStatus' \in Int
  BY <1>1, PendingStep
<1>7. Numbers(pos, q, m)
  BY DEF Numbered
<1>8. PICK pos2 :
         /\ d <= m /\ Numbers(pos2, q2, m - d + e)
         /\ \A k \in 1 .. m - d : pos2[k] = pos[k + d] - r
         /\ e = 1 => pos2[m - d + e] = Len(q2)
  <2> DEFINE l == Len(w)
  <2>1. /\ l \in {0, 1} /\ Len(q2) = Len(q) - r + l
        /\ e = 1 <=> l = 1 /\ q2[Len(q2)].eop
    BY <1>2, <1>3
  <2> HIDE DEF q, q2, r, d, e, m, l
  <2>2. Moves(q, q2, r, l)
    BY <1>2, <2>1 DEF Moves
  <2>3. d <= m /\ \E p2 : Renumbers(pos, p2, m, q2, r, d, e)
    <3>1. /\ q \in Seq(Word) /\ q2 \in Seq(Word) /\ m \in Nat
          /\ r \in {0, 1} /\ d \in {0, 1} /\ e \in {0, 1}
          /\ d = 1 <=> r = 1 /\ q[1].eop
      BY <1>1, <1>2, <1>4, <1>5
    <3> QED BY <3>1, <1>7, <2>1, <2>2, Renumber
  <2> QED BY <2>3 DEF Renumbers
<1>9. Numbered(pos2)'
  BY <1>6, <1>8 DEF Numbered
<1> HIDE DEF c, e
<1>10. \A k \in 1 .. m - d : /\ k + d \in 1 .. m
                             /\ pos[k + d] \in 1 .. Len(q)
                             /\ pos2[k] \in 1 .. Len(q2)
                             /\ pos2[k] = pos[k + d] - r
                             /\ q2[pos2[k]] = q[pos[k + d]]
  <2> TAKE k \in 1 .. m - d
  <2>1. k + d \in 1 .. m
    BY <1>4, <1>5, <1>8
  <2>2. pos[k + d] \in 1 .. Len(q)
    BY <2>1, <1>7 DEF Numbers
  <2>3. pos2[k] = pos[k + d] - r
    BY <1>8
  <2>4. k \in 1 .. m - d + e
    BY <1>1, <1>4, <1>5
  <2>5. pos2[k] \in 1 .. Len(q2)
    BY <2>4, <1>8 DEF Numbers
  <2>6. pos2[k] \in 1 .. Len(q) - r /\ pos2[k] + r = pos[k + d]
    BY <2>2, <2>3, <2>5, <1>2
  <2> QED BY <2>1, <2>2, <2>3, <2>5, <2>6, <1>2
<1>11. n - d <= m - d /\ (Pending => m - d = n - d + 1 /\ m - d \in 1 .. m - d)
  BY <1>4, <1>5, <1>6
<1>12. Judged(pos2)'
  <2> SUFFICES ASSUME NEW k \in 1 .. Len(stat_fifo')
               PROVE  IsStatusOf(stat_fifo'[k], q2[pos2[k]])
    BY DEF Judged, IsStatusOf
  <2>1. CASE k \in 1 .. n - d
    <3>1. k \in 1 .. m - d /\ k + d \in 1 .. n
      BY <2>1, <1>4, <1>5, <1>11
    <3>2. IsStatusOf(stat_fifo[k + d], q[pos[k + d]])
      BY <3>1 DEF Judged
    <3>3. stat_fifo'[k] = stat_fifo[k + d] /\ q2[pos2[k]] = q[pos[k + d]]
      BY <2>1, <3>1, <1>5, <1>10
    <3> QED BY <3>2, <3>3
  <2>2. CASE k \notin 1 .. n - d
    <3>1. c = 1 /\ k = Len(stat_fifo') /\ k = n - d + 1
      BY <2>2, <1>1, <1>4, <1>5
    <3>2. Pending /\ k = m - d /\ k \in 1 .. m - d /\ k + d = m
      BY <3>1, <1>4, <1>5, <1>6, <1>11
    <3>3. IsStatusOf(rxsfifo_wdata, q[pos[m]])
      BY <3>1, <1>1, WdataIsStatus
    <3>4. q2[pos2[k]] = q[pos[m]]
      BY <3>2, <1>10
    <3> QED BY <3>1, <3>3, <3>4, <1>5
  <2> QED BY <2>1, <2>2
<1>13. StatusComes(pos2)'
  <2> DEFINE v == q2[pos2[NumEnds']]
  <2> SUFFICES ASSUME NEW g \in 1 .. 5, rxsfifo_wen_delay'[g]
               PROVE  /\ gap' = g
                      /\ crcerr_dl' = v.crc_err /\ pktlen_dl' = v.size
                      /\ v.whole => head_lock_macd' = v.pkt.macd
                      /\ g >= 2 => /\ cast' = Cast(head_lock_macd')
                                   /\ runt' = (v.size < FRM_LEN_MIN)
                                   /\ oversize' = (v.size > FRM_LEN_MAX)
    BY DEF StatusComes
  <2>1. CASE pkt_eop(w)
    <3>1. e = 1 /\ v = w[1]
      BY <2>1, <1>1, <1>2, <1>3, <1>6, <1>8
    <3> HIDE DEF v
    <3> QED BY <2>1, <3>1, StageStep
  <2>2. CASE ~pkt_eop(w)
    <3>1. e = 0
      BY <2>2, <1>1
    <3> DEFINE u == rx_fifo[pos[NumEnds]]
    <3> HIDE DEF u
    <3>2. /\ gap' = g
          /\ crcerr_dl' = u.crc_err /\ pktlen_dl' = u.size
          /\ u.whole => head_lock_macd' = u.pkt.macd
          /\ g >= 2 => /\ cast' = Cast(head_lock_macd')
                       /\ runt' = (u.size < FRM_LEN_MIN)
                       /\ oversize' = (u.size > FRM_LEN_MAX)
          /\ Pending
      BY <2>2, StageStep DEF u
    <3>3. m - d \in 1 .. m - d /\ (m - d) + d = m /\ NumEnds' = m - d
      BY <3>1, <3>2, <1>4, <1>5, <1>6, <1>11
    <3>4. v = u
      BY <3>3, <1>10 DEF u
    <3> QED BY <3>2, <3>4
  <2> QED BY <2>1, <2>2
<1>14. Drained(pos2)'
  <2> SUFFICES ASSUME NEW b \in Backlogs, NEW k \in 1 .. Len(stat_fifo')
               PROVE  pos2[k] + Gaps(Len(stat_fifo') - k) + SinceStatus' <= b
    BY DEF Drained, Gaps, Backlogs
  <2> b \in Nat
    BY DEF Backlogs
  <2>1. CASE k \in 1 .. n - d
    <3>1. k \in 1 .. m - d /\ k + d \in 1 .. n /\ n - (k + d) \in Nat
      BY <2>1, <1>4, <1>5, <1>11
    <3>2. pos[k + d] + Gaps(n - (k + d)) + SinceStatus <= b
      BY <3>1 DEF Drained
    <3>3. r = 1
      <4>1. stat_fifo # <<>>
        BY <3>1, <1>4 DEF TypeOK
      <4> QED BY <4>1 DEF Reads
    <3>4. pos2[k] = pos[k + d] - 1 /\ pos[k + d] \in Int
      BY <3>1, <3>3, <1>10
    <3> DEFINE x == Gaps(n - (k + d))
    <3>5. x \in Int /\ Gaps((n - (k + d)) + 1) = x + MIN_EOP_GAP
      <4> DEFINE y == n - (k + d)
      <4>1. y \in Nat
        BY <3>1
      <4> HIDE DEF y
      <4>2. Gaps(y) \in Nat /\ Gaps(y + 1) = Gaps(y) + MIN_EOP_GAP
        BY <4>1, GapsFacts
      <4> QED BY <4>2 DEF y
    <3>6. CASE c = 0
      <4>1. Len(stat_fifo') - k = n - (k + d)
        BY <3>6, <1>4, <1>5
      <4>2. (pos[k + d] - 1) + x + SinceStatus' <= b
        <5> HIDE DEF x
        <5> QED BY <3>2, <3>4, <3>5, <3>6, <1>6, SizeFacts, SlotStays DEF x
      <4> QED BY <3>4, <4>1, <4>2
    <3>7. CASE c = 1
      <4>1. Len(stat_fifo') - k = (n - (k + d)) + 1
        BY <3>7, <1>4, <1>5
      <4>2. (pos[k + d] - 1) + (x + MIN_EOP_GAP) + 0 <= b
        <5>1. pos[k + d] + x + (MIN_EOP_GAP - 1) <= b
          BY <3>2, <3>7, <1>6
        <5> HIDE DEF x
        <5> QED BY <3>4, <3>5, <5>1, SizeFacts
      <4> QED BY <3>4, <3>5, <3>7, <4>1, <4>2, <1>6
    <3> QED BY <3>6, <3>7, <1>1
  <2>2. CASE k \notin 1 .. n - d
    <3>1. c = 1 /\ k = Len(stat_fifo') /\ k = n - d + 1
      BY <2>2, <1>1, <1>4, <1>5
    <3>2. k \in 1 .. m - d
      BY <3>1, <1>6, <1>4, <1>5, <1>11
    <3>3. pos2[k] \in 1 .. Len(q2) /\ Len(q2) <= b /\ Len(q2) \in Nat
      BY <3>2, <1>2, <1>10 DEF RxRoom
    <3>4. Gaps(Len(stat_fifo') - k) = 0
      <4>1. Len(stat_fifo') - k = 0
        BY <3>1, <1>4, <1>5
      <4>2. 0 * MIN_EOP_GAP = 0
        BY SizeFacts
      <4> QED BY <4>1, <4>2 DEF Gaps
    <3> QED BY <3>1, <3>3, <3>4, <1>6, SizeFacts
  <2> QED BY <2>1, <2>2
<1>15. \E p : Numbered(p)' /\ Judged(p)' /\ StatusComes(p)' /\ Drained(p)'
  BY <1>9, <1>12, <1>13, <1>14
<1> QED BY <1>15 DEF StatusInv

-----------------------------------------------------------------------------
(* The words in rx_fifo and the one that left it. *)

LEMMA ParserStep ==
    ASSUME TypeOK, ParserInv,
           NEW w, Presents(w), SourceEdge(w), L2Parser(w), HeadLock(w)
    PROVE  ParserInv'
<1>1. eop_d1' => gap' = 1
  BY DEF HeadLock, SourceEdge, pkt_eop, en
<1>2. CASE w = <<>>
  BY <1>1, <1>2 DEF ParserInv, SourceEdge, L2Parser, en
<1>3. CASE w # <<>> /\ w[1].eop
  BY <1>1, <1>3 DEF ParserInv, SourceEdge, L2Parser, en
<1>4. CASE w # <<>> /\ ~w[1].eop
  <2>1. src' = <<[pkt |-> w[1].pkt, sent |-> w[1].i, whole |-> w[1].whole]>>
    BY <1>4 DEF SourceEdge
  <2>2. /\ data_pos_0' = w[1].eop
        /\ macd' = IF data_pos_0 THEN macd_bits(w[1]) ELSE macd
    BY <1>4 DEF L2Parser, en
  <2>3. w[1].whole => macd' = w[1].pkt.macd
    <3>1. CASE src = <<>>
      <4>1. data_pos_0 /\ w[1].i = 1
        BY <3>1, <1>4 DEF ParserInv, Presents
      <4> QED BY <4>1, <2>2 DEF macd_bits, sop
    <3>2. CASE src # <<>>
      <4>1. w[1].whole = src[1].whole /\ w[1].pkt = src[1].pkt
        BY <3>2, <1>4 DEF Presents
      <4> QED BY <3>2, <4>1, <2>2 DEF ParserInv
    <3> QED BY <3>1, <3>2
  <2> QED BY <1>1, <1>4, <2>1, <2>2, <2>3 DEF ParserInv
<1> QED BY <1>2, <1>3, <1>4

\* Packets stay in one piece, one behind the other.
LEMMA QueueStep ==
    ASSUME TypeOK, QueueInv, TailInv, rx_fifo' \in Seq(Word),
           NEW w, Presents(w), NEW r \in {0, 1},
           Moves(rx_fifo, rx_fifo', r, Len(w)),
           w # <<>> => rx_fifo'[Len(rx_fifo')] = w[1]
    PROVE  QueueInv'
<1> DEFINE q == rx_fifo
           q2 == rx_fifo'
<1>1. Len(w) = (IF w = <<>> THEN 0 ELSE 1)
  BY MaybeSeq DEF Presents
<1>2. q \in Seq(Word) /\ Len(q) \in Nat /\ Len(q2) \in Nat
  BY DEF TypeOK
<1>3. /\ r = 1 => Len(q) >= 1
      /\ Len(q2) = Len(q) - r + Len(w)
      /\ \A j \in 1 .. Len(q) - r : q2[j] = q[j + r]
  BY <1>2 DEF Moves
<1>4. \A j \in 1 .. Len(q2) :
         \/ j \in 1 .. Len(q) - r /\ j + r \in 1 .. Len(q) /\ q2[j] = q[j + r]
         \/ j = Len(q2) /\ j = Len(q) - r + 1 /\ w # <<>> /\ q2[j] = w[1]
  <2> TAKE j \in 1 .. Len(q2)
  <2>1. CASE j \in 1 .. Len(q) - r
    BY <2>1, <1>2, <1>3
  <2>2. CASE j \notin 1 .. Len(q) - r
    <3>1. Len(w) # 0 /\ j = Len(q2) /\ j = Len(q) - r + 1
      BY <2>2, <1>1, <1>2, <1>3
    <3>2. w # <<>>
      BY <3>1, <1>1, Zenon
    <3>3. q2[j] = w[1]
      BY <3>1, <3>2
    <3> HIDE DEF q, q2
    <3> QED BY <3>1, <3>2, <3>3
  <2> QED BY <2>1, <2>2
<1>5. /\ \A j \in 1 .. Len(q) : WordOK(q[j])
      /\ \A j \in 1 .. Len(q), k \in 1 .. Len(q) :
            j <= k /\ (\A m \in j .. k - 1 : ~q[m].eop) =>
               Same(q[j], q[k], k - j)
      /\ \A j \in 1 .. Len(q) - 1 : q[j].eop => q[j + 1].i = 1
  BY DEF QueueInv
<1>6. w # <<>> /\ Len(q) >= 1 =>
         IF q[Len(q)].eop THEN w[1].i = 1 ELSE Same(q[Len(q)], w[1], 1)
  <2> HAVE w # <<>> /\ Len(q) >= 1
  <2>1. q # <<>>
    BY <1>2
  <2>2. CASE src = <<>>
    BY <2>1, <2>2 DEF TailInv, Presents
  <2>3. CASE src # <<>>
    BY <2>1, <2>3 DEF TailInv, Presents, Same
  <2> QED BY <2>2, <2>3
<1>7. w # <<>> => WordOK(w[1])
  BY DEF Presents
<1> HIDE DEF q, q2
<1>8. \A j \in 1 .. Len(q2) : WordOK(q2[j])
  BY <1>4, <1>5, <1>7
<1>9. \A j \in 1 .. Len(q2) - 1 : q2[j].eop => q2[j + 1].i = 1
  <2> TAKE j \in 1 .. Len(q2) - 1
  <2> HAVE q2[j].eop
  <2>1. j \in 1 .. Len(q) - r /\ q2[j] = q[j + r] /\ j + r \in 1 .. Len(q)
    BY <1>2, <1>4
  <2>2. CASE j + 1 \in 1 .. Len(q) - r
    <3>1. q2[j + 1] = q[(j + r) + 1] /\ j + r \in 1 .. Len(q) - 1
      <4>1. q2[j + 1] = q[(j + 1) + r]
        BY <2>2, <1>3
      <4>2. (j + 1) + r = (j + r) + 1
        OBVIOUS
      <4>3. j + r \in 1 .. Len(q) - 1
        BY <2>2, <1>2
      <4> QED BY <4>1, <4>2, <4>3
    <3> QED BY <2>1, <3>1, <1>5
  <2>3. CASE j + 1 \notin 1 .. Len(q) - r
    <3>1. j + 1 \in 1 .. Len(q2)
      BY <1>2
    <3>2. j + 1 = Len(q) - r + 1 /\ w # <<>> /\ q2[j + 1] = w[1]
      BY <2>3, <3>1, <1>4
    <3>3. j + r = Len(q) /\ Len(q) >= 1
      BY <2>1, <3>2, <1>2
    <3> QED BY <2>1, <3>2, <3>3, <1>6
  <2> QED BY <2>2, <2>3
<1>10. ASSUME NEW j \in 1 .. Len(q2), NEW k \in 1 .. Len(q2), j <= k,
              \A m \in j .. k - 1 : ~q2[m].eop
       PROVE  Same(q2[j], q2[k], k - j)
  <2>1. CASE j = k
    <3>1. q2[j] \in Word
      BY <1>10 DEF q2
    <3>2. q2[j].i \in Int
      BY <3>1 DEF Word
    <3> QED BY <2>1, <3>2 DEF Same
  <2>2. CASE j < k
    <3>1. j \in 1 .. Len(q) - r /\ j + r \in 1 .. Len(q) /\ q2[j] = q[j + r]
      BY <2>2, <1>2, <1>4
    <3>2. \A m \in j + r .. Len(q) : m - r <= k - 1 => ~q[m].eop
      <4> TAKE m \in j + r .. Len(q)
      <4> HAVE m - r <= k - 1
      <4>1. m - r \in j .. k - 1 /\ m - r \in 1 .. Len(q) - r /\ (m - r) + r = m
        BY <1>2, <3>1
      <4>2. q2[m - r] = q[(m - r) + r]
        BY <4>1, <1>3
      <4> QED BY <4>1, <4>2, <1>10
    <3>3. CASE k \in 1 .. Len(q) - r
      <4>1. k + r \in 1 .. Len(q) /\ q2[k] = q[k + r] /\ j + r <= k + r
        BY <3>3, <1>2, <1>3, <2>2
      <4>2. \A m \in j + r .. (k + r) - 1 : ~q[m].eop
        <5> TAKE m \in j + r .. (k + r) - 1
        <5>1. m \in j + r .. Len(q) /\ m - r <= k - 1
          BY <4>1, <3>1, <1>2
        <5> QED BY <5>1, <3>2
      <4>3. Same(q[j + r], q[k + r], (k + r) - (j + r))
        BY <4>1, <4>2, <3>1, <1>5
      <4>4. (k + r) - (j + r) = k - j
        OBVIOUS
      <4> QED BY <4>1, <4>3, <4>4, <3>1
    <3>4. CASE k \notin 1 .. Len(q) - r
      <4>1. k = Len(q) - r + 1 /\ w # <<>> /\ q2[k] = w[1]
        BY <3>4, <1>4
      <4>2. Len(q) \in 1 .. Len(q) /\ j + r <= Len(q) /\ ~q[Len(q)].eop
        <5>1. Len(q) \in j + r .. Len(q) /\ Len(q) - r <= k - 1
          BY <4>1, <3>1, <1>2
        <5> QED BY <5>1, <3>1, <3>2, <1>2
      <4>3. \A m \in j + r .. Len(q) - 1 : ~q[m].eop
        <5> TAKE m \in j + r .. Len(q) - 1
        <5>1. m \in j + r .. Len(q) /\ m - r <= k - 1
          BY <4>1, <3>1, <1>2
        <5> QED BY <5>1, <3>2
      <4>4. Same(q[j + r], q[Len(q)], Len(q) - (j + r))
        BY <4>2, <4>3, <3>1, <1>5
      <4>5. Same(q[Len(q)], w[1], 1)
        BY <4>1, <4>2, <1>6
      <4>6. q[j + r].i \in Int
        <5>1. q[j + r] \in Word
          BY <3>1, <1>2
        <5> QED BY <5>1 DEF Word
      <4>7. (Len(q) - (j + r)) + 1 = k - j
        BY <4>1, <1>2
      <4>8. w[1].i = q[j + r].i + (k - j)
        <5> DEFINE x == q[j + r].i
                   y == Len(q) - (j + r)
        <5>1. w[1].i = (x + y) + 1
          BY <4>4, <4>5 DEF Same
        <5>2. x \in Int /\ y \in Int /\ y + 1 = k - j
          BY <4>6, <4>7, <1>2
        <5> HIDE DEF x, y
        <5>3. (x + y) + 1 = x + (k - j)
          BY <5>2
        <5> QED BY <5>1, <5>3 DEF x
      <4>9. w[1].pkt = q[j + r].pkt /\ w[1].whole = q[j + r].whole
        BY <4>4, <4>5 DEF Same
      <4>10. q2[k] = w[1] /\ q2[j] = q[j + r]
        BY <4>1, <3>1
      <4>11. Same(q[j + r], w[1], k - j)
        BY <4>8, <4>9 DEF Same
      <4> QED BY <4>10, <4>11, Zenon
    <3> QED BY <3>3, <3>4
  <2> QED BY <1>10, <2>1, <2>2
<1> QED BY <1>8, <1>9, <1>10 DEF QueueInv, q2

\* The first end in rx_fifo is the one whose status is at the head.
LEMMA HeadStatus ==
    ASSUME TypeOK, StatusInv, stat_fifo # <<>>
    PROVE  /\ rx_fifo # <<>>
           /\ \E e \in 1 .. Len(rx_fifo) :
                 FirstEnd(e) /\ IsStatusOf(Head(stat_fifo), rx_fifo[e])
<1> PICK pos : Numbered(pos) /\ Judged(pos)
  BY DEF StatusInv
<1>1. Len(stat_fifo) >= 1 /\ NumEnds \in Nat /\ NumEnds >= 1
      /\ 1 \in 1 .. Len(stat_fifo) /\ 1 \in 1 .. NumEnds
  BY DEF TypeOK, NumEnds
<1>2. /\ \A a \in 1 .. NumEnds : pos[a] \in 1 .. Len(rx_fifo)
      /\ \A a \in 1 .. NumEnds, b \in 1 .. NumEnds : a < b => pos[a] < pos[b]
      /\ rx_fifo[pos[1]].eop
      /\ \A j \in 1 .. Len(rx_fifo) :
            rx_fifo[j].eop => \E a \in 1 .. NumEnds : pos[a] = j
  BY <1>1 DEF Numbered, Numbers
<1>3. \A d \in 1 .. pos[1] - 1 : ~rx_fifo[d].eop
  <2> SUFFICES ASSUME NEW d \in 1 .. pos[1] - 1, rx_fifo[d].eop PROVE FALSE
    OBVIOUS
  <2>1. d \in 1 .. Len(rx_fifo) /\ pos[1] \in 1 .. Len(rx_fifo) /\ d < pos[1]
    BY <1>1, <1>2
  <2>2. PICK a \in 1 .. NumEnds : pos[a] = d
    BY <2>1, <1>2
  <2>3. a # 1
    BY <2>1, <2>2
  <2>4. pos[1] < pos[a]
    BY <2>3, <1>1, <1>2
  <2> QED BY <2>1, <2>2, <2>4
<1>4. FirstEnd(pos[1]) /\ pos[1] \in 1 .. Len(rx_fifo)
  BY <1>1, <1>2, <1>3 DEF FirstEnd
<1>5. IsStatusOf(Head(stat_fifo), rx_fifo[pos[1]])
  <2>1. Head(stat_fifo) = stat_fifo[1]
    OBVIOUS
  <2> QED BY <1>1, <2>1 DEF Judged
<1>6. rx_fifo # <<>>
  <2>1. Len(rx_fifo) >= 1
    BY <1>4 DEF TypeOK
  <2> QED BY <2>1
<1> QED BY <1>4, <1>5, <1>6

LEMMA FirstEndUnique ==
    ASSUME TypeOK, NEW a \in 1 .. Len(rx_fifo), NEW b \in 1 .. Len(rx_fifo),
           FirstEnd(a), FirstEnd(b)
    PROVE  a = b
<1>1. ~(a < b)
  <2>1. a < b => a \in 1 .. b - 1
    OBVIOUS
  <2> QED BY <2>1 DEF FirstEnd
<1>2. ~(b < a)
  <2>1. b < a => b \in 1 .. a - 1
    OBVIOUS
  <2> QED BY <2>1 DEF FirstEnd
<1> QED BY <1>1, <1>2

\* While a packet is read its end comes nearer.
LEMMA FirstEndMoves ==
    ASSUME TypeOK, rx_fifo' \in Seq(Word), NEW l \in {0, 1},
           Moves(rx_fifo, rx_fifo', 1, l), ~rx_fifo[1].eop,
           NEW f \in 1 .. Len(rx_fifo), FirstEnd(f),
           NEW e \in 1 .. Len(rx_fifo'), FirstEnd(e)'
    PROVE  f = e + 1 /\ rx_fifo'[e] = rx_fifo[f]
<1> DEFINE q == rx_fifo
           q2 == rx_fifo'
<1>1. Len(q) \in Nat /\ Len(q2) \in Nat
  BY DEF TypeOK
<1>2. \A j \in 1 .. Len(q) - 1 : q2[j] = q[j + 1]
  BY DEF Moves
<1>3. q2[e].eop /\ \A d \in 1 .. e - 1 : ~q2[d].eop
  BY DEF FirstEnd
<1>4. q[f].eop /\ \A d \in 1 .. f - 1 : ~q[d].eop
  BY DEF FirstEnd
<1> HIDE DEF q, q2
<1>5. f >= 2
  BY <1>4 DEF q
<1>6. q2[f - 1] = q[f]
  <2>1. f - 1 \in 1 .. Len(q) - 1 /\ (f - 1) + 1 = f
    BY <1>1, <1>5 DEF q
  <2> QED BY <2>1, <1>2
<1>7. ~(f - 1 < e)
  <2>1. f - 1 < e => f - 1 \in 1 .. e - 1
    BY <1>5
  <2> QED BY <2>1, <1>3, <1>4, <1>6
<1>8. ~(e < f - 1)
  <2> SUFFICES ASSUME e < f - 1 PROVE FALSE
    OBVIOUS
  <2>1. e \in 1 .. Len(q) - 1 /\ e + 1 \in 1 .. f - 1
    BY <1>1 DEF q
  <2>2. q2[e] = q[e + 1]
    BY <2>1, <1>2
  <2> QED BY <2>1, <2>2, <1>3, <1>4
<1>9. f = e + 1
  BY <1>7, <1>8
<1>10. f - 1 = e
  BY <1>9
<1> QED BY <1>6, <1>9, <1>10 DEF q, q2

\* What an edge does to the stages behind rx_fifo.
LEMMA StageFacts ==
    ASSUME TypeOK, RxSized, StatusInv, Stages
    PROVE  /\ Reads \in {0, 1} /\ (Reads = 1 <=> stat_fifo # <<>>)
           /\ Reads = 1 => rx_fifo # <<>>
           /\ rx_d1' = IF Reads = 1 THEN <<rx_fifo[1]>> ELSE <<>>
           /\ rx_dir_d1' = IF Reads = 1 /\ rx_fifo[1].i = 1
                           THEN rx_dir(Head(stat_fifo)) ELSE rx_dir_d1
           /\ rx_dmx' = IF ToCpu THEN rx_d1 ELSE <<>>
<1> PICK pos : /\ Numbered(pos) /\ Judged(pos) /\ StatusComes(pos)
               /\ Drained(pos)
  BY DEF StatusInv
<1>1. /\ stat_fifo # <<>> => rx_fifo # <<>>
      /\ pkt_rx_read <=> stat_fifo # <<>>
  BY StatusFacts
<1>2. Reads \in {0, 1} /\ (Reads = 1 <=> stat_fifo # <<>>)
  BY DEF Reads
<1>3. Head(rx_fifo) = rx_fifo[1]
  OBVIOUS
<1>4. rx_robot_run <=> Reads = 1 /\ rx_fifo[1].i = 1
  BY <1>1, <1>2, <1>3 DEF rx_robot_run, sop
<1>5. rx_d1' = IF Reads = 1 THEN <<rx_fifo[1]>> ELSE <<>>
  BY <1>1, <1>2, <1>3 DEF Stages
<1>6. rx_dir_d1' = IF Reads = 1 /\ rx_fifo[1].i = 1
                   THEN rx_dir(Head(stat_fifo)) ELSE rx_dir_d1
  BY <1>4 DEF Stages
<1>7. rx_dmx' = IF ToCpu THEN rx_d1 ELSE <<>>
  BY DEF Stages, ToCpu
<1> QED BY <1>1, <1>2, <1>5, <1>6, <1>7

\* What is stored last goes on being what the source is at.
LEMMA TailStep ==
    ASSUME TypeOK, RxSized, StatusInv, TailInv, rx_fifo' \in Seq(Word),
           NEW w, Presents(w), SourceEdge(w),
           Moves(rx_fifo, rx_fifo', Reads, Len(w)),
           w # <<>> => rx_fifo'[Len(rx_fifo')] = w[1]
    PROVE  TailInv'
<1> DEFINE q == rx_fifo
           q2 == rx_fifo'
           r == Reads
<1>1. Len(w) = (IF w = <<>> THEN 0 ELSE 1)
  BY MaybeSeq DEF Presents
<1>2. /\ q \in Seq(Word) /\ q2 \in Seq(Word)
      /\ Len(q) \in Nat /\ Len(q2) \in Nat /\ r \in {0, 1}
      /\ r = 1 => Len(q) >= 1
      /\ Len(q2) = Len(q) - r + Len(w)
      /\ \A j \in 1 .. Len(q) - r : q2[j] = q[j + r]
  BY DEF TypeOK, Moves, Reads
<1>3. CASE w # <<>>
  <2>1. q2 # <<>> /\ q2[Len(q2)] = w[1]
    BY <1>1, <1>2, <1>3
  <2>2. CASE w[1].eop
    <3>1. src' = <<>>
      BY <1>3, <2>2 DEF SourceEdge
    <3> QED BY <2>1, <2>2, <3>1 DEF TailInv
  <2>3. CASE ~w[1].eop
    <3>1. src' = <<[pkt |-> w[1].pkt, sent |-> w[1].i, whole |-> w[1].whole]>>
      BY <1>3, <2>3 DEF SourceEdge
    <3>2. src' # <<>> /\ src'[1].pkt = w[1].pkt /\ src'[1].sent = w[1].i
          /\ src'[1].whole = w[1].whole
      BY <3>1
    <3> QED BY <2>1, <2>3, <3>2 DEF TailInv
  <2> QED BY <2>2, <2>3
<1>4. CASE w = <<>>
  <2>1. src' = src /\ Len(q2) = Len(q) - r
    BY <1>1, <1>2, <1>4 DEF SourceEdge
  <2>2. CASE q2 # <<>>
    <3>1. Len(q2) \in 1 .. Len(q) - r /\ Len(q2) + r = Len(q) /\ q # <<>>
      BY <1>2, <2>1, <2>2
    <3>2. q2[Len(q2)] = q[Len(q)]
      BY <3>1, <1>2
    <3> HIDE DEF q, q2, r
    <3> QED BY <2>1, <2>2, <3>1, <3>2 DEF TailInv, q, q2
  <2>3. CASE q2 = <<>>
    <3>1. Len(q) = r
      BY <1>2, <2>1, <2>3
    <3>2. CASE r = 0
      <4>1. q = <<>>
        BY <3>1, <3>2, <1>2
      <4> QED BY <2>1, <2>3, <4>1 DEF TailInv
    <3>3. CASE r = 1
      <4>1. stat_fifo # <<>>
        BY <3>3 DEF Reads
      <4>2. PICK e \in 1 .. Len(q) : FirstEnd(e)
        BY <4>1, HeadStatus
      <4>3. e = Len(q)
        <5>1. Len(q) = 1 /\ e \in 1 .. 1
          BY <3>1, <3>3, <4>2
        <5> QED BY <5>1
      <4>6. q # <<>>
        BY <4>1, HeadStatus
      <4>4. q[Len(q)].eop
        BY <4>2, <4>3 DEF FirstEnd
      <4>5. src = <<>>
        BY <4>4, <4>6 DEF TailInv
      <4> QED BY <2>1, <2>3, <4>5 DEF TailInv
    <3> QED BY <3>2, <3>3, <1>2
  <2> QED BY <2>2, <2>3
<1> QED BY <1>3, <1>4


\* What an edge does to rx_fifo and the statuses, as the lemmas above need it.
LEMMA EngineMoves ==
    ASSUME TypeOK, RxSized, RxRoom, StatusInv, NEW w, Presents(w), RxFifos(w)
    PROVE  /\ rx_fifo' \in Seq(Word)
           /\ Moves(rx_fifo, rx_fifo', Reads, Len(w))
           /\ w # <<>> => rx_fifo'[Len(rx_fifo')] = w[1]
           /\ stat_fifo' \in Seq(Status)
           /\ Len(stat_fifo') >= Len(stat_fifo) - ReadsEnd
<1> PICK pos : /\ Numbered(pos) /\ Judged(pos) /\ StatusComes(pos)
               /\ Drained(pos)
  BY DEF StatusInv
<1> DEFINE c == IF rxsfifo_wen_dl THEN 1 ELSE 0
<1>1. c \in {0, 1} /\ (c = 1 <=> rxsfifo_wen_dl)
  OBVIOUS
<1> HIDE DEF c
<1>2. /\ rx_fifo' \in Seq(Word) /\ Reads \in {0, 1}
      /\ Reads = 1 => rx_fifo # <<>>
      /\ Len(rx_fifo') = Len(rx_fifo) - Reads + Len(w)
      /\ \A j \in 1 .. Len(rx_fifo) - Reads : rx_fifo'[j] = rx_fifo[j + Reads]
      /\ w # <<>> => rx_fifo'[Len(rx_fifo')] = w[1]
  BY RxFifoStep
<1>3. /\ stat_fifo' \in Seq(Status) /\ ReadsEnd \in {0, 1}
      /\ Len(stat_fifo') = Len(stat_fifo) - ReadsEnd + c
  BY <1>1, StatFifoStep
<1>4. Len(stat_fifo) \in Nat
  BY DEF TypeOK
<1>5. Len(stat_fifo') >= Len(stat_fifo) - ReadsEnd
  BY <1>1, <1>3, <1>4
<1> QED BY <1>2, <1>3, <1>5 DEF Moves

\* If a packet starts next, or nothing is stored and none is under way, what
\* comes to the head of rx_fifo when it is not read starts one.
LEMMA StartStep ==
    ASSUME TypeOK, AtStart, rx_fifo' \in Seq(Word),
           NEW w, Presents(w), SourceEdge(w),
           Moves(rx_fifo, rx_fifo', 0, Len(w)),
           w # <<>> => rx_fifo'[Len(rx_fifo')] = w[1]
    PROVE  AtStart'
<1> DEFINE q == rx_fifo
           q2 == rx_fifo'
<1>1. Len(w) = (IF w = <<>> THEN 0 ELSE 1)
  BY MaybeSeq DEF Presents
<1>2. /\ q \in Seq(Word) /\ q2 \in Seq(Word)
      /\ Len(q) \in Nat /\ Len(q2) \in Nat
      /\ Len(q2) = Len(q) + Len(w)
      /\ \A j \in 1 .. Len(q) : q2[j] = q[j]
  <2>1. \A j \in 1 .. Len(q) - 0 : q2[j] = q[j + 0]
    BY DEF Moves
  <2>2. Len(q2) = Len(q) - 0 + Len(w)
    BY DEF Moves
  <2>3. Len(q) \in Nat /\ Len(q2) \in Nat /\ Len(w) \in Nat
    BY <1>1 DEF TypeOK
  <2>4. \A j \in 1 .. Len(q) : j \in 1 .. Len(q) - 0 /\ j + 0 = j
    BY <2>3
  <2> QED BY <2>1, <2>2, <2>3, <2>4 DEF TypeOK
<1>3. CASE q # <<>>
  <2>1. Len(q) >= 1 /\ Len(q2) >= 1
    BY <1>1, <1>2, <1>3
  <2>2. q2[1] = q[1] /\ q2 # <<>>
    BY <2>1, <1>2
  <2> QED BY <1>3, <2>2 DEF AtStart
<1>4. CASE q = <<>>
  <2>1. src = <<>> /\ Len(q) = 0
    BY <1>4 DEF AtStart
  <2>2. CASE w = <<>>
    <3>1. Len(q2) = 0
      BY <1>1, <1>2, <2>1, <2>2
    <3>2. q2 = <<>> /\ src' = <<>>
      BY <3>1, <2>1, <2>2, <1>2 DEF SourceEdge
    <3> QED BY <3>2 DEF AtStart
  <2>3. CASE w # <<>>
    <3>1. Len(q2) = 1
      BY <1>1, <1>2, <2>1, <2>3
    <3>4. q2 # <<>>
      BY <3>1, <1>2
    <3>5. q2[Len(q2)] = w[1]
      BY <2>3
    <3> HIDE DEF q, q2
    <3>2. q2[1] = w[1] /\ q2 # <<>>
      BY <3>1, <3>4, <3>5
    <3>3. w[1].i = 1
      BY <2>1, <2>3 DEF Presents
    <3> QED BY <3>2, <3>3 DEF AtStart, q2
  <2> QED BY <2>2, <2>3
<1> QED BY <1>3, <1>4


\* The first end is at the head or after it, all of one packet.
LEMMA HeadPacket ==
    ASSUME TypeOK, QueueInv, StatusInv, stat_fifo # <<>>
    PROVE  /\ rx_fifo # <<>> /\ Len(rx_fifo) >= 1
           /\ rx_fifo[1] \in Word /\ WordOK(rx_fifo[1])
           /\ \E f \in 1 .. Len(rx_fifo) :
                 /\ FirstEnd(f) /\ IsStatusOf(Head(stat_fifo), rx_fifo[f])
                 /\ rx_fifo[f] \in Word /\ WordOK(rx_fifo[f])
                 /\ Same(rx_fifo[1], rx_fifo[f], f - 1)
                 /\ f = 1 <=> rx_fifo[1].eop
<1>1. rx_fifo # <<>> /\ rx_fifo \in Seq(Word) /\ Len(rx_fifo) \in Nat
  BY HeadStatus DEF TypeOK
<1>2. PICK f \in 1 .. Len(rx_fifo) :
         FirstEnd(f) /\ IsStatusOf(Head(stat_fifo), rx_fifo[f])
  BY HeadStatus
<1>3. Len(rx_fifo) >= 1 /\ 1 \in 1 .. Len(rx_fifo) /\ 1 <= f
  BY <1>1
<1>4. rx_fifo[1] \in Word /\ rx_fifo[f] \in Word
  BY <1>1, <1>3
<1>5. WordOK(rx_fifo[1]) /\ WordOK(rx_fifo[f])
  BY <1>3 DEF QueueInv
<1>6. \A m \in 1 .. f - 1 : ~rx_fifo[m].eop
  BY <1>2 DEF FirstEnd
<1>7. Same(rx_fifo[1], rx_fifo[f], f - 1)
  BY <1>3, <1>6 DEF QueueInv
<1>8. f = 1 <=> rx_fifo[1].eop
  <2>1. f = 1 => rx_fifo[1].eop
    BY <1>2 DEF FirstEnd
  <2>2. f # 1 => 1 \in 1 .. f - 1
    BY <1>3
  <2> QED BY <2>1, <2>2, <1>6
<1> QED BY <1>1, <1>2, <1>3, <1>4, <1>5, <1>7, <1>8

\* Behind a word that is not the last of its packet the packet goes on, and a
\* status keeps it going; behind the last a packet starts.
LEMMA ReadStep ==
    ASSUME TypeOK, RxSized, RxRoom, QueueInv, TailInv, ReadInv, StatusInv,
           NEW w, Presents(w), SourceEdge(w), RxFifos(w), Stages
    PROVE  ReadInv'
<1> DEFINE q == rx_fifo
           q2 == rx_fifo'
<1>1. Len(w) = (IF w = <<>> THEN 0 ELSE 1)
  BY MaybeSeq DEF Presents
<1>2. /\ q2 \in Seq(Word)
      /\ Moves(q, q2, Reads, Len(w))
      /\ w # <<>> => q2[Len(q2)] = w[1]
      /\ stat_fifo' \in Seq(Status)
      /\ Len(stat_fifo') >= Len(stat_fifo) - ReadsEnd
  BY EngineMoves
<1>3. q \in Seq(Word) /\ Len(q) \in Nat /\ Len(q2) \in Nat
      /\ stat_fifo \in Seq(Status) /\ Len(stat_fifo) \in Nat
  BY <1>2 DEF TypeOK
<1>4. /\ Reads \in {0, 1} /\ (Reads = 1 <=> stat_fifo # <<>>)
      /\ rx_d1' = IF Reads = 1 THEN <<q[1]>> ELSE <<>>
      /\ rx_dir_d1' = IF Reads = 1 /\ q[1].i = 1
                      THEN rx_dir(Head(stat_fifo)) ELSE rx_dir_d1
  BY StageFacts
<1>5. CASE Reads = 1
  <2>1. rx_d1' # <<>> /\ rx_d1'[1] = q[1]
    BY <1>4, <1>5
  <2>2. PICK f \in 1 .. Len(q) : f = 1 <=> q[1].eop
    BY <1>4, <1>5, HeadPacket
  <2>3. Len(q) >= 1 /\ WordOK(q[1])
    BY <1>4, <1>5, HeadPacket
  <2>4. /\ Len(q2) = Len(q) - 1 + Len(w)
        /\ \A j \in 1 .. Len(q) - 1 : q2[j] = q[j + 1]
    BY <1>2, <1>5 DEF Moves
  <2>5. Len(q) >= 2 => q2 # <<>> /\ q2[1] = q[2]
    <3> HAVE Len(q) >= 2
    <3>1. 1 \in 1 .. Len(q) - 1 /\ Len(q2) >= 1
      BY <2>4, <1>1, <1>3
    <3>2. q2[1] = q[1 + 1]
      BY <3>1, <2>4
    <3> QED BY <3>1, <3>2, <1>2
  <2>6. WordOK(rx_d1'[1])
    BY <2>1, <2>3
  <2>7. CASE ~q[1].eop
    <3>1. stat_fifo' # <<>>
      <4>1. ReadsEnd = 0 /\ Len(stat_fifo) >= 1
        BY <2>7, <1>3, <1>4, <1>5 DEF ReadsEnd
      <4>2. Len(stat_fifo') >= 1
        BY <4>1, <1>2, <1>3
      <4> QED BY <4>2, <1>2
    <3>2. Len(q) >= 2
      BY <2>2, <2>7, <1>3
    <3>3. Same(q[1], q[2], 1)
      <4>1. 1 \in 1 .. Len(q) /\ 2 \in 1 .. Len(q) /\ 2 - 1 = 1
        BY <3>2, <1>3
      <4>2. \A m \in 1 .. 2 - 1 : ~q[m].eop
        BY <2>7
      <4>3. Same(q[1], q[2], 2 - 1)
        BY <4>1, <4>2 DEF QueueInv
      <4> QED BY <4>1, <4>3
    <3>4. Same(rx_d1'[1], q2[1], 1) /\ q2 # <<>>
      BY <3>2, <3>3, <2>1, <2>5
    <3> DEFINE v == rx_d1'[1]
    <3>5. rx_d1' # <<>> /\ ~v.eop /\ WordOK(v) /\ Same(v, q2[1], 1)
      BY <2>1, <2>6, <2>7, <3>4
    <3> QED BY <3>1, <3>4, <3>5 DEF ReadInv, Same, WordOK
  <2>8. CASE q[1].eop
    <3>1. AtStart'
      <4>1. CASE Len(q) >= 2
        <5>1. 1 \in 1 .. Len(q) - 1 /\ 1 + 1 = 2
          BY <4>1, <1>3
        <5>2. q[2].i = 1
          BY <5>1, <2>8 DEF QueueInv
        <5> QED BY <5>2, <4>1, <2>5 DEF AtStart
      <4>2. CASE Len(q) = 1
        <5>1. src = <<>>
          <6>1. q # <<>> /\ q[Len(q)].eop
            BY <4>2, <2>8, <1>3
          <6> QED BY <6>1 DEF TailInv
        <5>2. CASE w = <<>>
          <6>1. Len(q2) = 0
            BY <5>2, <4>2, <2>4, <1>1
          <6>2. q2 = <<>> /\ src' = <<>>
            BY <6>1, <5>1, <5>2, <1>2 DEF SourceEdge
          <6> QED BY <6>2 DEF AtStart
        <5>3. CASE w # <<>>
          <6>1. Len(q2) = 1
            BY <5>3, <4>2, <2>4, <1>1
          <6>2. q2 # <<>>
            BY <6>1, <1>2
          <6>3. q2[Len(q2)] = w[1] /\ w[1].i = 1
            BY <5>1, <5>3, <1>2 DEF Presents
          <6> HIDE DEF q, q2
          <6>4. q2[1].i = 1
            BY <6>1, <6>3
          <6> QED BY <6>2, <6>4 DEF AtStart, q2
        <5> QED BY <5>2, <5>3
      <4>3. Len(q) >= 2 \/ Len(q) = 1
        <5> HIDE DEF q
        <5>1. Len(q) >= 1 /\ Len(q) \in Nat
          BY <2>3, <1>3
        <5> QED BY <5>1
      <4> QED BY <4>1, <4>2, <4>3
    <3> DEFINE v == rx_d1'[1]
    <3>2. rx_d1' # <<>> /\ v.eop /\ WordOK(v)
      BY <2>1, <2>6, <2>8
    <3> QED BY <3>1, <3>2 DEF ReadInv, WordOK
  <2> QED BY <2>7, <2>8
<1>6. CASE Reads = 0
  <2>1. rx_d1' = <<>> /\ rx_dir_d1' = rx_dir_d1 /\ stat_fifo = <<>>
    BY <1>4, <1>6
  <2>2. rx_dir_d1 = "CPU" => AtStart
    BY <2>1 DEF ReadInv
  <2>3. AtStart => AtStart'
    BY <1>2, <1>6, StartStep
  <2> QED BY <2>1, <2>2, <2>3 DEF ReadInv
<1> QED BY <1>4, <1>5, <1>6


-----------------------------------------------------------------------------
(* What goes to the processor. *)

\* A word goes to the processor because its packet has just been found wanted,
\* by the status at the head, or because the word before it went there.
LEMMA CpuWord ==
    ASSUME TypeOK, RxSized, QueueInv, ReadInv, StatusInv, Stages, ToCpu'
    PROVE  /\ Reads = 1 /\ stat_fifo # <<>> /\ rx_fifo # <<>>
           /\ rx_d1' = <<rx_fifo[1]>>
           /\ \/ rx_fifo[1].i = 1 /\ rx_dir(Head(stat_fifo)) = "CPU"
              \/ /\ rx_fifo[1].i # 1
                 /\ ToCpu /\ ~rx_d1[1].eop /\ Same(rx_d1[1], rx_fifo[1], 1)
<1>1. /\ Reads \in {0, 1} /\ (Reads = 1 <=> stat_fifo # <<>>)
      /\ Reads = 1 => rx_fifo # <<>>
      /\ rx_d1' = IF Reads = 1 THEN <<rx_fifo[1]>> ELSE <<>>
      /\ rx_dir_d1' = IF Reads = 1 /\ rx_fifo[1].i = 1
                      THEN rx_dir(Head(stat_fifo)) ELSE rx_dir_d1
  BY StageFacts
<1>2. rx_d1' # <<>> /\ rx_dir_d1' = "CPU"
  BY DEF ToCpu
<1>3. Reads = 1 /\ stat_fifo # <<>> /\ rx_fifo # <<>>
      /\ rx_d1' = <<rx_fifo[1]>>
  BY <1>1, <1>2
<1>4. CASE rx_fifo[1].i = 1
  BY <1>1, <1>2, <1>3, <1>4
<1>5. CASE rx_fifo[1].i # 1
  <2>1. rx_dir_d1 = "CPU" /\ ~AtStart
    BY <1>1, <1>2, <1>3, <1>5 DEF AtStart
  <2>2. rx_d1 # <<>> /\ ~rx_d1[1].eop
    BY <2>1 DEF ReadInv
  <2> QED BY <2>1, <2>2, <1>3, <1>5 DEF ReadInv, ToCpu
<1> QED BY <1>3, <1>4, <1>5

LEMMA HeadIsStatus ==
    ASSUME TypeOK, stat_fifo # <<>>
    PROVE  Head(stat_fifo) \in Status
BY DEF TypeOK

\* The direction CPU is for packets that are wanted and fit.
LEMMA DirFacts ==
    ASSUME NEW status \in Status, NEW w \in Word, IsStatusOf(status, w),
           w.whole, rx_dir(status) = "CPU"
    PROVE  /\ Wanted(w) /\ status.pkt_size = w.size
           /\ ~cpu_almost_full /\ 8 * cpu_wremptyw > w.size
<1>1. /\ status.cast # "none" /\ ~status.crc_err /\ ~status.runt
      /\ ~status.oversize
      /\ ~cpu_almost_full /\ 8 * cpu_wremptyw > status.pkt_size
      /\ status.pkt_size <= MTU
  <2>1. req_dir_cpu(status) /\ pkt_wa(status.pkt_size)
    BY DEF rx_dir
  <2> QED BY <2>1 DEF req_dir_cpu, bad_pkt, pkt_wa, empty_bytes
<1>2. /\ status.crc_err = w.crc_err /\ status.pkt_size = w.size
      /\ status.runt = (w.size < FRM_LEN_MIN)
      /\ status.oversize = (w.size > FRM_LEN_MAX)
      /\ status.cast = Cast(w.pkt.macd)
  BY DEF IsStatusOf
<1>3. w.size \in Nat
  BY DEF Word
<1>4. w.size \in FRM_LEN_MIN .. FRM_LEN_MAX
  <2>1. ~(w.size < FRM_LEN_MIN) /\ ~(w.size > FRM_LEN_MAX)
    BY <1>1, <1>2
  <2> QED BY <2>1, <1>3, SizeFacts
<1> QED BY <1>1, <1>2, <1>4 DEF Wanted

\* What goes to the processor is a packet that is wanted, from its start to
\* its end and from after the last reset.
LEMMA CpuStep ==
    ASSUME TypeOK, RxSized, RxRoom, QueueInv, ReadInv, StatusInv, CpuInv,
           NEW w, Presents(w), RxFifos(w), Stages, NEW ready, RxCpu(ready)
    PROVE  CpuInv'
<1> DEFINE q == rx_fifo
           q2 == rx_fifo'
<1>1. /\ q2 \in Seq(Word) /\ Moves(q, q2, Reads, Len(w))
      /\ Len(w) \in {0, 1}
  BY EngineMoves, MaybeSeq DEF Presents
<1>2. LastOut' = IF ToCpu THEN rx_d1 ELSE LastOut
  <2>1. rx_dmx' = IF ToCpu THEN rx_d1 ELSE <<>>
    BY StageFacts
  <2>2. written' = LastOut
    BY DEF RxCpu, LastOut
  <2> QED BY <2>1, <2>2 DEF LastOut, ToCpu
<1>3. ASSUME ToCpu'
      PROVE  /\ rx_d1'[1].whole
             /\ rx_d1'[1].eop => Wanted(rx_d1'[1])
             /\ ~rx_d1'[1].eop => \A e \in 1 .. Len(q2) :
                                     FirstEnd(e)' => Wanted(q2[e])
  <2>1. /\ Reads = 1 /\ stat_fifo # <<>> /\ rx_d1' = <<q[1]>>
        /\ \/ q[1].i = 1 /\ rx_dir(Head(stat_fifo)) = "CPU"
           \/ /\ q[1].i # 1
              /\ ToCpu /\ ~rx_d1[1].eop /\ Same(rx_d1[1], q[1], 1)
    BY <1>3, CpuWord
  <2>2. rx_d1'[1] = q[1]
    BY <2>1
  <2>3. WordOK(q[1]) /\ q[1] \in Word
    BY <2>1, HeadPacket
  <2>4. PICK f \in 1 .. Len(q) :
           /\ FirstEnd(f) /\ IsStatusOf(Head(stat_fifo), q[f])
           /\ q[f] \in Word
           /\ Same(q[1], q[f], f - 1)
           /\ f = 1 <=> q[1].eop
    BY <2>1, HeadPacket
  <2>5. q[1].whole /\ Wanted(q[f])
    <3>1. CASE q[1].i = 1
      <4>1. q[1].whole /\ q[f].whole
        BY <3>1, <2>3, <2>4 DEF WordOK, Same
      <4>2. rx_dir(Head(stat_fifo)) = "CPU" /\ Head(stat_fifo) \in Status
        BY <3>1, <2>1, HeadIsStatus
      <4>3. Wanted(q[f])
        BY <4>1, <4>2, <2>4, DirFacts
      <4> QED BY <4>1, <4>3
    <3>2. CASE q[1].i # 1
      <4>1. ToCpu /\ ~rx_d1[1].eop /\ Same(rx_d1[1], q[1], 1)
        BY <3>2, <2>1
      <4>2. Wanted(q[f]) /\ rx_d1[1].whole
        BY <4>1, <2>4 DEF CpuInv
      <4> QED BY <4>1, <4>2 DEF Same
    <3> QED BY <3>1, <3>2
  <2>6. q[1].eop => Wanted(q[1])
    BY <2>4, <2>5
  <2>7. ~q[1].eop => \A e \in 1 .. Len(q2) : FirstEnd(e)' => Wanted(q2[e])
    <3> SUFFICES ASSUME ~q[1].eop, NEW e \in 1 .. Len(q2), FirstEnd(e)'
                 PROVE  Wanted(q2[e])
      OBVIOUS
    <3>1. Moves(q, q2, 1, Len(w))
      BY <1>1, <2>1
    <3>2. q2[e] = q[f]
      BY <3>1, <1>1, <2>4, FirstEndMoves
    <3> QED BY <3>2, <2>5
  <2> QED BY <2>2, <2>5, <2>6, <2>7
<1>4. ASSUME LastOut' # <<>>, ~LastOut'[1].eop
      PROVE  ToCpu' /\ Same(LastOut'[1], rx_d1'[1], 1)
  <2>1. ToCpu /\ LastOut' = rx_d1
    BY <1>2, <1>4 DEF CpuInv
  <2>2. rx_d1 # <<>> /\ ~rx_d1[1].eop /\ rx_dir_d1 = "CPU"
    BY <2>1, <1>4 DEF ToCpu
  <2>3. /\ stat_fifo # <<>> /\ Same(rx_d1[1], q[1], 1)
        /\ WordOK(rx_d1[1])
    BY <2>2 DEF ReadInv
  <2>4. rx_d1[1] \in Word
    BY <2>2, MaybeSeq DEF TypeOK
  <2>5. q[1].i # 1
    BY <2>3, <2>4 DEF Same, WordOK, Word
  <2>6. rx_d1' = <<q[1]>> /\ rx_dir_d1' = "CPU"
    BY <2>2, <2>3, <2>5, StageFacts
  <2>7. ToCpu' /\ rx_d1'[1] = q[1]
    BY <2>6 DEF ToCpu
  <2> QED BY <2>1, <2>3, <2>7
<1>5. ASSUME LastOut' = <<>> \/ LastOut'[1].eop, ToCpu'
      PROVE  rx_d1'[1].i = 1
  <2>1. /\ rx_d1' = <<q[1]>>
        /\ \/ q[1].i = 1
           \/ ToCpu /\ ~rx_d1[1].eop
    BY <1>5, CpuWord
  <2>2. ~(ToCpu /\ ~rx_d1[1].eop)
    BY <1>2, <1>5 DEF ToCpu
  <2> QED BY <2>1, <2>2
<1> QED BY <1>3, <1>4, <1>5 DEF CpuInv, Wanted, FirstEnd


\* A packet of that many bytes fits the words that were counted.
LEMMA WordsFit ==
    ASSUME NEW len \in Nat, NEW words \in Nat, 8 * words > len
    PROVE  (len + 3) \div 8 <= words
OBVIOUS

\* A clock edge of the packet FIFO of rx_cpu, which has room.
LEMMA CpuFifoStep ==
    ASSUME TypeOK, CpuRoom, NEW ready \in BOOLEAN, RxCpu(ready)
    PROVE  /\ cpu_fifo' \in Seq(Word) /\ Len(cpu_fifo) \in Nat
           /\ Len(rx_dmx) \in {0, 1}
           /\ Len(cpu_fifo') <= Len(cpu_fifo) + Len(rx_dmx)
           /\ cpu_almost_full' \in BOOLEAN /\ cpu_wremptyw' \in Nat
           /\ cpu_wremptyw' > 0 =>
                 Len(cpu_fifo') + cpu_wremptyw' <= Level + 1
<1> DEFINE q == cpu_fifo
           q2 == cpu_fifo'
           full == AlmostFullNext(q, CPU_WORDS, CPU_SAFE_WORDS)
<1>1. /\ q \in Seq(Word) /\ Len(q) \in Nat
      /\ rx_dmx \in Seq(Word) /\ Len(rx_dmx) = (IF rx_dmx = <<>> THEN 0 ELSE 1)
  BY MaybeSeq DEF TypeOK
<1>2. CPU_WORDS \in Nat \ {0} /\ CPU_SAFE_WORDS \in Nat
      /\ CPU_SAFE_WORDS < CPU_WORDS
  BY SizeFacts
<1>3. Len(q) <= CPU_WORDS /\ (Len(q) < CPU_WORDS \/ rx_dmx = <<>>)
  BY <1>1, <1>2 DEF CpuRoom
<1>4. /\ q2 \in Seq(Word)
      /\ Len(q2) = Len(q) + Len(rx_dmx)
                    - (IF ready /\ q # <<>> THEN 1 ELSE 0)
  <2>1. q2 = FifoEdge(q, CPU_WORDS, rx_dmx, ready)
    BY DEF RxCpu
  <2>2. q2 \in Seq(Word)
    BY <1>1, <1>2, <1>3, <2>1, FifoEdgeAppends
  <2>3. Len(FifoEdge(q, CPU_WORDS, rx_dmx, ready)) =
            Len(q) + Len(rx_dmx) - (IF ready /\ q # <<>> THEN 1 ELSE 0)
    <3>1. /\ q \in Seq(Word) /\ rx_dmx \in Seq(Word) /\ ready \in BOOLEAN
          /\ CPU_WORDS \in Nat /\ (Len(q) < CPU_WORDS \/ rx_dmx = <<>>)
      BY <1>1, <1>2, <1>3
    <3> HIDE DEF q
    <3> QED BY <3>1, FifoEdgeLen
  <2> QED BY <2>1, <2>2, <2>3
<1>5. Len(q2) <= Len(q) + Len(rx_dmx) /\ Len(rx_dmx) \in {0, 1}
      /\ Len(q2) \in Nat
  <2>1. Len(q2) \in Nat
    BY <1>4
  <2>2. Len(rx_dmx) \in {0, 1}
    BY <1>1
  <2>3. Len(q2) <= Len(q) + Len(rx_dmx)
    <3> DEFINE r == IF ready /\ q # <<>> THEN 1 ELSE 0
    <3>1. r \in {0, 1} /\ Len(q2) = Len(q) + Len(rx_dmx) - r
      BY <1>4
    <3> HIDE DEF q, q2, r
    <3> QED BY <1>1, <2>2, <3>1
  <2> QED BY <2>1, <2>2, <2>3
<1>6. cpu_almost_full' = full /\ full \in BOOLEAN
  BY DEF RxCpu, AlmostFullNext, FifoFull
<1>7. CASE full
  <2>1. cpu_wremptyw' = 0
    BY <1>7 DEF RxCpu, EmptyWordsNext
  <2>2. cpu_wremptyw' \in Nat /\ ~(cpu_wremptyw' > 0)
    BY <2>1
  <2> HIDE DEF full
  <2> QED BY <2>2, <1>1, <1>4, <1>5, <1>6
<1>8. CASE ~full
  <2>1. /\ Len(q) <= CPU_WORDS - 1 - CPU_SAFE_WORDS
        /\ pkt_fifo_wrusedw(q, CPU_WORDS) = Len(q)
    BY <1>8, <1>1, <1>2, <1>3, AlmostFullFacts
  <2>2. cpu_wremptyw' = Level - pkt_fifo_wrusedw(q, CPU_WORDS)
    BY <1>8 DEF RxCpu, EmptyWordsNext, Level
  <2>3. cpu_wremptyw' = Level - Len(q)
    BY <2>1, <2>2
  <2>4. Level = CPU_WORDS - 1 - CPU_SAFE_WORDS
    BY DEF Level, ALMOST_FULL_WORDS
  <2>5. cpu_wremptyw' \in Nat /\ Len(q2) + cpu_wremptyw' <= Level + 1
    <3> HIDE DEF q, q2, full
    <3> DEFINE lv == Level
    <3>1. lv \in Int /\ Len(q) <= lv
      BY <1>1, <1>2, <2>1, <2>4
    <3> HIDE DEF lv
    <3>2. Len(q2) <= Len(q) + 1
      BY <1>1, <1>5
    <3>3. lv - Len(q) \in Nat /\ Len(q2) + (lv - Len(q)) <= lv + 1
      BY <1>1, <1>5, <3>1, <3>2
    <3> QED BY <2>3, <3>3 DEF lv
  <2> QED BY <1>1, <1>4, <1>5, <1>6, <2>5
<1> QED BY <1>7, <1>8

\* A packet whose first word leaves rx_fifo for the processor has, by what
\* cpu_wremptyw says, room for all its words behind the two that may still be
\* on their way; one that is on its way keeps it.
LEMMA CpuFits ==
    ASSUME TypeOK, RxSized, CpuSized, QueueInv, ReadInv, StatusInv, CpuRoom,
           Stages, ToCpu', NEW f \in 1 .. Len(rx_fifo), FirstEnd(f)
    PROVE  Len(cpu_fifo) + Len(rx_dmx) + (IF ToCpu THEN 1 ELSE 0) + f
               <= CPU_WORDS
<1> DEFINE q == rx_fifo
<1>1. /\ stat_fifo # <<>>
      /\ \/ q[1].i = 1 /\ rx_dir(Head(stat_fifo)) = "CPU"
         \/ /\ q[1].i # 1
            /\ ToCpu /\ ~rx_d1[1].eop /\ Same(rx_d1[1], q[1], 1)
  BY CpuWord
<1>2. CASE q[1].i = 1
  <2>1. PICK g \in 1 .. Len(q) :
           /\ FirstEnd(g) /\ IsStatusOf(Head(stat_fifo), q[g])
           /\ q[g] \in Word /\ WordOK(q[g])
           /\ Same(q[1], q[g], g - 1)
    BY <1>1, HeadPacket
  <2>2. g = f
    BY <2>1, FirstEndUnique
  <2>3. q[1] \in Word /\ WordOK(q[1])
    BY <1>1, HeadPacket
  <2>4. q[f].whole /\ q[f].i = f
    <3>1. q[f].i = 1 + (f - 1)
      BY <1>2, <2>1, <2>2 DEF Same
    <3> QED BY <1>2, <2>1, <2>2, <2>3, <3>1 DEF Same, WordOK
  <2>5. Wanted(q[f]) /\ 8 * cpu_wremptyw > q[f].size
    BY <1>1, <1>2, <2>1, <2>2, <2>4, HeadIsStatus, DirFacts
  <2>6. q[f].size = q[f].pkt.len /\ f = NumWords(q[f].pkt)
    BY <2>1, <2>2, <2>4, <2>5 DEF WordOK, Wanted, FirstEnd
  <2>7. q[f].pkt.len \in Nat /\ cpu_wremptyw \in Nat
    <3>1. q[f].pkt \in PACKETS
      BY <2>1, <2>2 DEF Word
    <3> QED BY <3>1, PacketFacts DEF TypeOK
  <2>8. f <= cpu_wremptyw
    BY <2>5, <2>6, <2>7, WordsFit DEF NumWords
  <2>9. Len(cpu_fifo) + cpu_wremptyw <= Level + 1
    BY <2>7, <2>8 DEF CpuRoom
  <2>10. /\ Level = CPU_WORDS - 1 - CPU_SAFE_WORDS /\ CPU_SAFE_WORDS >= 2
         /\ CPU_WORDS \in Nat /\ CPU_SAFE_WORDS \in Nat
    BY SizeFacts DEF Level, ALMOST_FULL_WORDS, CpuSized
  <2>11. Len(cpu_fifo) \in Nat /\ Len(rx_dmx) \in {0, 1}
    BY MaybeSeq DEF TypeOK
  <2> DEFINE t == IF ToCpu THEN 1 ELSE 0
  <2>12. t \in {0, 1}
    OBVIOUS
  <2>13. f \in Nat
    OBVIOUS
  <2> HIDE DEF t
  <2>14. Len(cpu_fifo) + Len(rx_dmx) + t + f <= CPU_WORDS
    <3> DEFINE u == Len(cpu_fifo)
               d == Len(rx_dmx)
    <3>1. u + cpu_wremptyw <= (CPU_WORDS - 1 - CPU_SAFE_WORDS) + 1
      BY <2>9, <2>10
    <3> HIDE DEF u, d
    <3>2. u \in Nat /\ d \in {0, 1}
      BY <2>11 DEF u, d
    <3>3. u + cpu_wremptyw <= CPU_WORDS - 2
      BY <2>7, <2>10, <3>1, <3>2
    <3>4. u + f <= CPU_WORDS - 2
      BY <2>7, <2>8, <2>10, <2>13, <3>2, <3>3
    <3>5. u + d + t + f <= CPU_WORDS
      BY <2>10, <2>12, <2>13, <3>2, <3>4
    <3> QED BY <3>5 DEF u, d
  <2> QED BY <2>14 DEF t
<1>3. CASE q[1].i # 1
  <2>1. ToCpu /\ ~rx_d1[1].eop
    BY <1>1, <1>3
  <2> QED BY <2>1 DEF CpuRoom
<1> QED BY <1>2, <1>3

\* No word that goes to the processor finds its FIFO full.
LEMMA CpuRoomStep ==
    ASSUME TypeOK, RxSized, CpuSized, RxRoom, QueueInv, ReadInv, StatusInv,
           CpuRoom, NEW w, Presents(w), RxFifos(w), Stages,
           NEW ready \in BOOLEAN, RxCpu(ready)
    PROVE  CpuRoom'
<1> DEFINE c  == Len(cpu_fifo)
           c2 == Len(cpu_fifo')
           d  == Len(rx_dmx)
           d2 == Len(rx_dmx')
<1>1. /\ c \in Nat /\ c2 \in Nat /\ d \in {0, 1} /\ c2 <= c + d
      /\ cpu_wremptyw' > 0 => c2 + cpu_wremptyw' <= Level + 1
  BY CpuFifoStep
<1>2. rx_dmx' = IF ToCpu THEN rx_d1 ELSE <<>>
  BY StageFacts
<1>3. d2 = (IF ToCpu THEN 1 ELSE 0) /\ d2 \in {0, 1}
  <2>1. CASE ToCpu
    <3>1. rx_d1 # <<>> /\ rx_dmx' = rx_d1
      BY <1>2, <2>1 DEF ToCpu
    <3>2. Len(rx_d1) = 1
      BY <3>1, MaybeSeq DEF TypeOK
    <3> QED BY <2>1, <3>1, <3>2
  <2>2. CASE ~ToCpu
    BY <1>2, <2>2
  <2> QED BY <2>1, <2>2
<1>4. CPU_WORDS \in Nat
  BY SizeFacts
<1>5. c + d + d2 <= CPU_WORDS
  BY <1>1, <1>3 DEF CpuRoom
<1>6. c2 + d2 <= CPU_WORDS
  <2> HIDE DEF c, c2, d, d2
  <2> QED BY <1>1, <1>3, <1>4, <1>5
<1>7. ASSUME ToCpu'
      PROVE  /\ c2 + d2 + 1 <= CPU_WORDS
             /\ ~rx_d1'[1].eop => \A e \in 1 .. Len(rx_fifo') :
                   FirstEnd(e)' => c2 + d2 + 1 + e <= CPU_WORDS
  <2>1. stat_fifo # <<>> /\ Reads = 1 /\ rx_d1' = <<rx_fifo[1]>>
    BY <1>7, CpuWord
  <2>2. PICK f \in 1 .. Len(rx_fifo) :
           FirstEnd(f) /\ (f = 1 <=> rx_fifo[1].eop)
    BY <2>1, HeadPacket
  <2>3. c + d + d2 + f <= CPU_WORDS
    BY <1>3, <1>7, <2>2, CpuFits
  <2>4. c2 + d2 + f <= CPU_WORDS
    <3>1. f \in Nat
      BY <2>2
    <3> HIDE DEF c, c2, d, d2
    <3> QED BY <1>1, <1>3, <1>4, <2>3, <3>1
  <2>5. c2 + d2 + 1 <= CPU_WORDS
    <3>1. f \in Nat /\ f >= 1
      BY <2>2
    <3> HIDE DEF c, c2, d, d2
    <3> QED BY <1>1, <1>3, <1>4, <2>4, <3>1
  <2>6. ASSUME ~rx_fifo[1].eop, NEW e \in 1 .. Len(rx_fifo'), FirstEnd(e)'
        PROVE  c2 + d2 + 1 + e <= CPU_WORDS
    <3>1. /\ rx_fifo' \in Seq(Word) /\ Moves(rx_fifo, rx_fifo', 1, Len(w))
          /\ Len(w) \in {0, 1}
      BY <2>1, EngineMoves, MaybeSeq DEF Presents
    <3>2. f = e + 1
      BY <2>2, <2>6, <3>1, FirstEndMoves
    <3>3. e \in Nat
      BY <2>6
    <3> HIDE DEF c, c2, d, d2
    <3> QED BY <1>1, <1>3, <1>4, <2>4, <3>2, <3>3
  <2>7. rx_d1'[1] = rx_fifo[1]
    BY <2>1
  <2> QED BY <2>5, <2>6, <2>7
<1>8. Level' = Level
  BY DEF Level, ALMOST_FULL_WORDS
<1> QED BY <1>1, <1>6, <1>7, <1>8 DEF CpuRoom


-----------------------------------------------------------------------------
(* Types, and the invariant. *)

LEMMA CastType ==
    ASSUME NEW a
    PROVE  Cast(a) \in CASTS
<1>1. CASE a \in {"broadcast", "multicast"}
  BY <1>1 DEF Cast, CASTS
<1>2. CASE a \notin {"broadcast", "multicast"}
  <2>1. CASE a = "host" \/ (a = "alt" /\ also_use_alt_host_mac)
    BY <1>2, <2>1 DEF Cast, CASTS
  <2>2. CASE ~(a = "host" \/ (a = "alt" /\ also_use_alt_host_mac))
    BY <1>2, <2>2 DEF Cast, CASTS
  <2> QED BY <2>1, <2>2
<1> QED BY <1>1, <1>2

LEMMA TypeStep ==
    ASSUME TypeOK, RxSized, RxRoom, StatusInv, SourceInv, ReadInv,
           NEW w, Presents(w), NEW ready \in BOOLEAN, EngineEdge(w, ready)
    PROVE  TypeOK'
<1> USE DEF EngineEdge, RxEngine
<1>1. w = <<>> \/ (w # <<>> /\ w[1] \in Word)
  BY MaybeSeq DEF Presents
<1>2. w # <<>> => /\ w[1].pkt.macd \in MACS /\ w[1].eop \in BOOLEAN
                  /\ w[1].crc_err \in BOOLEAN /\ w[1].size \in Nat
  <2> HAVE w # <<>>
  <2>1. w[1].pkt \in PACKETS /\ w[1].eop \in BOOLEAN
        /\ w[1].crc_err \in BOOLEAN /\ w[1].size \in Nat
    BY <1>1 DEF Word
  <2> QED BY <2>1, PacketFacts
<1>3. /\ rx_fifo' \in Seq(Word) /\ stat_fifo' \in Seq(Status)
      /\ rx_fifo_full' \in BOOLEAN
  BY EngineMoves DEF RxFifos, AlmostFullNext, FifoFull
<1>4. rxsfifo_wen_delay' \in Seq(BOOLEAN) /\ Len(rxsfifo_wen_delay') = 5
  BY DelayStep
<1>5. crcerr_dl' \in BOOLEAN /\ pktlen_dl' \in Nat
  BY <1>2 DEF StatusRegisters, pkt_eop, en, TypeOK
<1>6. data_pos_0' \in BOOLEAN /\ macd' \in MACS \cup {"none"}
  BY <1>2 DEF L2Parser, en, macd_bits, TypeOK, MACS
<1>7. eop_d1' \in BOOLEAN /\ head_lock_macd' \in MACS \cup {"none"}
  BY <1>2 DEF HeadLock, pkt_eop, en, TypeOK
<1>8. cast' \in CASTS /\ runt' \in BOOLEAN /\ oversize' \in BOOLEAN
  BY CastType DEF L2Classer
<1>9. rx_d1' \in Maybe(Word)
  <2>1. Reads = 1 => rx_fifo[1] \in Word
    BY StageFacts DEF TypeOK
  <2> QED BY <2>1, StageFacts, InMaybe DEF Maybe
<1>10. rx_dir_d1' \in {"CPU", "DROP"}
  BY DEF Stages, rx_dir, TypeOK
<1>11. rx_dmx' \in Maybe(Word) /\ written' \in Maybe(Word)
  <2>1. <<>> \in Maybe(Word)
    BY DEF Maybe
  <2>2. rx_dmx' = IF ToCpu THEN rx_d1 ELSE <<>>
    BY StageFacts
  <2> QED BY <2>1, <2>2 DEF RxCpu, TypeOK
<1>12. /\ cpu_fifo' \in Seq(Word) /\ Len(cpu_fifo') <= CPU_WORDS
       /\ cpu_almost_full' \in BOOLEAN /\ cpu_wremptyw' \in Nat
  <2> DEFINE q == cpu_fifo
             full == AlmostFullNext(q, CPU_WORDS, CPU_SAFE_WORDS)
  <2>1. q \in Seq(Word) /\ Len(q) \in Nat /\ Len(q) <= CPU_WORDS
    BY DEF TypeOK
  <2>2. rx_dmx \in Seq(Word) /\ Len(rx_dmx) <= 1
    <3>1. rx_dmx \in Seq(Word) /\ Len(rx_dmx) = IF rx_dmx = <<>> THEN 0 ELSE 1
      BY MaybeSeq DEF TypeOK
    <3> QED BY <3>1
  <2>3. cpu_fifo' = FifoEdge(q, CPU_WORDS, rx_dmx, ready)
    BY DEF RxCpu
  <2>4. cpu_fifo' \in Seq(Word) /\ Len(cpu_fifo') <= CPU_WORDS
    BY <2>1, <2>2, <2>3, SizeFacts, FifoEdgeType
  <2>5. cpu_almost_full' = full /\ full \in BOOLEAN
    BY DEF RxCpu, AlmostFullNext, FifoFull
  <2>6. cpu_wremptyw' = IF full THEN 0
            ELSE ALMOST_FULL_WORDS(CPU_WORDS, CPU_SAFE_WORDS)
                     - pkt_fifo_wrusedw(q, CPU_WORDS)
    BY DEF RxCpu, EmptyWordsNext
  <2>7. CPU_WORDS \in Nat \ {0} /\ CPU_SAFE_WORDS \in Nat
    BY SizeFacts
  <2>8. CASE full
    BY <2>4, <2>5, <2>6, <2>8
  <2>9. CASE ~full
    <3>1. /\ Len(q) <= CPU_WORDS - 1 - CPU_SAFE_WORDS
          /\ pkt_fifo_wrusedw(q, CPU_WORDS) = Len(q)
      BY <2>1, <2>7, <2>9, AlmostFullFacts
    <3>2. cpu_wremptyw' = (CPU_WORDS - 1 - CPU_SAFE_WORDS) - Len(q)
      BY <2>6, <2>9, <3>1 DEF ALMOST_FULL_WORDS
    <3>3. cpu_wremptyw' \in Nat
      <4> HIDE DEF q
      <4> QED BY <2>1, <2>7, <3>1, <3>2
    <3> QED BY <2>4, <2>5, <3>3
  <2> QED BY <2>8, <2>9
<1>13. /\ src' \in Maybe([pkt : PACKETS, sent : Nat, whole : BOOLEAN])
       /\ gap' \in 1 .. MIN_EOP_GAP
  BY SourceStep
<1> QED BY <1>3, <1>4, <1>5, <1>6, <1>7, <1>8, <1>9, <1>10, <1>11, <1>12,
           <1>13 DEF TypeOK


\* What is about to be written for the processor follows what was written.
LEMMA CpuGetsStep ==
    ASSUME TypeOK, RxSized, StatusInv, CpuInv, Stages,
           NEW ready, RxCpu(ready)
    PROVE  CpuGetsPackets'
<1>1. rx_dmx' = IF ToCpu THEN rx_d1 ELSE <<>>
  BY StageFacts
<1>2. written' = LastOut
  BY DEF RxCpu, LastOut
<1>3. CASE ~ToCpu
  <2>1. rx_dmx' = <<>>
    BY <1>1, <1>3
  <2> QED BY <2>1 DEF CpuGetsPackets, Range
<1>4. CASE ToCpu
  <2> DEFINE w == rx_d1[1]
  <2>1. rx_d1 # <<>> /\ rx_d1 = <<w>>
    BY <1>4, MaybeSeq DEF ToCpu, TypeOK
  <2>2. rx_dmx' = <<w>>
    BY <1>1, <1>4, <2>1
  <2>3. IF LastOut = <<>> \/ LastOut[1].eop THEN w.i = 1
        ELSE w.pkt = LastOut[1].pkt /\ w.i = LastOut[1].i + 1
    BY <1>4 DEF CpuInv, Same
  <2>4. w.eop => w.whole /\ Wanted(w)
    BY <1>4 DEF CpuInv
  <2> HIDE DEF w
  <2>5. Range(rx_dmx)' = {w}
    BY <2>2 DEF Range
  <2> QED BY <1>2, <2>3, <2>4, <2>5 DEF CpuGetsPackets, sop, Wanted
<1> QED BY <1>3, <1>4


\* After a reset nothing is stored or known, and of a packet under way only
\* the rest is to come.
Cleared ==
    /\ EngineReset
    /\ src \in Maybe([pkt : PACKETS, sent : Nat, whole : BOOLEAN])
    /\ gap \in 1 .. MIN_EOP_GAP
    /\ SourceInv
    /\ src # <<>> => ~src[1].whole

LEMMA ClearedInv == Cleared => IInv /\ CpuRoom /\ CpuGetsPackets
<1> SUFFICES ASSUME Cleared PROVE IInv /\ CpuRoom /\ CpuGetsPackets
  OBVIOUS
<1> USE DEF Cleared, EngineReset
<1>1. TypeOK
  <2>1. /\ rx_d1 \in Maybe(Word) /\ rx_dmx \in Maybe(Word)
        /\ written \in Maybe(Word)
    BY DEF Maybe
  <2>2. rxsfifo_wen_delay \in Seq(BOOLEAN) /\ Len(rxsfifo_wen_delay) = 5
    OBVIOUS
  <2>3. /\ rx_fifo \in Seq(Word) /\ stat_fifo \in Seq(Status)
        /\ cpu_fifo \in Seq(Word) /\ Len(cpu_fifo) <= CPU_WORDS
    BY SizeFacts
  <2>4. /\ rx_fifo_full \in BOOLEAN /\ crcerr_dl \in BOOLEAN
        /\ pktlen_dl \in Nat /\ data_pos_0 \in BOOLEAN /\ eop_d1 \in BOOLEAN
        /\ macd \in MACS \cup {"none"} /\ head_lock_macd \in MACS \cup {"none"}
        /\ cast \in CASTS /\ runt \in BOOLEAN /\ oversize \in BOOLEAN
        /\ rx_dir_d1 \in {"CPU", "DROP"}
        /\ cpu_almost_full \in BOOLEAN /\ cpu_wremptyw \in Nat
    BY DEF CASTS
  <2> QED BY <2>1, <2>2, <2>3, <2>4 DEF TypeOK
<1>2. SourceInv /\ ParserInv
  BY DEF ParserInv
<1>3. QueueInv /\ TailInv /\ ReadInv
  BY DEF QueueInv, TailInv, ReadInv
<1>4. StatusInv
  <2> DEFINE pos == [k \in 1 .. 0 |-> 0]
  <2>1. \A g \in 1 .. 5 : ~rxsfifo_wen_delay[g]
    <3> DEFINE d == <<FALSE, FALSE, FALSE, FALSE, FALSE>>
    <3>1. rxsfifo_wen_delay = d
      OBVIOUS
    <3>2. ~d[1] /\ ~d[2] /\ ~d[3] /\ ~d[4] /\ ~d[5]
      OBVIOUS
    <3> HIDE DEF d
    <3>3. \A g \in 1 .. 5 : g = 1 \/ g = 2 \/ g = 3 \/ g = 4 \/ g = 5
      OBVIOUS
    <3> QED BY <3>1, <3>2, <3>3
  <2>2. NumEnds = 0 /\ Len(stat_fifo) = 0 /\ Len(rx_fifo) = 0
    BY <2>1 DEF NumEnds, Pending
  <2>3. Numbered(pos)
    BY <2>2 DEF Numbered, Numbers
  <2>4. Judged(pos) /\ StatusComes(pos) /\ Drained(pos)
    BY <2>1, <2>2 DEF Judged, StatusComes, Drained
  <2> QED BY <2>3, <2>4 DEF StatusInv
<1>5. RxRoom
  BY SizeFacts DEF RxRoom, Backlogs
<1>6. CpuInv /\ CpuRoom
  BY SizeFacts DEF CpuInv, CpuRoom, ToCpu, LastOut
<1>7. CpuGetsPackets
  BY DEF CpuGetsPackets, Range
<1> QED BY <1>1, <1>2, <1>3, <1>4, <1>5, <1>6, <1>7 DEF IInv

LEMMA InitCleared == Init => Cleared
<1> SUFFICES ASSUME Init PROVE Cleared
  OBVIOUS
<1>1. <<>> \in Maybe([pkt : PACKETS, sent : Nat, whole : BOOLEAN])
  BY DEF Maybe
<1> QED BY <1>1, SizeFacts DEF Init, Cleared, SourceInv

LEMMA ResetCleared == ASSUME TypeOK, SourceInv, Reset PROVE Cleared'
<1>1. PICK w \in {<<>>} \cup Starts \cup Continues \cup Ends \cup ForcedEnds :
         /\ gap' = IF w # <<>> /\ w[1].eop THEN 1
                   ELSE IF gap < MIN_EOP_GAP THEN gap + 1 ELSE gap
         /\ src' = IF w = <<>>
                   THEN IF src = <<>> THEN <<>>
                        ELSE <<[src[1] EXCEPT !.whole = FALSE]>>
                   ELSE IF w[1].eop THEN <<>>
                   ELSE <<[pkt |-> w[1].pkt, sent |-> w[1].i,
                           whole |-> FALSE]>>
  BY DEF Reset
<1>2. Presents(w)
  BY SourcePresents
<1>3. gap' \in 1 .. MIN_EOP_GAP
  <2>1. /\ gap \in 1 .. MIN_EOP_GAP
        /\ MIN_EOP_GAP \in Nat /\ MIN_EOP_GAP >= 6
    BY SizeFacts DEF TypeOK
  <2>2. gap' = 1 \/ gap' = gap \/ (gap < MIN_EOP_GAP /\ gap' = gap + 1)
    BY <1>1
  <2> QED BY <2>1, <2>2
<1>8. w = <<>> \/ ~w[1].eop =>
         gap' = IF gap < MIN_EOP_GAP THEN gap + 1 ELSE gap
  BY <1>1
<1>4. EngineReset'
  BY DEF Reset, EngineClear, EngineReset
<1> DEFINE S == [pkt : PACKETS, sent : Nat, whole : BOOLEAN]
<1>5. CASE src' = <<>>
  BY <1>3, <1>4, <1>5 DEF Cleared, SourceInv, Maybe
<1>6. CASE w = <<>> /\ src # <<>>
  <2>1. src[1] \in S /\ src[1].sent >= 1 /\ src[1].sent < NumWords(src[1].pkt)
    BY <1>6, SourceFacts
  <2> DEFINE s == [src[1] EXCEPT !.whole = FALSE]
  <2>2. s \in S /\ s.sent = src[1].sent /\ s.pkt = src[1].pkt /\ ~s.whole
    BY <2>1
  <2>3. src' = <<s>>
    BY <1>1, <1>6
  <2> HIDE DEF s
  <2>4. src' \in Maybe(S) /\ src'[1] = s
    BY <2>2, <2>3, InMaybe
  <2>5. gap' < MIN_EOP_GAP => s.sent < gap'
    <3>1. gap < MIN_EOP_GAP => src[1].sent < gap
      BY <1>6 DEF SourceInv
    <3>2. gap \in Nat /\ MIN_EOP_GAP \in Nat /\ src[1].sent \in Nat
      BY <2>1, SizeFacts DEF TypeOK
    <3> QED BY <1>6, <1>8, <2>2, <3>1, <3>2
  <2> QED BY <2>1, <2>2, <2>4, <2>5, <1>3, <1>4 DEF Cleared, SourceInv
<1>7. CASE w # <<>> /\ ~w[1].eop
  <2>1. w[1] \in Word /\ w[1].i >= 1 /\ w[1].i < NumWords(w[1].pkt)
    BY <1>2, <1>7, MaybeSeq DEF Presents, WordOK
  <2> DEFINE s == [pkt |-> w[1].pkt, sent |-> w[1].i, whole |-> FALSE]
  <2>2. s \in S /\ s.sent = w[1].i /\ s.pkt = w[1].pkt /\ ~s.whole
    BY <2>1 DEF Word
  <2>3. src' = <<s>>
    BY <1>1, <1>7
  <2> HIDE DEF s
  <2>4. src' \in Maybe(S) /\ src'[1] = s
    BY <2>2, <2>3, InMaybe
  <2>5. gap' < MIN_EOP_GAP => s.sent < gap'
    BY <1>2, <1>7, <1>8, <2>2, SentSince
  <2> QED BY <2>1, <2>2, <2>4, <2>5, <1>3, <1>4 DEF Cleared, SourceInv
<1> QED BY <1>1, <1>5, <1>6, <1>7

\* Every step keeps the invariant, the room at the processor, and what the
\* processor gets.
LEMMA StepInv ==
    ASSUME RxSized, IInv, [Next]_vars
    PROVE  IInv' /\ (CpuSized /\ CpuRoom => CpuRoom')
           /\ (CpuGetsPackets => CpuGetsPackets')
<1> USE DEF IInv
<1>1. ASSUME NEW w, NEW ready \in BOOLEAN, Presents(w), EngineEdge(w, ready)
      PROVE  IInv' /\ (CpuSized /\ CpuRoom => CpuRoom') /\ CpuGetsPackets'
  <2>1. /\ SourceEdge(w) /\ L2Parser(w) /\ HeadLock(w) /\ L2Classer
        /\ StatusRegisters(w) /\ RxFifos(w) /\ Stages /\ RxCpu(ready)
    BY <1>1 DEF EngineEdge, RxEngine
  <2>2. TypeOK'
    BY <1>1, TypeStep
  <2>3. SourceInv'
    BY <1>1, <2>1, SourceStep
  <2>4. ParserInv'
    BY <1>1, <2>1, ParserStep
  <2>5. /\ rx_fifo' \in Seq(Word) /\ Reads \in {0, 1}
        /\ Moves(rx_fifo, rx_fifo', Reads, Len(w))
        /\ w # <<>> => rx_fifo'[Len(rx_fifo')] = w[1]
    BY <1>1, <2>1, EngineMoves DEF Reads
  <2>6. QueueInv'
    BY <1>1, <2>5, QueueStep
  <2>7. TailInv'
    BY <1>1, <2>1, <2>5, TailStep
  <2>8. ReadInv'
    BY <1>1, <2>1, ReadStep
  <2>9. RxRoom'
    <3> PICK pos : /\ Numbered(pos) /\ Judged(pos) /\ StatusComes(pos)
                   /\ Drained(pos)
      BY DEF StatusInv
    <3> QED BY <1>1, <2>1, RxRoomStep
  <2>10. StatusInv'
    BY <1>1, <2>1, <2>9, StatusStep
  <2>11. CpuInv'
    BY <1>1, <2>1, CpuStep
  <2>12. CpuSized /\ CpuRoom => CpuRoom'
    BY <1>1, <2>1, CpuRoomStep
  <2>13. CpuGetsPackets'
    BY <1>1, <2>1, CpuGetsStep
  <2> QED BY <2>2, <2>3, <2>4, <2>6, <2>7, <2>8, <2>9, <2>10, <2>11, <2>12,
             <2>13
<1>2. CASE Next
  <2>1. CASE Reset
    <3>1. Cleared'
      BY <2>1, ResetCleared
    <3>2. Cleared' => (IInv /\ CpuRoom /\ CpuGetsPackets)'
      BY ClearedInv, PTL
    <3> QED BY <3>1, <3>2
  <2>2. CASE ~Reset
    BY <1>1, <1>2, <2>2, NextIsEdge
  <2> QED BY <2>1, <2>2
<1>3. CASE UNCHANGED vars
  <2> USE <1>3 DEF vars, rxVars, dirVars, cpuVars
  <2>1. TypeOK' /\ SourceInv' /\ ParserInv'
    BY DEF TypeOK, SourceInv, ParserInv
  <2>2. QueueInv' /\ TailInv' /\ ReadInv'
    BY DEF QueueInv, TailInv, ReadInv, AtStart
  <2>3. StatusInv'
    BY DEF StatusInv, Numbered, Judged, StatusComes, Drained, NumEnds,
           Pending, SinceStatus
  <2>4. RxRoom' /\ CpuInv'
    BY DEF RxRoom, CpuInv, ToCpu, LastOut, FirstEnd
  <2>5. CpuRoom => CpuRoom'
    BY DEF CpuRoom, ToCpu, FirstEnd, Level
  <2>6. CpuGetsPackets => CpuGetsPackets'
    BY DEF CpuGetsPackets
  <2> QED BY <2>1, <2>2, <2>3, <2>4, <2>5, <2>6
<1> QED BY <1>2, <1>3


-----------------------------------------------------------------------------
(* The theorems. *)

\* What holds in every reachable state, whatever the sizes, the limits, the
\* mode of the NIC and the packets: IInv.
THEOREM TrafInvariant == RxSized => (Spec => []IInv)
<1> SUFFICES ASSUME RxSized PROVE Spec => []IInv
  OBVIOUS
<1>1. Init => IInv
  BY InitCleared, ClearedInv
<1>2. IInv /\ [Next]_vars => IInv'
  BY StepInv
<1> QED BY <1>1, <1>2, PTL DEF Spec

\* The processor gets whole packets and only those it wants (rx_dir_resolver.sv
\* and the stages of mx_traf_engine.sv): in what is written for it, a packet
\* starts where one has ended, goes on word by word, and ends as one that began
\* after the last reset, without a CRC error, within the limits of length and
\* for one of the host's addresses.
THEOREM TrafCpuGetsPackets == RxSized => (Spec => []CpuGetsPackets)
<1> SUFFICES ASSUME RxSized PROVE Spec => []CpuGetsPackets
  OBVIOUS
<1>1. Init => IInv /\ CpuGetsPackets
  BY InitCleared, ClearedInv
<1>2. IInv /\ CpuGetsPackets /\ [Next]_vars => IInv' /\ CpuGetsPackets'
  BY StepInv
<1> QED BY <1>1, <1>2, PTL DEF Spec

\* Nothing is lost in a full FIFO (rx_engine.v, rx_cpu.sv): what was stored last
\* is what came last, a status finds room in the status FIFO, and a word that
\* goes to the processor finds room in its packet FIFO, although almost_full and
\* wremptyw are one cycle old when they are looked at and the end of a packet is
\* not held back by them.
THEOREM TrafFifosNotOverrun ==
    RxSized /\ CpuSized => (Spec => []FifosNotOverrun)
<1> SUFFICES ASSUME RxSized, CpuSized PROVE Spec => []FifosNotOverrun
  OBVIOUS
<1>1. Init => IInv /\ CpuRoom
  BY InitCleared, ClearedInv
<1>2. IInv /\ CpuRoom /\ [Next]_vars => IInv' /\ CpuRoom'
  BY StepInv
<1>3. IInv /\ CpuRoom => FifosNotOverrun
  <2> SUFFICES ASSUME IInv, CpuRoom PROVE FifosNotOverrun
    OBVIOUS
  <2>1. rx_fifo # <<>> => IF src = <<>> THEN Last(rx_fifo).eop
                          ELSE Last(rx_fifo).i = src[1].sent
                               /\ ~Last(rx_fifo).eop
    <3>1. Last(rx_fifo) = rx_fifo[Len(rx_fifo)]
      BY DEF Last
    <3> QED BY <3>1 DEF IInv, TailInv
  <2>2. ~(rxsfifo_wen_dl /\ FifoFull(stat_fifo, STAT_WORDS))
    <3>1. PICK pos : Numbered(pos) /\ StatusComes(pos) /\ Drained(pos)
      BY DEF IInv, StatusInv
    <3>2. rxsfifo_wen_dl => Len(stat_fifo) < STAT_WORDS
      BY <3>1, StatusFacts DEF IInv
    <3> QED BY <3>2, SizeFacts DEF FifoFull
  <2>3. ~(rx_dmx # <<>> /\ FifoFull(cpu_fifo, CPU_WORDS))
    <3>1. Len(rx_dmx) = (IF rx_dmx = <<>> THEN 0 ELSE 1)
      BY MaybeSeq DEF IInv, TypeOK
    <3>2. Len(cpu_fifo) + Len(rx_dmx) <= CPU_WORDS
      BY DEF CpuRoom
    <3> QED BY <3>1, <3>2, SizeFacts DEF FifoFull
  <2> QED BY <2>1, <2>2, <2>3 DEF FifosNotOverrun
<1> QED BY <1>1, <1>2, <1>3, PTL DEF Spec

\* The k-th of the ends that are numbered has k of them up to its place.
LEMMA CountEnds ==
    ASSUME NEW q \in Seq(Word), NEW m \in Nat, NEW pos, Numbers(pos, q, m),
           NEW k \in 0 .. m, NEW n \in Nat,
           k > 0 => pos[k] <= n, \A a \in k + 1 .. m : pos[a] > n
    PROVE  Cardinality({e \in DOMAIN q : q[e].eop} \cap 1 .. n) = k
<1> DEFINE S == {e \in DOMAIN q : q[e].eop} \cap 1 .. n
           f == [a \in 1 .. k |-> pos[a]]
<1>1. /\ \A a \in 1 .. m : pos[a] \in 1 .. Len(q) /\ q[pos[a]].eop
      /\ \A a \in 1 .. m, b \in 1 .. m : a < b => pos[a] < pos[b]
      /\ \A j \in 1 .. Len(q) : q[j].eop => \E a \in 1 .. m : pos[a] = j
  BY DEF Numbers
<1>2. DOMAIN q = 1 .. Len(q) /\ Len(q) \in Nat
  OBVIOUS
<1>3. \A a \in 1 .. k : a \in 1 .. m /\ pos[a] \in S
  <2> TAKE a \in 1 .. k
  <2>1. a \in 1 .. m /\ k \in 1 .. m /\ k > 0
    OBVIOUS
  <2>2. pos[a] \in 1 .. Len(q) /\ pos[k] \in 1 .. Len(q) /\ pos[a] <= pos[k]
    BY <2>1, <1>1
  <2>3. pos[a] \in 1 .. n
    BY <2>1, <2>2
  <2> QED BY <2>1, <2>2, <2>3, <1>1, <1>2
<1>4. \A j \in S : \E a \in 1 .. k : pos[a] = j
  <2> TAKE j \in S
  <2>1. j \in 1 .. Len(q) /\ q[j].eop /\ j \in Nat /\ j <= n
    BY <1>2
  <2>2. PICK a \in 1 .. m : pos[a] = j
    BY <2>1, <1>1
  <2>3. a \notin k + 1 .. m
    BY <2>1, <2>2
  <2> QED BY <2>2, <2>3
<1>5. \A a \in 1 .. k, b \in 1 .. k : pos[a] = pos[b] => a = b
  <2> SUFFICES ASSUME NEW a \in 1 .. k, NEW b \in 1 .. k, pos[a] = pos[b],
                      a # b
               PROVE  FALSE
    OBVIOUS
  <2>1. a \in 1 .. m /\ b \in 1 .. m /\ (a < b \/ b < a)
    OBVIOUS
  <2>2. pos[a] \in Int /\ (pos[a] < pos[b] \/ pos[b] < pos[a])
    BY <2>1, <1>1
  <2> QED BY <2>2
<1> HIDE DEF S
<1>6. f \in Bijection(1 .. k, S)
  BY <1>3, <1>4, <1>5 DEF Bijection, Injection, Surjection, IsInjective
<1>7. ExistsBijection(1 .. k, S)
  BY <1>6 DEF ExistsBijection
<1> QED BY <1>7, FS_CountingElements DEF S

\* The statuses are those of the packets, in their order.
LEMMA StatusMeets == ASSUME IInv PROVE StatusMeetsPacket
<1> PICK pos : Numbered(pos) /\ Judged(pos)
  BY DEF IInv, StatusInv
<1> DEFINE q == rx_fifo
           m == NumEnds
           ends == {e \in DOMAIN q : q[e].eop}
           place(e) == Cardinality(ends \cap 1 .. e)
<1>1. /\ q \in Seq(Word) /\ Len(q) \in Nat /\ DOMAIN q = 1 .. Len(q)
      /\ m \in Nat /\ Len(stat_fifo) \in Nat /\ Len(stat_fifo) <= m
  BY DEF IInv, TypeOK, NumEnds
<1>2. Numbers(pos, q, m)
  BY DEF Numbered
<1>3. /\ \A a \in 1 .. m : pos[a] \in 1 .. Len(q)
      /\ \A a \in 1 .. m, b \in 1 .. m : a < b => pos[a] < pos[b]
      /\ \A j \in 1 .. Len(q) : q[j].eop => \E a \in 1 .. m : pos[a] = j
  BY <1>2 DEF Numbers
<1>4. Cardinality(ends) = m
  <2>1. ends = ends \cap 1 .. Len(q)
    BY <1>1
  <2>2. /\ m \in 0 .. m /\ (m > 0 => pos[m] <= Len(q))
        /\ \A a \in m + 1 .. m : pos[a] > Len(q)
    BY <1>1, <1>3
  <2>3. Cardinality(ends \cap 1 .. Len(q)) = m
    <3> HIDE DEF m, q
    <3> QED BY <2>2, <1>1, <1>2, CountEnds
  <2> QED BY <2>1, <2>3
<1>5. ASSUME NEW e \in ends, place(e) <= Len(stat_fifo)
      PROVE  IsStatusOf(stat_fifo[place(e)], q[e])
  <2>1. e \in 1 .. Len(q) /\ q[e].eop /\ e \in Nat
    BY <1>1
  <2>2. PICK k \in 1 .. m : pos[k] = e
    BY <2>1, <1>3
  <2>3. /\ k \in 0 .. m /\ (k > 0 => pos[k] <= e)
        /\ \A a \in k + 1 .. m : pos[a] > e
    <3>1. \A a \in k + 1 .. m : a \in 1 .. m /\ k < a
      BY <1>1
    <3>2. \A a \in k + 1 .. m : pos[a] > e
      BY <2>2, <3>1, <1>3
    <3> QED BY <2>1, <2>2, <3>2
  <2>4. place(e) = k
    <3> HIDE DEF m, q
    <3>1. Cardinality({j \in DOMAIN q : q[j].eop} \cap 1 .. e) = k
      BY <2>1, <2>3, <1>1, <1>2, CountEnds
    <3> QED BY <3>1
  <2>5. k \in 1 .. Len(stat_fifo)
    BY <2>4, <1>1, <1>5
  <2>6. IsStatusOf(stat_fifo[k], q[pos[k]])
    BY <2>5 DEF Judged
  <2> QED BY <2>2, <2>4, <2>6
<1> QED BY <1>1, <1>4, <1>5 DEF StatusMeetsPacket

\* The direction is decided by the packet's own status.
LEMMA DirectionStep ==
    ASSUME RxSized, IInv, Stages, rx_robot_run,
           NEW e \in DOMAIN rx_fifo, FirstEnd(e)
    PROVE  LET w == rx_fifo[e]
               level == ALMOST_FULL_WORDS(CPU_WORDS, CPU_SAFE_WORDS)
           IN  IF ~Wanted(w) THEN rx_dir_d1' = "DROP"
               ELSE (/\ ~cpu_almost_full /\ cpu_wremptyw = level
                     /\ 8 * level > w.size) => rx_dir_d1' = "CPU"
<1> USE DEF IInv
<1> DEFINE w == rx_fifo[e]
           s == Head(stat_fifo)
<1>1. stat_fifo # <<>> /\ rx_fifo[1].i = 1 /\ e \in 1 .. Len(rx_fifo)
  <2>1. pkt_rx_read /\ sop(Head(rx_fifo))
    BY DEF rx_robot_run
  <2>2. Head(rx_fifo) = rx_fifo[1]
    OBVIOUS
  <2> QED BY <2>1, <2>2 DEF sop, pkt_rx_read, pkt_rx_avail, FifoEmpty, TypeOK
<1>2. PICK f \in 1 .. Len(rx_fifo) :
         /\ FirstEnd(f) /\ IsStatusOf(s, rx_fifo[f])
         /\ rx_fifo[f] \in Word /\ Same(rx_fifo[1], rx_fifo[f], f - 1)
  BY <1>1, HeadPacket
<1>3. f = e
  BY <1>1, <1>2, FirstEndUnique
<1>4. w.whole /\ w \in Word /\ IsStatusOf(s, w) /\ s \in Status
  <2>1. WordOK(rx_fifo[1])
    BY <1>1, HeadPacket
  <2> QED BY <2>1, <1>1, <1>2, <1>3, HeadIsStatus DEF WordOK, Same
<1>5. rx_dir_d1' = rx_dir(s)
  BY DEF Stages
<1> HIDE DEF w, s
<1>6. CASE ~Wanted(w)
  <2>1. rx_dir(s) # "CPU"
    BY <1>4, <1>6, DirFacts
  <2> QED BY <2>1, <1>5, <1>6 DEF rx_dir, w
<1>7. CASE Wanted(w)
  <2> SUFFICES ASSUME ~cpu_almost_full,
                      8 * cpu_wremptyw > w.size
               PROVE  rx_dir_d1' = "CPU"
    BY <1>7 DEF w
  <2>1. /\ s.crc_err = w.crc_err /\ s.pkt_size = w.size
        /\ s.runt = (w.size < FRM_LEN_MIN)
        /\ s.oversize = (w.size > FRM_LEN_MAX)
        /\ s.cast = Cast(w.pkt.macd)
    BY <1>4 DEF IsStatusOf
  <2>2. /\ ~w.crc_err /\ w.size \in FRM_LEN_MIN .. FRM_LEN_MAX
        /\ w.size <= MTU /\ Cast(w.pkt.macd) # "none"
    BY <1>7 DEF Wanted
  <2>3. ~(w.size < FRM_LEN_MIN) /\ ~(w.size > FRM_LEN_MAX)
    BY <2>2, SizeFacts
  <2>4. req_dir_cpu(s)
    BY <2>1, <2>2, <2>3 DEF req_dir_cpu, bad_pkt
  <2>5. pkt_wa(s.pkt_size)
    BY <2>1, <2>2 DEF pkt_wa, empty_bytes
  <2> QED BY <2>4, <2>5, <1>5 DEF rx_dir
<1> QED BY <1>6, <1>7

\* Every packet is judged by its own status and by nothing else (rx_engine.v,
\* rx_dir_resolver.sv): the statuses are those of the packets in rx_fifo in
\* their order, and when the first word of a packet leaves, the packet is
\* dropped if it is not wanted and kept if it is wanted and known to fit.
THEOREM TrafPacketsAreJudged == RxSized => (Spec => PacketsAreJudged)
<1> SUFFICES ASSUME RxSized PROVE Spec => PacketsAreJudged
  OBVIOUS
<1> DEFINE Direction ==
       rx_robot_run /\ rx_d1' # <<>> =>
         \A e \in DOMAIN rx_fifo : FirstEnd(e) =>
            LET w     == rx_fifo[e]
                level == ALMOST_FULL_WORDS(CPU_WORDS, CPU_SAFE_WORDS)
            IN  IF ~Wanted(w) THEN rx_dir_d1' = "DROP"
                ELSE (/\ ~cpu_almost_full /\ cpu_wremptyw = level
                      /\ 8 * level > w.size) => rx_dir_d1' = "CPU"
<1>1. IInv => StatusMeetsPacket
  BY StatusMeets
<1>2. IInv /\ [Next]_vars => [Direction]_vars
  <2> SUFFICES ASSUME IInv, Next PROVE Direction
    OBVIOUS
  <2>1. CASE Reset
    <3>1. rx_d1' = <<>>
      BY <2>1 DEF Reset, EngineClear
    <3> QED BY <3>1
  <2>2. CASE ~Reset
    <3>1. Stages
      BY <2>2, NextIsEdge DEF IInv, EngineEdge
    <3> QED BY <3>1, DirectionStep
  <2> QED BY <2>1, <2>2
<1> HIDE DEF Direction
<1>3. Spec => [][StatusMeetsPacket']_vars
  BY <1>1, TrafInvariant, PTL DEF Spec
<1>4. Spec => [][Direction]_vars
  BY <1>2, TrafInvariant, PTL DEF Spec
<1> QED BY <1>3, <1>4 DEF PacketsAreJudged, DirectionIsRight, Direction
=============================================================================
