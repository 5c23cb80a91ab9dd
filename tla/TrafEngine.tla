----------------------------- MODULE TrafEngine -----------------------------
(***************************************************************************)
(* The receiving half of mx_traf_engine.sv: rx_engine.v stores a packet    *)
(* and, beside it, classifies it; when its status is there the packet is   *)
(* taken out, rx_dir_resolver.sv decides where it goes, and it is dropped  *)
(* or stored in rx_cpu.sv for the processor.  All of it has one clock.     *)
(*                                                                         *)
(* Packets come from conv_1G_rx_arb.v (GmiiRxArb): two words or more, the  *)
(* end forced and marked where it is missing or there is no room.  It has  *)
(* no reset, so that a reset here leaves the rest of a packet to come.     *)
(***************************************************************************)
EXTENDS EthPktFifo, SequencesExt

CONSTANTS
    RX_WORDS, RX_SAFE_WORDS,     \* of rx_fifo
    STAT_WORDS,                  \* of rx_stat_fifo
    CPU_WORDS, CPU_SAFE_WORDS,   \* of the packet FIFO of rx_cpu
    FRM_LEN_MIN, FRM_LEN_MAX,    \* of trafclasser
    MTU, NIC_MODE,               \* registers of the host
    PACKETS,                     \* [macd, len]: len counts the CRC
    MIN_EOP_GAP                  \* cycles between the ends of two packets

MACS == {"broadcast", "multicast", "host", "alt", "other"}

\* The words that carry a packet; its CRC is not among them.
NumWords(pkt) == (pkt.len + 3) \div 8

\* A status takes six cycles to be written, and the registers it is made of
\* belong to one packet at a time: that is MIN_EOP_GAP.  The clock has 62.5 MHz:
\* the shortest frame takes 42 cycles, the shortest the MAC lets by 7 or more.
ASSUME TrafEngineAssumption ==
    /\ RX_SAFE_WORDS \in Nat /\ RX_WORDS \in Nat /\ RX_SAFE_WORDS < RX_WORDS
    /\ CPU_SAFE_WORDS \in Nat /\ CPU_WORDS \in Nat
    /\ CPU_SAFE_WORDS < CPU_WORDS
    /\ STAT_WORDS \in Nat \ {0} /\ MIN_EOP_GAP \in Nat /\ MIN_EOP_GAP >= 6
    /\ FRM_LEN_MIN \in Nat /\ FRM_LEN_MAX \in Nat /\ MTU \in Nat
    /\ NIC_MODE \in {0, 2, 3}
    /\ PACKETS \subseteq [macd : MACS, len : Nat]
    /\ \A pkt \in PACKETS : NumWords(pkt) >= 2

VARIABLES
    rx_fifo, rx_fifo_full,             \* rx_engine: the packets
    rxsfifo_wen_delay,                 \* five bits, the last one is _dl
    crcerr_dl, pktlen_dl,
    data_pos_0, macd, eop_d1,          \* l2_parser; macd "none": not enabled
    head_lock_macd,
    cast, runt, oversize,              \* l2_classer
    stat_fifo,
    rx_d1, rx_dir_d1, rx_dmx,          \* mx_traf_engine: two stages, a mask
    cpu_fifo, cpu_almost_full, cpu_wremptyw,   \* rx_cpu
    src,         \* what of a packet has been presented: <<>> or one record
    gap,         \* cycles since the last end of a packet, up to MIN_EOP_GAP
    written      \* history: the last word written to cpu_fifo, if any

rxVars == <<rx_fifo, rx_fifo_full, rxsfifo_wen_delay, crcerr_dl, pktlen_dl,
            data_pos_0, macd, eop_d1, head_lock_macd, cast, runt, oversize,
            stat_fifo>>
dirVars == <<rx_d1, rx_dir_d1, rx_dmx>>
cpuVars == <<cpu_fifo, cpu_almost_full, cpu_wremptyw>>
vars == <<rxVars, dirVars, cpuVars, src, gap, written>>

-----------------------------------------------------------------------------
(* The source.  A word says where it belongs: i counts the words of pkt;    *)
(* whole is a note for the properties: the packet began after the reset.    *)

Word == [pkt : PACKETS, i : Nat, eop : BOOLEAN, crc_err : BOOLEAN,
         size : Nat, whole : BOOLEAN]

sop(w) == w.i = 1

NextWord(s, eop, crc_err, size) ==
    [pkt |-> s.pkt, i |-> s.sent + 1, eop |-> eop, crc_err |-> crc_err,
     size |-> size, whole |-> s.whole]

Idle == {<<>>}

\* A packet begins, and goes on, only while the engine has room.
Starts == {<<NextWord([pkt |-> pkt, sent |-> 0, whole |-> TRUE],
                      FALSE, FALSE, 0)>> : pkt \in {p \in PACKETS :
                                             src = <<>> /\ ~rx_fifo_full}}

Continues == {<<NextWord(s, FALSE, FALSE, 0)>> : s \in {t \in Range(src) :
                 t.sent + 1 < NumWords(t.pkt) /\ ~rx_fifo_full}}

Ends == {<<NextWord(s, TRUE, crc_err, s.pkt.len)>> : crc_err \in BOOLEAN,
             s \in {t \in Range(src) : /\ t.sent + 1 = NumWords(t.pkt)
                                       /\ gap = MIN_EOP_GAP}}

\* The arbiter ends the packet itself; pkt_len counts the word as full.
ForcedEnds == {<<NextWord(s, TRUE, TRUE, 8 * (s.sent + 1) + 4)>> :
                 s \in {t \in Range(src) : gap = MIN_EOP_GAP}}

\* What is left to come after the words w of this cycle.
SourceEdge(w) ==
    /\ src' = IF w = <<>> THEN src
              ELSE IF w[1].eop THEN <<>>
              ELSE <<[pkt |-> w[1].pkt, sent |-> w[1].i,
                      whole |-> w[1].whole]>>
    /\ gap' = IF w # <<>> /\ w[1].eop THEN 1
              ELSE IF gap < MIN_EOP_GAP THEN gap + 1 ELSE gap

-----------------------------------------------------------------------------
(* rx_engine.v.  w is no word or the word of this cycle. *)

en(w) == w # <<>>
pkt_eop(w) == en(w) /\ w[1].eop

\* Six bytes of payload where the address would be: they may well look like
\* the host's.
macd_bits(word) == IF sop(word) THEN word.pkt.macd ELSE "host"

\* l2_parser.v: the address is in the first word after an end or a reset.
L2Parser(w) ==
    /\ data_pos_0' = IF en(w) THEN w[1].eop ELSE data_pos_0
    /\ macd' = IF ~en(w) THEN macd
               ELSE IF w[1].eop THEN "none"
               ELSE IF data_pos_0 THEN macd_bits(w[1]) ELSE macd

HeadLock(w) ==
    /\ eop_d1' = pkt_eop(w)
    /\ head_lock_macd' = IF pkt_eop(w) /\ ~eop_d1 THEN macd
                         ELSE head_lock_macd

also_use_alt_host_mac == NIC_MODE \in {2, 3}

Cast(address) ==
    CASE address \in {"broadcast", "multicast"} -> address
      [] address = "host" \/ (address = "alt" /\ also_use_alt_host_mac) ->
            "usercast"
      [] OTHER -> "none"

\* l2_classer.v
L2Classer ==
    /\ cast' = Cast(head_lock_macd)
    /\ runt' = (pktlen_dl < FRM_LEN_MIN)
    /\ oversize' = (pktlen_dl > FRM_LEN_MAX)

\* Mutant: the write request is delayed by one cycle only.
wenAfterOne == rxsfifo_wen_delay[1]

rxsfifo_wen_dl == rxsfifo_wen_delay[5]

\* Writing the status clears them, even when a packet ends.
StatusRegisters(w) ==
    /\ rxsfifo_wen_delay' = <<pkt_eop(w)>> \o SubSeq(rxsfifo_wen_delay, 1, 4)
    /\ crcerr_dl' = IF rxsfifo_wen_dl THEN FALSE
                    ELSE IF pkt_eop(w) THEN w[1].crc_err ELSE crcerr_dl
    /\ pktlen_dl' = IF rxsfifo_wen_dl THEN 0
                    ELSE IF pkt_eop(w) THEN w[1].size ELSE pktlen_dl

rxsfifo_wdata == [cast |-> cast, crc_err |-> crcerr_dl, runt |-> runt,
                  oversize |-> oversize, pkt_size |-> pktlen_dl]

pkt_rx_avail == ~FifoEmpty(stat_fifo)

\* pkt_rx_avail and the ready of the stages behind, which is always there.
pkt_rx_read == ~FifoEmpty(rx_fifo) /\ pkt_rx_avail

\* Mutant: the status is taken with the start of its packet.
rdReqAtSop == pkt_rx_read /\ sop(Head(rx_fifo))

rxsfifo_rd_req == pkt_rx_read /\ Head(rx_fifo).eop

RxFifos(w) ==
    /\ rx_fifo' = FifoEdge(rx_fifo, RX_WORDS, w, pkt_rx_read)
    /\ rx_fifo_full' = AlmostFullNext(rx_fifo, RX_WORDS, RX_SAFE_WORDS)
    /\ stat_fifo' = FifoEdge(stat_fifo, STAT_WORDS,
                             IF rxsfifo_wen_dl THEN <<rxsfifo_wdata>>
                                               ELSE <<>>, rxsfifo_rd_req)

RxEngine(w) == /\ L2Parser(w) /\ HeadLock(w) /\ L2Classer
               /\ StatusRegisters(w) /\ RxFifos(w)

-----------------------------------------------------------------------------
(* rx_dir_resolver.sv, the stages of mx_traf_engine.sv, and rx_cpu.sv. *)

\* Mutant: whatever its length, a packet is taken until the level is reached.
pktWaUntilLevel(pkt_size) == ~cpu_almost_full

pkt_wa(pkt_size) == /\ ~cpu_almost_full
                    /\ empty_bytes(cpu_wremptyw) > pkt_size
                    /\ pkt_size <= MTU

bad_pkt(status) == status.crc_err \/ status.runt \/ status.oversize

req_dir_cpu(status) == status.cast # "none" /\ ~bad_pkt(status)

rx_dir(status) == IF req_dir_cpu(status) /\ pkt_wa(status.pkt_size)
                  THEN "CPU" ELSE "DROP"

\* Mutant: decided anew for every word.
robotRunEachWord == pkt_rx_read

rx_robot_run == pkt_rx_read /\ sop(Head(rx_fifo))

\* The stage that delays the packet until the direction is known, and the
\* one behind the demultiplexer; what goes to DROP is nobody's.
Stages ==
    /\ rx_d1' = IF pkt_rx_read THEN <<Head(rx_fifo)>> ELSE <<>>
    /\ rx_dir_d1' = IF rx_robot_run THEN rx_dir(Head(stat_fifo))
                                    ELSE rx_dir_d1
    /\ rx_dmx' = IF rx_dir_d1 = "CPU" THEN rx_d1 ELSE <<>>

\* ready is netdma's; the FIFO itself takes a word in every cycle.
RxCpu(ready) ==
    /\ cpu_fifo' = FifoEdge(cpu_fifo, CPU_WORDS, rx_dmx, ready)
    /\ cpu_almost_full' = AlmostFullNext(cpu_fifo, CPU_WORDS, CPU_SAFE_WORDS)
    /\ cpu_wremptyw' = EmptyWordsNext(cpu_fifo, CPU_WORDS, CPU_SAFE_WORDS)
    /\ written' = IF rx_dmx # <<>> THEN rx_dmx ELSE written

-----------------------------------------------------------------------------
(* Resets, clock edges and the specification. *)

EngineReset ==
    /\ rx_fifo = <<>> /\ rx_fifo_full = FALSE /\ stat_fifo = <<>>
    /\ rxsfifo_wen_delay = <<FALSE, FALSE, FALSE, FALSE, FALSE>>
    /\ crcerr_dl = FALSE /\ pktlen_dl = 0
    /\ data_pos_0 = TRUE /\ macd = "none" /\ eop_d1 = FALSE
    /\ head_lock_macd = "none"
    /\ cast = "none" /\ runt = FALSE /\ oversize = FALSE
    /\ rx_d1 = <<>> /\ rx_dir_d1 = "DROP" /\ rx_dmx = <<>>
    /\ cpu_fifo = <<>> /\ cpu_almost_full = FALSE /\ cpu_wremptyw = 0
    /\ written = <<>>

EngineClear ==
    /\ rx_fifo' = <<>> /\ rx_fifo_full' = FALSE /\ stat_fifo' = <<>>
    /\ rxsfifo_wen_delay' = <<FALSE, FALSE, FALSE, FALSE, FALSE>>
    /\ crcerr_dl' = FALSE /\ pktlen_dl' = 0
    /\ data_pos_0' = TRUE /\ macd' = "none" /\ eop_d1' = FALSE
    /\ head_lock_macd' = "none"
    /\ cast' = "none" /\ runt' = FALSE /\ oversize' = FALSE
    /\ rx_d1' = <<>> /\ rx_dir_d1' = "DROP" /\ rx_dmx' = <<>>
    /\ cpu_fifo' = <<>> /\ cpu_almost_full' = FALSE /\ cpu_wremptyw' = 0
    /\ written' = <<>>

Init == EngineReset /\ src = <<>> /\ gap = MIN_EOP_GAP

EngineEdge(w, ready) ==
    SourceEdge(w) /\ RxEngine(w) /\ Stages /\ RxCpu(ready)

\* One clock edge, by what the arbiter presents in the cycle before it.
Pause   == \E ready \in BOOLEAN : EngineEdge(<<>>, ready)
Start   == \E w \in Starts, ready \in BOOLEAN : EngineEdge(w, ready)
Proceed == \E w \in Continues, ready \in BOOLEAN : EngineEdge(w, ready)
End     == \E w \in Ends, ready \in BOOLEAN : EngineEdge(w, ready)
ForceEnd == \E w \in ForcedEnds, ready \in BOOLEAN : EngineEdge(w, ready)

\* rst_i, a register of the host: the words that have come are gone, and one
\* in this cycle is, too; of a packet under way the rest still comes.
Reset ==
    /\ EngineClear
    /\ \E w \in {<<>>} \cup Starts \cup Continues \cup Ends \cup ForcedEnds :
         /\ gap' = IF w # <<>> /\ w[1].eop THEN 1
                   ELSE IF gap < MIN_EOP_GAP THEN gap + 1 ELSE gap
         /\ src' = IF w = <<>>
                   THEN IF src = <<>> THEN <<>>
                        ELSE <<[src[1] EXCEPT !.whole = FALSE]>>
                   ELSE IF w[1].eop THEN <<>>
                   ELSE <<[pkt |-> w[1].pkt, sent |-> w[1].i,
                           whole |-> FALSE]>>

Next == Pause \/ Start \/ Proceed \/ End \/ ForceEnd \/ Reset

Spec == Init /\ [][Next]_vars

\* The clock runs, and four times faster than words come from the wire.  Nothing
\* is assumed of the source, of ready, or of the reset.
FairSpec == Spec /\ WF_vars(Pause)

-----------------------------------------------------------------------------

\* What a status should say of the packet that ends with word w; for the rest
\* of a packet cut by a reset, the address is anything.
IsStatusOf(status, w) ==
    /\ status.crc_err = w.crc_err /\ status.pkt_size = w.size
    /\ status.runt = (w.size < FRM_LEN_MIN)
    /\ status.oversize = (w.size > FRM_LEN_MAX)
    /\ w.whole => status.cast = Cast(w.pkt.macd)

\* The statuses are those of the packets in rx_fifo, in their order, although
\* their parts come from registers with different delays and are written six
\* cycles after the packet ended.
StatusMeetsPacket ==
    LET ends     == {e \in DOMAIN rx_fifo : rx_fifo[e].eop}
        place(e) == Cardinality(ends \cap 1 .. e)
    IN  /\ Len(stat_fifo) <= Cardinality(ends)
        /\ \A e \in ends : place(e) <= Len(stat_fifo) =>
                            IsStatusOf(stat_fifo[place(e)], rx_fifo[e])

\* No word or status is lost in a full FIFO: almost_full, wremptyw and the
\* statuses are old when they are looked at, and three words may be on their way.
FifosNotOverrun ==
    /\ rx_fifo # <<>> => IF src = <<>> THEN Last(rx_fifo).eop
                         ELSE Last(rx_fifo).i = src[1].sent /\ ~Last(rx_fifo).eop
    /\ ~(rxsfifo_wen_dl /\ FifoFull(stat_fifo, STAT_WORDS))
    /\ ~(rx_dmx # <<>> /\ FifoFull(cpu_fifo, CPU_WORDS))

\* A packet the processor wants, as far as it shows in its last word.
Wanted(w) == /\ ~w.crc_err /\ w.size \in FRM_LEN_MIN .. FRM_LEN_MAX
             /\ w.size <= MTU /\ Cast(w.pkt.macd) # "none"

\* The processor gets whole packets and only those it wants, across pauses,
\* drops, forced ends, and a reset in the middle of a packet, the rest of
\* which must not be taken for the rest of another.
CpuGetsPackets ==
    \A w \in Range(rx_dmx) :
        /\ IF written = <<>> \/ written[1].eop THEN sop(w)
           ELSE w.pkt = written[1].pkt /\ w.i = written[1].i + 1
        /\ w.eop => w.whole /\ Wanted(w)

\* The packet at the head of rx_fifo ends with word e.
FirstEnd(e) == rx_fifo[e].eop /\ \A d \in 1 .. e - 1 : ~rx_fifo[d].eop

\* A packet that is wanted is not dropped if the room counted is all there is
\* and the packet fits, and one that is not wanted is dropped: rx_dir is decided
\* in the cycle in which the first word leaves rx_fifo, with its own status.
DirectionIsRight ==
    [][rx_robot_run /\ rx_d1' # <<>> =>
         \A e \in DOMAIN rx_fifo : FirstEnd(e) =>
            LET w     == rx_fifo[e]
                level == ALMOST_FULL_WORDS(CPU_WORDS, CPU_SAFE_WORDS)
            IN  IF ~Wanted(w) THEN rx_dir_d1' = "DROP"
                ELSE (/\ ~cpu_almost_full /\ cpu_wremptyw = level
                      /\ 8 * level > w.size) => rx_dir_d1' = "CPU"]_vars

\* Every packet is judged by its own status, and by nothing else.
PacketsAreJudged == [][StatusMeetsPacket']_vars /\ DirectionIsRight

\* A packet that is whole in rx_fifo leaves it: its status comes, and does not
\* get lost or taken with another packet.
PacketsLeave ==
    []<>(\/ \A k \in DOMAIN rx_fifo : ~rx_fifo[k].eop
         \/ rxsfifo_rd_req)
=============================================================================
