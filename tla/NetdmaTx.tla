------------------------------ MODULE NetdmaTx ------------------------------
(***************************************************************************)
(* The transmit direction of the netdma core: descriptor FIFO, read        *)
(* control, read master, memory-to-streaming adapter and data aligner      *)
(* (netdma_readmaster.sv, netdma_mm2st_adapter.sv, amm_aligner.sv), between *)
(* a pipelined Avalon interconnect and a streaming sink.                   *)
(*                                                                         *)
(* As in NetdmaRx, one clock edge is one step.  Addresses are byte         *)
(* addresses and memory is its own address, so that the properties can say *)
(* which bytes are streamed.                                               *)
(***************************************************************************)
EXTENDS FiniteSets, NetdmaControl, AmmDataAligner

CONSTANTS BYTECOUNT_MOD,               \* 2^16, the range of a bytecount field
          DESC_FIFO_DEPTH,
          TX_FIFO_DEPTH,
          TX_MM_IF_MAX_PENDING_COUNT,
          UNALIGNED_ACCESS_ENABLE,     \* the builds looked at: aligner or not
          ADDRESSES,                   \* byte addresses of the host's buffers
          LENGTHS                      \* packet lengths the host sends

ASSUME TxAssumption ==
    /\ BYTE_NUM \in Nat \ {0, 1}
    /\ BYTECOUNT_MOD \in Nat \ {0}
    /\ BYTECOUNT_MOD % BYTE_NUM = 0
    /\ DESC_FIFO_DEPTH \in Nat \ {0}
    /\ TX_MM_IF_MAX_PENDING_COUNT \in Nat \ {0}
    /\ TX_FIFO_DEPTH \in Nat
    /\ TX_FIFO_DEPTH > TX_MM_IF_MAX_PENDING_COUNT + 1
    /\ UNALIGNED_ACCESS_ENABLE \subseteq BOOLEAN
    /\ ADDRESSES \subseteq Nat
    /\ LENGTHS \subseteq 1 .. BYTECOUNT_MOD - 1

VARIABLES
    unaligned,        \* the build: amm_aligner is instantiated
    descFifo,
    address_reg,
    bytecount_reg1,   \* reads still to request
    bytecount_reg2,   \* data units still to come
    sop_trigger,
    txFifo,           \* rm_fifo_inst
    pending,          \* interconnect: reads accepted and not yet answered
    waitrequest,      \* interconnect: refuses the read of this cycle
    readdatavalid,    \* interconnect: answers the oldest read in this cycle
    src_ready,        \* sink: takes the data unit of this cycle
    received,         \* history: data units streamed for the descriptor
    orphaned          \* history: the last reset found reads under way

masterVars == <<address_reg, bytecount_reg1, bytecount_reg2, sop_trigger>>
busVars == <<pending, waitrequest, readdatavalid, src_ready>>
vars == <<unaligned, controlVars, alignerVars, masterVars, busVars, descFifo,
          txFifo, received, orphaned>>

Descriptor == [address : ADDRESSES, bytecount : LENGTHS]

WordCountMod == BYTECOUNT_MOD \div BYTE_NUM

-----------------------------------------------------------------------------
(* The wires of the read master and its adapter. *)

descriptor == Head(descFifo)

descriptorOnQueue == ~FifoEmpty(descFifo)

reminder == descriptor.bytecount % BYTE_NUM

PRE_INCR == IF unaligned THEN 1 ELSE 0

\* The reads of one packet, in a register of 16 - REM_WIDTH bits.
bytecount == (descriptor.bytecount \div BYTE_NUM + PRE_INCR
                + (IF reminder = 0 THEN 0 ELSE 1)) % WordCountMod

run_requests == bytecount_reg1 # 0 /\ Run /\ ~RunPosedge

run_receive == /\ unaligned
               /\ bytecount_reg2 # 1
               /\ Run /\ ~RunPosedge

\* Mutant: no room is left for the reads that are under way.
almostFullLate == FifoAlmostFull(txFifo, TX_FIFO_DEPTH)

almost_full == FifoAlmostFull(txFifo,
                              TX_FIFO_DEPTH - TX_MM_IF_MAX_PENDING_COUNT - 1)

read == run_requests /\ ~almost_full

readAddress == address_reg \div BYTE_NUM

new_pending == read /\ ~waitrequest

\* mm_side_data.valid, behind the aligner when there is one
new_dataunit == IF unaligned
                THEN ReaddatavalidOut(run_receive, readdatavalid)
                ELSE readdatavalid

readdata == IF unaligned
            THEN ReaddataOut(address_reg % BYTE_NUM, Head(pending))
            ELSE [k \in 0 .. BYTE_NUM - 1 |-> Head(pending) * BYTE_NUM + k]

\* Mutant: the packet ends at the same count in both builds.
eopAligned == bytecount_reg2 = 1 /\ Run /\ new_dataunit

eop == /\ bytecount_reg2 = IF unaligned THEN 2 ELSE 1
       /\ Run /\ new_dataunit

sop == sop_trigger /\ new_dataunit

empty == IF eop THEN (BYTE_NUM - reminder) % BYTE_NUM ELSE 0

make_report == MakeReport(FALSE, eop)

-----------------------------------------------------------------------------
(* Register updates of one clock edge. *)

\* Mutant: the requests are not counted down while data comes in.
CountersShared ==
    IF RunPosedge
    THEN /\ address_reg' = descriptor.address
         /\ bytecount_reg1' = bytecount
         /\ bytecount_reg2' = bytecount
    ELSE /\ address_reg' = IF Run /\ new_pending THEN address_reg + BYTE_NUM
                           ELSE address_reg
         /\ bytecount_reg1' = IF Run /\ new_pending /\ ~new_dataunit
                              THEN (bytecount_reg1 - 1) % WordCountMod
                              ELSE bytecount_reg1
         /\ bytecount_reg2' = IF Run /\ new_dataunit
                              THEN (bytecount_reg2 - 1) % WordCountMod
                              ELSE bytecount_reg2

Counters ==
    IF RunPosedge
    THEN /\ address_reg' = descriptor.address
         /\ bytecount_reg1' = bytecount
         /\ bytecount_reg2' = bytecount
    ELSE /\ IF Run /\ new_pending
            THEN /\ address_reg' = address_reg + BYTE_NUM
                 /\ bytecount_reg1' = (bytecount_reg1 - 1) % WordCountMod
            ELSE UNCHANGED <<address_reg, bytecount_reg1>>
         /\ bytecount_reg2' = IF Run /\ new_dataunit
                              THEN (bytecount_reg2 - 1) % WordCountMod
                              ELSE bytecount_reg2

SopTrigger == sop_trigger' = IF sop THEN FALSE
                             ELSE RunPosedge \/ sop_trigger

Fifos(hostDescriptor) ==
    /\ descFifo' = FifoEdge(descFifo, DESC_FIFO_DEPTH, hostDescriptor,
                            make_report)
    /\ txFifo' = FifoEdge(txFifo, TX_FIFO_DEPTH,
                          IF new_dataunit
                          THEN <<[sop |-> sop, eop |-> eop, empty |-> empty]>>
                          ELSE <<>>,
                          src_ready)

History == received' = IF make_report THEN 0
                       ELSE IF new_dataunit THEN received + 1
                       ELSE received

-----------------------------------------------------------------------------
(* The surroundings. *)

\* The interconnect accepts at most TX_MM_IF_MAX_PENDING_COUNT reads and
\* answers them in order, each after an arbitrary number of cycles.  The sink
\* is ready when it likes.
Interconnect ==
    /\ pending' = (IF readdatavalid THEN Tail(pending) ELSE pending)
                    \o (IF new_pending THEN <<readAddress>> ELSE <<>>)
    /\ waitrequest' \in BOOLEAN
    /\ Len(pending') = TX_MM_IF_MAX_PENDING_COUNT => waitrequest'
    /\ readdatavalid' \in BOOLEAN
    /\ pending' = <<>> => ~readdatavalid'
    /\ src_ready' \in BOOLEAN

Clock(hostDescriptor) ==
    /\ ControlFsm(descriptorOnQueue, FALSE, eop)
    /\ Counters
    /\ SopTrigger
    /\ AlignerEdge(run_receive, readdatavalid,
                   IF readdatavalid THEN Head(pending) ELSE 0)
    /\ Fifos(hostDescriptor)
    /\ History
    /\ Interconnect
    /\ UNCHANGED <<unaligned, orphaned>>

\* A clock edge on which the host does not address the core.
Tick == Clock(<<>>)

\* The host writes the second half of a descriptor, having seen in the status
\* register that there is room.  Without the aligner its buffers begin at a
\* data unit, as the comment on the parameter in netdma_wrapper.sv asks.
HostWriteDescriptor(d) ==
    /\ unaligned \/ d.address % BYTE_NUM = 0
    /\ ~FifoFull(descFifo, DESC_FIFO_DEPTH)
    /\ Clock(<<d>>)

\* The host sets and clears the reset bit.  The interconnect is not told: the
\* reads it accepted are still answered, and to the core an answer is an answer.
HostReset ==
    /\ flow_control' = "IDLE_S" /\ run_r' = FALSE
    /\ aligner_state' = "EMPTY_S" /\ readdata_d1_reg' = 0
    /\ address_reg' = 0 /\ bytecount_reg1' = 0 /\ bytecount_reg2' = 0
    /\ sop_trigger' = FALSE
    /\ descFifo' = <<>> /\ txFifo' = <<>> /\ received' = 0
    /\ Interconnect
    /\ orphaned' = (pending' # <<>>)
    /\ UNCHANGED unaligned

Init ==
    /\ unaligned \in UNALIGNED_ACCESS_ENABLE
    /\ ControlReset
    /\ AlignerReset
    /\ address_reg = 0 /\ bytecount_reg1 = 0 /\ bytecount_reg2 = 0
    /\ sop_trigger = FALSE
    /\ descFifo = <<>> /\ txFifo = <<>> /\ received = 0 /\ orphaned = FALSE
    /\ pending = <<>> /\ readdatavalid = FALSE
    /\ waitrequest \in BOOLEAN /\ src_ready \in BOOLEAN

Next == \/ Tick
        \/ \E d \in Descriptor : HostWriteDescriptor(d)
        \/ HostReset

\* The clock runs, and again and again there is a cycle in which the
\* interconnect accepts and answers what it can and the sink is ready.
Obliging == /\ waitrequest <=> Len(pending) = TX_MM_IF_MAX_PENDING_COUNT
            /\ readdatavalid <=> pending # <<>>
            /\ src_ready

Fairness == WF_vars(Tick /\ Obliging')

Spec == Init /\ [][Next]_vars
FairSpec == Spec /\ Fairness

-----------------------------------------------------------------------------
(* Properties. *)

\* Data units of a packet on the streaming side.
Units(d) == (d.bytecount + BYTE_NUM - 1) \div BYTE_NUM

\* The FIFO has no write protection of its own that would help: a data unit
\* that comes back when it is full is lost.  Reads stop early enough, for the
\* answers to reads of before a reset too.
NoDataLost == new_dataunit => ~FifoFull(txFifo, TX_FIFO_DEPTH)

\* Each data unit put into the FIFO is the next one of the packet described
\* by the head descriptor: its bytes are those of the buffer, with the offset
\* of an unaligned buffer taken out, startofpacket is on the first only,
\* endofpacket on the last only, and empty counts the bytes beyond the end.
\* A reset that finds reads under way ends this: nothing in the core tells
\* their answers from those of the next packet (netdma.sv:94).  The next reset
\* that finds none restores it.
StreamCarriesBuffer ==
    new_dataunit /\ ~orphaned =>
        LET d == descriptor
            left == d.bytecount - received * BYTE_NUM
        IN  /\ Run /\ left > 0
            /\ sop <=> received = 0
            /\ eop <=> received + 1 = Units(d)
            /\ empty = IF eop THEN BYTE_NUM - left ELSE 0
            /\ \A k \in 0 .. BYTE_NUM - 1 : k < left =>
                  readdata[k] = d.address + received * BYTE_NUM + k

\* When a descriptor is retired every read made for it has been answered: no
\* answer is left over that would be taken for data of the next packet.  Only a
\* reset can leave some.
NoAnswerLeftOver ==
    /\ make_report => bytecount_reg1 = 0 /\ Len(pending) = 1 /\ readdatavalid
    /\ pending # <<>> => Run

\* The answer to every read is kept, whenever the host resets, and it is kept
\* for the descriptor it was made for since a reset that found no read under
\* way, or since power-up.
AnswersAreKept == NoDataLost /\ (~orphaned => NoAnswerLeftOver)

\* Reads stay within the data units that hold the buffer, but for the one
\* data unit more that the aligner needs.
ReadsInsideBuffer ==
    read => readAddress \in
                descriptor.address \div BYTE_NUM ..
                descriptor.address \div BYTE_NUM + Units(descriptor)
                    + PRE_INCR - 1

\* Every descriptor is finished: the read master does not stay in RUN_S.
DescriptorsFinish == []<>(descriptorOnQueue => Done)
=============================================================================
