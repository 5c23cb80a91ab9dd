------------------------------ MODULE NetdmaRx ------------------------------
(***************************************************************************)
(* The receive direction of the netdma core: descriptor FIFO, write        *)
(* control, write master, streaming-to-memory adapter and report FIFO      *)
(* (netdma.sv with netdma_dispatcher, netdma_descriptor_buffer,            *)
(* netdma_control, netdma_writemaster, netdma_st2mm_adapter, netdma_csr).  *)
(*                                                                         *)
(* The core is one synchronous netlist: registers are variables, wires are *)
(* operators over them, and one clock edge is one step, the conjunction of *)
(* the register updates (Clock).  Around it stand the packet source on     *)
(* snk_if, the Avalon interconnect on mm_write_if and the host on cpu_if.  *)
(* Memory is addressed in data units.  Variables under "history" are not   *)
(* in the design: they record what was stored, for the properties.         *)
(***************************************************************************)
EXTENDS Integers, FiniteSets, NetdmaControl

CONSTANTS BYTES_NUM,              \* bytes of a data unit (DATA_WIDTH / 8)
          BYTECOUNT_MOD,          \* 2^16, the range of a bytecount field
          DESC_FIFO_DEPTH,
          RX_RESPONSE_FIFO_DEPTH,
          ADDRESSES,              \* buffer addresses the host uses
          LENGTHS,                \* bytecount values the host uses
          STOP_ON_ERROR,          \* stop_on_error flags the host uses
          ERRORS,                 \* levels the source drives on snk_if.error
          MAX_WORDS               \* data units of the longest packet

ASSUME RxAssumption ==
    /\ BYTES_NUM \in Nat \ {0}
    /\ BYTECOUNT_MOD \in Nat \ {0}
    /\ BYTECOUNT_MOD % BYTES_NUM = 0
    /\ DESC_FIFO_DEPTH \in Nat \ {0}
    /\ RX_RESPONSE_FIFO_DEPTH \in Nat
    /\ ADDRESSES \subseteq Nat
    /\ LENGTHS \subseteq 0 .. BYTECOUNT_MOD - 1
    /\ STOP_ON_ERROR \subseteq BOOLEAN
    /\ ERRORS \subseteq BOOLEAN
    /\ MAX_WORDS \in Nat \ {0}

\* What the user guide asks of the host: a report FIFO not smaller than the
\* descriptor FIFO (doc/NetdmaIpCoreUG:264) and buffers of at least one data
\* unit (doc/NetdmaIpCoreUG:372-376 has the host round up).
ASSUME HostAssumption ==
    /\ RX_RESPONSE_FIFO_DEPTH >= DESC_FIFO_DEPTH
    /\ \A l \in LENGTHS : l >= BYTES_NUM

VARIABLES
    descFifo,       \* desc_fifo of netdma_descriptor_buffer
    state,          \* state register of the write master
    address_reg,
    bytecount_reg,
    reportFifo,     \* report_buffer of netdma_csr
    snk,            \* what the packet source drives on snk_if
    waitrequest,    \* what the interconnect drives on mm_write_if
    outstanding,    \* host: descriptors written and not yet reported
    stored,         \* history: words stored for the descriptor at the head
    lastStored      \* history: words stored for the descriptor before it

masterVars == <<state, address_reg, bytecount_reg>>
historyVars == <<stored, lastStored>>
vars == <<flow_control, run_r, descFifo, masterVars, reportFifo, snk,
          waitrequest, outstanding, historyVars>>

Descriptor == [address : ADDRESSES, bytecount : LENGTHS,
               stop_on_error : STOP_ON_ERROR]

Report == [bytecount : 0 .. BYTECOUNT_MOD - 1, error : BOOLEAN]

\* The streaming bus.  word is the position of the data unit in its packet,
\* so that startofpacket is word = 1; empty means something on the last data
\* unit only, and while nothing is valid the bus shows a stale value of it.
Bus == [valid : BOOLEAN, word : 1 .. MAX_WORDS, eop : BOOLEAN,
        empty : 0 .. BYTES_NUM - 1, error : ERRORS \cup {FALSE}]

WordCountMod == BYTECOUNT_MOD \div BYTES_NUM

-----------------------------------------------------------------------------
(* The wires of the write master and its adapter. *)

descriptor == Head(descFifo)

descriptorOnQueue == ~FifoEmpty(descFifo)

\* descriptor.control_field.bytecount[15:REM_WIDTH]: the buffer in data units
Limit(d) == d.bytecount \div BYTES_NUM

wait_for_sop == state = "WAIT_SOP_S"
run_state    == state = "RUN_S"

sop == snk.valid /\ snk.word = 1

\* With no descriptor in the FIFO the wires below are looked at by nobody: every
\* use of them is under a control state that implies one.
bytecount_limit == /\ descriptorOnQueue
                   /\ bytecount_reg = Limit(descriptor)

st2mm_run == (run_state \/ wait_for_sop) /\ ~bytecount_limit

\* Mutant: the adapter does not wait for startofpacket.
writeAnyWord == st2mm_run /\ snk.valid

write == IF wait_for_sop THEN sop ELSE st2mm_run /\ snk.valid

ready == st2mm_run /\ ~waitrequest

\* Mutant: the counters run on while the interconnect holds waitrequest.
newTransactionUngated == write

new_transaction == write /\ ~waitrequest

eop == snk.eop /\ new_transaction

error == descriptorOnQueue /\ snk.error /\ descriptor.stop_on_error

\* Mutant: the write master does not stop at the limit.
endoftransactionNoLimit == Done \/ error \/ eop

endoftransaction == Done \/ error \/ eop \/ bytecount_limit

\* Mutant: the data unit of this cycle is never added.
realBytecountNotAdded == bytecount_reg

real_bytecount == IF bytecount_limit THEN bytecount_reg
                                     ELSE (bytecount_reg + 1) % WordCountMod

make_report == MakeReport(error, eop \/ bytecount_limit)

rx_report == [bytecount |-> (real_bytecount * BYTES_NUM - snk.empty)
                                % BYTECOUNT_MOD,
              error     |-> error]

-----------------------------------------------------------------------------
(* Register updates of one clock edge. *)

WriteMasterFsm ==
    state' = IF endoftransaction THEN "IDLE_S"
             ELSE CASE state = "IDLE_S" /\ RunPosedge -> "WAIT_SOP_S"
                    [] state = "WAIT_SOP_S" /\ sop    -> "RUN_S"
                    [] OTHER                          -> state

\* Mutant: counting down as the read master does.
CountersDown ==
    IF RunPosedge
    THEN address_reg' = descriptor.address /\ bytecount_reg' = 0
    ELSE IF new_transaction
    THEN address_reg' = address_reg + 1 /\ bytecount_reg' = bytecount_reg - 1
    ELSE UNCHANGED <<address_reg, bytecount_reg>>

Counters ==
    IF RunPosedge
    THEN /\ address_reg' = descriptor.address
         /\ bytecount_reg' = 0
    ELSE IF new_transaction
    THEN /\ address_reg' = address_reg + 1
         /\ bytecount_reg' = (bytecount_reg + 1) % WordCountMod
    ELSE UNCHANGED <<address_reg, bytecount_reg>>

\* Mutant: no report for a descriptor stopped by an error.
FifosNoErrorReport(hostDescriptor, hostRead) ==
    /\ descFifo' = FifoEdge(descFifo, DESC_FIFO_DEPTH, hostDescriptor,
                            make_report)
    /\ reportFifo' = FifoEdge(reportFifo, RX_RESPONSE_FIFO_DEPTH,
                              IF make_report /\ ~error THEN <<rx_report>>
                                                       ELSE <<>>,
                              hostRead)

Fifos(hostDescriptor, hostRead) ==
    /\ descFifo' = FifoEdge(descFifo, DESC_FIFO_DEPTH, hostDescriptor,
                            make_report)
    /\ reportFifo' = FifoEdge(reportFifo, RX_RESPONSE_FIFO_DEPTH,
                              IF make_report THEN <<rx_report>> ELSE <<>>,
                              hostRead)

\* What this edge writes to memory, after what was stored before.
Stored == IF new_transaction
          THEN Append(stored, [at |-> address_reg, word |-> snk.word])
          ELSE stored

History ==
    /\ stored' = IF make_report THEN <<>> ELSE Stored
    /\ lastStored' = IF make_report THEN Len(Stored) ELSE lastStored

-----------------------------------------------------------------------------
(* The surroundings. *)

\* The source holds a valid data unit until the core is ready for it, then
\* goes on to the next one, at once or after a pause.  A packet is any number
\* of data units up to MAX_WORDS.  In a pause, nothing is promised of the other
\* wires of the bus: empty and error are stale, or those of what is to come.
Idle(word) == [valid : {FALSE}, word : {word}, eop : {FALSE},
               empty : 0 .. BYTES_NUM - 1, error : ERRORS \cup {FALSE}]

Offer(word) ==
    {b \in Bus : /\ b.valid /\ b.word = word /\ b.error \in ERRORS
                 /\ word = MAX_WORDS => b.eop
                 /\ ~b.eop => b.empty = 0}

taken == snk.valid /\ ready

NextWord == IF ~taken THEN snk.word
            ELSE IF snk.eop THEN 1 ELSE snk.word + 1

Source == IF snk.valid /\ ~ready
          THEN snk' = snk
          ELSE snk' \in Offer(NextWord) \cup Idle(NextWord)

Interconnect == waitrequest' \in BOOLEAN

Clock(hostDescriptor, hostRead) ==
    /\ ControlFsm(descriptorOnQueue, error, eop \/ bytecount_limit)
    /\ WriteMasterFsm
    /\ Counters
    /\ Fifos(hostDescriptor, hostRead)
    /\ History
    /\ Source
    /\ Interconnect

\* A clock edge on which the host does not address the core.
Tick == Clock(<<>>, FALSE) /\ UNCHANGED outstanding

\* The host writes the second half of a descriptor.  It keeps to the rule of
\* the user guide: never more descriptors in flight than the core can hold.
HostWriteDescriptor(d) ==
    /\ outstanding < DESC_FIFO_DEPTH
    /\ Clock(<<d>>, FALSE)
    /\ outstanding' = outstanding + 1

\* The host reads, and with that pops, a report.
HostReadReport ==
    /\ ~FifoEmpty(reportFifo)
    /\ Clock(<<>>, TRUE)
    /\ outstanding' = outstanding - 1

\* The host sets the reset bit of the control register (and clears it): every
\* register of the core is cleared asynchronously, whatever packet or bus
\* cycle is in progress.  The surroundings still see this clock edge.
HostReset ==
    /\ flow_control' = "IDLE_S" /\ run_r' = FALSE
    /\ state' = "IDLE_S" /\ address_reg' = 0 /\ bytecount_reg' = 0
    /\ descFifo' = <<>> /\ reportFifo' = <<>> /\ outstanding' = 0
    /\ stored' = <<>> /\ lastStored' = 0
    /\ Source
    /\ Interconnect

Init ==
    /\ ControlReset
    /\ state = "IDLE_S" /\ address_reg = 0 /\ bytecount_reg = 0
    /\ descFifo = <<>> /\ reportFifo = <<>> /\ outstanding = 0
    /\ stored = <<>> /\ lastStored = 0
    /\ snk \in Offer(1) \cup Idle(1)
    /\ waitrequest \in BOOLEAN

Next == \/ Tick
        \/ \E d \in Descriptor : HostWriteDescriptor(d)
        \/ HostReadReport
        \/ HostReset

\* The clock runs, and the interconnect does not refuse for ever.
Fairness == WF_vars((Tick \/ HostReadReport) /\ ~waitrequest')

Spec == Init /\ [][Next]_vars
FairSpec == Spec /\ Fairness

-----------------------------------------------------------------------------
(* Properties. *)

\* Every register, FIFO and bus keeps to its range.
TypeOK ==
    /\ ControlTypeOK
    /\ descFifo \in Seq(Descriptor) /\ Len(descFifo) <= DESC_FIFO_DEPTH
    /\ state \in {"IDLE_S", "WAIT_SOP_S", "RUN_S"}
    /\ address_reg \in Nat
    /\ bytecount_reg \in 0 .. WordCountMod - 1
    /\ reportFifo \in Seq(Report) /\ Len(reportFifo) <= RX_RESPONSE_FIFO_DEPTH
    /\ snk \in Bus
    /\ waitrequest \in BOOLEAN
    /\ outstanding \in Nat
    /\ stored \in Seq([at : Nat, word : 1 .. MAX_WORDS])
    /\ lastStored \in Nat

\* The two state machines, which exchange only run, eop and error, never lose
\* each other: the write master is busy in the cycles after the first one of
\* RUN_S and in no other.  A busy master without a control in RUN_S would
\* write for a descriptor already given back; a control in RUN_S with an idle
\* master would wait for ever (netdma_control_fsm.sv, netdma_writemaster.sv).
MachinesAgree == /\ descriptorOnQueue \/ ~Run
                 /\ state # "IDLE_S" <=> Run /\ run_r

\* No write is put on the bus, accepted or not, outside the buffer of the
\* descriptor in progress: "protect system memory from too long rx packets"
\* (doc/NetdmaIpCoreUG:317).
WritesInsideBuffer ==
    write => /\ Run
             /\ address_reg \in descriptor.address ..
                                descriptor.address + Limit(descriptor) - 1

\* What is stored for a descriptor is the beginning of one packet: from its
\* first data unit on, without gaps, repetitions or parts of another packet,
\* from the first address of the buffer on, whatever was drained before.
StoredIsOnePacket ==
    \A i \in DOMAIN Stored : /\ Run
                             /\ Stored[i].word = i
                             /\ Stored[i].at = descriptor.address + i - 1

\* What a descriptor stores, in memory and on its way there.
StoredInPlace == WritesInsideBuffer /\ StoredIsOnePacket

\* A report made at the end of a packet gives the packet's length in bytes.
ReportIsPacketLength ==
    make_report /\ eop =>
        rx_report.bytecount = BYTES_NUM * snk.word - snk.empty

\* No report without an error claims more bytes than the descriptor allowed,
\* nor none: the host hands that many bytes of the buffer to its network stack.
ReportWithinLimit ==
    make_report /\ ~error => rx_report.bytecount \in 1 .. descriptor.bytecount

\* A report for a descriptor that got no data is made only for an error, or
\* in the first cycle of a descriptor as large as the words its predecessor
\* received: bytecount_reg still counts those.  Two such reports do not
\* follow each other.
EmptyReportCause ==
    make_report /\ Stored = <<>> /\ ~error =>
        RunPosedge /\ lastStored = Limit(descriptor)

\* The data units that bytecount_reg stands for: those stored for the
\* descriptor so far, and in its first cycle still those of the one before.
CountedSoFar == IF RunPosedge THEN lastStored ELSE Len(stored)

\* What any report says, and how far it is from what was stored.
\*   - At the end of a packet, it is the data units stored, less the empty of
\*     the last one.
\*   - At the limit, all of the buffer was stored, yet the report is less by
\*     the empty of whatever is on the bus, a data unit that was not stored.
\*   - At an error, the data unit on the bus is counted, be it stored or not.
\* In the first cycle of a descriptor the data units are those of the one
\* before (netdma_writemaster.sv:207-211).
ReportOfCount ==
    make_report =>
        /\ bytecount_limit /\ ~RunPosedge => Len(Stored) = Limit(descriptor)
        /\ LET units == CountedSoFar + (IF bytecount_limit THEN 0 ELSE 1)
           IN  rx_report.bytecount =
                   (BYTES_NUM * units - snk.empty) % BYTECOUNT_MOD

\* What a report means at each of the ways a descriptor ends: the length of
\* the packet at its end, within the buffer at the limit, and in every case,
\* errors included, the data units stored as far as ReportOfCount says.
ReportMeaning ==
    /\ ReportIsPacketLength
    /\ ReportWithinLimit
    /\ EmptyReportCause
    /\ ReportOfCount

\* Under the rule that the host never has more than DESC_FIFO_DEPTH
\* descriptors in flight, and with a report FIFO no smaller, neither FIFO
\* ever refuses a word: each descriptor written is still queued or reported.
NothingDropped == outstanding = Len(descFifo) + Len(reportFifo)

\* Avalon-MM: while the interconnect holds waitrequest, the write and its
\* address and data stay.  Only a stop on an error or a reset takes them away.
WriteHeld ==
    [][ write /\ waitrequest /\ ~error /\ run_r' =>
            write' /\ address_reg' = address_reg /\ snk' = snk ]_vars

\* The first data unit of a packet is never taken off the streaming bus
\* without being stored: a packet may lose its tail but is not skipped.
\* (A reset on the same clock edge is the exception; run_r' tells it apart.)
NoPacketSkipped ==
    [][ taken /\ snk.word = 1 /\ run_r' => stored' # stored \/ make_report ]_vars

\* The stream and the bus move on the same edges: a data unit is not taken
\* back from the bus, nor taken off the stream for nothing
\* (netdma_st2mm_adapter.sv:80-113).
StreamIsKept == WriteHeld /\ NoPacketSkipped

\* With a descriptor queued, data offered by the source is taken again and
\* again: the core never stops the stream for good.  The exception is a data
\* unit with an error that descriptors ask to stop on: it stays on the bus and
\* ends one descriptor after the other.
StreamMoves == []<>(snk.valid /\ descriptorOnQueue => ready \/ error)

-----------------------------------------------------------------------------
(* What the documents say, and the code does not do. *)

\* doc/REGMAP: the bytecount of a report is the "Byte size of the last
\* received packet (done rx transaction)": no report without a packet.
EveryReportHasPacket == make_report => Stored # <<>>
=============================================================================
