----------------------------- MODULE HostProofs -----------------------------
(***************************************************************************)
(* What the programs of the processor rely on: the driver, on the irqs     *)
(* (NetdmaIrq) and on the buffer it writes its descriptors to              *)
(* (NetdmaDescBuffer), and the preloader, on the calibration of the SDRAM  *)
(* (Calibration).  Each is a specification of its own, and so are the      *)
(* proofs.                                                                 *)
(***************************************************************************)
EXTENDS NetdmaIrq, NetdmaDescBuffer, Calibration, ScFifoTheorems,
        FiniteSetTheorems, WellFoundedInduction


(***************************************************************************)
(* The descriptor buffer implements the descriptor queue, for every depth  *)
(* and every set of addresses and control words.  The inductive invariant  *)
(* is BufferTypeOK together with HalvesAgree: that buffer and host agree   *)
(* on which half comes next is what makes a push the completion of the     *)
(* descriptor the host is writing.                                         *)
(***************************************************************************)
BufferInv == BufferTypeOK /\ HalvesAgree

\* A clock edge without a write leaves the registers, and the FIFO only loses
\* its head; one with a write changes halves.
LEMMA EdgeWithoutWrite ==
    ASSUME BufferTypeOK, NEW rdreq \in BOOLEAN, Edge(FALSE, Zero, rdreq)
    PROVE  /\ state' = state /\ address_field' = address_field
           /\ descFifo' = FifoEdge(descFifo, DESC_FIFO_DEPTH, <<>>, rdreq)
  BY DEF BufferTypeOK, Edge, HalfFsm, AddressRegister, wrreq

\* The first half: nothing is pushed, the address is kept.
LEMMA EdgeFirstHalf ==
    ASSUME BufferTypeOK, state = "FIRST_HALF_S", NEW w, NEW rdreq \in BOOLEAN,
           Edge(TRUE, w, rdreq)
    PROVE  /\ state' = "SECOND_HALF_S" /\ address_field' = w
           /\ descFifo' = FifoEdge(descFifo, DESC_FIFO_DEPTH, <<>>, rdreq)
  BY DEF BufferTypeOK, Edge, HalfFsm, AddressRegister, wrreq

\* The second half: the kept address and the word written are pushed.
LEMMA EdgeSecondHalf ==
    ASSUME BufferTypeOK, state = "SECOND_HALF_S", NEW w, NEW rdreq \in BOOLEAN,
           Edge(TRUE, w, rdreq)
    PROVE  /\ state' = "FIRST_HALF_S" /\ address_field' = address_field
           /\ descFifo' = FifoEdge(descFifo, DESC_FIFO_DEPTH,
                                   <<[address |-> address_field,
                                      control |-> w]>>, rdreq)
  BY DEF BufferTypeOK, Edge, HalfFsm, AddressRegister, wrreq

\* What the host completes is the descriptor it began.
LEMMA PushIsRequest ==
    ASSUME BufferInv, request # NoDescriptor
    PROVE  /\ request \in Descriptor
           /\ state = "SECOND_HALF_S"
           /\ [address |-> address_field, control |-> request.control] = request
<1>1. request \in Descriptor /\ address_field = request.address
  BY DEF BufferInv, BufferTypeOK, HalvesAgree
<1>2. state = "SECOND_HALF_S"
  BY DEF BufferInv, HalvesAgree
<1>3. request = [address |-> request.address, control |-> request.control]
  BY <1>1 DEF Descriptor
<1> QED BY <1>1, <1>2, <1>3

-----------------------------------------------------------------------------
\* Buffer and host agree in every reachable state.
LEMMA BufferInvStep == BufferInv /\ [BufferNext]_bufferVars => BufferInv'
<1> SUFFICES ASSUME BufferInv, [BufferNext]_bufferVars PROVE BufferInv'
  OBVIOUS
<1>a. BufferTypeOK /\ HalvesAgree /\ DESC_FIFO_DEPTH \in Nat
  BY DescBufferAssumption DEF DescBufferAssumption, BufferInv
<1>b. NoDescriptor \notin Descriptor
  BY DescBufferAssumption DEF DescBufferAssumption, Descriptor
<1>e. <<>> \in Seq(Descriptor) /\ Len(<<>>) = 0 /\ Len(<<>>) <= 1
  OBVIOUS
<1>1. ASSUME NEW rdreq \in BOOLEAN, Idle(rdreq) PROVE BufferInv'
  <2>1. /\ state' = state /\ address_field' = address_field
        /\ descFifo' = FifoEdge(descFifo, DESC_FIFO_DEPTH, <<>>, rdreq)
    BY <1>1, <1>a, EdgeWithoutWrite DEF Idle
  <2>2. descFifo' \in Seq(Descriptor) /\ Len(descFifo') <= DESC_FIFO_DEPTH
    BY <2>1, <1>a, <1>e, FifoEdgeType DEF BufferTypeOK
  <2> QED BY <1>1, <1>a, <2>1, <2>2 DEF Idle, BufferInv, BufferTypeOK, HalvesAgree
<1>2. ASSUME NEW rdreq \in BOOLEAN, NEW d \in Descriptor,
             WriteAddress(d, rdreq)
      PROVE  BufferInv'
  <2>0. state = "FIRST_HALF_S" /\ request' = d /\ broken' = broken /\ ~broken
    BY <1>2, <1>a DEF WriteAddress, BufferTypeOK, HalvesAgree
  <2>1. /\ state' = "SECOND_HALF_S" /\ address_field' = d.address
        /\ descFifo' = FifoEdge(descFifo, DESC_FIFO_DEPTH, <<>>, rdreq)
    BY <1>2, <1>a, <2>0, EdgeFirstHalf DEF WriteAddress
  <2>2. descFifo' \in Seq(Descriptor) /\ Len(descFifo') <= DESC_FIFO_DEPTH
    BY <2>1, <1>a, <1>e, FifoEdgeType DEF BufferTypeOK
  <2>3. d.address \in Words /\ d # NoDescriptor
    BY <1>b DEF Words, Descriptor
  <2> QED BY <1>a, <2>0, <2>1, <2>2, <2>3 DEF BufferInv, BufferTypeOK, HalvesAgree
<1>3. ASSUME NEW rdreq \in BOOLEAN, WriteControl(rdreq) PROVE BufferInv'
  <2>0. /\ request # NoDescriptor /\ request' = NoDescriptor
        /\ broken' = broken /\ request \in Descriptor
        /\ state = "SECOND_HALF_S"
        /\ [address |-> address_field, control |-> request.control] = request
    BY <1>3, PushIsRequest DEF WriteControl
  <2>1. /\ state' = "FIRST_HALF_S" /\ address_field' = address_field
        /\ descFifo' = FifoEdge(descFifo, DESC_FIFO_DEPTH, <<request>>, rdreq)
    BY <1>3, <1>a, <2>0, EdgeSecondHalf DEF WriteControl
  <2>2. <<request>> \in Seq(Descriptor) /\ Len(<<request>>) <= 1
    BY <2>0
  <2>3. descFifo' \in Seq(Descriptor) /\ Len(descFifo') <= DESC_FIFO_DEPTH
    BY <2>1, <2>2, <1>a, FifoEdgeType DEF BufferTypeOK
  <2> QED BY <1>a, <2>0, <2>1, <2>3 DEF BufferInv, BufferTypeOK, HalvesAgree
<1>4. ASSUME NEW rdreq \in BOOLEAN, DriverDies(rdreq) PROVE BufferInv'
  <2>1. /\ state' = state /\ address_field' = address_field
        /\ descFifo' = FifoEdge(descFifo, DESC_FIFO_DEPTH, <<>>, rdreq)
    BY <1>4, <1>a, EdgeWithoutWrite DEF DriverDies
  <2>2. descFifo' \in Seq(Descriptor) /\ Len(descFifo') <= DESC_FIFO_DEPTH
    BY <2>1, <1>a, <1>e, FifoEdgeType DEF BufferTypeOK
  <2> QED BY <1>4, <1>a, <2>1, <2>2
          DEF DriverDies, BufferInv, BufferTypeOK, HalvesAgree
<1>5. CASE BufferReset
  <2>1. descFifo' \in Seq(Descriptor) /\ Len(descFifo') <= DESC_FIFO_DEPTH
    BY <1>5, <1>a, <1>e DEF BufferReset
  <2> QED BY <1>5, <2>1 DEF BufferReset, BufferInv, BufferTypeOK, HalvesAgree
<1>6. CASE UNCHANGED bufferVars
  BY <1>6 DEF bufferVars, BufferInv, BufferTypeOK, HalvesAgree
<1> QED BY <1>1, <1>2, <1>3, <1>4, <1>5, <1>6 DEF BufferNext

LEMMA BufferInvInit == BufferInit => BufferInv
<1> SUFFICES ASSUME BufferInit PROVE BufferInv
  OBVIOUS
<1>1. DESC_FIFO_DEPTH \in Nat /\ Len(<<>>) = 0 /\ <<>> \in Seq(Descriptor)
  BY DescBufferAssumption DEF DescBufferAssumption
<1>2. descFifo \in Seq(Descriptor) /\ Len(descFifo) <= DESC_FIFO_DEPTH
  BY <1>1 DEF BufferInit
<1>3. BufferTypeOK
  BY <1>2 DEF BufferInit, BufferTypeOK
<1>4. HalvesAgree
  BY DEF BufferInit, HalvesAgree
<1> QED BY <1>3, <1>4 DEF BufferInv

\* For every depth and every host that follows the user guide, the halves of
\* descriptors are never mixed up (netdma_descriptor_buffer.sv:64-84).
THEOREM HalvesAlwaysAgree == BufferSpec => [](BufferTypeOK /\ HalvesAgree)
<1>1. BufferInit => BufferInv
  BY BufferInvInit
<1>2. BufferInv => BufferTypeOK /\ HalvesAgree
  BY DEF BufferInv
<1> QED BY <1>1, <1>2, BufferInvStep, PTL DEF BufferSpec

-----------------------------------------------------------------------------
\* The FIFO of the queue is the FIFO of the buffer.
LEMMA QueuePop ==
    ASSUME NEW w, NEW rdreq \in BOOLEAN,
           descFifo' = FifoEdge(descFifo, DESC_FIFO_DEPTH, w, rdreq)
    PROVE  Queue!Pop(w)
  BY DEF Queue!Pop, Queue!FifoEdge, Queue!FifoRead, Queue!FifoFull,
         Queue!FifoEmpty, FifoEdge, FifoRead, FifoFull, FifoEmpty

\* Every step of the buffer is a step of the queue, or changes nothing in it.
LEMMA StepIsQueueStep ==
    BufferInv /\ [BufferNext]_bufferVars => [Queue!QNext]_(Queue!qvars)
<1> SUFFICES ASSUME BufferInv, [BufferNext]_bufferVars
             PROVE  [Queue!QNext]_(Queue!qvars)
  OBVIOUS
<1>a. BufferTypeOK /\ HalvesAgree
  BY DEF BufferInv
<1>1. ASSUME NEW rdreq \in BOOLEAN, Idle(rdreq) PROVE Queue!QNext
  <2>1. Queue!Pop(<<>>)
    BY <1>1, <1>a, EdgeWithoutWrite, QueuePop DEF Idle
  <2> QED BY <1>1, <2>1 DEF Idle, Queue!QNext, Queue!Keep
<1>2. ASSUME NEW rdreq \in BOOLEAN, NEW d \in Descriptor,
             WriteAddress(d, rdreq)
      PROVE  Queue!QNext
  <2>1. state = "FIRST_HALF_S"
    BY <1>2, <1>a DEF WriteAddress, BufferTypeOK, HalvesAgree
  <2>2. Queue!Pop(<<>>)
    BY <1>2, <1>a, <2>1, EdgeFirstHalf, QueuePop DEF WriteAddress
  <2>3. d \in Queue!Descriptor /\ Queue!Begin(d)
    BY <1>2 DEF WriteAddress, Descriptor, Queue!Descriptor, Queue!Begin
  <2> QED BY <2>2, <2>3 DEF Queue!QNext
<1>3. ASSUME NEW rdreq \in BOOLEAN, WriteControl(rdreq) PROVE Queue!QNext
  <2>1. /\ request # NoDescriptor /\ state = "SECOND_HALF_S"
        /\ [address |-> address_field, control |-> request.control] = request
    BY <1>3, PushIsRequest DEF WriteControl
  <2>2. descFifo' = FifoEdge(descFifo, DESC_FIFO_DEPTH, <<request>>, rdreq)
    BY <1>3, <1>a, <2>1, EdgeSecondHalf DEF WriteControl
  <2>3. Queue!Pop(<<request>>)
    BY <2>2, QueuePop
  <2>4. Queue!Take
    BY <1>3 DEF WriteControl, Queue!Take
  <2> QED BY <2>3, <2>4 DEF Queue!QNext
<1>4. ASSUME NEW rdreq \in BOOLEAN, DriverDies(rdreq) PROVE Queue!QNext
  <2>1. Queue!Pop(<<>>)
    BY <1>4, <1>a, EdgeWithoutWrite, QueuePop DEF DriverDies
  <2> QED BY <1>4, <2>1 DEF DriverDies, Queue!QNext, Queue!GiveUp
<1>5. CASE BufferReset
  BY <1>5 DEF BufferReset, Queue!QNext, Queue!QReset
<1>6. CASE UNCHANGED bufferVars
  BY <1>6 DEF bufferVars, Queue!qvars
<1> QED BY <1>1, <1>2, <1>3, <1>4, <1>5, <1>6 DEF BufferNext

\* The buffer implements the queue: descriptors are taken whole, once and in
\* order (netdma_descriptor_buffer.sv, doc/NetdmaIpCoreUG:319).
THEOREM BufferIsQueue == BufferSpec => IsDescriptorQueue
<1>1. BufferInit => BufferInv /\ Queue!QInit
  BY BufferInvInit DEF BufferInit, Queue!QInit
<1> QED BY <1>1, BufferInvStep, StepIsQueueStep, PTL
        DEF BufferSpec, IsDescriptorQueue, Queue!QSpec

(***************************************************************************)
(* Interrupts and driver, proved for every depth of the report FIFO, every *)
(* range of sequence numbers, and reports with disable_irq or without.     *)
(*                                                                         *)
(* The strobes are edges: an irq is raised once for a FIFO that stays      *)
(* filled.  What makes the driver's loop safe is therefore what it knows   *)
(* when it looks: from the moment the status bits showed nothing more      *)
(* (mode "leave") to the moment the irq is taken ("idle"), whatever has    *)
(* come since has left a trace (RxTrace, TxTrace).  The status bit is a    *)
(* clock cycle old, so that RxTrace has to know how it relates to the edge *)
(* detector (EmptyMeansEdge) and to the FIFO (FilledMeansReport).          *)
(***************************************************************************)

RegistersOK ==
    /\ {tx_irq_enable_bit, rx_irq_enable_bit, tx_irq_pending, rx_irq_pending,
        disable_tx_irq, rx_report_buf_empty, tx_event_r, rx_event_r,
        txIrqSeen, rxIrqSeen, reset} \subseteq BOOLEAN
    /\ reportFifo \in Seq(DISABLE_IRQ)
    /\ stale_disable_irq \in DISABLE_IRQ
    /\ tx_report \in [is_report : BOOLEAN, disable_irq : BOOLEAN]

\* The modes in which the driver trusts the irq to come.
Leaving == {"leave", "idle"}

RxTrace == rxMode \in Leaving /\ rx_report_available =>
               rxIrqSeen \/ rx_irq_event \/ rx_irq_pending

TxTrace == txMode \in Leaving /\ tx_last_seq_number # txSeen =>
               txIrqSeen \/ tx_irq_pending

EmptyMeansEdge == rx_report_buf_empty => ~rx_event_r

FilledMeansReport ==
    /\ rxMode = "poll" /\ ~rx_report_buf_empty => rx_report_available
    /\ rxMode = "read" => rx_report_available

\* posedge_detector sees every report: two of them are never in a row.
ReportIsEdge == tx_report.is_report => ~tx_event_r

InReset ==
    reset => /\ reportFifo = <<>> /\ tx_report = NoReport
             /\ tx_last_seq_number = txSeen
             /\ rxMode = "idle" /\ txMode = "idle"
             /\ ~rx_report_buf_empty

IInv == /\ RegistersOK /\ RxTrace /\ TxTrace
        /\ EmptyMeansEdge /\ FilledMeansReport
        /\ ReportIsEdge /\ InReset

-----------------------------------------------------------------------------
(* What a clock edge does, whatever the driver does on it. *)

\* A FIFO that is not read keeps its reports, and one that shows no report has
\* none at its head (fifo_showahead.v).
LEMMA ReportFifoEdge ==
    ASSUME IInv, NEW rdreq \in BOOLEAN, ReportFifo(rdreq)
    PROVE  /\ reportFifo' \in Seq(DISABLE_IRQ)
           /\ stale_disable_irq' \in DISABLE_IRQ
           /\ rx_report_available /\ ~rdreq => rx_report_available'
<1>1. PICK report \in {<<>>} \cup {<<d>> : d \in DISABLE_IRQ} :
          reportFifo' = FifoEdge(reportFifo, RX_RESPONSE_FIFO_DEPTH,
                                 report, rdreq)
  BY DEF ReportFifo
<1>2. reportFifo \in Seq(DISABLE_IRQ) /\ report \in Seq(DISABLE_IRQ)
  <2>1. /\ <<>> \in Seq(DISABLE_IRQ)
        /\ \A d \in DISABLE_IRQ : <<d>> \in Seq(DISABLE_IRQ)
    OBVIOUS
  <2> QED BY <2>1 DEF IInv, RegistersOK
<1>3. reportFifo' \in Seq(DISABLE_IRQ)
  <2>1. FifoRead(reportFifo, rdreq) \in Seq(DISABLE_IRQ)
    BY <1>2, FifoReadType
  <2> QED BY <1>1, <1>2, <2>1 DEF FifoEdge
<1>4. rx_report_available /\ ~rdreq => rx_report_available'
  <2> SUFFICES ASSUME reportFifo # <<>>, rdreq = FALSE
               PROVE  reportFifo' # <<>>
    BY DEF rx_report_available, FifoEmpty
  <2> QED BY <1>1, <1>2, FifoHeadKept, IrqAssumption DEF IrqAssumption
<1> QED BY <1>3, <1>4 DEF ReportFifo

\* An edge, or what is left of one, is not lost: it is an irq or is kept
\* pending, and an irq is remembered until the handler takes it
\* (netdma_csr.sv, irq_pending).
LEMMA TraceKept ==
    ASSUME IInv, NEW rdreq \in BOOLEAN, NEW txTaken \in BOOLEAN,
           NEW rxTaken \in BOOLEAN, Clock(rdreq, txTaken, rxTaken)
    PROVE  /\ (rxIrqSeen /\ ~rxTaken) \/ rx_irq_event \/ rx_irq_pending =>
                  rxIrqSeen' \/ rx_irq_pending'
           /\ (txIrqSeen /\ ~txTaken) \/ tx_irq_event \/ tx_irq_pending =>
                  txIrqSeen' \/ tx_irq_pending'
BY DEF Clock, Status, Irqs, rx_irq, tx_irq

\* The sequence number changes only with an event of its own.
LEMMA NumberIsEvent ==
    ASSUME IInv, NEW rdreq \in BOOLEAN, NEW txTaken \in BOOLEAN,
           NEW rxTaken \in BOOLEAN, Clock(rdreq, txTaken, rxTaken),
           tx_last_seq_number' # tx_last_seq_number
    PROVE  tx_irq_event
BY DEF Clock, Status, tx_irq_event, IInv, ReportIsEdge

\* Everything of the invariant that does not depend on the driver's mode.
LEMMA ClockStep ==
    ASSUME IInv, NEW rdreq \in BOOLEAN, NEW txTaken \in BOOLEAN,
           NEW rxTaken \in BOOLEAN, Clock(rdreq, txTaken, rxTaken),
           {tx_irq_enable_bit, rx_irq_enable_bit}' \subseteq BOOLEAN
    PROVE  /\ RegistersOK' /\ EmptyMeansEdge' /\ ReportIsEdge' /\ InReset'
           /\ rx_event_r' = rx_report_available
           /\ rx_report_buf_empty' = ~rx_report_available
<1>1. /\ rx_event_r' = rx_report_available
      /\ tx_event_r' = tx_report.is_report
      /\ rx_report_buf_empty' = ~rx_report_available
      /\ reset' = reset /\ ~reset /\ reset \in BOOLEAN
  BY DEF Clock, Events, Status, IInv, RegistersOK
<1>2. /\ tx_report' \in [is_report : BOOLEAN, disable_irq : BOOLEAN]
      /\ tx_report \in [is_report : BOOLEAN, disable_irq : BOOLEAN]
  <2>1. TxReports \subseteq [is_report : BOOLEAN, disable_irq : BOOLEAN]
    <3>1. [is_report |-> FALSE, disable_irq |-> FALSE]
              \in [is_report : BOOLEAN, disable_irq : BOOLEAN]
      OBVIOUS
    <3>2. [is_report : {TRUE}, disable_irq : DISABLE_IRQ]
              \subseteq [is_report : BOOLEAN, disable_irq : BOOLEAN]
      <4>1. DISABLE_IRQ \subseteq BOOLEAN /\ {TRUE} \subseteq BOOLEAN
        BY IrqAssumption DEF IrqAssumption
      <4> QED BY <4>1
    <3> QED BY <3>1, <3>2 DEF TxReports
  <2> QED BY <2>1 DEF Clock, TxReport, IInv, RegistersOK
<1>3. {tx_irq_pending, rx_irq_pending, disable_tx_irq, txIrqSeen,
       rxIrqSeen}' \subseteq BOOLEAN
  <2>1. {tx_irq_pending, rx_irq_pending, txIrqSeen, rxIrqSeen}'
            \subseteq BOOLEAN
    BY DEF Clock, Status, Irqs
  <2>2. disable_tx_irq' \in BOOLEAN
    <3>1. disable_tx_irq \in BOOLEAN /\ tx_report.disable_irq \in BOOLEAN
      BY <1>2 DEF IInv, RegistersOK
    <3> QED BY <3>1 DEF Clock, Status
  <2> QED BY <2>1, <2>2
<1>4. {tx_event_r, rx_event_r, rx_report_buf_empty, reset}' \subseteq BOOLEAN
  BY <1>1, <1>2 DEF rx_report_available
<1>5. /\ reportFifo' \in Seq(DISABLE_IRQ)
      /\ stale_disable_irq' \in DISABLE_IRQ
  BY ReportFifoEdge DEF Clock
<1>6. RegistersOK'
  BY <1>2, <1>3, <1>4, <1>5 DEF RegistersOK
<1>7. ReportIsEdge'
  BY <1>1, <1>2 DEF Clock, TxReport, ReportIsEdge
<1> QED BY <1>1, <1>6, <1>7 DEF EmptyMeansEdge, InReset

-----------------------------------------------------------------------------
(* The invariant. *)

LEMMA InitIInv == IrqInit => IInv
<1> SUFFICES ASSUME IrqInit PROVE IInv
  OBVIOUS
<1>1. RegistersOK
  <2>1. <<>> \in Seq(DISABLE_IRQ)
    OBVIOUS
  <2>2. NoReport \in [is_report : BOOLEAN, disable_irq : BOOLEAN]
    BY DEF NoReport
  <2> QED BY <2>1, <2>2, Zenon DEF IrqInit, RegistersOK
<1>2. RxTrace /\ TxTrace
  BY DEF IrqInit, RxTrace, TxTrace, rx_report_available, FifoEmpty
<1> QED BY <1>1, <1>2 DEF IrqInit, IInv, EmptyMeansEdge, FilledMeansReport,
                          ReportIsEdge, InReset, NoReport

\* What a direction has to keep, if the driver looks at it on this edge or not.
LEMMA RxDirection ==
    ASSUME IInv, NEW rdreq \in BOOLEAN, NEW txTaken \in BOOLEAN,
           NEW rxTaken \in BOOLEAN, Clock(rdreq, txTaken, rxTaken)
    PROVE  /\ ~rdreq /\ ~rxTaken /\ rxMode \in Leaving /\ rxMode' \in Leaving
                  => RxTrace'
           /\ rxMode = "poll" /\ rx_report_buf_empty /\ ~rdreq => RxTrace'
           /\ ~rdreq /\ rxMode \in {"poll", "read"} /\ rxMode' = rxMode
                  => FilledMeansReport'
           /\ ~rdreq /\ rxMode' = "poll" => FilledMeansReport'
<1>1. /\ rx_event_r' = rx_report_available
      /\ rx_report_buf_empty' = ~rx_report_available
  BY DEF Clock, Events, Status
<1>2. ~rdreq /\ rx_report_available => rx_report_available'
  BY ReportFifoEdge DEF Clock
<1>3. (rxIrqSeen /\ ~rxTaken) \/ rx_irq_event \/ rx_irq_pending =>
          rxIrqSeen' \/ rx_irq_pending'
  BY TraceKept
<1>4. ~rx_report_available /\ rx_report_available' => rx_irq_event'
  BY <1>1 DEF rx_irq_event
<1>5. ASSUME ~rdreq, ~rxTaken, rxMode \in Leaving PROVE RxTrace'
  BY <1>3, <1>4, <1>5 DEF RxTrace, IInv
<1>6. ASSUME rxMode = "poll", rx_report_buf_empty, ~rdreq PROVE RxTrace'
  <2>1. rx_report_available => rx_irq_event
    BY <1>6 DEF IInv, EmptyMeansEdge, rx_irq_event
  <2> QED BY <1>3, <1>4, <2>1 DEF RxTrace
<1>7. ASSUME ~rdreq, rxMode' = "poll" PROVE FilledMeansReport'
  BY <1>1, <1>2, <1>7 DEF FilledMeansReport
<1>8. ASSUME ~rdreq, rxMode = "read", rxMode' = rxMode
      PROVE  FilledMeansReport'
  BY <1>2, <1>8 DEF FilledMeansReport, IInv
<1> QED BY <1>5, <1>6, <1>7, <1>8

\* And for the other direction.  A number is looked at and compared on the same
\* edge, so that a later one has its event behind it.
LEMMA TxDirection ==
    ASSUME IInv, NEW rdreq \in BOOLEAN, NEW txTaken \in BOOLEAN,
           NEW rxTaken \in BOOLEAN, Clock(rdreq, txTaken, rxTaken)
    PROVE  /\ ~txTaken /\ txMode \in Leaving /\ txSeen' = txSeen => TxTrace'
           /\ txSeen' = tx_last_seq_number => TxTrace'
<1>1. (txIrqSeen /\ ~txTaken) \/ tx_irq_event \/ tx_irq_pending =>
          txIrqSeen' \/ tx_irq_pending'
  BY TraceKept
<1>2. tx_last_seq_number' # tx_last_seq_number => tx_irq_event
  BY NumberIsEvent
<1> QED BY <1>1, <1>2 DEF TxTrace, IInv

\* Each step of clock, driver and reset keeps the invariant.
LEMMA NextStep == IInv /\ [IrqNext]_irqVars => IInv'
<1> SUFFICES ASSUME IInv, [IrqNext]_irqVars PROVE IInv'
  OBVIOUS
<1> USE DEF Leaving
<1>1. CASE Tick
  <2>1. RegistersOK' /\ EmptyMeansEdge' /\ ReportIsEdge' /\ InReset'
    BY <1>1, ClockStep DEF Tick, IInv, RegistersOK
  <2>2. RxTrace'
    BY <1>1, RxDirection DEF Tick, RxTrace
  <2>3. TxTrace'
    BY <1>1, TxDirection DEF Tick, TxTrace
  <2>4. FilledMeansReport'
    BY <1>1, RxDirection DEF Tick, FilledMeansReport
  <2> QED BY <2>1, <2>2, <2>3, <2>4 DEF IInv
<1>2. CASE RxIrqHandler
  <2>1. RegistersOK' /\ EmptyMeansEdge' /\ ReportIsEdge' /\ InReset'
    BY <1>2, ClockStep DEF RxIrqHandler, IInv, RegistersOK
  <2>2. RxTrace'
    BY <1>2 DEF RxIrqHandler, RxTrace
  <2>3. TxTrace'
    BY <1>2, TxDirection DEF RxIrqHandler, TxTrace
  <2>4. FilledMeansReport'
    BY <1>2, RxDirection DEF RxIrqHandler
  <2> QED BY <2>1, <2>2, <2>3, <2>4 DEF IInv
<1>3. CASE RxPollStatus
  <2>1. RegistersOK' /\ EmptyMeansEdge' /\ ReportIsEdge' /\ InReset'
    BY <1>3, ClockStep DEF RxPollStatus, IInv, RegistersOK
  <2>2. RxTrace'
    BY <1>3, RxDirection DEF RxPollStatus, RxTrace
  <2>3. TxTrace'
    BY <1>3, TxDirection DEF RxPollStatus, TxTrace
  <2>4. FilledMeansReport'
    <3>1. rx_report_available => rx_report_available'
      BY <1>3, ReportFifoEdge DEF RxPollStatus, Clock
    <3> QED BY <1>3, <3>1 DEF RxPollStatus, FilledMeansReport, IInv
  <2> QED BY <2>1, <2>2, <2>3, <2>4 DEF IInv
<1>4. CASE RxReadReport
  <2>1. RegistersOK' /\ EmptyMeansEdge' /\ ReportIsEdge' /\ InReset'
    BY <1>4, ClockStep DEF RxReadReport, IInv, RegistersOK
  <2>2. RxTrace' /\ FilledMeansReport'
    BY <1>4 DEF RxReadReport, RxTrace, FilledMeansReport
  <2>3. TxTrace'
    BY <1>4, TxDirection DEF RxReadReport, TxTrace
  <2> QED BY <2>1, <2>2, <2>3 DEF IInv
<1>5. CASE RxLeave
  <2>1. RegistersOK' /\ EmptyMeansEdge' /\ ReportIsEdge' /\ InReset'
    BY <1>5, ClockStep DEF RxLeave, IInv, RegistersOK
  <2>2. RxTrace' /\ FilledMeansReport'
    BY <1>5, RxDirection DEF RxLeave, FilledMeansReport
  <2>3. TxTrace'
    BY <1>5, TxDirection DEF RxLeave, TxTrace
  <2> QED BY <2>1, <2>2, <2>3 DEF IInv
<1>6. CASE TxIrqHandler
  <2>1. RegistersOK' /\ EmptyMeansEdge' /\ ReportIsEdge' /\ InReset'
    BY <1>6, ClockStep DEF TxIrqHandler, IInv, RegistersOK
  <2>2. RxTrace' /\ FilledMeansReport'
    BY <1>6, RxDirection DEF TxIrqHandler, RxTrace, FilledMeansReport
  <2>3. TxTrace'
    BY <1>6 DEF TxIrqHandler, TxTrace
  <2> QED BY <2>1, <2>2, <2>3 DEF IInv
<1>7. CASE TxPollStatus
  <2>1. RegistersOK' /\ EmptyMeansEdge' /\ ReportIsEdge' /\ InReset'
    BY <1>7, ClockStep DEF TxPollStatus, IInv, RegistersOK
  <2>2. RxTrace' /\ FilledMeansReport'
    BY <1>7, RxDirection DEF TxPollStatus, RxTrace, FilledMeansReport
  <2>3. TxTrace'
    BY <1>7, TxDirection DEF TxPollStatus
  <2> QED BY <2>1, <2>2, <2>3 DEF IInv
<1>8. CASE TxLeave
  <2>1. RegistersOK' /\ EmptyMeansEdge' /\ ReportIsEdge' /\ InReset'
    BY <1>8, ClockStep DEF TxLeave, IInv, RegistersOK
  <2>2. RxTrace' /\ FilledMeansReport'
    BY <1>8, RxDirection DEF TxLeave, RxTrace, FilledMeansReport
  <2>3. TxTrace'
    BY <1>8, TxDirection DEF TxLeave
  <2> QED BY <2>1, <2>2, <2>3 DEF IInv
<1>9. CASE HostReset
  <2>1. RegistersOK'
    <3>1. <<>> \in Seq(DISABLE_IRQ)
      OBVIOUS
    <3>2. NoReport \in [is_report : BOOLEAN, disable_irq : BOOLEAN]
      BY DEF NoReport
    <3>3. {tx_event_r, rx_event_r, txIrqSeen, rxIrqSeen}' \subseteq BOOLEAN
      BY <1>9 DEF HostReset, Events, Irqs, rx_report_available, IInv,
                  RegistersOK
    <3> QED BY <1>9, <3>1, <3>2, <3>3 DEF HostReset, RegistersOK
  <2>2. RxTrace' /\ TxTrace' /\ FilledMeansReport'
    BY <1>9 DEF HostReset, RxTrace, TxTrace, FilledMeansReport,
                rx_report_available, FifoEmpty
  <2>3. EmptyMeansEdge' /\ ReportIsEdge' /\ InReset'
    BY <1>9 DEF HostReset, EmptyMeansEdge, ReportIsEdge, InReset, NoReport
  <2> QED BY <2>1, <2>2, <2>3 DEF IInv
<1>10. CASE HostEnable
  <2>1. RegistersOK'
    <3>1. {tx_event_r, rx_event_r}' \subseteq BOOLEAN
      BY <1>10 DEF HostEnable, Events, rx_report_available, IInv, RegistersOK
    <3> QED BY <1>10, <3>1 DEF HostEnable, RegistersOK, IInv, statusVars,
                               fifoVars, driverVars
  <2>2. RxTrace' /\ TxTrace' /\ FilledMeansReport'
    BY <1>10 DEF HostEnable, RxTrace, TxTrace, FilledMeansReport, IInv,
                 InReset, rx_report_available, FifoEmpty, statusVars,
                 fifoVars, driverVars
  <2>3. EmptyMeansEdge' /\ ReportIsEdge' /\ InReset'
    BY <1>10 DEF HostEnable, EmptyMeansEdge, ReportIsEdge, InReset, NoReport,
                 IInv, statusVars, fifoVars, driverVars
  <2> QED BY <2>1, <2>2, <2>3 DEF IInv
<1>11. CASE UNCHANGED irqVars
  BY <1>11 DEF irqVars, ctrlVars, statusVars, fifoVars, eventVars, driverVars,
     IInv, RegistersOK, RxTrace, TxTrace, EmptyMeansEdge, FilledMeansReport,
     ReportIsEdge, InReset, rx_irq_event, rx_report_available
<1> QED BY <1>1, <1>2, <1>3, <1>4, <1>5, <1>6, <1>7, <1>8, <1>9, <1>10,
           <1>11 DEF IrqNext

THEOREM IrqInvariant == IrqSpec => []IInv
<1> QED BY InitIInv, NextStep, PTL DEF IrqSpec

-----------------------------------------------------------------------------
(* What the driver relies on. *)

\* The driver never sleeps with a report or a finished packet that nothing
\* will tell it of: netdma_csr.sv raises the irqs on edges only, and the loop
\* of the user guide polls a status that is a clock cycle old.
THEOREM IrqNeverForgotten == IrqSpec => []NeverForgotten
<1>1. IInv => NeverForgotten
  BY DEF IInv, NeverForgotten, RxNeverForgotten, TxNeverForgotten, RxTrace,
         TxTrace, Leaving
<1> QED BY <1>1, IrqInvariant, PTL

\* A report is read only from a FIFO that holds one, although the bit that
\* says so was computed a clock cycle before it was polled.
THEOREM IrqNoEmptyRead == IrqSpec => []NoEmptyRead
<1>1. IInv => NoEmptyRead
  BY DEF IInv, NoEmptyRead, FilledMeansReport
<1> QED BY <1>1, IrqInvariant, PTL

(***************************************************************************)
(* The calibration of the SDRAM, proved for every number of groups and of  *)
(* bits, every range of the delays, every time of a tap, every set of      *)
(* boards, and whatever the chains hold at power up.                       *)
(*                                                                         *)
(* The invariant, CalInv, follows the delays on their way from registers   *)
(* through chain to i/o cells.  While group g is worked on the others are  *)
(* Settled: SCC_MGR_UPD, which loads all i/o cells, loads what they hold.  *)
(* A step Works if it keeps to that; most of the lemmas say it of one      *)
(* function of the program.  What makes success mean something is what the *)
(* program does not test again: the writes are tested with the reads as    *)
(* they then are, and the reads are centered once more afterwards, so that *)
(* this must leave the outputs alone (Reads, OutLoaded, CenterInv); DM and *)
(* DQS are put where no test was made, in the middle of a window, so that  *)
(* the tests of its two ends must say that it is right there (DmPassed,    *)
(* DmEye, DmInv); and the latency is raised by two after the last test, so *)
(* that PHY_RLAT must hold it (LatencyInv, where LatenciesFit is needed).  *)
(*                                                                         *)
(* First come what the functions do with the hardware, the numbers, the    *)
(* start of the memory, then CalInv, one search after the other, and the   *)
(* theorems.                                                               *)
(***************************************************************************)
-----------------------------------------------------------------------------
(* The hardware. *)

Modes == {"MR0", "MR1", "MR2", "MR3", "user"}
OdtSetting == [read : {0}, write : {0, 1}]

HwStates ==
    [board : Boards, group_counter : Groups, hhp_extras : BOOLEAN,
     dqs : [Groups -> DqsSetting], pin : [Pins -> PinSetting],
     chain : Cells, io : Cells, vfifo : [Groups -> 0 .. VFIFO_SIZE - 1],
     rlat : 0 .. MAX_LATENCY, mux : {2, 3}, stable : BOOLEAN,
     odt : OdtSetting, modes : SUBSET Modes, open : BOOLEAN,
     patterns : [Groups -> BOOLEAN], due : Nat, misuse : BOOLEAN]

\* The memory takes the commands of a test.
Awake(h) ==
    /\ h.stable /\ h.open /\ h.mux = 3 /\ h.due = 0 /\ ~h.misuse
    /\ {"MR0", "MR1", "MR2", "MR3"} \subseteq h.modes

\* What SCC_MGR_UPD would load is in the i/o cells of all groups but g.
Settled(h, g) ==
    \A j \in Groups \ {g} : /\ h.chain.dqs[j] = h.io.dqs[j]
                            /\ h.chain.pin[j] = h.io.pin[j]

\* The state of the hardware while group g is calibrated.
AtWork(h, g) ==
    /\ h \in HwStates /\ g \in Groups /\ h.group_counter = g
    /\ Awake(h) /\ Settled(h, g)

\* From h to k no group but g has moved.
OnlyMoves(h, k, g) ==
    /\ k.board = h.board
    /\ \A j \in Groups \ {g} : /\ k.io.dqs[j] = h.io.dqs[j]
                               /\ k.io.pin[j] = h.io.pin[j]
                               /\ k.vfifo[j] = h.vfifo[j]

\* What the calibration of group g may do with the hardware.
Works(h, k, g) == AtWork(h, g) => AtWork(k, g) /\ OnlyMoves(h, k, g)

LEMMA WorksOn ==
    ASSUME NEW h, NEW k, NEW l, NEW g, Works(h, k, g), Works(k, l, g)
    PROVE  Works(h, l, g)
BY DEF Works, OnlyMoves

LEMMA WorksNot == \A h, g : Works(h, h, g)
BY DEF Works, OnlyMoves

\* The registers of the pins, and those of group g.
LEMMA PinRegisters ==
    ASSUME NEW h, NEW g, NEW f \in [Pins -> PinSetting]
    PROVE  Works(h, [h EXCEPT !.pin = f], g)
BY DEF Works, AtWork, OnlyMoves, HwStates, Awake, Settled

LEMMA DqsRegisters ==
    ASSUME NEW h, NEW g, NEW s \in DqsSetting
    PROVE  Works(h, [h EXCEPT !.dqs[g] = s], g)
<1> SUFFICES ASSUME AtWork(h, g)
             PROVE  AtWork([h EXCEPT !.dqs[g] = s], g)
                    /\ OnlyMoves(h, [h EXCEPT !.dqs[g] = s], g)
  BY DEF Works
<1>1. [h.dqs EXCEPT ![g] = s] \in [Groups -> DqsSetting]
  BY DEF AtWork, HwStates
<1> QED BY <1>1 DEF AtWork, OnlyMoves, HwStates, Awake, Settled

\* The chains of group g, and all i/o cells.
LEMMA DqsChain ==
    ASSUME NEW h, NEW g
    PROVE  Works(h, DqsEna(h, {g}), g)
<1> SUFFICES ASSUME AtWork(h, g)
             PROVE  AtWork(DqsEna(h, {g}), g)
                    /\ OnlyMoves(h, DqsEna(h, {g}), g)
  BY DEF Works
<1> DEFINE c == [h.chain EXCEPT !.dqs = [j \in Groups |-> IF j \in {g} THEN h.dqs[j] ELSE @[j]]]
<1>1. c \in Cells /\ c.pin = h.chain.pin /\ \A j \in Groups : j # g => c.dqs[j] = h.chain.dqs[j]
  BY DEF AtWork, HwStates, Cells
<1>2. DqsEna(h, {g}) = [h EXCEPT !.chain = c]
  BY DEF DqsEna, AtWork, HwStates
<1> HIDE DEF c
<1>3. [h EXCEPT !.chain = c] \in HwStates
  BY <1>1 DEF AtWork, HwStates
<1>4. Settled([h EXCEPT !.chain = c], g)
  BY <1>1 DEF AtWork, HwStates, Settled
<1>5. Awake([h EXCEPT !.chain = c]) /\ OnlyMoves(h, [h EXCEPT !.chain = c], g)
      /\ [h EXCEPT !.chain = c].group_counter = g
  BY DEF AtWork, HwStates, Awake, OnlyMoves
<1> QED BY <1>2, <1>3, <1>4, <1>5 DEF AtWork

LEMMA PinChain ==
    ASSUME NEW h, NEW g, NEW ps
    PROVE  Works(h, PinEna(h, ps), g)
<1> SUFFICES ASSUME AtWork(h, g)
             PROVE  AtWork(PinEna(h, ps), g)
                    /\ OnlyMoves(h, PinEna(h, ps), g)
  BY DEF Works
<1> DEFINE q == [p \in Pins |-> IF p \in ps THEN h.pin[p] ELSE h.chain.pin[g][p]]
           c == [h.chain EXCEPT !.pin[g] = q]
<1>1. q \in [Pins -> PinSetting]
  BY DEF AtWork, HwStates, Cells
<1>2. PinEna(h, ps) = [h EXCEPT !.chain = c]
  BY DEF PinEna, AtWork, HwStates, Cells
<1> HIDE DEF q
<1>3. c \in Cells /\ c.dqs = h.chain.dqs /\ \A j \in Groups : j # g => c.pin[j] = h.chain.pin[j]
  BY <1>1 DEF AtWork, HwStates, Cells
<1> HIDE DEF c
<1> QED BY <1>2, <1>3 DEF AtWork, OnlyMoves, HwStates, Awake, Settled

LEMMA Update ==
    ASSUME NEW h, NEW g
    PROVE  Works(h, Upd(h), g)
<1> SUFFICES ASSUME AtWork(h, g)
             PROVE  AtWork(Upd(h), g) /\ OnlyMoves(h, Upd(h), g)
  BY DEF Works
<1>1. Upd(h) \in HwStates
  BY DEF AtWork, HwStates, Upd
<1> QED BY <1>1 DEF AtWork, OnlyMoves, HwStates, Awake, Settled, Upd

-----------------------------------------------------------------------------
(* The tests: nothing is left of one but that the termination is off and     *)
(* what the memory holds.                                                    *)

Rested(h) == [h EXCEPT !.odt = [read |-> 0, write |-> 0]]

LEMMA Rests ==
    ASSUME NEW h, NEW g
    PROVE  /\ Works(h, Rested(h), g)
           /\ \A f \in [Groups -> BOOLEAN] :
                  Works(h, [Rested(h) EXCEPT !.patterns = f], g)
<1> SUFFICES ASSUME AtWork(h, g)
             PROVE  /\ AtWork(Rested(h), g) /\ OnlyMoves(h, Rested(h), g)
                    /\ \A f \in [Groups -> BOOLEAN] :
                         /\ AtWork([Rested(h) EXCEPT !.patterns = f], g)
                         /\ OnlyMoves(h, [Rested(h) EXCEPT !.patterns = f], g)
  BY DEF Works
<1>1. [read |-> 0, write |-> 0] \in OdtSetting
  BY DEF OdtSetting
<1>2. AtWork(Rested(h), g) /\ OnlyMoves(h, Rested(h), g)
  <2>1. Rested(h) \in HwStates
    BY <1>1 DEF AtWork, HwStates, Rested
  <2> QED BY <2>1 DEF AtWork, OnlyMoves, HwStates, Awake, Settled, Rested
<1>3. ASSUME NEW k, AtWork(k, g), NEW f \in [Groups -> BOOLEAN]
      PROVE  /\ AtWork([k EXCEPT !.patterns = f], g)
             /\ OnlyMoves(k, [k EXCEPT !.patterns = f], g)
  <2>1. [k EXCEPT !.patterns = f] \in HwStates
    BY <1>3 DEF AtWork, HwStates
  <2> QED BY <1>3, <2>1 DEF AtWork, OnlyMoves, HwStates, Awake, Settled
<1> QED BY <1>2, <1>3 DEF OnlyMoves

LEMMA TestBegins ==
    ASSUME NEW h, NEW g, AtWork(h, g)
    PROVE  /\ TestBegin(h) = [h EXCEPT !.odt = [read |-> 0, write |-> 1]]
           /\ TestBegin(h).patterns = h.patterns /\ TestBegin(h).io = h.io
           /\ TestBegin(h).board = h.board /\ TestBegin(h).vfifo = h.vfifo
           /\ TestBegin(h).rlat = h.rlat
           /\ TestEnd(TestBegin(h)) = Rested(h)
<1> DEFINE o == [h EXCEPT !.odt = [read |-> 0, write |-> 1]]
<1>1. set_rank_and_odt_mask(h, "READ_WRITE") = o
  BY DEF set_rank_and_odt_mask
<1>2. /\ o.open /\ o.stable /\ o.mux = 3 /\ o.due = 0 /\ o.misuse = FALSE
      /\ o \in HwStates
  BY DEF AtWork, Awake, HwStates, OdtSetting
<1>3. Access(o) = o
  <2> HIDE DEF o
  <2>1. [o EXCEPT !.misuse = FALSE] = o
    BY <1>2 DEF HwStates
  <2> QED BY <1>2, <2>1 DEF Access, Command
<1>4. TestBegin(h) = o
  BY <1>1, <1>3 DEF TestBegin
<1>5. TestEnd(o) = Rested(h)
  BY DEF TestEnd, set_rank_and_odt_mask, Rested, AtWork, HwStates
<1> QED BY <1>4, <1>5 DEF AtWork, HwStates

\* What EnablePosition and the eyes look at is the same in k.
SameCells(h, k) == /\ k.io = h.io /\ k.board = h.board /\ k.vfifo = h.vfifo
                   /\ k.rlat = h.rlat

LEMMA SameEyes ==
    ASSUME NEW h, NEW k, NEW g, SameCells(h, k)
    PROVE  /\ Enabled(k, g) = Enabled(h, g) /\ LatencyMet(k, g) = LatencyMet(h, g)
           /\ DqssMet(k, g) = DqssMet(h, g)
           /\ \A dq : ReadEye(k, g, dq) = ReadEye(h, g, dq)
           /\ \A pin, w : WriteEye(k, g, pin, w) = WriteEye(h, g, pin, w)
BY DEF SameCells, Enabled, EnablePosition, LatencyMet, DqssMet, ReadEye, WriteEye

LEMMA ReadTest ==
    ASSUME NEW h, NEW g, AtWork(h, g), NEW gs,
           NEW t \in rw_mgr_mem_calibrate_read_test(h, gs)
    PROVE  /\ t.hw = Rested(h) /\ t.bits \subseteq Dqs
           /\ \A dq \in t.bits, j \in gs :
                  ReadEye(h, j, dq) /\ LatencyMet(h, j) /\ TRUE \in Enabled(h, j)
<1> DEFINE a == TestBegin(h)
<1>1. SameCells(h, a) /\ TestEnd(a) = Rested(h)
  BY TestBegins DEF SameCells
<1>2. PICK e \in [gs -> BOOLEAN] :
          /\ \A j \in gs : e[j] \in Enabled(a, j)
          /\ t = [hw |-> TestEnd(a),
                  bits |-> {dq \in Dqs : \A j \in gs :
                                a.patterns[j] /\ dq \in ReadsBack(a, j, e[j])}]
  BY DEF rw_mgr_mem_calibrate_read_test
<1> HIDE DEF a
<1>3. ASSUME NEW dq \in t.bits, NEW j \in gs
      PROVE  ReadEye(h, j, dq) /\ LatencyMet(h, j) /\ TRUE \in Enabled(h, j)
  <2>1. dq \in ReadsBack(a, j, e[j])
    BY <1>2, <1>3
  <2>2. e[j] = TRUE /\ LatencyMet(a, j) /\ ReadEye(a, j, dq)
    BY <2>1, <1>3 DEF ReadsBack
  <2>3. /\ Enabled(a, j) = Enabled(h, j) /\ LatencyMet(a, j) = LatencyMet(h, j)
        /\ ReadEye(a, j, dq) = ReadEye(h, j, dq)
    BY <1>1, SameEyes
  <2>4. e[j] \in Enabled(a, j)
    BY <1>2, <1>3
  <2> QED BY <2>2, <2>3, <2>4
<1> QED BY <1>1, <1>2, <1>3

LEMMA WriteTested ==
    ASSUME NEW h, NEW g, AtWork(h, g), NEW nops, NEW use_dm \in BOOLEAN,
           NEW t \in rw_mgr_mem_calibrate_write_test(h, g, nops, use_dm)
    PROVE  /\ t.hw = [Rested(h) EXCEPT !.patterns = [h.patterns EXCEPT ![g] = FALSE]]
           /\ t.bits \subseteq Dqs
           /\ \A dq \in t.bits :
                  /\ DqssMet(h, g) /\ WriteEye(h, g, dq, h.board.group[g].write[dq])
                  /\ use_dm => WriteEye(h, g, DmPin, h.board.group[g].dm)
<1> DEFINE a == TestBegin(h)
           n == rw_mgr_mem_calibrate_write_test_issue(nops)
           b == [a EXCEPT !.patterns[g] = FALSE]
<1>1. SameCells(h, a) /\ TestEnd(a) = Rested(h)
      /\ a = [h EXCEPT !.odt = [read |-> 0, write |-> 1]]
  BY TestBegins DEF SameCells
<1>2. PICK e \in Enabled(a, g) :
          t = [hw |-> TestEnd(b), bits |-> Stores(a, g, n, use_dm) \cap ReadsBack(a, g, e)]
  BY DEF rw_mgr_mem_calibrate_write_test
<1>3. TestEnd(b) = [Rested(h) EXCEPT !.patterns = [h.patterns EXCEPT ![g] = FALSE]]
  BY <1>1 DEF TestEnd, set_rank_and_odt_mask, Rested, AtWork, HwStates
<1> HIDE DEF a, b, n
<1>4. ASSUME NEW dq \in t.bits
      PROVE  /\ DqssMet(h, g) /\ WriteEye(h, g, dq, h.board.group[g].write[dq])
             /\ use_dm => WriteEye(h, g, DmPin, h.board.group[g].dm)
  <2>1. dq \in Stores(a, g, n, use_dm)
    BY <1>2, <1>4
  <2>2. /\ DqssMet(a, g) /\ WriteEye(a, g, dq, a.board.group[g].write[dq])
        /\ use_dm => WriteEye(a, g, DmPin, a.board.group[g].dm)
    BY <2>1 DEF Stores
  <2>3. a.board = h.board
    BY <1>1 DEF SameCells
  <2> QED BY <1>1, <2>2, <2>3, SameEyes
<1>5. t.bits \subseteq Dqs
  BY <1>2 DEF Stores
<1> QED BY <1>2, <1>3, <1>4, <1>5

\* A test is part of the work on the group.
LEMMA ReadTestWorks ==
    ASSUME NEW h, NEW g, AtWork(h, g), NEW gs,
           NEW t \in rw_mgr_mem_calibrate_read_test(h, gs)
    PROVE  Works(h, t.hw, g) /\ t.bits \subseteq Dqs
BY ReadTest, Rests

LEMMA WriteTestWorks ==
    ASSUME NEW h, NEW g, AtWork(h, g), NEW nops, NEW use_dm \in BOOLEAN,
           NEW t \in rw_mgr_mem_calibrate_write_test(h, g, nops, use_dm)
    PROVE  Works(h, t.hw, g) /\ t.bits \subseteq Dqs
<1> DEFINE f == [h.patterns EXCEPT ![g] = FALSE]
<1>1. f \in [Groups -> BOOLEAN]
  BY DEF AtWork, HwStates
<1>2. t.hw = [Rested(h) EXCEPT !.patterns = f] /\ t.bits \subseteq Dqs
  BY WriteTested, ZenonT(60)
<1> HIDE DEF f
<1>3. Works(h, [Rested(h) EXCEPT !.patterns = f], g)
  BY <1>1, Rests
<1> QED BY <1>2, <1>3

LEMMA LoadPatterns ==
    ASSUME NEW h, NEW g, AtWork(h, g)
    PROVE  /\ Works(h, rw_mgr_mem_calibrate_read_load_patterns(h), g)
           /\ rw_mgr_mem_calibrate_read_load_patterns(h).io = h.io
           /\ rw_mgr_mem_calibrate_read_load_patterns(h).chain = h.chain
<1> DEFINE a == TestBegin(h)
           f == [j \in Groups |-> Ready(a) /\ a.odt.write = 1 /\ DqssMet(a, j)]
<1>1. rw_mgr_mem_calibrate_read_load_patterns(h) = TestEnd([a EXCEPT !.patterns = f])
  BY DEF rw_mgr_mem_calibrate_read_load_patterns
<1>2. f \in [Groups -> BOOLEAN]
  BY DEF Ready, DqssMet, InWindow
<1>3. a = [h EXCEPT !.odt = [read |-> 0, write |-> 1]]
  BY TestBegins
<1> HIDE DEF f
<1>4. TestEnd([a EXCEPT !.patterns = f]) = [Rested(h) EXCEPT !.patterns = f]
  BY <1>3 DEF TestEnd, set_rank_and_odt_mask, Rested, AtWork, HwStates
<1>5. Works(h, [Rested(h) EXCEPT !.patterns = f], g)
  BY <1>2, Rests
<1>6. [Rested(h) EXCEPT !.patterns = f].io = h.io
      /\ [Rested(h) EXCEPT !.patterns = f].chain = h.chain
  BY DEF Rested, AtWork, HwStates
<1> QED BY <1>1, <1>4, <1>5, <1>6

LEMMA TestPatterns ==
    ASSUME NEW h, NEW g, AtWork(h, g)
    PROVE  rw_mgr_mem_calibrate_read_test_patterns(h, g).hw = Rested(h)
BY TestBegins DEF rw_mgr_mem_calibrate_read_test_patterns

-----------------------------------------------------------------------------
(* The functions of the scan chain manager and of the VFIFO. *)

LEMMA PinSet ==
    ASSUME NEW h, NEW g, NEW p \in Pins
    PROVE  /\ \A d \in 0 .. IO_IO_IN_DELAY_MAX : Works(h, [h EXCEPT !.pin[p].in = d], g)
           /\ \A d \in 0 .. IO_IO_OUT1_DELAY_MAX : Works(h, [h EXCEPT !.pin[p].out1 = d], g)
<1>1. ASSUME AtWork(h, g), NEW d \in 0 .. IO_IO_IN_DELAY_MAX
      PROVE  Works(h, [h EXCEPT !.pin[p].in = d], g)
  <2> DEFINE f == [h.pin EXCEPT ![p].in = d]
  <2>1. f \in [Pins -> PinSetting]
    BY <1>1 DEF AtWork, HwStates, PinSetting
  <2>2. [h EXCEPT !.pin[p].in = d] = [h EXCEPT !.pin = f]
    BY <1>1 DEF AtWork, HwStates
  <2> QED BY <2>1, <2>2, PinRegisters
<1>2. ASSUME AtWork(h, g), NEW d \in 0 .. IO_IO_OUT1_DELAY_MAX
      PROVE  Works(h, [h EXCEPT !.pin[p].out1 = d], g)
  <2> DEFINE f == [h.pin EXCEPT ![p].out1 = d]
  <2>1. f \in [Pins -> PinSetting]
    BY <1>2 DEF AtWork, HwStates, PinSetting
  <2>2. [h EXCEPT !.pin[p].out1 = d] = [h EXCEPT !.pin = f]
    BY <1>2 DEF AtWork, HwStates
  <2> QED BY <2>1, <2>2, PinRegisters
<1> QED BY <1>1, <1>2 DEF Works

LEMMA DqSet ==
    ASSUME NEW h, NEW g
    PROVE  /\ \A f \in [Dqs -> 0 .. IO_IO_IN_DELAY_MAX] :
                  Works(h, scc_mgr_set_dq_in_delay(h, f), g)
           /\ \A f \in [Dqs -> 0 .. IO_IO_OUT1_DELAY_MAX] :
                  Works(h, scc_mgr_set_dq_out1_delay(h, f), g)
<1>1. ASSUME AtWork(h, g), NEW f \in [Dqs -> 0 .. IO_IO_IN_DELAY_MAX]
      PROVE  Works(h, scc_mgr_set_dq_in_delay(h, f), g)
  <2> DEFINE q == [p \in Pins |-> IF p \in Dqs THEN [h.pin[p] EXCEPT !.in = f[p]]
                                  ELSE h.pin[p]]
  <2>1. q \in [Pins -> PinSetting]
    BY <1>1 DEF AtWork, HwStates, PinSetting
  <2>2. scc_mgr_set_dq_in_delay(h, f) = [h EXCEPT !.pin = q]
    BY <1>1 DEF AtWork, HwStates, scc_mgr_set_dq_in_delay
  <2> HIDE DEF q
  <2> QED BY <2>1, <2>2, PinRegisters
<1>2. ASSUME AtWork(h, g), NEW f \in [Dqs -> 0 .. IO_IO_OUT1_DELAY_MAX]
      PROVE  Works(h, scc_mgr_set_dq_out1_delay(h, f), g)
  <2> DEFINE q == [p \in Pins |-> IF p \in Dqs THEN [h.pin[p] EXCEPT !.out1 = f[p]]
                                  ELSE h.pin[p]]
  <2>1. q \in [Pins -> PinSetting]
    BY <1>2 DEF AtWork, HwStates, PinSetting
  <2>2. scc_mgr_set_dq_out1_delay(h, f) = [h EXCEPT !.pin = q]
    BY <1>2 DEF AtWork, HwStates, scc_mgr_set_dq_out1_delay
  <2> HIDE DEF q
  <2> QED BY <2>1, <2>2, PinRegisters
<1> QED BY <1>1, <1>2 DEF Works

LEMMA DqsSet ==
    ASSUME NEW h, NEW g
    PROVE  /\ \A d \in 0 .. IO_DQS_IN_DELAY_MAX :
                  Works(h, scc_mgr_set_dqs_bus_in_delay(h, g, d), g)
           /\ \A d \in 0 .. IO_DQS_EN_DELAY_MAX :
                  Works(h, scc_mgr_set_dqs_en_delay(h, g, d), g)
           /\ \A d \in 0 .. IO_IO_OUT1_DELAY_MAX :
                  Works(h, scc_mgr_set_oct_out1_delay(h, g, d), g)
           /\ \A p \in Nat : Works(h, scc_mgr_set_dqs_en_phase(h, g, p), g)
           /\ Works(h, scc_mgr_set_dqdqs_output_phase(h, g, 0), g)
<1> SUFFICES ASSUME AtWork(h, g)
             PROVE  /\ \A d \in 0 .. IO_DQS_IN_DELAY_MAX :
                           Works(h, scc_mgr_set_dqs_bus_in_delay(h, g, d), g)
                    /\ \A d \in 0 .. IO_DQS_EN_DELAY_MAX :
                           Works(h, scc_mgr_set_dqs_en_delay(h, g, d), g)
                    /\ \A d \in 0 .. IO_IO_OUT1_DELAY_MAX :
                           Works(h, scc_mgr_set_oct_out1_delay(h, g, d), g)
                    /\ \A p \in Nat : Works(h, scc_mgr_set_dqs_en_phase(h, g, p), g)
                    /\ Works(h, scc_mgr_set_dqdqs_output_phase(h, g, 0), g)
  BY DEF Works
<1> DEFINE s == h.dqs[g]
<1>1. s \in DqsSetting
  BY DEF AtWork, HwStates
<1>2. ASSUME NEW d \in 0 .. IO_DQS_IN_DELAY_MAX
      PROVE  Works(h, scc_mgr_set_dqs_bus_in_delay(h, g, d), g)
  <2>1. [s EXCEPT !.in = d] \in DqsSetting
    BY <1>1 DEF DqsSetting
  <2>2. scc_mgr_set_dqs_bus_in_delay(h, g, d) = [h EXCEPT !.dqs[g] = [s EXCEPT !.in = d]]
    BY DEF AtWork, HwStates, scc_mgr_set_dqs_bus_in_delay
  <2> QED BY <2>1, <2>2, DqsRegisters
<1>3. ASSUME NEW d \in 0 .. IO_DQS_EN_DELAY_MAX
      PROVE  Works(h, scc_mgr_set_dqs_en_delay(h, g, d), g)
  <2>1. [s EXCEPT !.en_delay = d] \in DqsSetting
    BY <1>1 DEF DqsSetting
  <2>2. scc_mgr_set_dqs_en_delay(h, g, d) = [h EXCEPT !.dqs[g] = [s EXCEPT !.en_delay = d]]
    BY DEF AtWork, HwStates, scc_mgr_set_dqs_en_delay
  <2> QED BY <2>1, <2>2, DqsRegisters
<1>4. ASSUME NEW d \in 0 .. IO_IO_OUT1_DELAY_MAX
      PROVE  Works(h, scc_mgr_set_oct_out1_delay(h, g, d), g)
  <2>1. [s EXCEPT !.oct_out1 = d] \in DqsSetting
    BY <1>1 DEF DqsSetting
  <2>2. scc_mgr_set_oct_out1_delay(h, g, d) = [h EXCEPT !.dqs[g] = [s EXCEPT !.oct_out1 = d]]
    BY DEF AtWork, HwStates, scc_mgr_set_oct_out1_delay
  <2> QED BY <2>1, <2>2, DqsRegisters
<1>5. ASSUME NEW p \in Nat
      PROVE  Works(h, scc_mgr_set_dqs_en_phase(h, g, p), g)
  <2> DEFINE q == p % (IO_DQS_EN_PHASE_MAX + 1)
  <2>1. q \in 0 .. IO_DQS_EN_PHASE_MAX
    BY SccMgrAssumption DEF SccMgrAssumption
  <2>2. scc_mgr_set_dqs_en_phase(h, g, p) = [h EXCEPT !.dqs[g] = [s EXCEPT !.en_phase = q]]
    BY DEF AtWork, HwStates, scc_mgr_set_dqs_en_phase
  <2> HIDE DEF q
  <2>3. [s EXCEPT !.en_phase = q] \in DqsSetting
    BY <1>1, <2>1 DEF DqsSetting
  <2> QED BY <2>2, <2>3, DqsRegisters
<1>6. Works(h, scc_mgr_set_dqdqs_output_phase(h, g, 0), g)
  <2>1. [s EXCEPT !.out_phase = 0] \in DqsSetting
    BY <1>1 DEF DqsSetting
  <2>2. scc_mgr_set_dqdqs_output_phase(h, g, 0) = [h EXCEPT !.dqs[g] = [s EXCEPT !.out_phase = 0]]
    BY DEF AtWork, HwStates, scc_mgr_set_dqdqs_output_phase
  <2> QED BY <2>1, <2>2, DqsRegisters
<1> QED BY <1>2, <1>3, <1>4, <1>5, <1>6

LEMMA PinsAre == DqsPin \in Pins /\ DmPin \in Pins /\ Dqs \subseteq Pins
BY SccMgrAssumption DEF SccMgrAssumption, DqsPin, DmPin, Pins, Dqs

LEMMA ReservesAre ==
    /\ IO_DQS_IN_RESERVE \in 0 .. IO_DQS_IN_DELAY_MAX
    /\ IO_DQS_OUT_RESERVE \in 0 .. IO_IO_OUT1_DELAY_MAX
    /\ 0 \in 0 .. IO_IO_IN_DELAY_MAX /\ 0 \in 0 .. IO_IO_OUT1_DELAY_MAX
BY SccMgrAssumption DEF SccMgrAssumption

LEMMA SetAllRanks ==
    ASSUME NEW h, NEW g
    PROVE  /\ \A p \in Nat : Works(h, scc_mgr_set_dqs_en_phase_all_ranks(h, g, p), g)
           /\ \A d \in 0 .. IO_DQS_EN_DELAY_MAX :
                  Works(h, scc_mgr_set_dqs_en_delay_all_ranks(h, g, d), g)
           /\ Works(h, scc_mgr_set_dqdqs_output_phase_all_ranks(h, g, 0), g)
<1>1. ASSUME NEW k, Works(h, k, g) PROVE Works(h, Upd(DqsEna(k, {g})), g)
  <2>1. Works(h, DqsEna(k, {g}), g)
    BY <1>1, DqsChain, WorksOn
  <2>2. Works(DqsEna(k, {g}), Upd(DqsEna(k, {g})), g)
    BY Update
  <2> QED BY <2>1, <2>2, WorksOn
<1>2. ASSUME NEW p \in Nat PROVE Works(h, scc_mgr_set_dqs_en_phase_all_ranks(h, g, p), g)
  BY <1>1, DqsSet DEF scc_mgr_set_dqs_en_phase_all_ranks
<1>3. ASSUME NEW d \in 0 .. IO_DQS_EN_DELAY_MAX
      PROVE  Works(h, scc_mgr_set_dqs_en_delay_all_ranks(h, g, d), g)
  BY <1>1, DqsSet DEF scc_mgr_set_dqs_en_delay_all_ranks
<1>4. Works(h, scc_mgr_set_dqdqs_output_phase_all_ranks(h, g, 0), g)
  BY <1>1, DqsSet DEF scc_mgr_set_dqdqs_output_phase_all_ranks
<1> QED BY <1>2, <1>3, <1>4

LEMMA ApplyDq ==
    ASSUME NEW h, NEW g
    PROVE  /\ \A d \in 0 .. IO_IO_IN_DELAY_MAX :
                  /\ Works(h, scc_mgr_apply_group_dq_in_delay(h, d), g)
                  /\ Works(h, Upd(scc_mgr_apply_group_dq_in_delay(h, d)), g)
           /\ \A d \in 0 .. IO_IO_OUT1_DELAY_MAX :
                  /\ Works(h, scc_mgr_apply_group_dq_out1_delay(h, d), g)
                  /\ Works(h, Upd(scc_mgr_apply_group_dq_out1_delay(h, d)), g)
                  /\ Works(h, scc_mgr_apply_group_dm_out1_delay(h, d), g)
                  /\ Works(h, Upd(scc_mgr_apply_group_dm_out1_delay(h, d)), g)
<1>1. ASSUME NEW k, Works(h, k, g), NEW ps
      PROVE  Works(h, PinEna(k, ps), g) /\ Works(h, Upd(PinEna(k, ps)), g)
  <2>1. Works(h, PinEna(k, ps), g)
    BY <1>1, PinChain, WorksOn
  <2>2. Works(PinEna(k, ps), Upd(PinEna(k, ps)), g)
    BY Update
  <2> QED BY <2>1, <2>2, WorksOn
<1>2. ASSUME NEW d \in 0 .. IO_IO_IN_DELAY_MAX
      PROVE  /\ Works(h, scc_mgr_apply_group_dq_in_delay(h, d), g)
             /\ Works(h, Upd(scc_mgr_apply_group_dq_in_delay(h, d)), g)
  <2>1. Works(h, scc_mgr_set_dq_in_delay(h, [dq \in Dqs |-> d]), g)
    BY DqSet
  <2> QED BY <1>1, <2>1 DEF scc_mgr_apply_group_dq_in_delay, scc_mgr_load_dq
<1>3. ASSUME NEW d \in 0 .. IO_IO_OUT1_DELAY_MAX
      PROVE  /\ Works(h, scc_mgr_apply_group_dq_out1_delay(h, d), g)
             /\ Works(h, Upd(scc_mgr_apply_group_dq_out1_delay(h, d)), g)
  <2>1. Works(h, scc_mgr_set_dq_out1_delay(h, [dq \in Dqs |-> d]), g)
    BY DqSet
  <2> QED BY <1>1, <2>1 DEF scc_mgr_apply_group_dq_out1_delay, scc_mgr_load_dq
<1>4. ASSUME NEW d \in 0 .. IO_IO_OUT1_DELAY_MAX
      PROVE  /\ Works(h, scc_mgr_apply_group_dm_out1_delay(h, d), g)
             /\ Works(h, Upd(scc_mgr_apply_group_dm_out1_delay(h, d)), g)
  <2>1. Works(h, scc_mgr_set_dm_out1_delay(h, d), g)
    BY PinSet, PinsAre DEF scc_mgr_set_dm_out1_delay
  <2> QED BY <1>1, <2>1 DEF scc_mgr_apply_group_dm_out1_delay, scc_mgr_load_dm
<1> QED BY <1>2, <1>3, <1>4

LEMMA SpreadDq ==
    ASSUME NEW h, NEW g
    PROVE  /\ \A f \in [Dqs -> 0 .. IO_IO_IN_DELAY_MAX] :
                  /\ Works(h, scc_mgr_load_dq(scc_mgr_set_dq_in_delay(h, f)), g)
                  /\ Works(h, Upd(scc_mgr_load_dq(scc_mgr_set_dq_in_delay(h, f))), g)
           /\ \A f \in [Dqs -> 0 .. IO_IO_OUT1_DELAY_MAX] :
                  Works(h, scc_mgr_load_dq(scc_mgr_set_dq_out1_delay(h, f)), g)
<1>1. ASSUME NEW k, Works(h, k, g)
      PROVE  Works(h, scc_mgr_load_dq(k), g) /\ Works(h, Upd(scc_mgr_load_dq(k)), g)
  <2>1. Works(h, scc_mgr_load_dq(k), g)
    BY <1>1, PinChain, WorksOn DEF scc_mgr_load_dq
  <2>2. Works(scc_mgr_load_dq(k), Upd(scc_mgr_load_dq(k)), g)
    BY Update
  <2> QED BY <2>1, <2>2, WorksOn
<1> QED BY <1>1, DqSet

LEMMA ApplyDqs ==
    ASSUME NEW h, NEW g, NEW d \in 0 .. IO_IO_OUT1_DELAY_MAX
    PROVE  /\ Works(h, scc_mgr_apply_group_dqs_io_and_oct_out1(h, g, d), g)
           /\ Works(h, Upd(scc_mgr_apply_group_dqs_io_and_oct_out1(h, g, d)), g)
<1> DEFINE a == scc_mgr_set_dqs_out1_delay(h, d)
           io == scc_mgr_load_dqs_io(a)
           oct == scc_mgr_set_oct_out1_delay(io, g, d)
           k == scc_mgr_apply_group_dqs_io_and_oct_out1(h, g, d)
<1>1. Works(h, a, g)
  BY PinSet, PinsAre DEF scc_mgr_set_dqs_out1_delay
<1>2. Works(a, io, g)
  BY PinChain DEF scc_mgr_load_dqs_io
<1>3. Works(io, oct, g)
  BY DqsSet
<1>4. k = DqsEna(oct, {g})
  BY DEF scc_mgr_apply_group_dqs_io_and_oct_out1, scc_mgr_load_dqs_for_write_group
<1> HIDE DEF a, io, oct, k
<1>5. Works(oct, k, g)
  BY <1>4, DqsChain
<1>6. Works(k, Upd(k), g)
  BY Update
<1>7. Works(h, k, g)
  BY <1>1, <1>2, <1>3, <1>5, WorksOn
<1>8. Works(h, Upd(k), g)
  BY <1>6, <1>7, WorksOn
<1> QED BY <1>7, <1>8 DEF k

LEMMA AddDelay ==
    ASSUME NEW h, NEW g, NEW d \in 0 .. IO_IO_OUT1_DELAY_MAX
    PROVE  Works(h, scc_mgr_apply_group_all_out_delay_add_all_ranks(h, g, d), g)
<1> DEFINE pins == PinEna(h, Dqs \cup {DmPin})
           a == IF d > 0 THEN scc_mgr_set_dqs_out1_delay(pins, d) ELSE pins
           dqs == scc_mgr_load_dqs_io(a)
           oct == IF d > 0 THEN scc_mgr_set_oct_out1_delay(dqs, g, d) ELSE dqs
           k == scc_mgr_apply_group_all_out_delay_add(h, g, d)
<1>1. Works(h, pins, g)
  BY PinChain
<1>2. Works(pins, a, g)
  <2>1. Works(pins, scc_mgr_set_dqs_out1_delay(pins, d), g)
    BY PinSet, PinsAre DEF scc_mgr_set_dqs_out1_delay
  <2> QED BY <2>1, WorksNot
<1>3. Works(a, dqs, g)
  BY PinChain DEF scc_mgr_load_dqs_io
<1>4. Works(dqs, oct, g)
  <2>1. Works(dqs, scc_mgr_set_oct_out1_delay(dqs, g, d), g)
    BY DqsSet
  <2> QED BY <2>1, WorksNot
<1>5. k = DqsEna(oct, {g})
  BY DEF scc_mgr_apply_group_all_out_delay_add, scc_mgr_load_dqs_for_write_group
<1> HIDE DEF pins, a, dqs, oct, k
<1>6. Works(oct, k, g)
  BY <1>5, DqsChain
<1>7. Works(h, k, g)
  BY <1>1, <1>2, <1>3, <1>4, <1>6, WorksOn
<1>8. Works(k, Upd(k), g)
  BY Update
<1> QED BY <1>7, <1>8, WorksOn DEF k, scc_mgr_apply_group_all_out_delay_add_all_ranks

LEMMA ZeroGroup ==
    ASSUME NEW h, NEW g, NEW out_only \in BOOLEAN
    PROVE  Works(h, scc_mgr_zero_group(h, g, out_only), g)
<1> DEFINE zero == [dq \in Dqs |-> 0]
           in1 == scc_mgr_set_dq_in_delay(h, zero)
           in2 == scc_mgr_set_dm_in_delay(in1, 0)
           in3 == scc_mgr_set_dqs_io_in_delay(in2, 0)
           in == IF out_only THEN h ELSE in3
           o1 == scc_mgr_set_dq_out1_delay(in, zero)
           out == scc_mgr_set_dm_out1_delay(o1, 0)
           dqs == scc_mgr_set_dqs_out1_delay(out, IO_DQS_OUT_RESERVE)
           oct == scc_mgr_set_oct_out1_delay(dqs, g, IO_DQS_OUT_RESERVE)
           d == DqsEna(oct, {g})
           p == PinEna(d, Pins)
<1>1. zero \in [Dqs -> 0 .. IO_IO_IN_DELAY_MAX] /\ zero \in [Dqs -> 0 .. IO_IO_OUT1_DELAY_MAX]
  BY ReservesAre
<1>2. scc_mgr_zero_group(h, g, out_only) = Upd(p)
  BY DEF scc_mgr_zero_group, scc_mgr_load_dqs_for_write_group
<1>3. Works(h, in, g)
  <2> HIDE DEF zero
  <2>1. Works(h, in1, g)
    BY <1>1, DqSet
  <2>2. Works(in1, in2, g)
    BY PinSet, PinsAre, ReservesAre DEF scc_mgr_set_dm_in_delay
  <2>3. Works(in2, in3, g)
    BY PinSet, PinsAre, ReservesAre DEF scc_mgr_set_dqs_io_in_delay
  <2> HIDE DEF in1, in2, in3
  <2>4. Works(h, in3, g)
    BY <2>1, <2>2, <2>3, WorksOn
  <2> QED BY <2>4, WorksNot
<1> HIDE DEF in, zero
<1>4. Works(in, o1, g)
  BY <1>1, DqSet
<1>5. Works(o1, out, g)
  BY PinSet, PinsAre, ReservesAre DEF scc_mgr_set_dm_out1_delay
<1>6. Works(out, dqs, g)
  BY PinSet, PinsAre, ReservesAre DEF scc_mgr_set_dqs_out1_delay
<1>7. Works(dqs, oct, g)
  BY DqsSet, ReservesAre
<1>8. Works(oct, d, g) /\ Works(d, p, g) /\ Works(p, Upd(p), g)
  BY DqsChain, PinChain, Update
<1> HIDE DEF o1, out, dqs, oct, d, p
<1>9. Works(h, dqs, g)
  BY <1>3, <1>4, <1>5, <1>6, WorksOn
<1>10. Works(h, d, g)
  BY <1>9, <1>7, <1>8, WorksOn
<1>11. Works(h, Upd(p), g)
  BY <1>10, <1>8, WorksOn
<1> QED BY <1>2, <1>11

LEMMA MoveVfifo ==
    ASSUME NEW h, NEW g
    PROVE  /\ Works(h, rw_mgr_incr_vfifo(h, g), g)
           /\ Works(h, rw_mgr_decr_vfifo(h, g), g)
<1>1. ASSUME AtWork(h, g), NEW v \in 0 .. VFIFO_SIZE - 1
      PROVE  AtWork([h EXCEPT !.vfifo[g] = v], g) /\ OnlyMoves(h, [h EXCEPT !.vfifo[g] = v], g)
  <2>1. [h EXCEPT !.vfifo[g] = v] \in HwStates
    BY <1>1 DEF AtWork, HwStates
  <2> QED BY <1>1, <2>1 DEF AtWork, OnlyMoves, HwStates, Awake, Settled
<1>2. ASSUME AtWork(h, g)
      PROVE  /\ (h.vfifo[g] + 1) % VFIFO_SIZE \in 0 .. VFIFO_SIZE - 1
             /\ (h.vfifo[g] + VFIFO_SIZE - 1) % VFIFO_SIZE \in 0 .. VFIFO_SIZE - 1
  <2>1. h.vfifo[g] \in 0 .. VFIFO_SIZE - 1
    BY <1>2 DEF AtWork, HwStates
  <2> QED BY <2>1, SdramBoardAssumption DEF SdramBoardAssumption
<1>3. ASSUME AtWork(h, g)
      PROVE  /\ rw_mgr_incr_vfifo(h, g) = [h EXCEPT !.vfifo[g] = (h.vfifo[g] + 1) % VFIFO_SIZE]
             /\ rw_mgr_decr_vfifo(h, g)
                    = [h EXCEPT !.vfifo[g] = (h.vfifo[g] + VFIFO_SIZE - 1) % VFIFO_SIZE]
  BY <1>3 DEF rw_mgr_incr_vfifo, rw_mgr_decr_vfifo, AtWork, HwStates
<1> QED BY <1>1, <1>2, <1>3 DEF Works

-----------------------------------------------------------------------------
(* Numbers. *)

LEMMA LeastNat ==
    ASSUME NEW S, S \subseteq Nat, S # {}
    PROVE  \E n \in S : \A m \in S : n <= m
<1>1. PICK n \in S : \A m \in S : ~(<<m, n>> \in OpToRel(<, Nat))
  BY NatLessThanWellFounded, WFMin
<1>2. ASSUME NEW m \in S PROVE n <= m
  <2>1. m \in Nat /\ n \in Nat
    OBVIOUS
  <2>2. ~(m < n)
    BY <1>1, <2>1 DEF OpToRel
  <2> QED BY <2>1, <2>2
<1> QED BY <1>1, <1>2

\* A set of integers that has a bound from below has a least one, Min.
LEMMA MinIs ==
    ASSUME NEW S, NEW a \in Int, S \subseteq Int, \A x \in S : a <= x, S # {}
    PROVE  Min(S) \in S /\ \A y \in S : Min(S) <= y
<1> DEFINE T == {n \in Nat : a + n \in S}
<1>1. PICK x \in S : TRUE
  OBVIOUS
<1>2. x - a \in Nat /\ a + (x - a) = x
  BY <1>1
<1>3. x - a \in T
  BY <1>1, <1>2
<1>4. PICK n \in T : \A m \in T : n <= m
  <2> HIDE DEF T
  <2>1. T \subseteq Nat /\ T # {}
    BY <1>3 DEF T
  <2> QED BY <2>1, LeastNat
<1>5. a + n \in S /\ n \in Nat
  BY <1>4
<1>6. ASSUME NEW y \in S PROVE a + n <= y
  <2>1. y - a \in Nat /\ a + (y - a) = y
    BY <1>6
  <2>2. y - a \in T
    BY <1>6, <2>1
  <2>3. n <= y - a
    BY <1>4, <2>2
  <2> QED BY <1>5, <2>1, <2>3
<1>7. \E z \in S : \A y \in S : z <= y
  BY <1>5, <1>6
<1> QED BY <1>7 DEF Min

LEMMA Product ==
    ASSUME NEW a \in Nat, NEW b \in Nat
    PROVE  a * b \in Nat /\ (a > 0 /\ b > 0 => a * b > 0)
OBVIOUS

LEMMA ProductGrows ==
    ASSUME NEW a \in Nat, NEW b \in Nat, NEW c \in Nat, a <= b
    PROVE  a * c <= b * c
<1>1. b = a + (b - a) /\ b - a \in Nat
  OBVIOUS
<1>2. \A k \in Nat : (a + k) * c = a * c + k * c /\ k * c \in Nat /\ a * c \in Nat
  OBVIOUS
<1> QED BY <1>1, <1>2

LEMMA Quotient ==
    ASSUME NEW a \in Nat, NEW b \in Nat \ {0}
    PROVE  /\ a \div b \in Nat /\ b * (a \div b) <= a /\ a < b * ((a \div b) + 1)
OBVIOUS

LEMMA TapsAre ==
    /\ IO_DELAY_PER_OPA_TAP \in Nat \ {0} /\ IO_DELAY_PER_DQS_EN_DCHAIN_TAP \in Nat \ {0}
    /\ VFIFO_SIZE \in Nat \ {0} /\ PHASES \in Nat \ {0}
    /\ CLOCK \in Nat \ {0} /\ ROUND \in Nat /\ WORD \in Nat \ {0}
<1>1. /\ IO_DELAY_PER_OPA_TAP \in Nat \ {0} /\ IO_DELAY_PER_DQS_EN_DCHAIN_TAP \in Nat \ {0}
      /\ VFIFO_SIZE \in Nat \ {0} /\ PHASES \in Nat \ {0}
  BY SccMgrAssumption, SdramBoardAssumption DEF SccMgrAssumption, SdramBoardAssumption, PHASES
<1>2. CLOCK \in Nat \ {0}
  BY <1>1, Product DEF CLOCK
<1>3. ROUND \in Nat
  BY <1>1, <1>2, Product DEF ROUND
<1>4. WORD \in Nat \ {0}
  BY <1>3, CalibStateAssumption DEF CalibStateAssumption
<1> QED BY <1>1, <1>2, <1>3, <1>4

LEMMA DtapsFit ==
    /\ dtaps_per_ptap \in 0 .. IO_DQS_EN_DELAY_MAX
    /\ dtaps_per_ptap \in 0 .. IO_IO_OUT1_DELAY_MAX
<1> DEFINE o == IO_DELAY_PER_OPA_TAP
           c == IO_DELAY_PER_DQS_EN_DCHAIN_TAP
           m == IO_DQS_EN_DELAY_MAX
           q == (o - 1) \div c
<1>1. o \in Nat \ {0} /\ c \in Nat \ {0} /\ m \in Nat /\ o <= c * m
  BY TapsAre, SccMgrAssumption, DelaysFit DEF SccMgrAssumption, DelaysFit
<1> HIDE DEF o, c, m
<1>2. o - 1 \in Nat
  BY <1>1
<1>3. q \in Nat /\ c * q <= o - 1
  BY <1>1, <1>2, Quotient
<1>4. q <= m
  <2>1. CASE q > m
    <3>1. m * c <= q * c
      BY <1>1, <1>3, <2>1, ProductGrows
    <3>2. m * c = c * m /\ q * c = c * q /\ c * m \in Int /\ c * q \in Int
      BY <1>1, <1>3
    <3> QED BY <1>1, <1>3, <3>1, <3>2
  <2> QED BY <1>1, <1>3, <2>1
<1>5. dtaps_per_ptap = q
  BY DEF dtaps_per_ptap, q, o, c
<1> QED BY <1>1, <1>3, <1>4, <1>5, DelaysFit, SccMgrAssumption DEF DelaysFit, SccMgrAssumption, m

LEMMA Counts ==
    \A a, b \in Int : Add(a, b) \in 0 .. WORD - 1 /\ Sub(a, b) \in 0 .. WORD - 1
BY TapsAre DEF Add, Sub

LEMMA ClampIs ==
    ASSUME NEW x \in Int, NEW lo \in Int, NEW hi \in Int, lo <= hi
    PROVE  Clamp(x, lo, hi) \in lo .. hi
BY DEF Clamp

LEMMA DivIs ==
    \A a \in Int : /\ Div(a, 2) \in Int
                   /\ a >= 0 => 0 <= Div(a, 2) /\ a - 1 <= 2 * Div(a, 2) /\ 2 * Div(a, 2) <= a
                   /\ a < 0 => Div(a, 2) <= 0 /\ a <= 2 * Div(a, 2)
<1>1. ASSUME NEW a \in Int, a >= 0
      PROVE  /\ Div(a, 2) \in Int
             /\ 0 <= Div(a, 2) /\ a - 1 <= 2 * Div(a, 2) /\ 2 * Div(a, 2) <= a
  <2>1. Div(a, 2) = a \div 2
    BY <1>1 DEF Div
  <2> QED BY <1>1, <2>1
<1>2. ASSUME NEW a \in Int, a < 0
      PROVE  Div(a, 2) \in Int /\ Div(a, 2) <= 0 /\ a <= 2 * Div(a, 2)
  <2>1. Div(a, 2) = -((-a) \div 2)
    BY <1>2 DEF Div
  <2> DEFINE q == (-a) \div 2
  <2>2. q \in Int /\ 0 <= q /\ 2 * q <= -a
    BY <1>2
  <2> HIDE DEF q
  <2> QED BY <1>2, <2>1, <2>2 DEF q
<1> QED BY <1>1, <1>2

-----------------------------------------------------------------------------
(* The searches' own functions. *)

LEMMA SweepWorks == \A h, g : Works(h, SweepBegin(h), g)
<1> SUFFICES ASSUME NEW h, NEW g PROVE Works(h, SweepBegin(h), g)
  OBVIOUS
<1> DEFINE n == DQ_PER_DQS - 1
           q == IO_IO_IN_DELAY_MAX \div n
           f == [dq \in Dqs |-> dq * q]
<1>1. n \in Nat \ {0} /\ IO_IO_IN_DELAY_MAX \in Nat
  BY SccMgrAssumption DEF SccMgrAssumption
<1>2. q \in Nat /\ n * q <= IO_IO_IN_DELAY_MAX
  BY <1>1, Quotient
<1>3. ASSUME NEW dq \in Dqs PROVE dq * q \in 0 .. IO_IO_IN_DELAY_MAX
  <2>1. dq \in Nat /\ dq <= n
    BY <1>1 DEF Dqs
  <2> HIDE DEF q, n
  <2>2. dq * q <= n * q /\ dq * q \in Nat /\ n * q \in Nat
    BY <1>1, <1>2, <2>1, ProductGrows, Product
  <2> QED BY <1>1, <1>2, <2>2
<1>4. f \in [Dqs -> 0 .. IO_IO_IN_DELAY_MAX]
  BY <1>3
<1>5. SweepBegin(h) = Upd(scc_mgr_load_dq(scc_mgr_set_dq_in_delay(h, f)))
  BY DEF SweepBegin
<1> HIDE DEF f
<1> QED BY <1>4, <1>5, SpreadDq

\* The guaranteed read may leave another phase.
LEMMA PatternsAllRanks ==
    ASSUME NEW h, NEW g, AtWork(h, g)
    PROVE  Works(h, rw_mgr_mem_calibrate_read_test_patterns_all_ranks(h, g).hw, g)
<1> DEFINE k == rw_mgr_mem_calibrate_read_test_patterns(h, g).hw
           set(p) == scc_mgr_set_dqs_en_phase_all_ranks(k, g, p)
           at(p) == rw_mgr_mem_calibrate_read_test_patterns(set(p), g)
           good == {p \in 0 .. IO_DQS_EN_PHASE_MAX : at(p).passed}
           r == rw_mgr_mem_calibrate_read_test_patterns_all_ranks(h, g)
<1>1. k = Rested(h) /\ Works(h, k, g)
  BY TestPatterns, Rests
<1>2. AtWork(k, g)
  BY <1>1 DEF Works
<1> HIDE DEF k
<1>3. ASSUME NEW p \in Nat PROVE Works(h, at(p).hw, g)
  <2>1. Works(k, set(p), g)
    BY SetAllRanks
  <2>2. AtWork(set(p), g)
    BY <2>1, <1>2 DEF Works
  <2> HIDE DEF set
  <2>3. at(p).hw = Rested(set(p)) /\ Works(set(p), at(p).hw, g)
    BY <2>2, TestPatterns, Rests
  <2>4. Works(h, set(p), g)
    BY <1>1, <2>1, WorksOn
  <2> QED BY <2>3, <2>4, WorksOn
<1>4. IO_DQS_EN_PHASE_MAX \in Nat
  BY SccMgrAssumption DEF SccMgrAssumption
<1>5. ASSUME good # {} PROVE (CHOOSE p \in good : \A q \in good : p <= q) \in Nat
  <2>1. good \subseteq Nat
    BY <1>4
  <2> HIDE DEF good
  <2>2. \E p \in good : \A q \in good : p <= q
    BY <1>5, <2>1, LeastNat
  <2> QED BY <2>1, <2>2
<1>6. \/ r = rw_mgr_mem_calibrate_read_test_patterns(h, g)
      \/ r = at(IO_DQS_EN_PHASE_MAX)
      \/ good # {} /\ r = at(CHOOSE p \in good : \A q \in good : p <= q)
  BY DEF k, rw_mgr_mem_calibrate_read_test_patterns_all_ranks
<1> HIDE DEF good, at
<1> QED BY <1>1, <1>3, <1>4, <1>5, <1>6 DEF k

LEMMA SetRlatWorks ==
    ASSUME NEW h, NEW g, NEW lat \in Nat
    PROVE  Works(h, SetRlat(h, lat), g)
<1>1. lat % (MAX_LATENCY + 1) \in 0 .. MAX_LATENCY
  BY CalibStateAssumption DEF CalibStateAssumption
<1> DEFINE m == lat % (MAX_LATENCY + 1)
<1> SUFFICES ASSUME AtWork(h, g)
             PROVE  AtWork([h EXCEPT !.rlat = m], g) /\ OnlyMoves(h, [h EXCEPT !.rlat = m], g)
  BY DEF Works, SetRlat
<1> HIDE DEF m
<1>2. [h EXCEPT !.rlat = m] \in HwStates
  BY <1>1 DEF AtWork, HwStates, m
<1> QED BY <1>2 DEF AtWork, OnlyMoves, HwStates, Awake, Settled

\* What is loaded by MidPhase and MidDelay fits its registers.
LEMMA MiddleFits ==
    ASSUME NEW bgn \in Int, NEW end \in Int
    PROVE  LET mid == WorkMid(bgn, end)
           IN  Sub(MidPhase(mid), 1) \in Nat /\ MidDelay(mid) \in 0 .. IO_DQS_EN_DELAY_MAX
<1> DEFINE mid == WorkMid(bgn, end)
           c == CLOCK
           m == IO_DQS_EN_DELAY_MAX
<1>1. mid \in 0 .. CLOCK
  <2> DEFINE x == Add(bgn, end) \div 2
  <2>1. x \in Nat
    <3>1. Add(bgn, end) \in Nat
      BY Counts, TapsAre
    <3> QED BY <3>1
  <2>2. mid = IF x = 0 THEN 0 ELSE ((x - 1) % CLOCK) + 1
    BY DEF WorkMid
  <2> HIDE DEF x, mid
  <2> QED BY <2>1, <2>2, TapsAre
<1> HIDE DEF mid
<1>2. OPA \in Nat \ {0} /\ DCHAIN \in Nat \ {0} /\ m \in Nat /\ PHASES \in Nat \ {0}
      /\ OPA <= DCHAIN * m /\ CLOCK + DCHAIN * m <= WORD /\ CLOCK = PHASES * OPA
      /\ WORD \in Nat \ {0}
  BY TapsAre, DelaysFit, SccMgrAssumption DEF DelaysFit, SccMgrAssumption, OPA, DCHAIN, CLOCK
<1>3. \E p \in 0 .. PHASES : p * OPA >= mid /\ \A q \in 0 .. p - 1 : q * OPA < mid
  <2> DEFINE S == {p \in 0 .. PHASES : p * OPA >= mid}
  <2>1. PHASES \in S
    BY <1>1, <1>2
  <2>2. PICK p \in S : \A q \in S : p <= q
    <3>1. S \subseteq 0 .. PHASES
      OBVIOUS
    <3> HIDE DEF S
    <3>2. S \subseteq Nat /\ S # {}
      BY <2>1, <3>1, <1>2
    <3> QED BY <3>2, LeastNat
  <2>3. ASSUME NEW q \in 0 .. p - 1 PROVE q * OPA < mid
    <3>1. q \in 0 .. PHASES /\ q \notin S
      BY <2>2, <1>2
    <3>2. q * OPA \in Int
      BY <1>2, <3>1
    <3> QED BY <3>1, <3>2, <1>1
  <2> QED BY <2>2, <2>3
<1>4. /\ MidPhase(mid) \in 0 .. PHASES /\ MidPhase(mid) * OPA >= mid
      /\ \A q \in 0 .. MidPhase(mid) - 1 : q * OPA < mid
  BY <1>3 DEF MidPhase
<1> DEFINE p == MidPhase(mid)
           from == Sub(p * OPA, OPA)
           done(d) == d = m + 1 \/ Add(from, d * DCHAIN) >= mid
<1>5. \E d \in 0 .. m : Add(from, d * DCHAIN) >= mid
  <2>1. CASE mid = 0
    <3>1. Add(from, 0 * DCHAIN) >= mid
      <4>1. 0 * DCHAIN \in Int /\ from \in Int
        <5>1. p * OPA \in Int /\ OPA \in Int
          BY <1>2, <1>4
        <5> QED BY <5>1, <1>2, Counts
      <4>2. Add(from, 0 * DCHAIN) \in Nat
        BY <4>1, Counts, <1>2
      <4> QED BY <4>2, <2>1
    <3> QED BY <3>1, <1>2
  <2>2. CASE mid > 0
    <3> HIDE DEF p
    <3>1. p \in 1 .. PHASES
      <4>1. p # 0
        <5>1. 0 * OPA = 0 /\ mid \in Int
          BY <1>1, <1>2
        <5>2. p * OPA >= mid
          BY <1>4 DEF p
        <5> QED BY <5>1, <5>2, <2>2
      <4> QED BY <4>1, <1>4, <1>2 DEF p
    <3>2. p - 1 \in Nat /\ (p - 1) * OPA < mid /\ (p - 1) * OPA = p * OPA - OPA
          /\ (p - 1) * OPA \in Nat
      <4>1. p - 1 \in 0 .. p - 1 /\ (p - 1) * OPA < mid
        BY <3>1, <1>4 DEF p
      <4> QED BY <3>1, <4>1, <1>2
    <3> DEFINE f == (p - 1) * OPA
    <3>3. f < WORD
      BY <3>2, <1>1, <1>2, Product, TapsAre
    <3>4. from = f
      <4>1. p * OPA + WORD - OPA = f + WORD
        BY <3>2, <1>2, <3>1
      <4>2. from = (f + WORD) % WORD
        BY <4>1 DEF Sub
      <4> HIDE DEF f, from
      <4>3. f \in Nat
        BY <3>2 DEF f
      <4> QED BY <4>2, <4>3, <3>3, <1>2
    <3>5. m * DCHAIN = DCHAIN * m /\ m * DCHAIN \in Nat
      BY <1>2
    <3>6. f + m * DCHAIN < WORD /\ f + m * DCHAIN >= mid
      <4>1. f + OPA >= mid
        BY <1>4, <3>2, <1>2, <3>1 DEF p
      <4>2. f + OPA <= CLOCK
        <5>1. p * OPA <= PHASES * OPA
          BY <3>1, <1>2, ProductGrows
        <5> QED BY <5>1, <3>2, <1>2, <3>1
      <4> QED BY <4>1, <4>2, <3>2, <3>5, <1>1, <1>2
    <3>7. Add(from, m * DCHAIN) = f + m * DCHAIN
      <4> HIDE DEF f
      <4>1. f \in Nat
        BY <3>2 DEF f
      <4> QED BY <4>1, <3>4, <3>5, <3>6, <1>2 DEF Add
    <3> QED BY <3>6, <3>7, <1>2
  <2> QED BY <1>1, <2>1, <2>2
<1>6. \E d \in 0 .. m + 1 : done(d) /\ \A e \in 0 .. d - 1 : ~done(e)
  <2> DEFINE S == {d \in 0 .. m + 1 : done(d)}
  <2> HIDE DEF from
  <2>0. S \subseteq 0 .. m + 1
    OBVIOUS
  <2>1. S \subseteq Nat /\ S # {}
    <3>1. PICK d \in 0 .. m : Add(from, d * DCHAIN) >= mid
      BY <1>5
    <3>2. d \in S
      BY <3>1, <1>2
    <3> HIDE DEF S
    <3> QED BY <2>0, <3>2, <1>2
  <2>2. PICK d \in S : \A e \in S : d <= e
    <3> HIDE DEF S
    <3> QED BY <2>1, LeastNat
  <2> HIDE DEF done
  <2>3. ASSUME NEW e \in 0 .. d - 1 PROVE ~done(e)
    <3>1. e \in 0 .. m + 1 /\ e \notin S
      BY <2>2, <1>2
    <3> QED BY <3>1
  <2> QED BY <2>2, <2>3
<1>7. MidDelay(mid) = CHOOSE d \in 0 .. m + 1 : done(d) /\ \A e \in 0 .. d - 1 : ~done(e)
  BY DEF MidDelay
<1> DEFINE md == MidDelay(mid)
<1>8. md \in 0 .. m + 1 /\ done(md) /\ \A e \in 0 .. md - 1 : ~done(e)
  <2> HIDE DEF done
  <2> QED BY <1>6, <1>7
<1>9. md \in 0 .. m
  <2>1. PICK d \in 0 .. m : Add(from, d * DCHAIN) >= mid
    BY <1>5
  <2>2. done(d)
    BY <2>1
  <2> HIDE DEF done, md
  <2>3. ~(d \in 0 .. md - 1)
    BY <2>2, <1>8
  <2> QED BY <2>3, <1>8, <1>2
<1>10. Sub(p, 1) \in Nat
  <2>1. p \in Int
    BY <1>4, <1>2
  <2> HIDE DEF p
  <2> QED BY <2>1, <1>2, Counts
<1> QED BY <1>9, <1>10 DEF mid

-----------------------------------------------------------------------------
(* The start of the memory, and its hand over. *)

\* The memory takes the commands with which it is set up.
Closed(h) ==
    /\ h \in HwStates
    /\ h.stable /\ ~h.open /\ h.mux = 3 /\ h.due = 0 /\ ~h.misuse

LEMMA DelayIsLong == \A n \in Nat : DelayClocks(n) \in Nat /\ DelayClocks(n) >= n
<1> SUFFICES ASSUME NEW n \in Nat PROVE DelayClocks(n) \in Nat /\ DelayClocks(n) >= n
  OBVIOUS
<1> DEFINE l == LOOP
           s == l * l
<1>1. l \in Nat \ {0} /\ s \in Nat \ {0}
  BY RwMgrAssumption, Product DEF RwMgrAssumption
<1>2. CASE n <= l
  <2>1. DelayLoops(n) = [inner |-> IF n = 0 THEN 0 ELSE n - 1, outer |-> 0, c_loop |-> 0]
    BY <1>2 DEF DelayLoops
  <2>2. DelayClocks(n) = ((IF n = 0 THEN 0 ELSE n - 1) + 1) * (0 + 1) * (0 + 1)
    BY <2>1 DEF DelayClocks
  <2> QED BY <2>2
<1>3. CASE n > l /\ n <= s
  <2> DEFINE q == (n - 1) \div l
  <2>1. DelayLoops(n) = [inner |-> l - 1, outer |-> q, c_loop |-> 0]
    BY <1>1, <1>3 DEF DelayLoops
  <2>2. DelayClocks(n) = ((l - 1) + 1) * (q + 1) * (0 + 1)
    BY <2>1 DEF DelayClocks
  <2>3. n - 1 \in Nat
    BY <1>1, <1>3
  <2>4. q \in Nat /\ n - 1 < l * (q + 1)
    BY <1>1, <2>3, Quotient
  <2> HIDE DEF q, l
  <2>5. ((l - 1) + 1) * (q + 1) * (0 + 1) = l * (q + 1) /\ l * (q + 1) \in Nat
    BY <1>1, <2>4, Product
  <2> QED BY <2>2, <2>4, <2>5
<1>4. CASE n > l /\ n > s
  <2> DEFINE q == (n - 1) \div s
  <2>1. DelayLoops(n) = [inner |-> l - 1, outer |-> l - 1, c_loop |-> q]
    BY <1>1, <1>4 DEF DelayLoops
  <2>2. DelayClocks(n) = ((l - 1) + 1) * ((l - 1) + 1) * (q + 1)
    BY <2>1 DEF DelayClocks
  <2>3. n - 1 \in Nat
    BY <1>1, <1>4
  <2> HIDE DEF s
  <2>4. q \in Nat /\ n - 1 < s * (q + 1)
    BY <1>1, <2>3, Quotient
  <2> HIDE DEF q, l
  <2>5. ((l - 1) + 1) * ((l - 1) + 1) * (q + 1) = s * (q + 1) /\ s * (q + 1) \in Nat
    <3>1. (l - 1) + 1 = l
      BY <1>1
    <3> QED BY <3>1, <1>1, <2>4, Product DEF s
  <2> QED BY <2>2, <2>4, <2>5
<1> QED BY <1>1, <1>2, <1>3, <1>4

LEMMA WaitsOver ==
    ASSUME NEW h \in HwStates, NEW n \in Nat, h.due <= n
    PROVE  /\ delay_for_n_mem_clocks(h, n) = [h EXCEPT !.due = 0]
           /\ delay_for_n_mem_clocks(h, n) \in HwStates
<1>1. h.due \in Nat /\ DelayClocks(n) >= h.due
  BY DelayIsLong DEF HwStates
<1>2. delay_for_n_mem_clocks(h, n) = [h EXCEPT !.due = 0]
  BY <1>1 DEF delay_for_n_mem_clocks, Wait
<1> QED BY <1>2 DEF HwStates

LEMMA CommandFits ==
    ASSUME NEW h, Closed(h), NEW after \in HwStates, after.misuse = FALSE
    PROVE  Command(h, TRUE, after) = after
<1>1. Command(h, TRUE, after) = [after EXCEPT !.misuse = FALSE]
  BY DEF Closed, Command
<1> QED BY <1>1 DEF HwStates

LEMMA ModeLoads ==
    ASSUME NEW h, Closed(h), NEW mr \in Modes
    PROVE  /\ LoadMode(h, mr) = [h EXCEPT !.modes = h.modes \cup {mr}]
           /\ Closed(LoadMode(h, mr))
           /\ Closed(delay_for_n_mem_clocks(LoadMode(h, mr), 4))
           /\ delay_for_n_mem_clocks(LoadMode(h, mr), 4) = LoadMode(h, mr)
<1> DEFINE k == [h EXCEPT !.modes = h.modes \cup {mr}]
<1>1. k \in HwStates /\ k.misuse = FALSE
  BY DEF Closed, HwStates
<1>2. Command(h, TRUE, k) = k
  BY <1>1, CommandFits
<1>3. (~h.open) = TRUE
  BY DEF Closed
<1>4. LoadMode(h, mr) = k
  BY <1>2, <1>3 DEF LoadMode
<1>5. Closed(k)
  BY <1>1 DEF Closed, HwStates
<1> HIDE DEF k
<1>6. delay_for_n_mem_clocks(k, 4) = [k EXCEPT !.due = 0]
  BY <1>5, WaitsOver DEF Closed
<1>7. [k EXCEPT !.due = 0] = k
  BY <1>5 DEF Closed, HwStates
<1> QED BY <1>4, <1>5, <1>6, <1>7 DEF k

LEMMA ResetEnds ==
    ASSUME NEW h \in HwStates, ~h.misuse
    PROVE  LET w == initialize(scc_mgr_initialize(h))
               stable == AfterReset([w EXCEPT !.stable = TRUE], 250)
               rank == set_rank_and_odt_mask(delay_for_n_mem_clocks(stable, 250), "OFF")
           IN  Closed(rank) /\ rank.board = h.board
<1> DEFINE w == initialize(scc_mgr_initialize(h))
           stable == AfterReset([w EXCEPT !.stable = TRUE], 250)
           waited == delay_for_n_mem_clocks(stable, 250)
           rank == set_rank_and_odt_mask(waited, "OFF")
<1>1. ZeroDqs \in DqsSetting /\ ZeroPin \in PinSetting
  BY SccMgrAssumption DEF SccMgrAssumption, ZeroDqs, ZeroPin, DqsSetting, PinSetting
<1>2. scc_mgr_initialize(h) \in HwStates /\ scc_mgr_initialize(h).misuse = FALSE
      /\ scc_mgr_initialize(h).board = h.board
  BY <1>1 DEF scc_mgr_initialize, HwStates
<1>3. w \in HwStates /\ w.misuse = FALSE /\ w.mux = 3 /\ w.board = h.board
  <2> DEFINE k == scc_mgr_initialize(h)
  <2> HIDE DEF k
  <2>1. w = [k EXCEPT !.mux = 3, !.stable = FALSE]
    BY DEF initialize, k
  <2> QED BY <1>2, <2>1 DEF HwStates, k
<1> HIDE DEF w
<1>4. /\ stable \in HwStates /\ stable.misuse = FALSE /\ stable.mux = 3 /\ stable.stable
      /\ ~stable.open /\ stable.due = 250 /\ stable.board = h.board
  <2> DEFINE k == [w EXCEPT !.stable = TRUE]
             f == [g \in Groups |-> FALSE]
  <2>1. k \in HwStates /\ k.misuse = FALSE /\ k.mux = 3 /\ k.stable /\ k.board = h.board
    BY <1>3 DEF HwStates
  <2>2. f \in [Groups -> BOOLEAN]
    OBVIOUS
  <2>3. stable = [k EXCEPT !.modes = {}, !.open = FALSE, !.due = 250, !.patterns = f]
    BY DEF AfterReset
  <2> HIDE DEF k, f, stable
  <2>4. stable \in HwStates
    <3>1. [k EXCEPT !.modes = {}, !.open = FALSE] \in HwStates
      BY <2>1 DEF HwStates
    <3>2. ASSUME NEW a \in HwStates PROVE [a EXCEPT !.due = 250, !.patterns = f] \in HwStates
      <4>1. [a EXCEPT !.due = 250] \in HwStates
        BY DEF HwStates
      <4>2. \A b \in HwStates : [b EXCEPT !.patterns = f] \in HwStates
        BY <2>2 DEF HwStates
      <4> QED BY <4>1, <4>2
    <3>3. stable = [[k EXCEPT !.modes = {}, !.open = FALSE] EXCEPT !.due = 250, !.patterns = f]
      BY <2>3
    <3> QED BY <3>1, <3>2, <3>3
  <2>5. /\ stable.misuse = FALSE /\ stable.mux = 3 /\ stable.stable
        /\ ~stable.open /\ stable.due = 250 /\ stable.board = h.board
    BY <2>1, <2>3 DEF HwStates
  <2> QED BY <2>4, <2>5
<1> HIDE DEF stable
<1>5. waited = [stable EXCEPT !.due = 0] /\ waited \in HwStates
  BY <1>4, WaitsOver
<1> HIDE DEF waited
<1>6. rank = [waited EXCEPT !.odt = [read |-> 0, write |-> 0]]
  BY DEF set_rank_and_odt_mask
<1>7. rank \in HwStates
  <2>1. [read |-> 0, write |-> 0] \in OdtSetting
    BY DEF OdtSetting
  <2> QED BY <1>5, <1>6, <2>1 DEF HwStates
<1>8. /\ rank.stable /\ ~rank.open /\ rank.mux = 3 /\ rank.due = 0 /\ ~rank.misuse
      /\ rank.board = h.board
  BY <1>4, <1>5, <1>6, ZenonT(60) DEF HwStates
<1> QED BY <1>7, <1>8, ZenonT(60) DEF Closed, rank, waited, stable, w

LEMMA MemoryStarts ==
    ASSUME NEW h \in HwStates, ~h.misuse
    PROVE  LET k == rw_mgr_mem_initialize(initialize(scc_mgr_initialize(h)))
           IN  /\ Closed(k) /\ {"MR0", "MR1", "MR2", "MR3"} \subseteq k.modes
               /\ k.board = h.board
<1> DEFINE w == initialize(scc_mgr_initialize(h))
           stable == AfterReset([w EXCEPT !.stable = TRUE], 250)
           rank == set_rank_and_odt_mask(delay_for_n_mem_clocks(stable, 250), "OFF")
           m2 == LoadMode(rank, "MR2")
           mrs2 == delay_for_n_mem_clocks(m2, 4)
           m3 == LoadMode(mrs2, "MR3")
           mrs3 == delay_for_n_mem_clocks(m3, 4)
           m1 == LoadMode(mrs3, "MR1")
           mrs0 == LoadMode(m1, "MR0")
           zq == CalibrateZq(mrs0, 512)
           k == delay_for_n_mem_clocks(zq, 512)
<1>1. Closed(rank) /\ rank.board = h.board
  BY ResetEnds
<1>2. rw_mgr_mem_initialize(w) = k
  BY DEF rw_mgr_mem_initialize
<1> HIDE DEF w, stable, rank
<1>3. \A mr \in {"MR0", "MR1", "MR2", "MR3"} : mr \in Modes
  BY DEF Modes
<1>4. Closed(mrs2) /\ mrs2.modes = rank.modes \cup {"MR2"} /\ mrs2.board = h.board
  BY <1>1, <1>3, ModeLoads DEF Closed, HwStates
<1> HIDE DEF mrs2
<1>5. Closed(mrs3) /\ mrs3.modes = mrs2.modes \cup {"MR3"} /\ mrs3.board = h.board
  BY <1>3, <1>4, ModeLoads DEF Closed, HwStates
<1> HIDE DEF mrs3
<1>6. Closed(m1) /\ m1.modes = mrs3.modes \cup {"MR1"} /\ m1.board = h.board
  BY <1>3, <1>5, ModeLoads DEF Closed, HwStates
<1> HIDE DEF m1
<1>7. Closed(mrs0) /\ mrs0.modes = m1.modes \cup {"MR0"} /\ mrs0.board = h.board
  BY <1>3, <1>6, ModeLoads DEF Closed, HwStates
<1> HIDE DEF mrs0
<1>8. {"MR0", "MR1", "MR2", "MR3"} \subseteq mrs0.modes
  BY <1>4, <1>5, <1>6, <1>7
<1>9. zq = [mrs0 EXCEPT !.due = 512] /\ zq \in HwStates
  <2> DEFINE a == [mrs0 EXCEPT !.due = 512]
  <2>1. a \in HwStates /\ a.misuse = FALSE
    BY <1>7 DEF Closed, HwStates
  <2>2. Command(mrs0, TRUE, a) = a
    <3> HIDE DEF a
    <3> QED BY <1>7, <2>1, CommandFits
  <2>3. (~mrs0.open) = TRUE
    BY <1>7 DEF Closed
  <2> QED BY <2>1, <2>2, <2>3, ZenonT(60) DEF CalibrateZq
<1> HIDE DEF zq
<1>10. k = [zq EXCEPT !.due = 0] /\ k \in HwStates
  <2>1. zq.due <= 512 /\ 512 \in Nat
    BY <1>7, <1>9 DEF Closed, HwStates
  <2>2. zq \in HwStates
    BY <1>9
  <2> QED BY <2>1, <2>2, WaitsOver
<1> HIDE DEF k
<1>11. /\ k.stable /\ ~k.open /\ k.mux = 3 /\ k.due = 0 /\ ~k.misuse
       /\ k.modes = mrs0.modes /\ k.board = h.board
  BY <1>7, <1>9, <1>10 DEF Closed, HwStates
<1> QED BY <1>2, <1>8, <1>10, <1>11 DEF Closed, w

\* The rows are closed and opened.
LEMMA RowsOpen ==
    ASSUME NEW h \in HwStates, h.stable, h.mux = 3, h.due = 0, ~h.misuse,
           {"MR0", "MR1", "MR2", "MR3"} \subseteq h.modes
    PROVE  /\ mem_precharge_and_activate(h) = [Rested(h) EXCEPT !.open = TRUE]
           /\ mem_precharge_and_activate(h) \in HwStates
           /\ Awake(mem_precharge_and_activate(h))
<1> DEFINE r == set_rank_and_odt_mask(h, "OFF")
           c == PrechargeAll(r)
           k == mem_precharge_and_activate(h)
<1>1. r = Rested(h)
  BY DEF set_rank_and_odt_mask, Rested
<1>2. r \in HwStates /\ r.stable /\ r.mux = 3 /\ r.due = 0 /\ r.misuse = FALSE /\ r.modes = h.modes
  BY <1>1 DEF Rested, HwStates, OdtSetting
<1> HIDE DEF r
<1>3. c = [r EXCEPT !.open = FALSE]
  <2>1. c = [[r EXCEPT !.open = FALSE] EXCEPT !.misuse = FALSE]
    BY <1>2 DEF PrechargeAll, Command, HwStates
  <2> QED BY <1>2, <2>1 DEF HwStates
<1>4. c \in HwStates /\ c.stable /\ c.mux = 3 /\ c.due = 0 /\ c.misuse = FALSE /\ ~c.open
      /\ c.modes = h.modes
  BY <1>2, <1>3 DEF HwStates
<1> HIDE DEF c
<1>5. k = [c EXCEPT !.open = TRUE]
  <2>1. k = Activate(c)
    BY DEF mem_precharge_and_activate, c, r
  <2>2. Activate(c) = [[c EXCEPT !.open = TRUE] EXCEPT !.misuse = FALSE]
    BY <1>4 DEF Activate, Command, HwStates
  <2> QED BY <1>4, <2>1, <2>2, ZenonT(60) DEF HwStates
<1> HIDE DEF k
<1>6. k \in HwStates /\ Awake(k)
  BY <1>4, <1>5 DEF HwStates, Awake
<1>7. k = [Rested(h) EXCEPT !.open = TRUE]
  BY <1>1, <1>2, <1>3, <1>5 DEF HwStates
<1> QED BY <1>6, <1>7 DEF k

LEMMA HandsOff ==
    ASSUME NEW h \in HwStates, Awake(h)
    PROVE  LET k == [rw_mgr_mem_handoff(h) EXCEPT !.mux = 2]
           IN  /\ k \in HwStates /\ SameCells(h, k) /\ k.chain = h.chain
               /\ ~k.misuse /\ k.mux = 2 /\ ~k.open /\ "user" \in k.modes
               /\ k.odt.write = 0
<1> DEFINE r == set_rank_and_odt_mask(h, "OFF")
           closed == PrechargeAll(r)
           m2 == delay_for_n_mem_clocks(LoadMode(closed, "MR2"), 4)
           m3 == delay_for_n_mem_clocks(LoadMode(m2, "MR3"), 4)
           m1 == delay_for_n_mem_clocks(LoadMode(m3, "MR1"), 4)
           u == LoadMode(m1, "user")
<1>0. "MR1" \in Modes /\ "MR2" \in Modes /\ "MR3" \in Modes /\ "user" \in Modes
  BY DEF Modes
<1>1. r = Rested(h)
  BY DEF set_rank_and_odt_mask, Rested
<1>2. /\ r \in HwStates /\ r.stable /\ r.mux = 3 /\ r.due = 0 /\ r.misuse = FALSE
      /\ SameCells(h, r) /\ r.chain = h.chain /\ r.odt.write = 0
  BY <1>1 DEF Rested, HwStates, OdtSetting, Awake, SameCells
<1> HIDE DEF r
<1>3. closed = [r EXCEPT !.open = FALSE]
  <2>1. closed = [[r EXCEPT !.open = FALSE] EXCEPT !.misuse = FALSE]
    BY <1>2, ZenonT(60) DEF PrechargeAll, Command, HwStates
  <2> QED BY <1>2, <2>1, ZenonT(60) DEF HwStates
<1>4. Closed(closed) /\ SameCells(h, closed) /\ closed.chain = h.chain /\ closed.odt.write = 0
  BY <1>2, <1>3, ZenonT(60) DEF Closed, HwStates, SameCells
<1> HIDE DEF closed
<1>5. ASSUME NEW a, Closed(a) /\ SameCells(h, a) /\ a.chain = h.chain /\ a.odt.write = 0,
             NEW mr \in Modes
      PROVE  LET b == LoadMode(a, mr)
             IN  /\ Closed(b) /\ SameCells(h, b) /\ b.chain = h.chain /\ b.odt.write = 0
                 /\ mr \in b.modes /\ delay_for_n_mem_clocks(b, 4) = b
  <2>1. /\ LoadMode(a, mr) = [a EXCEPT !.modes = a.modes \cup {mr}]
        /\ Closed(LoadMode(a, mr)) /\ delay_for_n_mem_clocks(LoadMode(a, mr), 4) = LoadMode(a, mr)
    BY <1>5, ModeLoads
  <2> QED BY <1>5, <2>1 DEF Closed, HwStates, SameCells
<1>5a. ASSUME NEW a, Closed(a) /\ SameCells(h, a) /\ a.chain = h.chain /\ a.odt.write = 0,
              NEW mr \in Modes
       PROVE  LET c == delay_for_n_mem_clocks(LoadMode(a, mr), 4)
              IN  Closed(c) /\ SameCells(h, c) /\ c.chain = h.chain /\ c.odt.write = 0
  BY <1>5, <1>5a
<1>6. Closed(m2) /\ SameCells(h, m2) /\ m2.chain = h.chain /\ m2.odt.write = 0
  BY <1>0, <1>4, <1>5a, Zenon
<1> HIDE DEF m2
<1>7. Closed(m3) /\ SameCells(h, m3) /\ m3.chain = h.chain /\ m3.odt.write = 0
  BY <1>0, <1>5a, <1>6, Zenon
<1> HIDE DEF m3
<1>8. Closed(m1) /\ SameCells(h, m1) /\ m1.chain = h.chain /\ m1.odt.write = 0
  BY <1>0, <1>5a, <1>7, Zenon
<1> HIDE DEF m1
<1>9. Closed(u) /\ SameCells(h, u) /\ u.chain = h.chain /\ u.odt.write = 0 /\ "user" \in u.modes
  BY <1>0, <1>5, <1>8, Zenon
<1>10. rw_mgr_mem_handoff(h) = u
  BY DEF rw_mgr_mem_handoff, m1, m2, m3, closed, r
<1> HIDE DEF u
<1> DEFINE k == [u EXCEPT !.mux = 2]
<1>11. k \in HwStates
  BY <1>9 DEF Closed, HwStates
<1>12. /\ SameCells(h, k) /\ k.chain = h.chain /\ ~k.misuse /\ k.mux = 2 /\ ~k.open
       /\ "user" \in k.modes /\ k.odt.write = 0
  BY <1>9 DEF Closed, HwStates, SameCells
<1> QED BY <1>10, <1>11, <1>12

\* All groups are as SCC_MGR_UPD has left them when a group is begun.
LEMMA GroupStarts ==
    ASSUME NEW h \in HwStates, Awake(h), h.chain = h.io, NEW g \in Groups
    PROVE  LET k == [h EXCEPT !.group_counter = g]
           IN  AtWork(k, g) /\ SameCells(h, k)
<1> DEFINE k == [h EXCEPT !.group_counter = g]
<1>1. k \in HwStates
  BY DEF HwStates
<1>2. Awake(k) /\ k.chain = h.chain /\ SameCells(h, k) /\ k.group_counter = g
  BY DEF HwStates, Awake, SameCells
<1>3. Settled(k, g)
  BY <1>2 DEF Settled, SameCells
<1> QED BY <1>1, <1>2, <1>3 DEF AtWork

LEMMA Configures ==
    ASSUME NEW h, Closed(h), {"MR0", "MR1", "MR2", "MR3"} \subseteq h.modes, NEW lat \in Nat
    PROVE  LET k == scc_mgr_zero_all(Bypassed(mem_precharge_and_activate(SetRlat(h, lat))))
           IN  k \in HwStates /\ Awake(k) /\ k.chain = k.io /\ k.board = h.board
<1> DEFINE r == SetRlat(h, lat)
           o == mem_precharge_and_activate(r)
           c == [dqs |-> o.dqs, pin |-> [g \in Groups |-> o.pin]]
           b == Bypassed(o)
           z == [g \in Groups |-> [ZeroDqs EXCEPT !.in = IO_DQS_IN_RESERVE,
                                                  !.oct_out1 = IO_DQS_OUT_RESERVE]]
           y == [b EXCEPT !.dqs = z]
           e == [y.chain EXCEPT !.dqs = [g \in Groups |-> IF g \in Groups THEN y.dqs[g] ELSE @[g]]]
           k == scc_mgr_zero_all(b)
<1>1. /\ r \in HwStates /\ r.stable /\ r.mux = 3 /\ r.due = 0 /\ ~r.misuse
      /\ r.modes = h.modes /\ r.board = h.board
  <2>1. lat % (MAX_LATENCY + 1) \in 0 .. MAX_LATENCY
    BY CalibStateAssumption DEF CalibStateAssumption
  <2> DEFINE m == lat % (MAX_LATENCY + 1)
  <2> HIDE DEF m
  <2>2. [h EXCEPT !.rlat = m] \in HwStates
    BY <2>1 DEF Closed, HwStates, m
  <2>3. r = [h EXCEPT !.rlat = m]
    BY DEF SetRlat, m
  <2> QED BY <2>2, <2>3 DEF Closed, HwStates
<1> HIDE DEF r
<1>2. o \in HwStates /\ Awake(o) /\ o = [Rested(r) EXCEPT !.open = TRUE]
  BY <1>1, RowsOpen
<1>3. o.board = h.board
  BY <1>1, <1>2 DEF Rested, HwStates
<1> HIDE DEF o
<1>4. c \in Cells
  BY <1>2 DEF HwStates, Cells
<1> HIDE DEF c
<1>5. DQS_WIDTH - 1 \in Groups
  BY SccMgrAssumption DEF SccMgrAssumption, Groups
<1>6. b = [o EXCEPT !.hhp_extras = TRUE, !.chain = c, !.io = c, !.group_counter = DQS_WIDTH - 1]
  BY <1>2, <1>4 DEF Bypassed, scc_set_bypass_mode, scc_mgr_set_hhp_extras, Upd, HwStates, c
<1>7. b \in HwStates /\ Awake(b) /\ b.board = h.board
  <2>1. [o EXCEPT !.hhp_extras = TRUE, !.group_counter = DQS_WIDTH - 1] \in HwStates
    BY <1>2, <1>5 DEF HwStates
  <2>2. \A a \in HwStates : [a EXCEPT !.chain = c, !.io = c] \in HwStates
    BY <1>4 DEF HwStates
  <2>3. b = [[o EXCEPT !.hhp_extras = TRUE, !.group_counter = DQS_WIDTH - 1]
                 EXCEPT !.chain = c, !.io = c]
    BY <1>2, <1>6 DEF HwStates
  <2> HIDE DEF b
  <2>4. b \in HwStates
    BY <2>1, <2>2, <2>3
  <2> QED BY <1>2, <1>3, <1>6, <2>4 DEF HwStates, Awake
<1> HIDE DEF b
<1>8. z \in [Groups -> DqsSetting]
  <2>1. ZeroDqs \in DqsSetting
    BY SccMgrAssumption DEF SccMgrAssumption, ZeroDqs, DqsSetting
  <2>2. \A s \in DqsSetting, i \in 0 .. IO_DQS_IN_DELAY_MAX, x \in 0 .. IO_IO_OUT1_DELAY_MAX :
            [s EXCEPT !.in = i, !.oct_out1 = x] \in DqsSetting
    BY DEF DqsSetting
  <2>3. [ZeroDqs EXCEPT !.in = IO_DQS_IN_RESERVE, !.oct_out1 = IO_DQS_OUT_RESERVE] \in DqsSetting
    BY <2>1, <2>2, ReservesAre
  <2> QED BY <2>3
<1> HIDE DEF z
<1>9. y \in HwStates /\ Awake(y) /\ y.board = h.board
  <2>1. y \in HwStates
    BY <1>7, <1>8 DEF HwStates
  <2> QED BY <1>7, <2>1 DEF HwStates, Awake
<1>10. k = [y EXCEPT !.chain = e, !.io = e]
  <2>1. k = Upd(DqsEna(y, Groups))
    BY DEF scc_mgr_zero_all, z
  <2>2. DqsEna(y, Groups) = [y EXCEPT !.chain = e]
    BY <1>9 DEF DqsEna, HwStates
  <2> HIDE DEF y, e, k
  <2> QED BY <1>9, <2>1, <2>2 DEF Upd, HwStates
<1> HIDE DEF y
<1>11. e \in Cells
  BY <1>9 DEF HwStates, Cells
<1> HIDE DEF e, k
<1>12. k \in HwStates
  BY <1>9, <1>10, <1>11 DEF HwStates
<1>13. Awake(k) /\ k.chain = k.io /\ k.board = h.board
  BY <1>9, <1>10 DEF HwStates, Awake
<1> QED BY <1>12, <1>13 DEF k, b, o, r

-----------------------------------------------------------------------------
(* What the outputs of a group have been set to, and what the reads leave. *)

\* The delays of the outputs are the same in registers, chain and i/o cells.
OutLoaded(h, g) ==
    /\ \A p \in Pins : /\ h.pin[p].out1 = h.io.pin[g][p].out1
                       /\ h.chain.pin[g][p].out1 = h.io.pin[g][p].out1
    /\ h.dqs[g].oct_out1 = h.io.dqs[g].oct_out1
    /\ h.chain.dqs[g].oct_out1 = h.io.dqs[g].oct_out1

SameOut(h, k, g) ==
    /\ \A p \in Pins : k.io.pin[g][p].out1 = h.io.pin[g][p].out1
    /\ k.io.dqs[g].oct_out1 = h.io.dqs[g].oct_out1

\* What a search for the delays of the reads may do.
Reads(h, k, g) ==
    /\ Works(h, k, g)
    /\ AtWork(h, g) /\ OutLoaded(h, g) => OutLoaded(k, g) /\ SameOut(h, k, g)

LEMMA ReadsOn ==
    ASSUME NEW h, NEW k, NEW l, NEW g, Reads(h, k, g), Reads(k, l, g)
    PROVE  Reads(h, l, g)
BY WorksOn DEF Reads, Works, SameOut

LEMMA ReadsNot == \A h, g : Reads(h, h, g)
BY WorksNot DEF Reads, SameOut

LEMMA ReadChains ==
    ASSUME NEW h, NEW g
    PROVE  /\ \A ps : Reads(h, PinEna(h, ps), g)
           /\ Reads(h, DqsEna(h, {g}), g)
           /\ Reads(h, Upd(h), g)
<1>1. ASSUME NEW ps PROVE Reads(h, PinEna(h, ps), g)
  <2> SUFFICES ASSUME AtWork(h, g), OutLoaded(h, g)
               PROVE  OutLoaded(PinEna(h, ps), g) /\ SameOut(h, PinEna(h, ps), g)
    BY PinChain DEF Reads
  <2> DEFINE q == [p \in Pins |-> IF p \in ps THEN h.pin[p] ELSE h.chain.pin[g][p]]
             c == [h.chain EXCEPT !.pin[g] = q]
  <2>1. PinEna(h, ps) = [h EXCEPT !.chain = c]
    BY DEF PinEna, AtWork, HwStates, Cells
  <2>2. \A p \in Pins : q[p].out1 = h.io.pin[g][p].out1
    BY DEF OutLoaded
  <2> HIDE DEF q
  <2>3. c.dqs = h.chain.dqs /\ c.pin[g] = q
    BY DEF AtWork, HwStates, Cells
  <2> HIDE DEF c
  <2> QED BY <2>1, <2>2, <2>3 DEF AtWork, HwStates, OutLoaded, SameOut
<1>2. Reads(h, DqsEna(h, {g}), g)
  <2> SUFFICES ASSUME AtWork(h, g), OutLoaded(h, g)
               PROVE  OutLoaded(DqsEna(h, {g}), g) /\ SameOut(h, DqsEna(h, {g}), g)
    BY DqsChain DEF Reads
  <2> DEFINE c == [h.chain EXCEPT !.dqs = [j \in Groups |-> IF j \in {g} THEN h.dqs[j] ELSE @[j]]]
  <2>1. DqsEna(h, {g}) = [h EXCEPT !.chain = c]
    BY DEF DqsEna, AtWork, HwStates
  <2>2. c.pin = h.chain.pin /\ c.dqs[g] = h.dqs[g]
    BY DEF AtWork, HwStates, Cells
  <2> DEFINE k == DqsEna(h, {g})
  <2>3. k.pin = h.pin /\ k.dqs = h.dqs /\ k.io = h.io /\ k.chain = c
    BY <2>1 DEF AtWork, HwStates
  <2> HIDE DEF c, k
  <2>4. OutLoaded(k, g)
    <3>1. \A p \in Pins : /\ k.pin[p].out1 = k.io.pin[g][p].out1
                          /\ k.chain.pin[g][p].out1 = k.io.pin[g][p].out1
      BY <2>2, <2>3 DEF OutLoaded
    <3>2. k.dqs[g].oct_out1 = k.io.dqs[g].oct_out1
          /\ k.chain.dqs[g].oct_out1 = k.io.dqs[g].oct_out1
      BY <2>2, <2>3 DEF OutLoaded
    <3> QED BY <3>1, <3>2 DEF OutLoaded
  <2>5. SameOut(h, k, g)
    BY <2>3 DEF SameOut
  <2> QED BY <2>4, <2>5 DEF k
<1>3. Reads(h, Upd(h), g)
  <2> SUFFICES ASSUME AtWork(h, g), OutLoaded(h, g)
               PROVE  OutLoaded(Upd(h), g) /\ SameOut(h, Upd(h), g)
    BY Update DEF Reads
  <2> QED BY DEF AtWork, HwStates, OutLoaded, SameOut, Upd
<1> QED BY <1>1, <1>2, <1>3

LEMMA ReadRegisters ==
    ASSUME NEW h, NEW g
    PROVE  /\ \A f \in [Dqs -> 0 .. IO_IO_IN_DELAY_MAX] :
                  Reads(h, scc_mgr_set_dq_in_delay(h, f), g)
           /\ \A d \in 0 .. IO_DQS_IN_DELAY_MAX :
                  Reads(h, scc_mgr_set_dqs_bus_in_delay(h, g, d), g)
<1>1. ASSUME NEW f \in [Dqs -> 0 .. IO_IO_IN_DELAY_MAX]
      PROVE  Reads(h, scc_mgr_set_dq_in_delay(h, f), g)
  <2> DEFINE k == scc_mgr_set_dq_in_delay(h, f)
             q == [p \in Pins |-> IF p \in Dqs THEN [h.pin[p] EXCEPT !.in = f[p]]
                                  ELSE h.pin[p]]
  <2> SUFFICES ASSUME AtWork(h, g), OutLoaded(h, g)
               PROVE  OutLoaded(k, g) /\ SameOut(h, k, g)
    BY DqSet DEF Reads
  <2>1. k = [h EXCEPT !.pin = q]
    BY DEF AtWork, HwStates, scc_mgr_set_dq_in_delay
  <2>2. \A p \in Pins : q[p].out1 = h.pin[p].out1
    BY DEF AtWork, HwStates, PinSetting
  <2> HIDE DEF q, k
  <2> QED BY <2>1, <2>2 DEF AtWork, HwStates, OutLoaded, SameOut
<1>2. ASSUME NEW d \in 0 .. IO_DQS_IN_DELAY_MAX
      PROVE  Reads(h, scc_mgr_set_dqs_bus_in_delay(h, g, d), g)
  <2> DEFINE k == scc_mgr_set_dqs_bus_in_delay(h, g, d)
             s == [h.dqs EXCEPT ![g].in = d]
  <2> SUFFICES ASSUME AtWork(h, g), OutLoaded(h, g)
               PROVE  OutLoaded(k, g) /\ SameOut(h, k, g)
    BY DqsSet DEF Reads
  <2>1. k = [h EXCEPT !.dqs = s]
    BY DEF AtWork, HwStates, scc_mgr_set_dqs_bus_in_delay
  <2>2. s[g].oct_out1 = h.dqs[g].oct_out1
    BY DEF AtWork, HwStates, DqsSetting
  <2> HIDE DEF s, k
  <2> QED BY <2>1, <2>2 DEF AtWork, HwStates, OutLoaded, SameOut
<1> QED BY <1>1, <1>2

LEMMA ReadSets ==
    ASSUME NEW h, NEW g
    PROVE  /\ \A f \in [Dqs -> 0 .. IO_IO_IN_DELAY_MAX] :
                  /\ Reads(h, scc_mgr_load_dq(scc_mgr_set_dq_in_delay(h, f)), g)
                  /\ Reads(h, Upd(scc_mgr_load_dq(scc_mgr_set_dq_in_delay(h, f))), g)
           /\ \A d \in 0 .. IO_IO_IN_DELAY_MAX :
                  /\ Reads(h, scc_mgr_apply_group_dq_in_delay(h, d), g)
                  /\ Reads(h, Upd(scc_mgr_apply_group_dq_in_delay(h, d)), g)
           /\ \A d \in 0 .. IO_DQS_IN_DELAY_MAX :
                  Reads(h, Upd(DqsEna(scc_mgr_set_dqs_bus_in_delay(h, g, d), {g})), g)
<1>1. ASSUME NEW f \in [Dqs -> 0 .. IO_IO_IN_DELAY_MAX]
      PROVE  /\ Reads(h, scc_mgr_load_dq(scc_mgr_set_dq_in_delay(h, f)), g)
             /\ Reads(h, Upd(scc_mgr_load_dq(scc_mgr_set_dq_in_delay(h, f))), g)
  <2> DEFINE a == scc_mgr_set_dq_in_delay(h, f)
             b == scc_mgr_load_dq(a)
  <2>1. Reads(h, a, g)
    BY ReadRegisters
  <2>2. Reads(a, b, g)
    BY ReadChains DEF scc_mgr_load_dq
  <2> HIDE DEF a, b
  <2>3. Reads(h, b, g) /\ Reads(b, Upd(b), g)
    BY <2>1, <2>2, ReadsOn, ReadChains
  <2>4. Reads(h, Upd(b), g)
    BY <2>3, ReadsOn
  <2> QED BY <2>3, <2>4 DEF a, b
<1>2. ASSUME NEW d \in 0 .. IO_IO_IN_DELAY_MAX
      PROVE  /\ Reads(h, scc_mgr_apply_group_dq_in_delay(h, d), g)
             /\ Reads(h, Upd(scc_mgr_apply_group_dq_in_delay(h, d)), g)
  <2> DEFINE f == [dq \in Dqs |-> d]
  <2>1. f \in [Dqs -> 0 .. IO_IO_IN_DELAY_MAX]
    OBVIOUS
  <2>2. scc_mgr_apply_group_dq_in_delay(h, d) = scc_mgr_load_dq(scc_mgr_set_dq_in_delay(h, f))
    BY DEF scc_mgr_apply_group_dq_in_delay
  <2> HIDE DEF f
  <2> QED BY <1>1, <2>1, <2>2
<1>3. ASSUME NEW d \in 0 .. IO_DQS_IN_DELAY_MAX
      PROVE  Reads(h, Upd(DqsEna(scc_mgr_set_dqs_bus_in_delay(h, g, d), {g})), g)
  <2> DEFINE a == scc_mgr_set_dqs_bus_in_delay(h, g, d)
             b == DqsEna(a, {g})
  <2>1. Reads(h, a, g)
    BY ReadRegisters
  <2>2. Reads(a, b, g) /\ Reads(b, Upd(b), g)
    BY ReadChains
  <2> HIDE DEF a, b
  <2>3. Reads(h, b, g)
    BY <2>1, <2>2, ReadsOn
  <2>4. Reads(h, Upd(b), g)
    BY <2>2, <2>3, ReadsOn
  <2> QED BY <2>4 DEF a, b
<1> QED BY <1>1, <1>2, <1>3

LEMMA RestReads ==
    ASSUME NEW h, NEW g
    PROVE  /\ Reads(h, Rested(h), g)
           /\ \A f \in [Groups -> BOOLEAN] :
                  Reads(h, [Rested(h) EXCEPT !.patterns = f], g)
<1>1. ASSUME AtWork(h, g), OutLoaded(h, g), NEW f
      PROVE  /\ OutLoaded(Rested(h), g) /\ SameOut(h, Rested(h), g)
             /\ OutLoaded([Rested(h) EXCEPT !.patterns = f], g)
             /\ SameOut(h, [Rested(h) EXCEPT !.patterns = f], g)
  <2>1. /\ Rested(h).pin = h.pin /\ Rested(h).dqs = h.dqs /\ Rested(h).chain = h.chain
        /\ Rested(h).io = h.io
    BY <1>1 DEF Rested, AtWork, HwStates
  <2> DEFINE k == [Rested(h) EXCEPT !.patterns = f]
  <2>2. k.pin = h.pin /\ k.dqs = h.dqs /\ k.chain = h.chain /\ k.io = h.io
    BY <1>1 DEF Rested, AtWork, HwStates
  <2> HIDE DEF k
  <2>3. OutLoaded(Rested(h), g) /\ SameOut(h, Rested(h), g)
    BY <1>1, <2>1 DEF OutLoaded, SameOut
  <2>4. OutLoaded(k, g) /\ SameOut(h, k, g)
    BY <1>1, <2>2 DEF OutLoaded, SameOut
  <2> QED BY <2>3, <2>4 DEF k
<1> QED BY <1>1, Rests DEF Reads

\* The tests of both kinds.
LEMMA TestReads ==
    ASSUME NEW h, NEW g, AtWork(h, g)
    PROVE  /\ \A gs : \A t \in rw_mgr_mem_calibrate_read_test(h, gs) : Reads(h, t.hw, g)
           /\ \A nops, use_dm :
                  use_dm \in BOOLEAN =>
                      \A t \in rw_mgr_mem_calibrate_write_test(h, g, nops, use_dm) :
                          Reads(h, t.hw, g)
<1>1. \A gs : \A t \in rw_mgr_mem_calibrate_read_test(h, gs) : Reads(h, t.hw, g)
  BY ReadTest, RestReads
<1>2. ASSUME NEW nops, NEW use_dm \in BOOLEAN,
             NEW t \in rw_mgr_mem_calibrate_write_test(h, g, nops, use_dm)
      PROVE  Reads(h, t.hw, g)
  <2> DEFINE f == [h.patterns EXCEPT ![g] = FALSE]
  <2>1. f \in [Groups -> BOOLEAN]
    BY DEF AtWork, HwStates
  <2>2. t.hw = [Rested(h) EXCEPT !.patterns = f]
    BY WriteTested, ZenonT(60)
  <2> HIDE DEF f
  <2>3. Reads(h, [Rested(h) EXCEPT !.patterns = f], g)
    BY <2>1, RestReads
  <2> QED BY <2>2, <2>3
<1> QED BY <1>1, <1>2

-----------------------------------------------------------------------------
(* What the search for the delay of DM knows. *)

\* The delays of the DQ outputs are in the chain.
DqOut(h, g) == \A dq \in Dqs : h.chain.pin[g][dq].out1 = h.pin[dq].out1

\* From h to k the outputs of the DQ have not been touched.
SameDq(h, k, g) ==
    /\ k.board = h.board
    /\ \A dq \in Dqs : /\ k.pin[dq].out1 = h.pin[dq].out1
                       /\ k.chain.pin[g][dq].out1 = h.chain.pin[g][dq].out1

LEMMA OutPins ==
    /\ Pins = Dqs \cup {DqsPin, DmPin} /\ DqsPin # DmPin
    /\ DqsPin \notin Dqs /\ DmPin \notin Dqs /\ DqsPin \in Pins /\ DmPin \in Pins
    /\ Dqs \subseteq Pins /\ Dqs # {} /\ 0 \in Dqs
BY SccMgrAssumption DEF SccMgrAssumption, DqsPin, DmPin, Pins, Dqs

LEMMA DmApplied ==
    ASSUME NEW h, NEW g, AtWork(h, g), NEW d \in 0 .. IO_IO_OUT1_DELAY_MAX
    PROVE  LET k == scc_mgr_apply_group_dm_out1_delay(h, d)
           IN  /\ SameDq(h, k, g) /\ k.io = h.io /\ k.dqs = h.dqs
               /\ k.chain.dqs = h.chain.dqs
               /\ k.pin[DqsPin] = h.pin[DqsPin] /\ k.pin[DmPin].out1 = d
               /\ k.chain.pin[g][DqsPin] = h.chain.pin[g][DqsPin]
               /\ k.chain.pin[g][DmPin].out1 = d
<1> DEFINE r == [h.pin EXCEPT ![DmPin].out1 = d]
           a == scc_mgr_set_dm_out1_delay(h, d)
           k == scc_mgr_apply_group_dm_out1_delay(h, d)
           q == [p \in Pins |-> IF p \in {DmPin} THEN r[p] ELSE h.chain.pin[g][p]]
           c == [h.chain EXCEPT !.pin[g] = q]
<1>1. a = [h EXCEPT !.pin = r]
  BY DEF scc_mgr_set_dm_out1_delay, AtWork, HwStates
<1>2. /\ \A p \in Pins : p # DmPin => r[p] = h.pin[p]
      /\ r[DmPin].out1 = d
  BY OutPins DEF AtWork, HwStates, PinSetting
<1> HIDE DEF r
<1>3. k = [h EXCEPT !.pin = r, !.chain = c]
  <2>1. k = PinEna(a, {DmPin})
    BY DEF scc_mgr_apply_group_dm_out1_delay, scc_mgr_load_dm
  <2> HIDE DEF k
  <2> QED BY <1>1, <2>1 DEF PinEna, AtWork, HwStates, Cells
<1>4. /\ \A p \in Pins : p # DmPin => q[p] = h.chain.pin[g][p]
      /\ q[DmPin].out1 = d
  BY <1>2, OutPins
<1> HIDE DEF q
<1>5. c.pin[g] = q /\ c.dqs = h.chain.dqs
  BY DEF AtWork, HwStates, Cells
<1> HIDE DEF c, k
<1>6. k.pin = r /\ k.chain = c /\ k.io = h.io /\ k.dqs = h.dqs /\ k.board = h.board
  BY <1>3 DEF AtWork, HwStates
<1> QED BY <1>2, <1>4, <1>5, <1>6, OutPins DEF SameDq, k

LEMMA DqsApplied ==
    ASSUME NEW h, NEW g, AtWork(h, g), NEW d \in 0 .. IO_IO_OUT1_DELAY_MAX
    PROVE  LET k == scc_mgr_apply_group_dqs_io_and_oct_out1(h, g, d)
           IN  /\ SameDq(h, k, g) /\ k.io = h.io
               /\ k.dqs[g].oct_out1 = d /\ k.chain.dqs[g].oct_out1 = d
               /\ k.pin[DmPin] = h.pin[DmPin] /\ k.pin[DqsPin].out1 = d
               /\ k.chain.pin[g][DmPin] = h.chain.pin[g][DmPin]
               /\ k.chain.pin[g][DqsPin].out1 = d
<1> DEFINE r == [h.pin EXCEPT ![DqsPin].out1 = d]
           a == scc_mgr_set_dqs_out1_delay(h, d)
           q == [p \in Pins |-> IF p \in {DqsPin} THEN r[p] ELSE h.chain.pin[g][p]]
           c == [h.chain EXCEPT !.pin[g] = q]
           io == scc_mgr_load_dqs_io(a)
           s == [h.dqs EXCEPT ![g].oct_out1 = d]
           oct == scc_mgr_set_oct_out1_delay(io, g, d)
           e == [c EXCEPT !.dqs = [j \in Groups |-> IF j \in {g} THEN s[j] ELSE @[j]]]
           k == scc_mgr_apply_group_dqs_io_and_oct_out1(h, g, d)
<1>1. a = [h EXCEPT !.pin = r]
  BY DEF scc_mgr_set_dqs_out1_delay, AtWork, HwStates
<1>2. /\ \A p \in Pins : p # DqsPin => r[p] = h.pin[p]
      /\ r[DqsPin].out1 = d
  BY OutPins DEF AtWork, HwStates, PinSetting
<1> HIDE DEF r
<1>3. io = [h EXCEPT !.pin = r, !.chain = c]
  <2>1. io = PinEna(a, {DqsPin})
    BY DEF scc_mgr_load_dqs_io
  <2> HIDE DEF io
  <2> QED BY <1>1, <2>1 DEF PinEna, AtWork, HwStates, Cells
<1>4. /\ \A p \in Pins : p # DqsPin => q[p] = h.chain.pin[g][p]
      /\ q[DqsPin].out1 = d
  BY <1>2, OutPins
<1> HIDE DEF q
<1>5. c.pin[g] = q /\ c.dqs = h.chain.dqs 
      /\ DOMAIN c = {"dqs", "pin"}
  BY DEF AtWork, HwStates, Cells
<1> HIDE DEF c, io, a
<1>6. oct = [h EXCEPT !.pin = r, !.chain = c, !.dqs = s]
  BY <1>3 DEF scc_mgr_set_oct_out1_delay, AtWork, HwStates
<1>7. s[g].oct_out1 = d
  BY DEF AtWork, HwStates, DqsSetting
<1> HIDE DEF s
<1>8. k = [h EXCEPT !.pin = r, !.chain = e, !.dqs = s]
  <2>1. k = DqsEna(oct, {g})
    BY DEF scc_mgr_apply_group_dqs_io_and_oct_out1, scc_mgr_load_dqs_for_write_group, oct, io, a
  <2> HIDE DEF k, oct
  <2> QED BY <1>6, <2>1 DEF DqsEna, AtWork, HwStates
<1>9. e.pin = c.pin /\ e.dqs[g].oct_out1 = d
  BY <1>5, <1>7 DEF AtWork
<1> HIDE DEF e, k
<1>10. k.pin = r /\ k.chain = e /\ k.dqs = s /\ k.io = h.io /\ k.board = h.board
  BY <1>8 DEF AtWork, HwStates
<1> QED BY <1>2, <1>4, <1>5, <1>7, <1>9, <1>10, OutPins DEF SameDq, k

LEMMA Updated ==
    ASSUME NEW h, NEW g, AtWork(h, g)
    PROVE  /\ SameDq(h, Upd(h), g) /\ Upd(h).io = h.chain /\ Upd(h).chain = h.chain
           /\ Upd(h).pin = h.pin /\ Upd(h).dqs = h.dqs /\ Upd(h).board = h.board
BY DEF AtWork, HwStates, Upd, SameDq

LEMMA WriteTestSame ==
    ASSUME NEW h, NEW g, AtWork(h, g), NEW nops, NEW use_dm \in BOOLEAN,
           NEW t \in rw_mgr_mem_calibrate_write_test(h, g, nops, use_dm)
    PROVE  /\ t.hw.pin = h.pin /\ t.hw.dqs = h.dqs /\ t.hw.io = h.io
           /\ t.hw.chain = h.chain /\ t.hw.board = h.board
<1> DEFINE f == [h.patterns EXCEPT ![g] = FALSE]
<1>1. t.hw = [Rested(h) EXCEPT !.patterns = f]
  BY WriteTested, ZenonT(60)
<1> QED BY <1>1 DEF Rested, AtWork, HwStates

-----------------------------------------------------------------------------
\* With DM at x - the larger, the later DQS comes after it - all bits were
\* stored: at 0 or less, with DQS as it will be.
DmPassed(h, g, start, x) ==
    /\ InWindow(h.board.group[g].dm, -x - start)
    /\ x <= 0 => /\ InWindow(h.board.group[g].dqss, start)
                 /\ \A dq \in Dqs : InWindow(h.board.group[g].write[dq], h.pin[dq].out1 - start)

\* The window that is being looked at, and the best so far.
DmEye(h, g, e) ==
    /\ e.bgn_curr \in -IO_IO_OUT1_DELAY_MAX .. WriteNone
    /\ e.bgn_curr # WriteNone => DmPassed(h, g, e.start_dqs, e.bgn_curr)
    /\ e.win_best \in Nat
    /\ \/ e.win_best = 0 /\ e.bgn_best = WriteNone /\ e.end_best = WriteNone
       \/ /\ e.win_best > 0
          /\ e.bgn_best \in -IO_IO_OUT1_DELAY_MAX .. IO_IO_OUT1_DELAY_MAX
          /\ e.end_best \in e.bgn_best .. IO_IO_OUT1_DELAY_MAX
          /\ DmPassed(h, g, e.start_dqs, e.bgn_best)
          /\ DmPassed(h, g, e.start_dqs, e.end_best)

LEMMA DmEyeStays ==
    ASSUME NEW h, NEW k, NEW g, NEW e, SameDq(h, k, g)
    PROVE  /\ DmEye(h, g, e) => DmEye(k, g, e)
           /\ DqOut(h, g) => DqOut(k, g)
           /\ \A start, x : DmPassed(h, g, start, x) => DmPassed(k, g, start, x)
<1>1. \A start, x : DmPassed(h, g, start, x) => DmPassed(k, g, start, x)
  BY DEF SameDq, DmPassed
<1>2. DqOut(h, g) => DqOut(k, g)
  BY DEF SameDq, DqOut
<1> QED BY <1>1, <1>2 DEF DmEye

LEMMA SameDqOn ==
    ASSUME NEW h, NEW k, NEW l, NEW g, SameDq(h, k, g), SameDq(k, l, g)
    PROVE  SameDq(h, l, g)
BY DEF SameDq

LEMMA DmTested ==
    ASSUME NEW h, NEW g, AtWork(h, g), h.io = h.chain, DqOut(h, g),
           NEW start \in Nat, NEW x \in Int, NEW nops,
           NEW t \in rw_mgr_mem_calibrate_write_test(h, g, nops, TRUE), t.bits = Dqs,
           h.chain.pin[g][DmPin].out1 - h.chain.pin[g][DqsPin].out1 = -x - start,
           x <= 0 => h.chain.pin[g][DqsPin].out1 = start
    PROVE  DmPassed(h, g, start, x)
<1>1. \A dq \in Dqs : /\ DqssMet(h, g) /\ WriteEye(h, g, dq, h.board.group[g].write[dq])
                      /\ WriteEye(h, g, DmPin, h.board.group[g].dm)
  BY WriteTested, ZenonT(60)
<1>2. /\ InWindow(h.board.group[g].dqss, h.chain.pin[g][DqsPin].out1)
      /\ \A dq \in Dqs : InWindow(h.board.group[g].write[dq],
                                  h.pin[dq].out1 - h.chain.pin[g][DqsPin].out1)
      /\ InWindow(h.board.group[g].dm,
                  h.chain.pin[g][DmPin].out1 - h.chain.pin[g][DqsPin].out1)
  BY <1>1, OutPins DEF DqssMet, WriteEye, DqOut
<1> QED BY <1>2 DEF DmPassed

-----------------------------------------------------------------------------
(* The inductive invariant. *)

\* The wait for the data of a read is not at the end of what PHY_RLAT can hold:
\* five bits (sequencer_defines.pre.h:106), for a read latency of 5 (emif.pre.xml:164).
LatenciesFit == \A b \in Boards : b.rl + 16 < MAX_LATENCY

FindLabels == {"find_fail", "find_begin", "find_left", "find_end", "find_right",
               "measure_pass", "measure_fail", "find_v"}
ReadLabels == {"read_left", "read_right"}
WriteLabels == {"write_left", "write_right"}
DmLabels == {"dm_left", "dm_right"}
GroupLabels == {"guaranteed", "vfifo_center", "vfifo_retry", "vfifo_centered", "vfifo_end"}
               \cup FindLabels \cup ReadLabels \cup WriteLabels \cup DmLabels

\* An edge is a delay, or its sentinel, or less than 0 by as much.
Far == IO_IO_IN_DELAY_MAX + IO_DQS_IN_DELAY_MAX + IO_IO_OUT1_DELAY_MAX + 1
Edges == [Dqs -> -Far .. Far]

GblStates ==
    [error_stage : Stages, error_substage : Substages, error_group : Nat,
     curr_read_lat : Nat, rw_wl_nop_cycles : Int]

StageStates == [stage : Stages, substage : Substages, group : Groups]

RegStates ==
    [cal_status : {"RESET", "SUCCESS", "FAIL"}, cur_stage : StageStates,
     failing_stage : Stages \X Substages \X Nat, dtaps_per_ptap : Int,
     tracking : BOOLEAN]

FnStates ==
    [d : 0 .. dtaps_per_ptap, failed_substage : Substages, found_one : BOOLEAN,
     pass : BOOLEAN]

EnStates ==
    [v : Nat, fail_cnt : Nat, d : 0 .. IO_DQS_EN_DELAY_MAX + 1, i : Nat,
     p : 0 .. IO_DQS_EN_PHASE_MAX, work_bgn : Nat, work_end : Nat, tmp_delay : Nat,
     initial : Nat]

EyeStates ==
    [d : Nat, left : Edges \cup {<<>>}, right : Edges \cup {<<>>}, sticky : SUBSET Dqs,
     start_dqs : Nat, use_read_test : BOOLEAN, margins : BOOLEAN, bgn_curr : Int,
     end_curr : Int, bgn_best : Int, end_best : Int, win_best : Int]

Shapes ==
    /\ hw \in HwStates /\ gbl \in GblStates /\ regs \in RegStates
    /\ write_group \in Groups /\ fn \in FnStates /\ en \in EnStates /\ eye \in EyeStates

\* The memory is ready for what comes next.
MemoryInv ==
    /\ ~hw.misuse
    /\ pc = "mem_calibrate" => Closed(hw) /\ {"MR0", "MR1", "MR2", "MR3"} \subseteq hw.modes
    /\ pc \in GroupLabels \cup {"lfifo", "finish"} => AtWork(hw, write_group)
    /\ pc \in {"vfifo_centered", "vfifo_end", "lfifo"} => hw.chain = hw.io

\* The writes of a group that is done work, as i/o cells are.
WritesWork(h, g) ==
    LET board == h.board.group[g]
    IN  /\ DqssMet(h, g) /\ WriteEye(h, g, DmPin, board.dm)
        /\ \A dq \in Dqs : WriteEye(h, g, dq, board.write[dq])
        /\ h.io.dqs[g].oct_out1 = h.io.pin[g][DqsPin].out1

ReadsWork(h, g) ==
    TRUE \in Enabled(h, g) /\ \A dq \in Dqs : ReadEye(h, g, dq)

GroupsInv ==
    /\ pc \in GroupLabels => \A g \in Groups : g < write_group => WritesWork(hw, g)
    /\ pc = "lfifo" => \A g \in Groups : WritesWork(hw, g)
    /\ pc = "lfifo" /\ fn.found_one => \A g \in Groups : ReadsWork(hw, g)
    /\ pc = "finish" /\ fn.pass => \A g \in Groups : WritesWork(hw, g) /\ ReadsWork(hw, g)

\* The reads are centered again when the writes of the group work.
CenterInv ==
    /\ pc = "vfifo_end" => WritesWork(hw, write_group)
    /\ pc \in ReadLabels /\ ~eye.use_read_test =>
           WritesWork(hw, write_group) /\ OutLoaded(hw, write_group)

EnInv == pc = "find_begin" => en.d <= dtaps_per_ptap

EyeInv ==
    /\ pc \in ReadLabels \cup WriteLabels => eye.left \in Edges /\ eye.right \in Edges
    /\ pc \in ReadLabels => eye.start_dqs <= IO_DQS_IN_DELAY_MAX
    /\ pc \in WriteLabels => eye.start_dqs <= IO_IO_OUT1_DELAY_MAX
    /\ pc = "read_left" => eye.d <= IO_IO_IN_DELAY_MAX
    /\ pc = "read_right" => eye.d + eye.start_dqs <= IO_DQS_IN_DELAY_MAX
    /\ pc = "write_left" => eye.d <= IO_IO_OUT1_DELAY_MAX
    /\ pc = "write_right" => eye.d + eye.start_dqs <= IO_IO_OUT1_DELAY_MAX

DmInv ==
    /\ pc \in DmLabels =>
           /\ eye.start_dqs <= IO_IO_OUT1_DELAY_MAX
           /\ DqOut(hw, write_group) /\ DmEye(hw, write_group, eye)
    /\ pc = "dm_left" =>
           /\ eye.d <= IO_IO_OUT1_DELAY_MAX
           /\ hw.chain.pin[write_group][DqsPin].out1 = eye.start_dqs
    /\ pc = "dm_right" =>
           /\ eye.d + eye.start_dqs <= IO_IO_OUT1_DELAY_MAX
           /\ hw.chain.pin[write_group][DmPin].out1 = 0

\* Latencies, of boards that PHY_RLAT can be set for.
LatencyInv ==
    LatenciesFit =>
        /\ gbl.curr_read_lat <= MAX_LATENCY
        /\ pc \in GroupLabels \cup {"lfifo"} => gbl.curr_read_lat \in 1 .. MAX_LATENCY - 1
        /\ pc = "lfifo" /\ fn.found_one =>
               /\ gbl.curr_read_lat + 2 <= MAX_LATENCY
               /\ \A g \in Groups : hw.board.group[g].lat <= gbl.curr_read_lat + 1
        /\ pc = "finish" /\ fn.pass => \A g \in Groups : hw.board.group[g].lat < hw.rlat

OutcomeInv ==
    /\ pc # "done" => regs.cal_status = "RESET"
    /\ pc = "done" /\ regs.cal_status = "SUCCESS" =>
           /\ HandedOver
           /\ \A g \in Groups : WritesWork(hw, g) /\ ReadsWork(hw, g)
           /\ LatenciesFit => \A g \in Groups : hw.board.group[g].lat < hw.rlat

CalInv ==
    /\ Shapes /\ MemoryInv /\ GroupsInv /\ CenterInv /\ EnInv /\ EyeInv /\ DmInv
    /\ LatencyInv /\ OutcomeInv

\* A step moves no other group.
Apart ==
    \A g \in Groups \ {write_group'} :
        /\ hw'.io.dqs[g] = hw.io.dqs[g] /\ hw'.io.pin[g] = hw.io.pin[g]
        /\ hw'.vfifo[g] = hw.vfifo[g]

LEMMA InvTypes == CalInv => (LatenciesFit => TypeOK)
<1> SUFFICES ASSUME CalInv, LatenciesFit PROVE TypeOK
  OBVIOUS
<1>1. /\ hw.dqs \in [Groups -> DqsSetting] /\ hw.pin \in [Pins -> PinSetting]
      /\ hw.chain \in Cells /\ hw.io \in Cells
      /\ hw.vfifo \in [Groups -> 0 .. VFIFO_SIZE - 1]
      /\ hw.rlat \in 0 .. MAX_LATENCY /\ hw.group_counter \in Groups
  BY DEF CalInv, Shapes, HwStates
<1>2. gbl.error_stage \in Stages /\ gbl.error_substage \in Substages
      /\ gbl.curr_read_lat \in Nat
  BY DEF CalInv, Shapes, GblStates
<1>3. gbl.curr_read_lat \in 0 .. MAX_LATENCY
  BY <1>2, CalibStateAssumption DEF CalInv, LatencyInv, CalibStateAssumption
<1>4. write_group \in Groups
  BY DEF CalInv, Shapes
<1>5. en.d \in 0 .. IO_DQS_EN_DELAY_MAX + 1 /\ en.p \in 0 .. IO_DQS_EN_PHASE_MAX
  BY DEF CalInv, Shapes, EnStates
<1> QED BY <1>1, <1>2, <1>3, <1>4, <1>5 DEF TypeOK

LEMMA InvRules == CalInv => MemoryRules
BY DEF CalInv, MemoryInv, MemoryRules

LEMMA InvSuccess == CalInv => (LatenciesFit => SuccessWorks)
<1> SUFFICES ASSUME CalInv, LatenciesFit, regs.cal_status = "SUCCESS"
             PROVE  HandedOver /\ \A g \in Groups : GroupWorks(hw, g)
  BY DEF SuccessWorks
<1>1. pc = "done"
  BY DEF CalInv, OutcomeInv
<1>2. HandedOver
  BY <1>1 DEF CalInv, OutcomeInv
<1>3. ASSUME NEW g \in Groups PROVE GroupWorks(hw, g)
  <2>1. WritesWork(hw, g) /\ ReadsWork(hw, g) /\ hw.board.group[g].lat < hw.rlat
    BY <1>1 DEF CalInv, OutcomeInv
  <2>2. hw.board \in Boards /\ hw.rlat \in Int
    BY CalibStateAssumption DEF CalInv, Shapes, HwStates, CalibStateAssumption
  <2>3. hw.board.group[g].lat \in Int
    BY <2>2, CalibrationAssumption DEF CalibrationAssumption
  <2>4. hw.rlat > hw.board.group[g].lat
    BY <2>1, <2>2, <2>3
  <2> QED BY <2>1, <2>4 DEF WritesWork, ReadsWork, GroupWorks
<1> QED BY <1>2, <1>3

LEMMA WritesKeep ==
    ASSUME NEW h, NEW k, NEW g, OnlyMoves(h, k, g), NEW j \in Groups \ {g},
           WritesWork(h, j)
    PROVE  WritesWork(k, j)
BY DEF OnlyMoves, WritesWork, DqssMet, WriteEye

\* A step of the calibration of a group.
LEMMA GroupStep ==
    ASSUME CalInv, pc \in GroupLabels, pc' \in GroupLabels, write_group' = write_group,
           Works(hw, hw', write_group), Shapes',
           gbl'.curr_read_lat = gbl.curr_read_lat, regs'.cal_status = regs.cal_status,
           pc' \in {"vfifo_centered", "vfifo_end"} => hw'.chain = hw'.io,
           CenterInv', EnInv', EyeInv', DmInv'
    PROVE  CalInv' /\ Apart
<1>1. AtWork(hw, write_group)
  BY DEF CalInv, MemoryInv
<1>2. AtWork(hw', write_group) /\ OnlyMoves(hw, hw', write_group)
  BY <1>1 DEF Works
<1>3. pc' \notin {"lfifo", "finish", "done", "mem_calibrate"} /\ pc # "done"
  BY DEF GroupLabels, FindLabels, ReadLabels, WriteLabels, DmLabels
<1>4. MemoryInv'
  BY <1>2, <1>3 DEF MemoryInv, AtWork, Awake
<1>5. GroupsInv'
  <2>1. ASSUME NEW g \in Groups, g < write_group PROVE WritesWork(hw', g)
    <3>1. write_group \in Groups /\ write_group \in Int
      BY DEF CalInv, Shapes, Groups
    <3>2. g # write_group
      BY <2>1, <3>1 DEF Groups
    <3>3. WritesWork(hw, g)
      BY <2>1 DEF CalInv, GroupsInv
    <3> QED BY <1>2, <3>2, <3>3, WritesKeep
  <2> QED BY <1>3, <2>1 DEF GroupsInv
<1>6. LatencyInv'
  BY <1>3 DEF CalInv, LatencyInv
<1>7. OutcomeInv'
  BY <1>3 DEF CalInv, OutcomeInv
<1>8. Apart
  BY <1>2 DEF OnlyMoves, Apart
<1> QED BY <1>4, <1>5, <1>6, <1>7, <1>8 DEF CalInv

\* The locals of functions that are not being executed.
LEMMA NothingFits ==
    /\ NoEn \in EnStates /\ NoEn.d = 0 /\ NoEye \in EyeStates
    /\ \A b \in BOOLEAN : LET f == [NoFn EXCEPT !.pass = b]
                        IN  f \in FnStates /\ f.pass = b /\ f.found_one = FALSE
    /\ NoFn \in FnStates /\ NoFn.found_one = FALSE
<1>1. NoEn \in EnStates /\ NoEn.d = 0
  <2>1. 0 \in 0 .. IO_DQS_EN_DELAY_MAX + 1 /\ 0 \in 0 .. IO_DQS_EN_PHASE_MAX
    BY SccMgrAssumption DEF SccMgrAssumption
  <2> QED BY <2>1 DEF NoEn, EnStates
<1>2. NoEye \in EyeStates
  BY DEF NoEye, EyeStates
<1>3. NoFn \in FnStates /\ NoFn.found_one = FALSE
  <2>1. 0 \in 0 .. dtaps_per_ptap /\ "NIL" \in Substages
    BY DtapsFit DEF Substages
  <2> QED BY <2>1 DEF NoFn, FnStates
<1>4. ASSUME NEW b \in BOOLEAN
      PROVE  LET f == [NoFn EXCEPT !.pass = b]
             IN  f \in FnStates /\ f.pass = b /\ f.found_one = FALSE
  BY <1>3 DEF FnStates
<1> QED BY <1>1, <1>2, <1>3, <1>4

\* mem_calibrate gives up.
LEMMA FailStep ==
    ASSUME CalInv, pc \in GroupLabels \cup {"lfifo"}, write_group' = write_group,
           NEW h, Works(hw, h, write_group), MemCalibrateReturns(h, FALSE),
           gbl' \in GblStates, gbl'.curr_read_lat = gbl.curr_read_lat,
           regs' = regs, en' \in EnStates, eye' \in EyeStates
    PROVE  CalInv' /\ Apart
<1>1. AtWork(hw, write_group)
  BY DEF CalInv, MemoryInv
<1>2. AtWork(h, write_group) /\ OnlyMoves(hw, h, write_group)
  BY <1>1 DEF Works
<1>3. pc' = "finish" /\ hw' = h /\ fn' = [NoFn EXCEPT !.pass = FALSE]
  BY DEF MemCalibrateReturns, Goto
<1>4. fn' \in FnStates /\ ~fn'.pass
  BY <1>3, NothingFits
<1>5. pc' \notin GroupLabels \cup {"lfifo", "done", "mem_calibrate"} /\ pc # "done"
  BY <1>3 DEF GroupLabels, FindLabels, ReadLabels, WriteLabels, DmLabels
<1>6. Shapes'
  BY <1>2, <1>3, <1>4 DEF AtWork, Shapes, CalInv
<1>7. MemoryInv'
  BY <1>2, <1>3, <1>5 DEF MemoryInv, AtWork, Awake
<1>8. GroupsInv'
  BY <1>4, <1>5 DEF GroupsInv
<1>9. CenterInv' /\ EnInv' /\ EyeInv' /\ DmInv'
  BY <1>3 DEF CenterInv, EnInv, EyeInv, DmInv, ReadLabels, WriteLabels, DmLabels
<1>10. LatencyInv'
  BY <1>4, <1>5 DEF CalInv, LatencyInv
<1>11. OutcomeInv'
  BY <1>5 DEF CalInv, OutcomeInv
<1>12. Apart
  BY <1>2, <1>3 DEF OnlyMoves, Apart
<1> QED BY <1>6, <1>7, <1>8, <1>9, <1>10, <1>11, <1>12 DEF CalInv

-----------------------------------------------------------------------------
(* The search for the enable. *)

LEMMA AtWorkNow ==
    ASSUME CalInv, pc \in GroupLabels \cup {"lfifo", "finish"}
    PROVE  AtWork(hw, write_group) /\ Shapes
BY DEF CalInv, MemoryInv

LEMMA WorksShape ==
    ASSUME CalInv, pc \in GroupLabels \cup {"lfifo", "finish"}, NEW h,
           Works(hw, h, write_group)
    PROVE  AtWork(h, write_group) /\ h \in HwStates
BY AtWorkNow DEF Works, AtWork

LEMMA EnableStays ==
    ASSUME CalInv, pc \in FindLabels, NEW l \in FindLabels, NEW h, Works(hw, h, write_group),
           NEW e \in EnStates, l = "find_begin" => e.d <= dtaps_per_ptap, EnableStep(l, h, e)
    PROVE  CalInv' /\ Apart
<1>1. pc' = l /\ hw' = h /\ en' = e
      /\ UNCHANGED <<gbl, regs, write_group, fn, eye>>
  BY DEF EnableStep, Goto
<1>2. pc \in GroupLabels /\ l \in GroupLabels
  BY DEF GroupLabels
<1>3. Shapes'
  BY <1>1, <1>2, WorksShape, AtWorkNow DEF Shapes
<1>4. l \notin {"vfifo_centered", "vfifo_end", "dm_left", "dm_right", "read_left", "read_right",
                "write_left", "write_right"}
  BY DEF FindLabels
<1>5. CenterInv' /\ EnInv' /\ EyeInv' /\ DmInv'
  BY <1>1, <1>4 DEF CenterInv, EnInv, EyeInv, DmInv, ReadLabels, WriteLabels, DmLabels
<1> QED BY <1>1, <1>2, <1>3, <1>4, <1>5, GroupStep

LEMMA FindReturnStays ==
    ASSUME CalInv, pc \in FindLabels, NEW h, Works(hw, h, write_group), NEW found \in BOOLEAN,
           FindReturns(h, found)
    PROVE  CalInv' /\ Apart
<1> DEFINE k == Upd(scc_mgr_apply_group_dq_in_delay(h, 0))
<1>1. Works(hw, k, write_group)
  <2>1. Works(h, k, write_group)
    BY ApplyDq, ReservesAre
  <2> HIDE DEF k
  <2> QED BY <2>1, WorksOn
<1>2. /\ pc' \in {"vfifo_center", "vfifo_retry"} /\ hw' = k /\ en' = NoEn
      /\ fn' = IF found THEN fn ELSE [fn EXCEPT !.failed_substage = "DQS_EN_PHASE"]
      /\ UNCHANGED <<gbl, regs, write_group, eye>>
  BY DEF FindReturns, rw_mgr_mem_calibrate_vfifo_find_dqs_en_phase_sweep_dq_in_delay, Goto
<1> HIDE DEF k
<1>3. pc \in GroupLabels /\ pc' \in GroupLabels
  BY <1>2 DEF GroupLabels
<1>4. fn' \in FnStates
  <2>1. fn \in FnStates
    BY DEF CalInv, Shapes
  <2> QED BY <1>2, <2>1 DEF FnStates, Substages
<1>5. Shapes'
  BY <1>1, <1>2, <1>3, <1>4, WorksShape, AtWorkNow, NothingFits DEF Shapes
<1>6. CenterInv' /\ EnInv' /\ EyeInv' /\ DmInv'
  BY <1>2 DEF CenterInv, EnInv, EyeInv, DmInv, ReadLabels, WriteLabels, DmLabels
<1> QED BY <1>1, <1>2, <1>3, <1>5, <1>6, GroupStep

LEMMA SetsWork ==
    ASSUME NEW h, Works(hw, h, write_group)
    PROVE  /\ \A p \in Nat : Works(hw, SetPhase(h, p), write_group)
           /\ \A d \in 0 .. IO_DQS_EN_DELAY_MAX : Works(hw, SetDelay(h, d), write_group)
<1>1. ASSUME NEW p \in Nat PROVE Works(hw, SetPhase(h, p), write_group)
  <2>1. Works(h, SetPhase(h, p), write_group)
    BY SetAllRanks DEF SetPhase
  <2> QED BY <2>1, WorksOn
<1>2. ASSUME NEW d \in 0 .. IO_DQS_EN_DELAY_MAX PROVE Works(hw, SetDelay(h, d), write_group)
  <2>1. Works(h, SetDelay(h, d), write_group)
    BY SetAllRanks DEF SetDelay
  <2> QED BY <2>1, WorksOn
<1> QED BY <1>1, <1>2

LEMMA MiddleStays ==
    ASSUME CalInv, pc \in FindLabels, NEW h, Works(hw, h, write_group), NEW dtaps \in Int,
           SetMiddle(h, dtaps)
    PROVE  CalInv' /\ Apart
<1> DEFINE mid == WorkMid(en.work_bgn, en.work_end)
           k == SetDelay(SetPhase(h, Sub(MidPhase(mid), 1)), MidDelay(mid))
<1>1. Works(hw, k, write_group)
  <2>1. en.work_bgn \in Int /\ en.work_end \in Int
    BY DEF CalInv, Shapes, EnStates
  <2>2. Sub(MidPhase(mid), 1) \in Nat /\ MidDelay(mid) \in 0 .. IO_DQS_EN_DELAY_MAX
    BY <2>1, MiddleFits
  <2> HIDE DEF mid
  <2> QED BY <2>2, SetsWork
<1>2. /\ pc' = "find_v" /\ hw' = k /\ en' = NoEn
      /\ regs' = [regs EXCEPT !.dtaps_per_ptap = dtaps]
      /\ UNCHANGED <<gbl, write_group, fn, eye>>
  BY DEF SetMiddle, Goto
<1> HIDE DEF k
<1>3. pc \in GroupLabels /\ pc' \in GroupLabels
  BY <1>2 DEF GroupLabels, FindLabels
<1>4. regs' \in RegStates /\ regs'.cal_status = regs.cal_status
  <2>1. regs \in RegStates
    BY DEF CalInv, Shapes
  <2> QED BY <1>2, <2>1 DEF RegStates
<1>5. Shapes'
  BY <1>1, <1>2, <1>3, <1>4, WorksShape, AtWorkNow, NothingFits DEF Shapes
<1>6. CenterInv' /\ EnInv' /\ EyeInv' /\ DmInv'
  BY <1>2 DEF CenterInv, EnInv, EyeInv, DmInv, ReadLabels, WriteLabels, DmLabels
<1> QED BY <1>1, <1>2, <1>3, <1>4, <1>5, <1>6, GroupStep

LEMMA EnableTested ==
    ASSUME CalInv, pc \in FindLabels, NEW h, Works(hw, h, write_group), NEW t \in EnableTest(h)
    PROVE  /\ Works(hw, t.hw, write_group)
           /\ Works(hw, rw_mgr_incr_vfifo(t.hw, write_group), write_group)
<1>1. AtWork(h, write_group)
  BY WorksShape DEF GroupLabels
<1>2. Works(h, t.hw, write_group)
  BY <1>1, ReadTestWorks DEF EnableTest
<1>3. Works(hw, t.hw, write_group)
  BY <1>2, WorksOn
<1>4. Works(t.hw, rw_mgr_incr_vfifo(t.hw, write_group), write_group)
  BY MoveVfifo
<1> QED BY <1>3, <1>4, WorksOn

LEMMA PhasesWork ==
    ASSUME NEW h, Works(hw, h, write_group), NEW p \in 0 .. IO_DQS_EN_PHASE_MAX
    PROVE  /\ Works(hw, PhaseAfter(h, p).hw, write_group)
           /\ PhaseAfter(h, p).p \in 0 .. IO_DQS_EN_PHASE_MAX
           /\ Works(hw, PhaseBefore(h, p).hw, write_group)
           /\ PhaseBefore(h, p).p \in 0 .. IO_DQS_EN_PHASE_MAX
<1>1. IO_DQS_EN_PHASE_MAX \in Nat
  BY SccMgrAssumption DEF SccMgrAssumption
<1>2. Works(hw, rw_mgr_incr_vfifo(h, write_group), write_group)
      /\ Works(hw, rw_mgr_decr_vfifo(h, write_group), write_group)
  BY MoveVfifo, WorksOn
<1> QED BY <1>1, <1>2 DEF PhaseAfter, PhaseBefore

LEMMA EnNow == CalInv => en \in EnStates /\ Works(hw, hw, write_group)
BY WorksNot DEF CalInv, Shapes

LEMMA EnCounts ==
    \A a \in Nat : /\ Add(a, OPA) \in Nat /\ Sub(a, OPA) \in Nat
                  /\ Add(a, DCHAIN) \in Nat /\ Sub(a, DCHAIN) \in Nat
<1>1. OPA \in Int /\ DCHAIN \in Int /\ WORD \in Nat
  BY TapsAre DEF OPA, DCHAIN
<1> QED BY <1>1, Counts

LEMMA FindFailStays == ASSUME CalInv, FindFail PROVE CalInv' /\ Apart
<1>1. pc = "find_fail" /\ pc \in FindLabels
  BY DEF FindFail, FindLabels
<1>2. PICK t \in EnableTest(hw) :
          LET fails == en.fail_cnt + (IF t.bits = {} THEN 1 ELSE 0)
              next == rw_mgr_incr_vfifo(t.hw, write_group)
          IN  \/ EnableStep("find_begin", t.hw, NoEn)
              \/ EnableStep("find_fail", next, [en EXCEPT !.v = @ + 1, !.fail_cnt = fails])
              \/ FindReturns(next, FALSE)
  BY DEF FindFail
<1> DEFINE fails == en.fail_cnt + (IF t.bits = {} THEN 1 ELSE 0)
           next == rw_mgr_incr_vfifo(t.hw, write_group)
           e == [en EXCEPT !.v = @ + 1, !.fail_cnt = fails]
<1>3. Works(hw, t.hw, write_group) /\ Works(hw, next, write_group)
  BY <1>1, EnNow, EnableTested
<1>4. e \in EnStates
  <2>1. en \in EnStates
    BY EnNow
  <2>2. fails \in Nat /\ en.v + 1 \in Nat
    BY <2>1 DEF EnStates
  <2> HIDE DEF fails
  <2> QED BY <2>1, <2>2 DEF EnStates
<1>5. NoEn.d <= dtaps_per_ptap
  BY NothingFits, DtapsFit
<1> HIDE DEF e
<1>6. CASE EnableStep("find_begin", t.hw, NoEn)
  BY <1>1, <1>3, <1>5, <1>6, NothingFits, EnableStays DEF FindLabels
<1>7. CASE EnableStep("find_fail", next, e)
  BY <1>1, <1>3, <1>4, <1>7, EnableStays DEF FindLabels
<1>8. CASE FindReturns(next, FALSE)
  BY <1>1, <1>3, <1>8, FindReturnStays
<1> QED BY <1>2, <1>6, <1>7, <1>8 DEF e

LEMMA BeginFoundStays ==
    ASSUME CalInv, pc \in FindLabels, NEW h, Works(hw, h, write_group), BeginFound(h)
    PROVE  CalInv' /\ Apart
<1> DEFINE before == PhaseBefore(h, en.p)
           e == [en EXCEPT !.p = before.p, !.work_end = en.work_bgn,
                           !.tmp_delay = Sub(en.work_bgn, OPA)]
           f == [en EXCEPT !.work_end = en.work_bgn]
<1>1. en \in EnStates /\ en.p \in 0 .. IO_DQS_EN_PHASE_MAX /\ en.work_bgn \in Nat
  BY EnNow DEF EnStates
<1>2. before.p \in 0 .. IO_DQS_EN_PHASE_MAX /\ Works(hw, before.hw, write_group)
  BY <1>1, PhasesWork
<1>3. Works(hw, SetPhase(before.hw, before.p), write_group)
  <2>1. before.p \in Nat
    BY <1>2
  <2> HIDE DEF before
  <2> QED BY <1>2, <2>1, SetsWork
<1>4. Sub(en.work_bgn, OPA) \in Nat
  BY <1>1, EnCounts
<1> HIDE DEF before
<1>5. e \in EnStates /\ f \in EnStates
  BY <1>1, <1>2, <1>4 DEF EnStates
<1> HIDE DEF e, f
<1>6. EnableStep("find_left", SetPhase(before.hw, before.p), e) \/ EnableStep("find_right", h, f)
  BY DEF BeginFound, e, f, before
<1>7. CASE EnableStep("find_left", SetPhase(before.hw, before.p), e)
  BY <1>3, <1>5, <1>7, EnableStays DEF FindLabels
<1>8. CASE EnableStep("find_right", h, f)
  BY <1>5, <1>8, EnableStays DEF FindLabels
<1> QED BY <1>6, <1>7, <1>8

LEMMA BeginNotFoundStays ==
    ASSUME CalInv, pc = "find_begin", NEW h, Works(hw, h, write_group), BeginNotFound(h)
    PROVE  CalInv' /\ Apart
<1> DEFINE next == rw_mgr_incr_vfifo(h, write_group)
           tmp == Add(en.tmp_delay, DCHAIN)
           e == [en EXCEPT !.p = @ + 1, !.work_bgn = Add(@, OPA)]
           f == [en EXCEPT !.i = @ + 1, !.p = 0, !.work_bgn = Add(@, OPA)]
           i == [NoEn EXCEPT !.d = en.d + 1, !.tmp_delay = tmp, !.work_bgn = tmp]
<1>1. pc \in FindLabels
  BY DEF FindLabels
<1>2. /\ en \in EnStates /\ en.p \in 0 .. IO_DQS_EN_PHASE_MAX /\ en.work_bgn \in Nat
      /\ en.tmp_delay \in Nat /\ en.i \in Nat /\ en.d \in Nat /\ en.d <= dtaps_per_ptap
  BY EnNow DEF EnStates, CalInv, EnInv
<1>3. Works(hw, next, write_group)
  BY MoveVfifo, WorksOn
<1>4. tmp \in Nat /\ Add(en.work_bgn, OPA) \in Nat
  BY <1>2, EnCounts
<1>5. IO_DQS_EN_PHASE_MAX \in Nat /\ IO_DQS_EN_DELAY_MAX \in Nat
      /\ dtaps_per_ptap \in 0 .. IO_DQS_EN_DELAY_MAX
  BY DtapsFit, SccMgrAssumption DEF SccMgrAssumption
<1> HIDE DEF next, tmp
<1>6. CASE en.p < IO_DQS_EN_PHASE_MAX
  <2>1. EnableStep("find_begin", h, e)
    BY <1>6 DEF BeginNotFound
  <2>2. e \in EnStates /\ e.d = en.d
    <3>1. en.p + 1 \in 0 .. IO_DQS_EN_PHASE_MAX
      BY <1>2, <1>5, <1>6
    <3> QED BY <1>2, <1>4, <3>1 DEF EnStates
  <2> HIDE DEF e
  <2> QED BY <1>1, <1>2, <2>1, <2>2, EnableStays
<1>7. CASE ~(en.p < IO_DQS_EN_PHASE_MAX) /\ en.i + 1 < VFIFO_SIZE
  <2>1. EnableStep("find_begin", next, f)
    BY <1>7 DEF BeginNotFound, next
  <2>2. f \in EnStates /\ f.d = en.d
    <3>1. 0 \in 0 .. IO_DQS_EN_PHASE_MAX /\ en.i + 1 \in Nat
      BY <1>2, <1>5
    <3> QED BY <1>2, <1>4, <3>1 DEF EnStates
  <2> HIDE DEF f
  <2> QED BY <1>1, <1>2, <1>3, <2>1, <2>2, EnableStays
<1>8. CASE ~(en.p < IO_DQS_EN_PHASE_MAX) /\ ~(en.i + 1 < VFIFO_SIZE) /\ en.d < dtaps_per_ptap
  <2>1. EnableStep("find_begin", next, i)
    BY <1>8 DEF BeginNotFound, next, tmp
  <2>2. i \in EnStates /\ i.d = en.d + 1
    <3>1. en.d + 1 \in 0 .. IO_DQS_EN_DELAY_MAX + 1
      BY <1>2, <1>5, <1>8
    <3> QED BY <1>4, <3>1, NothingFits DEF EnStates
  <2>3. i.d <= dtaps_per_ptap
    BY <1>2, <1>5, <1>8, <2>2
  <2> HIDE DEF i
  <2> QED BY <1>1, <1>3, <2>1, <2>2, <2>3, EnableStays
<1>9. CASE ~(en.p < IO_DQS_EN_PHASE_MAX) /\ ~(en.i + 1 < VFIFO_SIZE) /\ ~(en.d < dtaps_per_ptap)
  <2>1. FindReturns(next, FALSE)
    BY <1>9 DEF BeginNotFound, next
  <2> QED BY <1>1, <1>3, <2>1, FindReturnStays
<1> QED BY <1>6, <1>7, <1>8, <1>9

LEMMA FindBeginStays == ASSUME CalInv, FindBegin PROVE CalInv' /\ Apart
<1> DEFINE first == en.i = 0 /\ en.p = 0
           a == IF first THEN SetDelay(hw, en.d) ELSE hw
           b == SetPhase(a, en.p)
<1>1. pc = "find_begin" /\ pc \in FindLabels
  BY DEF FindBegin, FindLabels
<1>2. en.p \in Nat /\ en.d \in 0 .. IO_DQS_EN_DELAY_MAX
  <2>1. en.d <= dtaps_per_ptap
    BY <1>1 DEF CalInv, EnInv
  <2> QED BY <2>1, EnNow, DtapsFit, SccMgrAssumption DEF EnStates, SccMgrAssumption
<1>3. Works(hw, a, write_group)
  BY <1>2, EnNow, SetsWork
<1>4. Works(hw, b, write_group)
  <2> HIDE DEF a
  <2> QED BY <1>2, <1>3, SetsWork
<1>5. PICK t \in EnableTest(b) : IF t.bits # {} THEN BeginFound(t.hw) ELSE BeginNotFound(t.hw)
  BY DEF FindBegin
<1> HIDE DEF b
<1>6. Works(hw, t.hw, write_group)
  BY <1>1, <1>4, EnableTested
<1> QED BY <1>1, <1>5, <1>6, BeginFoundStays, BeginNotFoundStays

LEMMA EnFields ==
    CalInv => /\ en \in EnStates /\ en.p \in 0 .. IO_DQS_EN_PHASE_MAX
              /\ en.work_bgn \in Nat /\ en.work_end \in Nat /\ en.tmp_delay \in Nat
              /\ en.i \in Nat /\ en.d \in Nat /\ en.initial \in Nat
              /\ en.d \in 0 .. IO_DQS_EN_DELAY_MAX + 1
              /\ IO_DQS_EN_DELAY_MAX \in Nat /\ IO_DQS_EN_PHASE_MAX \in Nat
              /\ 0 \in 0 .. IO_DQS_EN_DELAY_MAX + 1
              /\ (en.d <= IO_DQS_EN_DELAY_MAX => /\ en.d \in 0 .. IO_DQS_EN_DELAY_MAX
                                                /\ en.d + 1 \in 0 .. IO_DQS_EN_DELAY_MAX + 1)
<1> SUFFICES ASSUME CalInv
             PROVE  /\ en \in EnStates
                    /\ IO_DQS_EN_DELAY_MAX \in Nat /\ IO_DQS_EN_PHASE_MAX \in Nat
  BY DEF EnStates
<1> QED BY EnNow, SccMgrAssumption DEF SccMgrAssumption

\* The test with which the chain is tried.
LEMMA DelayTested ==
    ASSUME CalInv, pc \in FindLabels, en.d <= IO_DQS_EN_DELAY_MAX,
           NEW t \in EnableTest(SetDelay(hw, en.d))
    PROVE  Works(hw, t.hw, write_group)
<1>1. Works(hw, SetDelay(hw, en.d), write_group)
  BY EnFields, EnNow, SetsWork
<1> DEFINE k == SetDelay(hw, en.d)
<1> HIDE DEF k
<1> QED BY <1>1, EnableTested DEF k

LEMMA LeftFoundStays ==
    ASSUME CalInv, pc \in FindLabels, NEW h, Works(hw, h, write_group), NEW work_bgn \in Nat,
           LeftFound(h, work_bgn)
    PROVE  CalInv' /\ Apart
<1> DEFINE working == PhaseAfter(h, en.p)
           s == SetDelay(working.hw, 0)
           next == PhaseAfter(s, working.p)
           e == [en EXCEPT !.work_bgn = work_bgn, !.p = next.p,
                           !.work_end = Add(@, OPA), !.d = 0, !.tmp_delay = 0]
<1>1. Works(hw, working.hw, write_group) /\ working.p \in 0 .. IO_DQS_EN_PHASE_MAX
  BY EnFields, PhasesWork
<1> HIDE DEF working
<1>2. Works(hw, s, write_group)
  BY <1>1, EnFields, SetsWork
<1> HIDE DEF s
<1>3. Works(hw, next.hw, write_group) /\ next.p \in 0 .. IO_DQS_EN_PHASE_MAX
  BY <1>1, <1>2, PhasesWork
<1> HIDE DEF next
<1>4. e \in EnStates
  <2>1. Add(en.work_end, OPA) \in Nat
    BY EnFields, EnCounts
  <2> QED BY <1>3, <2>1, EnFields DEF EnStates
<1> HIDE DEF e
<1>5. EnableStep("find_end", next.hw, e)
  BY DEF LeftFound, e, next, s, working
<1> QED BY <1>3, <1>4, <1>5, EnableStays DEF FindLabels

LEMMA FindLeftStays == ASSUME CalInv, FindLeft PROVE CalInv' /\ Apart
<1>1. pc = "find_left" /\ pc \in FindLabels
  BY DEF FindLeft, FindLabels
<1> DEFINE e == [en EXCEPT !.d = @ + 1, !.tmp_delay = Add(@, DCHAIN)]
<1>2. CASE en.d <= IO_DQS_EN_DELAY_MAX /\ en.tmp_delay < en.work_bgn
  <2>1. PICK t \in EnableTest(SetDelay(hw, en.d)) :
            IF t.bits # {} THEN LeftFound(t.hw, en.tmp_delay) ELSE EnableStep("find_left", t.hw, e)
    BY <1>2 DEF FindLeft
  <2>2. Works(hw, t.hw, write_group)
    BY <1>1, <1>2, DelayTested
  <2>3. e \in EnStates
    <3>1. Add(en.tmp_delay, DCHAIN) \in Nat
      BY EnFields, EnCounts
    <3> QED BY <1>2, <3>1, EnFields DEF EnStates
  <2> HIDE DEF e
  <2>4. CASE LeftFound(t.hw, en.tmp_delay)
    BY <1>1, <2>2, <2>4, EnFields, LeftFoundStays
  <2>5. CASE EnableStep("find_left", t.hw, e)
    BY <1>1, <2>2, <2>3, <2>5, EnableStays
  <2> QED BY <2>1, <2>4, <2>5
<1>3. CASE ~(en.d <= IO_DQS_EN_DELAY_MAX /\ en.tmp_delay < en.work_bgn)
  <2>1. LeftFound(hw, en.work_bgn)
    BY <1>3 DEF FindLeft
  <2> QED BY <1>1, <2>1, EnNow, EnFields, LeftFoundStays
<1> QED BY <1>2, <1>3

LEMMA EndFoundStays ==
    ASSUME CalInv, pc \in FindLabels, NEW h, Works(hw, h, write_group), EndFound(h)
    PROVE  CalInv' /\ Apart
<1> DEFINE before == PhaseBefore(h, en.p)
           k == SetPhase(before.hw, before.p)
           e == [en EXCEPT !.p = before.p, !.work_end = Sub(@, OPA), !.d = 0]
<1>1. Works(hw, before.hw, write_group) /\ before.p \in 0 .. IO_DQS_EN_PHASE_MAX
  BY EnFields, PhasesWork
<1> HIDE DEF before
<1>2. before.p \in Nat
  BY <1>1, EnFields
<1>3. Works(hw, k, write_group)
  BY <1>1, <1>2, SetsWork
<1>4. e \in EnStates
  <2>1. Sub(en.work_end, OPA) \in Nat
    BY EnFields, EnCounts
  <2> QED BY <1>1, <2>1, EnFields DEF EnStates
<1> HIDE DEF e, k
<1>5. EnableStep("find_right", k, e)
  BY DEF EndFound, e, k, before
<1> QED BY <1>3, <1>4, <1>5, EnableStays DEF FindLabels

LEMMA FindEndStays == ASSUME CalInv, FindEnd PROVE CalInv' /\ Apart
<1>1. pc = "find_end" /\ pc \in FindLabels
  BY DEF FindEnd, FindLabels
<1> DEFINE s == SetPhase(hw, en.p)
<1>2. Works(hw, s, write_group)
  <2>1. en.p \in Nat
    BY EnFields
  <2> QED BY <2>1, EnNow, SetsWork
<1>3. PICK t \in EnableTest(s) :
          LET next == PhaseAfter(t.hw, en.p)
              turns == en.i + (IF next.p = 0 THEN 1 ELSE 0)
          IN  \/ EndFound(t.hw)
              \/ EnableStep("find_end", next.hw, [en EXCEPT !.p = next.p, !.i = turns,
                                                            !.work_end = Add(@, OPA)])
              \/ FindReturns(next.hw, FALSE)
  BY DEF FindEnd
<1> HIDE DEF s
<1>4. Works(hw, t.hw, write_group)
  BY <1>1, <1>2, EnableTested
<1> DEFINE next == PhaseAfter(t.hw, en.p)
           turns == en.i + (IF next.p = 0 THEN 1 ELSE 0)
           e == [en EXCEPT !.p = next.p, !.i = turns, !.work_end = Add(@, OPA)]
<1>5. Works(hw, next.hw, write_group) /\ next.p \in 0 .. IO_DQS_EN_PHASE_MAX
  BY <1>4, EnFields, PhasesWork
<1> HIDE DEF next
<1>6. e \in EnStates
  <2>1. Add(en.work_end, OPA) \in Nat
    BY EnFields, EnCounts
  <2>2. turns \in Nat
    BY EnFields
  <2> HIDE DEF turns
  <2> QED BY <1>5, <2>1, <2>2, EnFields DEF EnStates
<1> HIDE DEF e
<1>7. CASE EndFound(t.hw)
  BY <1>1, <1>4, <1>7, EndFoundStays
<1>8. CASE EnableStep("find_end", next.hw, e)
  BY <1>1, <1>5, <1>6, <1>8, EnableStays
<1>9. CASE FindReturns(next.hw, FALSE)
  BY <1>1, <1>5, <1>9, FindReturnStays
<1> QED BY <1>3, <1>7, <1>8, <1>9 DEF e, next

LEMMA RightFoundStays ==
    ASSUME CalInv, pc \in FindLabels, NEW h, Works(hw, h, write_group), RightFound(h)
    PROVE  CalInv' /\ Apart
<1> DEFINE work_end == IF en.d # 0 THEN Sub(en.work_end, DCHAIN) ELSE en.work_end
           before == PhaseBefore(h, en.p)
           k == SetPhase(before.hw, before.p)
           e == [en EXCEPT !.work_end = work_end, !.p = before.p, !.initial = en.d]
<1>1. Works(hw, before.hw, write_group) /\ before.p \in 0 .. IO_DQS_EN_PHASE_MAX
  BY EnFields, PhasesWork
<1>2. FindReturns(h, FALSE) \/ EnableStep("measure_pass", k, e)
  BY DEF RightFound
<1> HIDE DEF before
<1>3. before.p \in Nat
  BY <1>1, EnFields
<1>4. Works(hw, k, write_group)
  BY <1>1, <1>3, SetsWork
<1>5. e \in EnStates
  <2>1. work_end \in Nat
    BY EnFields, EnCounts
  <2> HIDE DEF work_end
  <2> QED BY <1>1, <2>1, EnFields DEF EnStates
<1> HIDE DEF e, k
<1>6. CASE FindReturns(h, FALSE)
  BY <1>6, FindReturnStays
<1>7. CASE EnableStep("measure_pass", k, e)
  BY <1>4, <1>5, <1>7, EnableStays DEF FindLabels
<1> QED BY <1>2, <1>6, <1>7

LEMMA FindRightStays == ASSUME CalInv, FindRight PROVE CalInv' /\ Apart
<1>1. pc = "find_right" /\ pc \in FindLabels
  BY DEF FindRight, FindLabels
<1> DEFINE e == [en EXCEPT !.d = @ + 1, !.work_end = Add(@, DCHAIN)]
<1>2. CASE en.d <= IO_DQS_EN_DELAY_MAX
  <2>1. PICK t \in EnableTest(SetDelay(hw, en.d)) :
            IF t.bits = {} THEN RightFound(t.hw) ELSE EnableStep("find_right", t.hw, e)
    BY <1>2 DEF FindRight
  <2>2. Works(hw, t.hw, write_group)
    BY <1>1, <1>2, DelayTested
  <2>3. e \in EnStates
    <3>1. Add(en.work_end, DCHAIN) \in Nat
      BY EnFields, EnCounts
    <3> QED BY <1>2, <3>1, EnFields DEF EnStates
  <2> HIDE DEF e
  <2>4. CASE RightFound(t.hw)
    BY <1>1, <2>2, <2>4, RightFoundStays
  <2>5. CASE EnableStep("find_right", t.hw, e)
    BY <1>1, <2>2, <2>3, <2>5, EnableStays
  <2> QED BY <2>1, <2>4, <2>5
<1>3. CASE ~(en.d <= IO_DQS_EN_DELAY_MAX)
  <2>1. RightFound(hw)
    BY <1>3 DEF FindRight
  <2> QED BY <1>1, <2>1, EnNow, RightFoundStays
<1> QED BY <1>2, <1>3

LEMMA MeasureStays ==
    ASSUME CalInv, MeasurePass \/ MeasureFail
    PROVE  CalInv' /\ Apart
<1> DEFINE e == [en EXCEPT !.d = @ + 1]
<1>1. pc \in {"measure_pass", "measure_fail"} /\ pc \in FindLabels
  BY DEF MeasurePass, MeasureFail, FindLabels
<1>2. CASE en.d <= IO_DQS_EN_DELAY_MAX
  <2>1. PICK t \in EnableTest(SetDelay(hw, en.d)) :
            \/ EnableStep("measure_fail", t.hw, e) \/ EnableStep("measure_pass", t.hw, e)
            \/ SetMiddle(t.hw, en.d - en.initial)
    BY <1>2 DEF MeasurePass, MeasureFail
  <2>2. Works(hw, t.hw, write_group)
    BY <1>1, <1>2, DelayTested
  <2>3. e \in EnStates
    BY <1>2, EnFields DEF EnStates
  <2>4. en.d - en.initial \in Int
    BY EnFields
  <2> HIDE DEF e
  <2>5. CASE EnableStep("measure_fail", t.hw, e) \/ EnableStep("measure_pass", t.hw, e)
    BY <1>1, <2>2, <2>3, <2>5, EnableStays DEF FindLabels
  <2>6. CASE SetMiddle(t.hw, en.d - en.initial)
    BY <1>1, <2>2, <2>4, <2>6, MiddleStays
  <2> QED BY <2>1, <2>5, <2>6
<1>3. CASE ~(en.d <= IO_DQS_EN_DELAY_MAX)
  <2>1. SetMiddle(hw, dtaps_per_ptap)
    BY <1>3 DEF MeasurePass, MeasureFail
  <2>2. dtaps_per_ptap \in Int
    BY DtapsFit
  <2> QED BY <1>1, <2>1, <2>2, EnNow, MiddleStays
<1> QED BY <1>2, <1>3

LEMMA FindVStays == ASSUME CalInv, FindV PROVE CalInv' /\ Apart
<1>1. pc = "find_v" /\ pc \in FindLabels
  BY DEF FindV, FindLabels
<1> DEFINE e == [en EXCEPT !.i = @ + 1]
<1>2. PICK t \in EnableTest(hw) :
          LET next == rw_mgr_incr_vfifo(t.hw, write_group)
          IN  \/ FindReturns(t.hw, TRUE) \/ EnableStep("find_v", next, e)
              \/ FindReturns(next, FALSE)
  BY DEF FindV
<1> DEFINE next == rw_mgr_incr_vfifo(t.hw, write_group)
<1>3. Works(hw, t.hw, write_group) /\ Works(hw, next, write_group)
  BY <1>1, EnNow, EnableTested
<1> HIDE DEF next
<1>4. e \in EnStates
  BY EnFields DEF EnStates
<1> HIDE DEF e
<1>5. CASE FindReturns(t.hw, TRUE)
  BY <1>1, <1>3, <1>5, FindReturnStays
<1>6. CASE EnableStep("find_v", next, e)
  BY <1>1, <1>3, <1>4, <1>6, EnableStays
<1>7. CASE FindReturns(next, FALSE)
  BY <1>1, <1>3, <1>7, FindReturnStays
<1> QED BY <1>2, <1>5, <1>6, <1>7 DEF next

LEMMA FindStays == ASSUME CalInv, FindDqsEnPhase PROVE CalInv' /\ Apart
BY FindFailStays, FindBeginStays, FindLeftStays, FindEndStays, FindRightStays,
   MeasureStays, FindVStays DEF FindDqsEnPhase

-----------------------------------------------------------------------------
(* The start, and the steps from group to group. *)

LEMMA InitInv == Init => CalInv
<1> SUFFICES ASSUME Init PROVE CalInv
  OBVIOUS
<1>1. PICK board \in Boards : hw = PowerUp(board)
  BY DEF Init
<1>2. /\ 0 \in Groups /\ 0 \in 0 .. VFIFO_SIZE - 1 /\ 0 \in 0 .. MAX_LATENCY
      /\ ZeroDqs \in DqsSetting /\ ZeroPin \in PinSetting /\ ChainAtPowerUp \in Cells
      /\ [read |-> 0, write |-> 0] \in OdtSetting /\ {} \in SUBSET Modes
  <2>1. 0 \in Groups
    BY SccMgrAssumption DEF SccMgrAssumption, Groups
  <2>2. 0 \in 0 .. VFIFO_SIZE - 1
    BY SdramBoardAssumption DEF SdramBoardAssumption
  <2>3. 0 \in 0 .. MAX_LATENCY
    BY CalibStateAssumption DEF CalibStateAssumption
  <2>4. ZeroDqs \in DqsSetting /\ ZeroPin \in PinSetting
    BY SccMgrAssumption DEF SccMgrAssumption, ZeroDqs, ZeroPin, DqsSetting, PinSetting
  <2>5. ChainAtPowerUp \in Cells
    BY CalibrationAssumption DEF CalibrationAssumption
  <2>6. [read |-> 0, write |-> 0] \in OdtSetting
    BY DEF OdtSetting
  <2> QED BY <2>1, <2>2, <2>3, <2>4, <2>5, <2>6
<1>3. hw \in HwStates /\ ~hw.misuse
  BY <1>1, <1>2 DEF PowerUp, HwStates
<1>4. gbl \in GblStates /\ gbl.curr_read_lat = 0
  BY DEF Init, GblStates, Stages, Substages, NoGroup
<1>5. regs \in RegStates /\ regs.cal_status = "RESET"
  <2>1. [stage |-> "NIL", substage |-> "NIL", group |-> 0] \in StageStates
    BY <1>2 DEF StageStates, Stages, Substages
  <2>2. <<"NIL", "NIL", 0>> \in Stages \X Substages \X Nat
    BY DEF Stages, Substages
  <2> QED BY <2>1, <2>2 DEF Init, RegStates
<1>6. Shapes
  BY <1>2, <1>3, <1>4, <1>5, NothingFits DEF Init, Shapes
<1>7. pc = "sdram_calibration" /\ pc \notin GroupLabels
  BY DEF Init, GroupLabels, FindLabels, ReadLabels, WriteLabels, DmLabels
<1>8. MemoryInv /\ GroupsInv
  BY <1>3, <1>7 DEF MemoryInv, GroupsInv
<1>9. CenterInv /\ EnInv /\ EyeInv /\ DmInv
  BY <1>7 DEF CenterInv, EnInv, EyeInv, DmInv, ReadLabels, WriteLabels, DmLabels
<1>10. LatencyInv
  BY <1>4, <1>7, CalibStateAssumption DEF LatencyInv, CalibStateAssumption
<1>11. OutcomeInv
  BY <1>5, <1>7 DEF OutcomeInv
<1> QED BY <1>6, <1>8, <1>9, <1>10, <1>11 DEF CalInv

LEMMA RegFiles ==
    ASSUME NEW r \in RegStates
    PROVE  /\ \A g \in Groups : /\ reg_file_set_group(r, g) \in RegStates
                                /\ reg_file_set_group(r, g).cal_status = r.cal_status
           /\ \A s \in Stages : /\ reg_file_set_stage(r, s) \in RegStates
                                /\ reg_file_set_stage(r, s).cal_status = r.cal_status
           /\ \A s \in Substages : /\ reg_file_set_sub_stage(r, s) \in RegStates
                                   /\ reg_file_set_sub_stage(r, s).cal_status = r.cal_status
<1>1. ASSUME NEW c \in StageStates
      PROVE  [r EXCEPT !.cur_stage = c] \in RegStates
             /\ [r EXCEPT !.cur_stage = c].cal_status = r.cal_status
  BY DEF RegStates
<1>2. r.cur_stage \in StageStates /\ "cur_stage" \in DOMAIN r
  BY DEF RegStates
<1>3. ASSUME NEW g \in Groups
      PROVE  reg_file_set_group(r, g) \in RegStates
             /\ reg_file_set_group(r, g).cal_status = r.cal_status
  <2> DEFINE c == [r.cur_stage EXCEPT !.group = g]
  <2>1. c \in StageStates
    BY <1>2 DEF StageStates
  <2>2. reg_file_set_group(r, g) = [r EXCEPT !.cur_stage = c]
    BY <1>2 DEF reg_file_set_group
  <2> HIDE DEF c
  <2> QED BY <1>1, <2>1, <2>2
<1>4. ASSUME NEW s \in Stages
      PROVE  reg_file_set_stage(r, s) \in RegStates
             /\ reg_file_set_stage(r, s).cal_status = r.cal_status
  <2> DEFINE c == [r.cur_stage EXCEPT !.stage = s, !.substage = "NIL"]
  <2>1. c \in StageStates
    BY <1>2 DEF StageStates, Substages
  <2>2. reg_file_set_stage(r, s) = [r EXCEPT !.cur_stage = c]
    BY <1>2 DEF reg_file_set_stage
  <2> HIDE DEF c
  <2> QED BY <1>1, <2>1, <2>2
<1>5. ASSUME NEW s \in Substages
      PROVE  reg_file_set_sub_stage(r, s) \in RegStates
             /\ reg_file_set_sub_stage(r, s).cal_status = r.cal_status
  <2> DEFINE c == [r.cur_stage EXCEPT !.substage = s]
  <2>1. c \in StageStates
    BY <1>2 DEF StageStates
  <2>2. reg_file_set_sub_stage(r, s) = [r EXCEPT !.cur_stage = c]
    BY <1>2 DEF reg_file_set_sub_stage
  <2> HIDE DEF c
  <2> QED BY <1>1, <2>1, <2>2
<1> QED BY <1>3, <1>4, <1>5

LEMMA RegsNow == CalInv => /\ regs \in RegStates
                           /\ (pc # "done" => regs.cal_status = "RESET")
BY DEF CalInv, Shapes, OutcomeInv

\* The stages that are entered.
LEMMA StageEntered ==
    ASSUME NEW r \in RegStates, NEW s \in Stages, NEW u \in Substages, NEW g \in Groups
    PROVE  /\ reg_file_set_sub_stage(reg_file_set_group(reg_file_set_stage(r, s), g), u)
                  \in RegStates
           /\ reg_file_set_sub_stage(reg_file_set_group(reg_file_set_stage(r, s), g), u).cal_status
                  = r.cal_status
           /\ reg_file_set_group(reg_file_set_sub_stage(reg_file_set_stage(r, s), u), g)
                  \in RegStates
           /\ reg_file_set_group(reg_file_set_sub_stage(reg_file_set_stage(r, s), u), g).cal_status
                  = r.cal_status
           /\ reg_file_set_sub_stage(reg_file_set_stage(r, s), u) \in RegStates
           /\ reg_file_set_sub_stage(reg_file_set_stage(r, s), u).cal_status = r.cal_status
<1> DEFINE a == reg_file_set_stage(r, s)
           b == reg_file_set_group(a, g)
           c == reg_file_set_sub_stage(a, u)
<1>1. a \in RegStates /\ a.cal_status = r.cal_status
  BY RegFiles
<1> HIDE DEF a
<1>2. b \in RegStates /\ b.cal_status = r.cal_status
  BY <1>1, RegFiles
<1>3. c \in RegStates /\ c.cal_status = r.cal_status
  BY <1>1, RegFiles
<1> HIDE DEF b, c
<1>4. reg_file_set_sub_stage(b, u) \in RegStates
      /\ reg_file_set_sub_stage(b, u).cal_status = r.cal_status
  BY <1>2, RegFiles
<1>5. reg_file_set_group(c, g) \in RegStates
      /\ reg_file_set_group(c, g).cal_status = r.cal_status
  BY <1>3, RegFiles
<1> QED BY <1>3, <1>4, <1>5 DEF a, b, c

LEMMA SdramStays == ASSUME CalInv, SdramCalibration PROVE CalInv'
<1> DEFINE k == rw_mgr_mem_initialize(initialize(scc_mgr_initialize(hw)))
           s == reg_file_set_stage(regs, "NIL")
           r == reg_file_set_group(s, 0)
<1>1. hw \in HwStates /\ ~hw.misuse /\ regs \in RegStates
  BY DEF CalInv, Shapes, MemoryInv
<1>2. Closed(k) /\ {"MR0", "MR1", "MR2", "MR3"} \subseteq k.modes
  BY <1>1, MemoryStarts
<1>3. /\ pc = "sdram_calibration" /\ pc' = "mem_calibrate" /\ hw' = k
      /\ regs' = [r EXCEPT !.cal_status = "RESET", !.failing_stage = <<"NIL", "NIL", 0>>,
                           !.dtaps_per_ptap = dtaps_per_ptap, !.tracking = FALSE]
      /\ UNCHANGED <<gbl, write_group, fn, en, eye>>
  BY DEF SdramCalibration, Goto
<1> HIDE DEF k
<1>4. r \in RegStates
  <2>1. "NIL" \in Stages /\ 0 \in Groups
    BY SccMgrAssumption DEF SccMgrAssumption, Groups, Stages
  <2>2. s \in RegStates
    BY <1>1, <2>1, RegFiles
  <2> HIDE DEF s
  <2> QED BY <2>1, <2>2, RegFiles
<1> HIDE DEF r
<1>5. regs' \in RegStates /\ regs'.cal_status = "RESET"
  <2>1. <<"NIL", "NIL", 0>> \in Stages \X Substages \X Nat
    BY DEF Stages, Substages
  <2>2. dtaps_per_ptap \in Int
    BY DtapsFit
  <2> QED BY <1>3, <1>4, <2>1, <2>2 DEF RegStates
<1>6. Shapes'
  BY <1>2, <1>3, <1>5 DEF CalInv, Shapes, Closed
<1>7. pc' \notin GroupLabels
  BY <1>3 DEF GroupLabels, FindLabels, ReadLabels, WriteLabels, DmLabels
<1>8. MemoryInv' /\ GroupsInv'
  BY <1>2, <1>3, <1>7 DEF MemoryInv, GroupsInv, Closed
<1>9. CenterInv' /\ EnInv' /\ EyeInv' /\ DmInv'
  BY <1>3 DEF CenterInv, EnInv, EyeInv, DmInv, ReadLabels, WriteLabels, DmLabels
<1>10. LatencyInv'
  BY <1>3, <1>7 DEF CalInv, LatencyInv
<1>11. OutcomeInv'
  BY <1>3, <1>5 DEF OutcomeInv
<1> QED BY <1>6, <1>8, <1>9, <1>10, <1>11 DEF CalInv

\* A group is begun.
LEMMA GroupBegun ==
    ASSUME NEW h \in HwStates, Awake(h), h.chain = h.io, NEW g \in Groups,
           NEW r \in RegStates, GroupBegins(h, g, r)
    PROVE  /\ AtWork(hw', g) /\ OnlyMoves(h, hw', g)
           /\ pc' = "guaranteed" /\ write_group' = g
           /\ fn' \in FnStates /\ regs' \in RegStates /\ regs'.cal_status = r.cal_status
<1> DEFINE a == [h EXCEPT !.group_counter = g]
           k == scc_mgr_zero_group(a, g, FALSE)
<1>1. AtWork(a, g) /\ SameCells(h, a)
  BY GroupStarts
<1> HIDE DEF a
<1>2. Works(a, k, g)
  BY ZeroGroup
<1> HIDE DEF k
<1>3. AtWork(k, g) /\ OnlyMoves(h, k, g)
  BY <1>1, <1>2 DEF Works, OnlyMoves, SameCells
<1>4. /\ pc' = "guaranteed" /\ hw' = k /\ write_group' = g
      /\ fn' = [NoFn EXCEPT !.failed_substage = "GUARANTEED_READ"]
      /\ regs' = reg_file_set_sub_stage(reg_file_set_group(reg_file_set_stage(r, "VFIFO"), g),
                                        "GUARANTEED_READ")
  BY DEF GroupBegins, Goto, k, a
<1>5. fn' \in FnStates
  BY <1>4, NothingFits DEF FnStates, Substages
<1>6. regs' \in RegStates /\ regs'.cal_status = r.cal_status
  <2>1. "VFIFO" \in Stages /\ "GUARANTEED_READ" \in Substages
    BY DEF Stages, Substages
  <2> QED BY <1>4, <2>1, StageEntered
<1> QED BY <1>3, <1>4, <1>5, <1>6

LEMMA MemStays == ASSUME CalInv, MemCalibrate PROVE CalInv'
<1> DEFINE e == [gbl EXCEPT !.error_stage = "NIL", !.error_substage = "NIL",
                            !.error_group = NoGroup]
           b == MemConfigLatency(e, hw.board)
           k == scc_mgr_zero_all(Bypassed(mem_config(hw, b)))
<1>1. /\ pc = "mem_calibrate" /\ gbl' = b /\ GroupBegins(k, 0, regs)
      /\ UNCHANGED <<en, eye>>
  BY DEF MemCalibrate
<1>2. Closed(hw) /\ {"MR0", "MR1", "MR2", "MR3"} \subseteq hw.modes /\ hw.board \in Boards
  BY <1>1 DEF CalInv, MemoryInv, Closed, HwStates
<1>3. hw.board.wl \in Nat \ {0} /\ hw.board.rl \in Nat /\ MAX_LATENCY \in Nat \ {0}
  BY <1>2, CalibrationAssumption, CalibStateAssumption
     DEF CalibrationAssumption, CalibStateAssumption
<1>4. e \in GblStates
  <2>1. "NIL" \in Stages /\ "NIL" \in Substages /\ NoGroup \in Nat
    BY DEF Stages, Substages, NoGroup
  <2>2. gbl \in GblStates
    BY DEF CalInv, Shapes
  <2> QED BY <2>1, <2>2 DEF GblStates
<1> HIDE DEF e
<1>5. /\ b \in GblStates
      /\ b.curr_read_lat = Least(hw.board.rl + 16, MAX_LATENCY)
  <2> DEFINE n == hw.board.wl + 1 - 2
             l == Least(hw.board.rl + 16, MAX_LATENCY)
  <2>1. n \in Int /\ l \in Nat
    BY <1>3 DEF Least
  <2>2. b = [e EXCEPT !.rw_wl_nop_cycles = n, !.curr_read_lat = l]
    BY DEF MemConfigLatency
  <2> HIDE DEF n, l, b
  <2> QED BY <1>4, <2>1, <2>2 DEF GblStates, l
<1> HIDE DEF b
<1>6. k = scc_mgr_zero_all(Bypassed(mem_precharge_and_activate(SetRlat(hw, b.curr_read_lat))))
  BY DEF mem_config
<1>7. k \in HwStates /\ Awake(k) /\ k.chain = k.io
  <2>1. b.curr_read_lat \in Nat
    BY <1>5 DEF GblStates
  <2> HIDE DEF k
  <2> QED BY <1>2, <1>6, <2>1, Configures
<1> HIDE DEF k
<1>8. 0 \in Groups /\ regs \in RegStates /\ regs.cal_status = "RESET"
  BY <1>1, RegsNow, SccMgrAssumption DEF SccMgrAssumption, Groups
<1>9. /\ AtWork(hw', 0) /\ pc' = "guaranteed" /\ write_group' = 0
      /\ fn' \in FnStates /\ regs' \in RegStates /\ regs'.cal_status = "RESET"
  BY <1>1, <1>7, <1>8, GroupBegun
<1>10. Shapes'
  BY <1>1, <1>5, <1>8, <1>9 DEF CalInv, Shapes, AtWork
<1>11. MemoryInv'
  BY <1>9 DEF MemoryInv, AtWork, Awake
<1>12. GroupsInv'
  BY <1>9 DEF GroupsInv, Groups
<1>13. CenterInv' /\ EnInv' /\ EyeInv' /\ DmInv'
  BY <1>9 DEF CenterInv, EnInv, EyeInv, DmInv, ReadLabels, WriteLabels, DmLabels
<1>14. LatencyInv'
  <2>1. ASSUME LatenciesFit
        PROVE  gbl'.curr_read_lat \in 1 .. MAX_LATENCY - 1 /\ gbl'.curr_read_lat <= MAX_LATENCY
    <3>1. hw.board.rl + 16 < MAX_LATENCY
      BY <1>2, <2>1 DEF LatenciesFit
    <3> QED BY <1>1, <1>3, <1>5, <3>1 DEF Least
  <2> QED BY <1>9, <2>1 DEF LatencyInv
<1>15. OutcomeInv'
  BY <1>9 DEF OutcomeInv
<1> QED BY <1>10, <1>11, <1>12, <1>13, <1>14, <1>15 DEF CalInv

\* A step to a test of which no search's locals are asked.
LEMMA PlainStep ==
    ASSUME CalInv, pc \in GroupLabels,
           pc' \in {"guaranteed", "find_fail", "vfifo_center", "vfifo_retry"},
           NEW h, Works(hw, h, write_group), hw' = h, write_group' = write_group,
           gbl' = gbl, regs' \in RegStates, regs'.cal_status = regs.cal_status,
           fn' \in FnStates, en' \in EnStates, eye' \in EyeStates
    PROVE  CalInv' /\ Apart
<1>1. pc' \in GroupLabels
  BY DEF GroupLabels, FindLabels
<1>2. Shapes'
  BY WorksShape, AtWorkNow DEF Shapes
<1>3. CenterInv' /\ EnInv' /\ EyeInv' /\ DmInv'
  BY DEF CenterInv, EnInv, EyeInv, DmInv, ReadLabels, WriteLabels, DmLabels
<1> QED BY <1>1, <1>2, <1>3, GroupStep

LEMMA LocalsNow ==
    CalInv => /\ gbl \in GblStates /\ regs \in RegStates /\ fn \in FnStates
              /\ en \in EnStates /\ eye \in EyeStates /\ write_group \in Groups
BY DEF CalInv, Shapes

LEMMA GuaranteedStays == ASSUME CalInv, GuaranteedRead PROVE CalInv' /\ Apart
<1> DEFINE g == write_group
           sum == scc_mgr_apply_group_all_out_delay_add_all_ranks(hw, g, fn.d)
           added == IF fn.d > 0 THEN sum ELSE hw
           phase == scc_mgr_set_dqdqs_output_phase_all_ranks(added, g, 0)
           loaded == rw_mgr_mem_calibrate_read_load_patterns(phase)
           t == rw_mgr_mem_calibrate_read_test_patterns_all_ranks(loaded, g)
           swept == SweepBegin(t.hw)
           begun == FindBegins(swept)
<1>1. pc = "guaranteed" /\ pc \in GroupLabels
  BY DEF GuaranteedRead, GroupLabels
<1>2. fn.d \in 0 .. IO_IO_OUT1_DELAY_MAX
  <2>1. fn.d \in 0 .. dtaps_per_ptap
    BY LocalsNow DEF FnStates
  <2> QED BY <2>1, DtapsFit, SccMgrAssumption DEF SccMgrAssumption
<1>3. AtWork(hw, g)
  BY <1>1, AtWorkNow
<1>4. Works(hw, added, g)
  BY <1>2, AddDelay, WorksNot
<1> HIDE DEF added
<1>5. Works(hw, phase, g)
  BY <1>4, SetAllRanks, WorksOn
<1>6. AtWork(phase, g)
  BY <1>3, <1>5 DEF Works
<1> HIDE DEF phase
<1>7. Works(hw, loaded, g)
  BY <1>5, <1>6, LoadPatterns, WorksOn
<1>8. AtWork(loaded, g)
  BY <1>3, <1>7 DEF Works
<1> HIDE DEF loaded
<1>9. Works(hw, t.hw, g)
  BY <1>7, <1>8, PatternsAllRanks, WorksOn
<1> HIDE DEF t
<1>10. Works(hw, swept, g)
  BY <1>9, SweepWorks, WorksOn
<1> HIDE DEF swept
<1>11. Works(hw, begun, g)
  <2> DEFINE a == SetDelay(swept, 0)
  <2>1. Works(hw, a, g)
    BY <1>10, EnFields, SetsWork
  <2> HIDE DEF a
  <2>2. Works(hw, SetPhase(a, 0), g)
    BY <2>1, SetsWork
  <2> QED BY <2>2 DEF FindBegins, a
<1> HIDE DEF begun
<1>12. /\ UNCHANGED <<gbl, write_group, fn, en, eye>>
       /\ \/ /\ pc' = "find_fail" /\ hw' = begun
             /\ regs' = reg_file_set_sub_stage(regs, "VFIFO_CENTER")
          \/ pc' = "vfifo_retry" /\ hw' = t.hw /\ regs' = regs
  BY DEF GuaranteedRead, Goto, begun, swept, t, loaded, phase, added
<1>13. regs' \in RegStates /\ regs'.cal_status = regs.cal_status
  <2>1. "VFIFO_CENTER" \in Substages
    BY DEF Substages
  <2> QED BY <1>12, <2>1, LocalsNow, RegFiles
<1> QED BY <1>1, <1>9, <1>11, <1>12, <1>13, LocalsNow, PlainStep

LEMMA FailingSet ==
    ASSUME NEW b \in GblStates, NEW n \in Nat, NEW s \in Stages, NEW u \in Substages
    PROVE  /\ set_failing_group_stage(b, n, s, u) \in GblStates
           /\ set_failing_group_stage(b, n, s, u).curr_read_lat = b.curr_read_lat
BY DEF set_failing_group_stage, GblStates

LEMMA RetryStays == ASSUME CalInv, VfifoRetry PROVE CalInv' /\ Apart
<1>1. pc = "vfifo_retry" /\ pc \in GroupLabels /\ UNCHANGED <<regs, write_group, en, eye>>
  BY DEF VfifoRetry, GroupLabels
<1>2. Works(hw, hw, write_group)
  BY WorksNot
<1>3. CASE fn.d + 2 <= dtaps_per_ptap
  <2>1. pc' = "guaranteed" /\ hw' = hw /\ fn' = [fn EXCEPT !.d = @ + 2] /\ gbl' = gbl
    BY <1>3 DEF VfifoRetry, Goto
  <2>2. fn.d + 2 \in 0 .. dtaps_per_ptap
    BY <1>3, LocalsNow, DtapsFit DEF FnStates
  <2>3. fn' \in FnStates
    BY <2>1, <2>2, LocalsNow DEF FnStates
  <2> QED BY <1>1, <1>2, <2>1, <2>3, LocalsNow, PlainStep
<1>4. CASE ~(fn.d + 2 <= dtaps_per_ptap)
  <2>1. /\ MemCalibrateReturns(hw, FALSE)
        /\ gbl' = set_failing_group_stage(gbl, write_group, "VFIFO", fn.failed_substage)
    BY <1>4 DEF VfifoRetry
  <2>2. write_group \in Nat /\ "VFIFO" \in Stages /\ fn.failed_substage \in Substages
    BY LocalsNow DEF Groups, Stages, FnStates
  <2>3. gbl' \in GblStates /\ gbl'.curr_read_lat = gbl.curr_read_lat
    BY <2>1, <2>2, LocalsNow, FailingSet
  <2> QED BY <1>1, <1>2, <2>1, <2>3, LocalsNow, FailStep
<1> QED BY <1>3, <1>4

\* The centering of the reads is begun.
LEMMA CenterBegun ==
    ASSUME NEW h, AtWork(h, write_group), NEW u \in BOOLEAN, CenterBegins(h, u)
    PROVE  /\ pc' = "read_left" /\ hw' = h /\ eye' \in EyeStates
           /\ eye'.left \in Edges /\ eye'.right \in Edges /\ eye'.d = 0
           /\ eye'.start_dqs <= IO_DQS_IN_DELAY_MAX /\ eye'.use_read_test = u
<1> DEFINE none == [i \in Dqs |-> ReadNone]
           s == h.dqs[write_group].in
<1>1. /\ pc' = "read_left" /\ hw' = h
      /\ eye' = [NoEye EXCEPT !.left = none, !.right = none, !.start_dqs = s,
                              !.use_read_test = u]
  BY DEF CenterBegins, Goto
<1>2. none \in Edges
  <2>1. ReadNone \in -Far .. Far
    BY SccMgrAssumption DEF SccMgrAssumption, ReadNone, Far
  <2> QED BY <2>1 DEF Edges
<1>3. s \in 0 .. IO_DQS_IN_DELAY_MAX
  BY DEF AtWork, HwStates, DqsSetting
<1>4. s \in Nat /\ s <= IO_DQS_IN_DELAY_MAX
  BY <1>3, SccMgrAssumption DEF SccMgrAssumption
<1> HIDE DEF none, s
<1>5. eye' \in EyeStates
  <2>1. NoEye \in EyeStates /\ none \in Edges \cup {<<>>}
    BY <1>2, NothingFits
  <2> QED BY <1>1, <1>4, <2>1 DEF EyeStates
<1>6. eye'.left = none /\ eye'.right = none /\ eye'.d = 0 /\ eye'.start_dqs = s
      /\ eye'.use_read_test = u
  BY <1>1 DEF NoEye
<1> QED BY <1>1, <1>2, <1>4, <1>5, <1>6

LEMMA CenterBeginsStays == ASSUME CalInv, VfifoCenterBegins PROVE CalInv' /\ Apart
<1>1. pc = "vfifo_center" /\ pc \in GroupLabels /\ CenterBegins(hw, TRUE)
      /\ UNCHANGED <<gbl, regs, write_group, fn, en>>
  BY DEF VfifoCenterBegins, GroupLabels
<1>2. AtWork(hw, write_group) /\ Works(hw, hw, write_group)
  BY <1>1, AtWorkNow, WorksNot
<1>3. /\ pc' = "read_left" /\ hw' = hw /\ eye' \in EyeStates
      /\ eye'.left \in Edges /\ eye'.right \in Edges /\ eye'.d = 0
      /\ eye'.start_dqs <= IO_DQS_IN_DELAY_MAX /\ eye'.use_read_test = TRUE
  BY <1>1, <1>2, CenterBegun
<1>4. pc' \in GroupLabels
  BY <1>3 DEF GroupLabels, ReadLabels
<1>5. Shapes'
  BY <1>1, <1>3, LocalsNow, AtWorkNow DEF Shapes
<1>6. CenterInv' /\ EnInv' /\ DmInv'
  BY <1>3 DEF CenterInv, EnInv, DmInv, DmLabels
<1>7. EyeInv'
  BY <1>3, SccMgrAssumption DEF EyeInv, SccMgrAssumption, WriteLabels
<1> QED BY <1>1, <1>2, <1>3, <1>4, <1>5, <1>6, <1>7, GroupStep

LEMMA CenteredStays == ASSUME CalInv, VfifoCentered PROVE CalInv' /\ Apart
<1>1. pc = "vfifo_centered" /\ pc \in GroupLabels /\ UNCHANGED <<gbl, write_group, en>>
  BY DEF VfifoCentered, GroupLabels
<1>2. CASE eye.margins
  <2> DEFINE z == scc_mgr_zero_group(hw, write_group, TRUE)
             h == IF fn.d + 2 > 2 THEN z ELSE hw
             none == [i \in Dqs |-> WriteNone]
             s == h.pin[DqsPin].out1
  <2>1. WritesBegins(h) /\ fn' = fn
    BY <1>2 DEF VfifoCentered
  <2>2. Works(hw, h, write_group)
    BY ZeroGroup, WorksNot
  <2>3. AtWork(h, write_group)
    BY <1>1, <2>2, WorksShape
  <2> HIDE DEF h
  <2>4. /\ pc' = "write_left" /\ hw' = h
        /\ regs' = reg_file_set_group(reg_file_set_sub_stage(
                       reg_file_set_stage(regs, "WRITES"), "WRITES_CENTER"), write_group)
        /\ eye' = [NoEye EXCEPT !.left = none, !.right = none, !.start_dqs = s]
    BY <2>1 DEF WritesBegins, Goto
  <2>5. none \in Edges
    <3>1. WriteNone \in -Far .. Far
      BY SccMgrAssumption DEF SccMgrAssumption, WriteNone, Far
    <3> QED BY <3>1 DEF Edges
  <2>6. s \in Nat /\ s <= IO_IO_OUT1_DELAY_MAX
    <3>1. s \in 0 .. IO_IO_OUT1_DELAY_MAX
      BY <2>3, OutPins DEF AtWork, HwStates, PinSetting
    <3> QED BY <3>1, SccMgrAssumption DEF SccMgrAssumption
  <2> HIDE DEF none, s
  <2>7. /\ eye' \in EyeStates /\ eye'.left \in Edges /\ eye'.right \in Edges /\ eye'.d = 0
        /\ eye'.start_dqs <= IO_IO_OUT1_DELAY_MAX
    <3>1. NoEye \in EyeStates /\ none \in Edges \cup {<<>>}
      BY <2>5, NothingFits
    <3>2. eye' \in EyeStates
      BY <2>4, <2>6, <3>1 DEF EyeStates
    <3>3. eye'.left = none /\ eye'.right = none /\ eye'.d = 0 /\ eye'.start_dqs = s
      BY <2>4 DEF NoEye
    <3> QED BY <2>5, <2>6, <3>2, <3>3
  <2>8. regs' \in RegStates /\ regs'.cal_status = regs.cal_status
    <3>1. "WRITES" \in Stages /\ "WRITES_CENTER" \in Substages
      BY DEF Stages, Substages
    <3> QED BY <2>4, <3>1, LocalsNow, StageEntered
  <2>9. Shapes'
    BY <1>1, <2>1, <2>3, <2>4, <2>7, <2>8, LocalsNow DEF Shapes, AtWork
  <2>10. CenterInv' /\ EnInv' /\ DmInv'
    BY <2>4 DEF CenterInv, EnInv, DmInv, DmLabels, ReadLabels
  <2>11. EyeInv'
    BY <2>4, <2>7, SccMgrAssumption DEF EyeInv, SccMgrAssumption, ReadLabels
  <2>12. pc' \in GroupLabels
    BY <2>4 DEF GroupLabels, WriteLabels
  <2> QED BY <1>1, <2>2, <2>4, <2>8, <2>9, <2>10, <2>11, <2>12, GroupStep
<1>3. CASE ~eye.margins
  <2>1. /\ pc' = "vfifo_retry" /\ hw' = hw /\ eye' = NoEye /\ regs' = regs
        /\ fn' = [fn EXCEPT !.failed_substage = "VFIFO_CENTER"]
    BY <1>3 DEF VfifoCentered, Goto
  <2>2. fn' \in FnStates
    BY <2>1, LocalsNow DEF FnStates, Substages
  <2> QED BY <1>1, <2>1, <2>2, LocalsNow, WorksNot, NothingFits, PlainStep
<1> QED BY <1>2, <1>3

\* What i/o cells, board and VFIFO say of a group.
LEMMA CellsWork ==
    ASSUME NEW h, NEW k, NEW g, k.io = h.io, k.board = h.board
    PROVE  /\ WritesWork(h, g) => WritesWork(k, g)
           /\ k.vfifo = h.vfifo /\ ReadsWork(h, g) => ReadsWork(k, g)
<1>1. WritesWork(h, g) => WritesWork(k, g)
  BY DEF WritesWork, DqssMet, WriteEye
<1>2. k.vfifo = h.vfifo /\ ReadsWork(h, g) => ReadsWork(k, g)
  BY DEF ReadsWork, Enabled, EnablePosition, ReadEye
<1> QED BY <1>1, <1>2

LEMMA EndStays == ASSUME CalInv, VfifoEnd PROVE CalInv' /\ Apart
<1>1. pc = "vfifo_end" /\ pc \in GroupLabels /\ eye' = NoEye /\ en' = en
  BY DEF VfifoEnd, GroupLabels
<1>2. AtWork(hw, write_group) /\ hw.chain = hw.io /\ WritesWork(hw, write_group)
  BY <1>1, AtWorkNow DEF CalInv, MemoryInv, CenterInv
<1>3. \A j \in Groups : j < write_group + 1 => WritesWork(hw, j)
  <2>1. ASSUME NEW j \in Groups, j < write_group + 1 PROVE WritesWork(hw, j)
    <3>1. j < write_group \/ j = write_group
      BY <2>1, LocalsNow DEF Groups
    <3> QED BY <3>1, <1>1, <1>2 DEF CalInv, GroupsInv
  <2> QED BY <2>1
<1>4. write_group \in Nat /\ write_group < DQS_WIDTH /\ DQS_WIDTH \in Nat
  BY LocalsNow, SccMgrAssumption DEF Groups, SccMgrAssumption
<1>5. CASE ~eye.margins
  <2>1. /\ MemCalibrateReturns(hw, FALSE) /\ UNCHANGED <<regs, write_group>>
        /\ gbl' = set_failing_group_stage(gbl, write_group, "VFIFO_AFTER_WRITES", "VFIFO_CENTER")
    BY <1>5 DEF VfifoEnd
  <2>2. "VFIFO_AFTER_WRITES" \in Stages /\ "VFIFO_CENTER" \in Substages
    BY DEF Stages, Substages
  <2>3. gbl' \in GblStates /\ gbl'.curr_read_lat = gbl.curr_read_lat
    BY <1>4, <2>1, <2>2, LocalsNow, FailingSet
  <2> QED BY <1>1, <2>1, <2>3, LocalsNow, NothingFits, WorksNot, FailStep
<1>6. CASE eye.margins /\ write_group + 1 < DQS_WIDTH
  <2> DEFINE g == write_group + 1
  <2>1. GroupBegins(hw, g, regs) /\ gbl' = gbl
    BY <1>4, <1>6 DEF VfifoEnd
  <2>2. g \in Groups
    BY <1>4, <1>6 DEF Groups
  <2> HIDE DEF g
  <2>3. /\ AtWork(hw', g) /\ OnlyMoves(hw, hw', g)
        /\ pc' = "guaranteed" /\ write_group' = g
        /\ fn' \in FnStates /\ regs' \in RegStates /\ regs'.cal_status = regs.cal_status
    BY <1>2, <2>1, <2>2, LocalsNow, GroupBegun DEF AtWork
  <2>4. Shapes'
    BY <1>1, <2>1, <2>2, <2>3, LocalsNow, NothingFits DEF Shapes, AtWork
  <2>5. MemoryInv'
    BY <2>3 DEF MemoryInv, AtWork, Awake
  <2>6. GroupsInv'
    <3>1. ASSUME NEW j \in Groups, j < g PROVE WritesWork(hw', j)
      <4>1. j # g /\ WritesWork(hw, j)
        BY <1>3, <1>4, <3>1 DEF Groups, g
      <4> QED BY <2>3, <4>1, WritesKeep
    <3> QED BY <2>3, <3>1 DEF GroupsInv
  <2>7. CenterInv' /\ EnInv' /\ EyeInv' /\ DmInv'
    BY <2>3 DEF CenterInv, EnInv, EyeInv, DmInv, ReadLabels, WriteLabels, DmLabels
  <2>8. LatencyInv'
    BY <1>1, <2>1, <2>3 DEF CalInv, LatencyInv
  <2>9. OutcomeInv'
    BY <1>1, <2>3 DEF CalInv, OutcomeInv
  <2>10. Apart
    BY <2>3 DEF OnlyMoves, Apart
  <2> QED BY <2>4, <2>5, <2>6, <2>7, <2>8, <2>9, <2>10 DEF CalInv
<1>7. CASE eye.margins /\ write_group + 1 = DQS_WIDTH
  <2> DEFINE h == rw_mgr_mem_calibrate_read_load_patterns(hw)
  <2>1. /\ pc' = "lfifo" /\ hw' = h /\ fn' = NoFn /\ UNCHANGED <<gbl, write_group>>
        /\ regs' = reg_file_set_sub_stage(reg_file_set_stage(regs, "LFIFO"), "READ_LATENCY")
    BY <1>4, <1>7 DEF VfifoEnd, Goto
  <2>2. Works(hw, h, write_group) /\ h.io = hw.io /\ h.chain = hw.chain
    BY <1>2, LoadPatterns
  <2> HIDE DEF h
  <2>3. AtWork(h, write_group) /\ OnlyMoves(hw, h, write_group)
    BY <1>2, <2>2 DEF Works
  <2>4. regs' \in RegStates /\ regs'.cal_status = regs.cal_status
    <3>1. "LFIFO" \in Stages /\ "READ_LATENCY" \in Substages
      BY DEF Stages, Substages
    <3> QED BY <2>1, <3>1, LocalsNow, StageEntered
  <2>5. Shapes'
    BY <1>1, <2>1, <2>3, <2>4, LocalsNow, NothingFits DEF Shapes, AtWork
  <2>6. MemoryInv'
    BY <1>2, <2>1, <2>2, <2>3 DEF MemoryInv, AtWork, Awake
  <2>7. pc' \notin GroupLabels
    BY <2>1 DEF GroupLabels, FindLabels, ReadLabels, WriteLabels, DmLabels
  <2>8. GroupsInv'
    <3>1. ASSUME NEW j \in Groups PROVE WritesWork(hw', j)
      <4>1. WritesWork(hw, j)
        BY <1>3, <1>7, SccMgrAssumption DEF Groups, SccMgrAssumption
      <4> QED BY <2>1, <2>2, <2>3, <4>1, CellsWork DEF OnlyMoves
    <3> QED BY <2>1, <2>7, <3>1, NothingFits DEF GroupsInv
  <2>9. CenterInv' /\ EnInv' /\ EyeInv' /\ DmInv'
    BY <2>1 DEF CenterInv, EnInv, EyeInv, DmInv, ReadLabels, WriteLabels, DmLabels
  <2>10. LatencyInv'
    BY <1>1, <2>1, NothingFits DEF CalInv, LatencyInv
  <2>11. OutcomeInv'
    BY <1>1, <2>1, <2>4 DEF CalInv, OutcomeInv
  <2>12. Apart
    BY <2>1, <2>3 DEF OnlyMoves, Apart
  <2> QED BY <2>5, <2>6, <2>8, <2>9, <2>10, <2>11, <2>12 DEF CalInv
<1> QED BY <1>4, <1>5, <1>6, <1>7

-----------------------------------------------------------------------------
(* The latency of the reads, and the end. *)

LEMMA RlatIs ==
    ASSUME NEW h \in HwStates, NEW lat \in Nat
    PROVE  LET k == SetRlat(h, lat)
           IN  /\ k.io = h.io /\ k.chain = h.chain /\ k.board = h.board /\ k.vfifo = h.vfifo
               /\ lat <= MAX_LATENCY => k.rlat = lat
<1> DEFINE m == lat % (MAX_LATENCY + 1)
<1>1. lat <= MAX_LATENCY => m = lat
  BY CalibStateAssumption DEF CalibStateAssumption
<1>2. SetRlat(h, lat) = [h EXCEPT !.rlat = m]
  BY DEF SetRlat
<1> HIDE DEF m
<1> QED BY <1>1, <1>2 DEF HwStates

\* The test with which a latency is tried.
LEMMA LatencyTested ==
    ASSUME CalInv, pc = "lfifo",
           NEW t \in rw_mgr_mem_calibrate_read_test(SetRlat(hw, gbl.curr_read_lat), Groups)
    PROVE  /\ Works(hw, t.hw, write_group)
           /\ t.hw.io = hw.io /\ t.hw.chain = hw.chain /\ t.hw.board = hw.board
           /\ t.hw.vfifo = hw.vfifo
           /\ t.bits = Dqs => \A g \in Groups :
                  /\ ReadsWork(hw, g)
                  /\ LatenciesFit => hw.board.group[g].lat <= gbl.curr_read_lat
<1> DEFINE c == gbl.curr_read_lat
           h == SetRlat(hw, c)
<1>1. AtWork(hw, write_group) /\ hw \in HwStates /\ c \in Nat
  BY AtWorkNow, LocalsNow DEF AtWork, GblStates
<1>2. Works(hw, h, write_group)
  BY <1>1, SetRlatWorks
<1>3. AtWork(h, write_group) /\ h \in HwStates
  BY <1>1, <1>2 DEF Works, AtWork
<1>4. /\ h.io = hw.io /\ h.chain = hw.chain /\ h.board = hw.board /\ h.vfifo = hw.vfifo
      /\ c <= MAX_LATENCY => h.rlat = c
  BY <1>1, RlatIs
<1>5. t \in rw_mgr_mem_calibrate_read_test(h, Groups)
  OBVIOUS
<1> HIDE DEF h
<1>6. /\ t.hw = Rested(h)
      /\ \A dq \in t.bits, j \in Groups :
             ReadEye(h, j, dq) /\ LatencyMet(h, j) /\ TRUE \in Enabled(h, j)
  BY <1>3, <1>5, ReadTest
<1>7. Works(hw, t.hw, write_group)
  BY <1>2, <1>6, Rests, WorksOn
<1>8. t.hw.io = h.io /\ t.hw.chain = h.chain /\ t.hw.board = h.board /\ t.hw.vfifo = h.vfifo
  BY <1>3, <1>6 DEF Rested, HwStates
<1>9. ASSUME t.bits = Dqs, NEW g \in Groups
      PROVE  /\ ReadsWork(hw, g)
             /\ LatenciesFit => hw.board.group[g].lat <= c
  <2>1. ReadsWork(h, g) /\ LatencyMet(h, g)
    BY <1>6, <1>9, OutPins DEF ReadsWork
  <2>2. ReadsWork(hw, g)
    BY <1>4, <2>1, CellsWork
  <2>3. ASSUME LatenciesFit PROVE hw.board.group[g].lat <= c
    <3>1. c \in 1 .. MAX_LATENCY - 1
      BY <2>3 DEF CalInv, LatencyInv
    <3>2. h.rlat = c
      BY <1>1, <1>4, <3>1, CalibStateAssumption DEF CalibStateAssumption
    <3>3. c >= hw.board.group[g].lat
      BY <1>4, <2>1, <3>2 DEF LatencyMet
    <3>4. hw.board.group[g].lat \in Int
      BY <1>1, CalibrationAssumption DEF CalibrationAssumption, HwStates
    <3> QED BY <1>1, <3>3, <3>4
  <2> QED BY <2>2, <2>3
<1> QED BY <1>4, <1>7, <1>8, <1>9

\* Any return of mem_calibrate with success.
LEMMA PassStep ==
    ASSUME CalInv, pc = "lfifo", NEW h, Works(hw, h, write_group), MemCalibrateReturns(h, TRUE),
           h.io = hw.io, h.board = hw.board, h.vfifo = hw.vfifo,
           \A g \in Groups : ReadsWork(hw, g),
           gbl' \in GblStates,
           LatenciesFit => /\ gbl'.curr_read_lat <= MAX_LATENCY
                           /\ \A g \in Groups : hw.board.group[g].lat < h.rlat,
           UNCHANGED <<regs, write_group, en, eye>>
    PROVE  CalInv' /\ Apart
<1>1. AtWork(hw, write_group) /\ AtWork(h, write_group) /\ OnlyMoves(hw, h, write_group)
  BY AtWorkNow DEF Works
<1>2. pc' = "finish" /\ hw' = h /\ fn' = [NoFn EXCEPT !.pass = TRUE]
  BY DEF MemCalibrateReturns, Goto
<1>3. fn' \in FnStates
  BY <1>2, NothingFits
<1>4. pc' \notin GroupLabels
  BY <1>2 DEF GroupLabels, FindLabels, ReadLabels, WriteLabels, DmLabels
<1>5. Shapes'
  BY <1>1, <1>2, <1>3, LocalsNow DEF Shapes, AtWork
<1>6. MemoryInv'
  BY <1>1, <1>2 DEF MemoryInv, AtWork, Awake
<1>7. GroupsInv'
  <2>1. ASSUME NEW g \in Groups PROVE WritesWork(h, g) /\ ReadsWork(h, g)
    <3>1. WritesWork(hw, g) /\ ReadsWork(hw, g)
      BY DEF CalInv, GroupsInv
    <3> QED BY <3>1, CellsWork
  <2> QED BY <1>2, <1>4, <2>1 DEF GroupsInv
<1>8. CenterInv' /\ EnInv' /\ EyeInv' /\ DmInv'
  BY <1>2 DEF CenterInv, EnInv, EyeInv, DmInv, ReadLabels, WriteLabels, DmLabels
<1>9. LatencyInv'
  BY <1>2, <1>4 DEF LatencyInv
<1>10. OutcomeInv'
  BY <1>2 DEF CalInv, OutcomeInv
<1>11. Apart
  BY <1>1, <1>2 DEF OnlyMoves, Apart
<1> QED BY <1>5, <1>6, <1>7, <1>8, <1>9, <1>10, <1>11 DEF CalInv

LEMMA LfifoStays == ASSUME CalInv, Lfifo PROVE CalInv' /\ Apart
<1> DEFINE c == gbl.curr_read_lat
<1>1. pc = "lfifo" /\ UNCHANGED <<regs, write_group, en, eye>>
  BY DEF Lfifo
<1>2. PICK t \in rw_mgr_mem_calibrate_read_test(SetRlat(hw, c), Groups) :
          LET works == t.bits = Dqs
              lat == IF works THEN c - 1 ELSE c
          IN  \/ /\ works /\ lat > 0
                 /\ Goto("lfifo", t.hw)
                 /\ gbl' = [gbl EXCEPT !.curr_read_lat = lat]
                 /\ fn' = [fn EXCEPT !.found_one = TRUE]
              \/ /\ (works \/ fn.found_one) /\ (works => lat = 0)
                 /\ gbl' = [gbl EXCEPT !.curr_read_lat = lat + 2]
                 /\ MemCalibrateReturns(Upd(SetRlat(t.hw, lat + 2)), TRUE)
              \/ /\ ~works /\ ~fn.found_one
                 /\ gbl' = set_failing_group_stage(gbl, NoGroup, "LFIFO", "READ_LATENCY")
                 /\ MemCalibrateReturns(t.hw, FALSE)
  BY DEF Lfifo
<1> DEFINE works == t.bits = Dqs
           lat == IF works THEN c - 1 ELSE c
<1>3. /\ Works(hw, t.hw, write_group)
      /\ t.hw.io = hw.io /\ t.hw.chain = hw.chain /\ t.hw.board = hw.board
      /\ t.hw.vfifo = hw.vfifo
      /\ works => \A g \in Groups : /\ ReadsWork(hw, g)
                                    /\ LatenciesFit => hw.board.group[g].lat <= c
  BY <1>1, LatencyTested
<1>4. AtWork(hw, write_group) /\ AtWork(t.hw, write_group) /\ OnlyMoves(hw, t.hw, write_group)
      /\ hw.chain = hw.io
  BY <1>1, <1>3, AtWorkNow DEF Works, CalInv, MemoryInv
<1>5. c \in Nat /\ gbl \in GblStates
  BY LocalsNow DEF GblStates
<1>6. LatenciesFit => c \in 1 .. MAX_LATENCY - 1 /\ MAX_LATENCY \in Nat
  BY <1>1, CalibStateAssumption DEF CalInv, LatencyInv, CalibStateAssumption
<1>7. CASE /\ works /\ lat > 0
           /\ Goto("lfifo", t.hw)
           /\ gbl' = [gbl EXCEPT !.curr_read_lat = lat]
           /\ fn' = [fn EXCEPT !.found_one = TRUE]
  <2>1. lat = c - 1 /\ c - 1 \in Nat /\ c - 1 > 0
    BY <1>5, <1>7
  <2> HIDE DEF lat
  <2>2. pc' = "lfifo" /\ hw' = t.hw /\ gbl' \in GblStates /\ gbl'.curr_read_lat = c - 1
    BY <1>5, <1>7, <2>1 DEF Goto, GblStates
  <2>3. fn' \in FnStates
    BY <1>7, LocalsNow DEF FnStates
  <2>4. Shapes'
    BY <1>1, <1>4, <2>2, <2>3, LocalsNow DEF Shapes, AtWork
  <2>5. MemoryInv'
    BY <1>1, <1>3, <1>4, <2>2 DEF MemoryInv, AtWork, Awake
  <2>6. pc' \notin GroupLabels
    BY <2>2 DEF GroupLabels, FindLabels, ReadLabels, WriteLabels, DmLabels
  <2>7. GroupsInv'
    <3>1. ASSUME NEW g \in Groups PROVE WritesWork(t.hw, g) /\ ReadsWork(t.hw, g)
      <4>1. WritesWork(hw, g) /\ ReadsWork(hw, g)
        BY <1>1, <1>3, <1>7 DEF CalInv, GroupsInv
      <4> QED BY <1>3, <4>1, CellsWork
    <3> QED BY <2>2, <2>6, <3>1 DEF GroupsInv
  <2>8. CenterInv' /\ EnInv' /\ EyeInv' /\ DmInv'
    BY <2>2 DEF CenterInv, EnInv, EyeInv, DmInv, ReadLabels, WriteLabels, DmLabels
  <2>9. LatencyInv'
    <3>1. ASSUME LatenciesFit
          PROVE  /\ gbl'.curr_read_lat \in 1 .. MAX_LATENCY - 1
                 /\ gbl'.curr_read_lat <= MAX_LATENCY /\ gbl'.curr_read_lat + 2 <= MAX_LATENCY
                 /\ \A g \in Groups : hw'.board.group[g].lat <= gbl'.curr_read_lat + 1
      <4>1. c - 1 + 1 = c
        BY <1>5
      <4> QED BY <1>3, <1>6, <1>7, <2>1, <2>2, <3>1, <4>1
    <3> QED BY <2>2, <2>6, <3>1 DEF LatencyInv
  <2>10. OutcomeInv'
    BY <1>1, <2>2 DEF CalInv, OutcomeInv
  <2>11. Apart
    BY <1>1, <1>4, <2>2 DEF OnlyMoves, Apart
  <2> QED BY <2>4, <2>5, <2>7, <2>8, <2>9, <2>10, <2>11 DEF CalInv
<1>8. CASE /\ (works \/ fn.found_one) /\ (works => lat = 0)
           /\ gbl' = [gbl EXCEPT !.curr_read_lat = lat + 2]
           /\ MemCalibrateReturns(Upd(SetRlat(t.hw, lat + 2)), TRUE)
  <2>1. lat \in Nat /\ lat + 2 \in Nat
    BY <1>5, <1>8
  <2> DEFINE r == SetRlat(t.hw, lat + 2)
             h == Upd(r)
  <2>2. Works(t.hw, r, write_group)
    BY <2>1, SetRlatWorks
  <2>3. /\ r.io = hw.io /\ r.chain = hw.chain /\ r.board = hw.board /\ r.vfifo = hw.vfifo
        /\ lat + 2 <= MAX_LATENCY => r.rlat = lat + 2
    BY <1>3, <1>4, <2>1, RlatIs DEF AtWork
  <2>4. r \in HwStates
    BY <1>4, <2>2 DEF Works, AtWork
  <2> HIDE DEF lat, r
  <2>5. /\ h.io = hw.io /\ h.board = hw.board /\ h.vfifo = hw.vfifo /\ h.rlat = r.rlat
    BY <1>4, <2>3, <2>4 DEF Upd, HwStates
  <2>6. Works(hw, h, write_group)
    <3>1. Works(hw, r, write_group)
      BY <1>3, <2>2, WorksOn
    <3> QED BY <3>1, Update, WorksOn
  <2>7. \A g \in Groups : ReadsWork(hw, g)
    BY <1>1, <1>3, <1>8 DEF CalInv, GroupsInv
  <2>8. gbl' \in GblStates /\ gbl'.curr_read_lat = lat + 2
    BY <1>5, <1>8, <2>1 DEF GblStates
  <2>9. ASSUME LatenciesFit
        PROVE  lat + 2 <= MAX_LATENCY /\ \A g \in Groups : hw.board.group[g].lat < lat + 2
    <3>0. \A g \in Groups : hw.board.group[g].lat \in Int
      BY <1>4, CalibrationAssumption DEF CalibrationAssumption, AtWork, HwStates
    <3>1. CASE works
      <4>1. lat = c - 1 /\ lat = 0
        BY <1>8, <3>1 DEF lat
      <4>2. c = 1 /\ 2 <= MAX_LATENCY
        BY <1>5, <1>6, <2>9, <4>1
      <4>3. \A g \in Groups : hw.board.group[g].lat <= 1
        BY <1>3, <2>9, <3>1, <4>2
      <4> QED BY <3>0, <4>1, <4>2, <4>3
    <3>2. CASE ~works
      <4>1. lat = c /\ fn.found_one
        BY <1>8, <3>2 DEF lat
      <4>2. c + 2 <= MAX_LATENCY /\ \A g \in Groups : hw.board.group[g].lat <= c + 1
        BY <1>1, <2>9, <4>1 DEF CalInv, LatencyInv
      <4> QED BY <1>5, <3>0, <4>1, <4>2
    <3> QED BY <3>1, <3>2
  <2>10. MemCalibrateReturns(h, TRUE)
    BY <1>8 DEF r
  <2>11. LatenciesFit => /\ gbl'.curr_read_lat <= MAX_LATENCY
                         /\ \A g \in Groups : hw.board.group[g].lat < h.rlat
    BY <2>3, <2>5, <2>8, <2>9
  <2> HIDE DEF h
  <2> QED BY <1>1, <2>5, <2>6, <2>7, <2>8, <2>10, <2>11, PassStep
<1>9. CASE /\ ~works /\ ~fn.found_one
           /\ gbl' = set_failing_group_stage(gbl, NoGroup, "LFIFO", "READ_LATENCY")
           /\ MemCalibrateReturns(t.hw, FALSE)
  <2>1. "LFIFO" \in Stages /\ "READ_LATENCY" \in Substages /\ NoGroup \in Nat
    BY DEF Stages, Substages, NoGroup
  <2>2. gbl' \in GblStates /\ gbl'.curr_read_lat = gbl.curr_read_lat
    BY <1>5, <1>9, <2>1, FailingSet
  <2> QED BY <1>1, <1>3, <1>9, <2>2, LocalsNow, FailStep
<1> QED BY <1>2, <1>7, <1>8, <1>9

LEMMA RunStays == ASSUME CalInv, RunMemCalibrate PROVE CalInv' /\ Apart
<1> DEFINE o == mem_precharge_and_activate(hw)
           k == [rw_mgr_mem_handoff(o) EXCEPT !.mux = 2]
<1>1. /\ pc = "finish" /\ pc' = "done" /\ hw' = k
      /\ regs' = [regs EXCEPT
                     !.tracking = TRUE,
                     !.cal_status = IF fn.pass THEN "SUCCESS" ELSE "FAIL",
                     !.failing_stage = IF fn.pass THEN @
                                       ELSE <<gbl.error_stage, gbl.error_substage,
                                              gbl.error_group>>]
      /\ UNCHANGED <<gbl, write_group, fn, en, eye>>
  BY DEF RunMemCalibrate, Goto
<1>2. AtWork(hw, write_group)
  BY <1>1, AtWorkNow
<1>3. o \in HwStates /\ Awake(o) /\ o = [Rested(hw) EXCEPT !.open = TRUE]
  BY <1>2, RowsOpen DEF AtWork, Awake
<1>4. SameCells(hw, o)
  BY <1>2, <1>3 DEF SameCells, Rested, AtWork, HwStates
<1> HIDE DEF o
<1>5. /\ k \in HwStates /\ SameCells(o, k)
      /\ ~k.misuse /\ k.mux = 2 /\ ~k.open /\ "user" \in k.modes /\ k.odt.write = 0
  BY <1>3, HandsOff
<1>6. k.io = hw.io /\ k.board = hw.board /\ k.vfifo = hw.vfifo /\ k.rlat = hw.rlat
  BY <1>4, <1>5 DEF SameCells
<1> HIDE DEF k
<1>7. regs' \in RegStates /\ regs'.tracking = TRUE
      /\ (regs'.cal_status = "SUCCESS" => fn.pass)
  <2>1. <<gbl.error_stage, gbl.error_substage, gbl.error_group>> \in Stages \X Substages \X Nat
    BY LocalsNow DEF GblStates
  <2> DEFINE s == <<gbl.error_stage, gbl.error_substage, gbl.error_group>>
  <2> HIDE DEF s
  <2>2. CASE fn.pass
    <3>1. regs' = [regs EXCEPT !.tracking = TRUE, !.cal_status = "SUCCESS"]
      BY <1>1, <2>2, LocalsNow DEF RegStates
    <3> QED BY <2>2, <3>1, LocalsNow DEF RegStates
  <2>3. CASE ~fn.pass
    <3>1. regs' = [regs EXCEPT !.tracking = TRUE, !.cal_status = "FAIL", !.failing_stage = s]
      BY <1>1, <2>3 DEF s
    <3>2. s \in Stages \X Substages \X Nat
      BY <2>1 DEF s
    <3> QED BY <3>1, <3>2, LocalsNow DEF RegStates
  <2> QED BY <2>2, <2>3
<1>8. Shapes'
  BY <1>1, <1>5, <1>7, LocalsNow DEF Shapes
<1>9. pc' \notin GroupLabels
  BY <1>1 DEF GroupLabels, FindLabels, ReadLabels, WriteLabels, DmLabels
<1>10. MemoryInv' /\ GroupsInv'
  BY <1>1, <1>5, <1>9 DEF MemoryInv, GroupsInv
<1>11. CenterInv' /\ EnInv' /\ EyeInv' /\ DmInv'
  BY <1>1 DEF CenterInv, EnInv, EyeInv, DmInv, ReadLabels, WriteLabels, DmLabels
<1>12. LatencyInv'
  BY <1>1, <1>9 DEF CalInv, LatencyInv
<1>13. OutcomeInv'
  <2>1. HandedOver'
    BY <1>1, <1>5, <1>7 DEF HandedOver
  <2>2. ASSUME fn.pass
        PROVE  /\ \A g \in Groups : WritesWork(k, g) /\ ReadsWork(k, g)
               /\ LatenciesFit => \A g \in Groups : k.board.group[g].lat < k.rlat
    <3>1. \A g \in Groups : WritesWork(hw, g) /\ ReadsWork(hw, g)
      BY <1>1, <2>2 DEF CalInv, GroupsInv
    <3>2. \A g \in Groups : WritesWork(k, g) /\ ReadsWork(k, g)
      BY <1>6, <3>1, CellsWork
    <3>3. LatenciesFit => \A g \in Groups : k.board.group[g].lat < k.rlat
      BY <1>1, <1>6, <2>2 DEF CalInv, LatencyInv
    <3> QED BY <3>2, <3>3
  <2> QED BY <1>1, <1>7, <2>1, <2>2 DEF OutcomeInv
<1>14. Apart
  BY <1>1, <1>6 DEF Apart
<1> QED BY <1>8, <1>10, <1>11, <1>12, <1>13, <1>14 DEF CalInv

-----------------------------------------------------------------------------
(* The centering of the reads. *)

EyesFit(e) == e \in EyeStates /\ e.left \in Edges /\ e.right \in Edges
SameEye(e, f) == f.start_dqs = e.start_dqs /\ f.use_read_test = e.use_read_test

\* The edges of an eye are replaced.
LEMMA EdgesSet ==
    ASSUME NEW e, EyesFit(e), NEW d \in Nat, NEW s \in SUBSET Dqs, NEW l \in Edges,
           NEW r \in Edges
    PROVE  /\ EyesFit([e EXCEPT !.d = d, !.sticky = s, !.left = l, !.right = r])
           /\ SameEye(e, [e EXCEPT !.d = d, !.sticky = s, !.left = l, !.right = r])
<1> DEFINE f == [e EXCEPT !.d = d, !.sticky = s, !.left = l, !.right = r]
<1>1. e \in EyeStates /\ l \in Edges \cup {<<>>} /\ r \in Edges \cup {<<>>}
  BY DEF EyesFit
<1>2. f \in EyeStates
  BY <1>1 DEF EyeStates
<1>3. f.left = l /\ f.right = r /\ SameEye(e, f)
  BY <1>1 DEF EyeStates, SameEye
<1> QED BY <1>2, <1>3 DEF EyesFit

LEMMA FarAway ==
    /\ Far \in Nat /\ Far > 0 /\ IO_IO_IN_DELAY_MAX \in 0 .. Far - 1
    /\ IO_DQS_IN_DELAY_MAX \in 0 .. Far - 1 /\ IO_IO_OUT1_DELAY_MAX \in 0 .. Far - 1
    /\ ReadNone \in -Far .. Far /\ WriteNone \in -Far .. Far /\ -1 \in -Far .. Far
    /\ \A d \in 0 .. Far - 1 : d \in -Far .. Far /\ -(d + 1) \in -Far .. Far
BY SccMgrAssumption DEF SccMgrAssumption, Far, ReadNone, WriteNone

LEMMA Swept ==
    ASSUME NEW e, EyesFit(e), NEW d \in 0 .. Far - 1, NEW bits \in SUBSET Dqs, NEW none
    PROVE  LET l == LeftSwept(e, d, bits, none)
               r == RightSwept(e, d, bits, none)
           IN  /\ EyesFit(l) /\ SameEye(e, l) /\ l.d = d + 1
               /\ EyesFit(r) /\ SameEye(e, r) /\ r.d = d + 1
<1>1. /\ e \in EyeStates /\ e.left \in [Dqs -> -Far .. Far] /\ e.right \in [Dqs -> -Far .. Far]
      /\ e.sticky \cup bits \in SUBSET Dqs /\ d + 1 \in Nat
  BY FarAway DEF EyesFit, EyeStates, Edges
<1>2. d \in -Far .. Far /\ -(d + 1) \in -Far .. Far /\ -1 \in -Far .. Far
  BY FarAway
<1> DEFINE m == -(d + 1)
<1>3. m \in -Far .. Far
  BY <1>2
<1> HIDE DEF m
<1> DEFINE ll == [i \in Dqs |-> IF i \in bits THEN d ELSE e.left[i]]
           lr == [i \in Dqs |-> IF i \notin bits /\ e.left[i] = none THEN m ELSE e.right[i]]
           lost(i) == i \notin bits /\ e.right[i] = none
           rl == [i \in Dqs |-> IF lost(i) /\ (d # 0 \/ e.left[i] = none) THEN m ELSE e.left[i]]
           rr == [i \in Dqs |-> IF i \in bits THEN d
                                ELSE IF d = 0 /\ lost(i) /\ e.left[i] # none
                                THEN -1 ELSE e.right[i]]
           s == e.sticky \cup bits
           n == d + 1
<1>4. ll \in Edges /\ lr \in Edges /\ rl \in Edges /\ rr \in Edges
  BY <1>1, <1>2, <1>3 DEF Edges
<1>5. LeftSwept(e, d, bits, none) = [e EXCEPT !.d = n, !.sticky = s, !.left = ll, !.right = lr]
  BY <1>1 DEF LeftSwept, m, EyeStates
<1>6. RightSwept(e, d, bits, none) = [e EXCEPT !.d = n, !.sticky = s, !.left = rl, !.right = rr]
  BY <1>1 DEF RightSwept, m, EyeStates
<1> HIDE DEF ll, lr, rl, rr, s, n
<1> DEFINE l == LeftSwept(e, d, bits, none)
           r == RightSwept(e, d, bits, none)
<1>7. n \in Nat /\ s \in SUBSET Dqs /\ n = d + 1
  BY <1>1 DEF n, s
<1> HIDE DEF l, r
<1>8. EyesFit(l) /\ SameEye(e, l) /\ l.d = n
  <2> DEFINE f == [e EXCEPT !.d = n, !.sticky = s, !.left = ll, !.right = lr]
  <2>1. EyesFit(f) /\ SameEye(e, f)
    BY <1>4, <1>7, EdgesSet
  <2>3. f.d = n
    BY <1>1 DEF EyeStates
  <2>2. l = f
    BY <1>5 DEF l
  <2> QED BY <2>1, <2>2, <2>3
<1>9. EyesFit(r) /\ SameEye(e, r) /\ r.d = n
  <2> DEFINE f == [e EXCEPT !.d = n, !.sticky = s, !.left = rl, !.right = rr]
  <2>1. EyesFit(f) /\ SameEye(e, f)
    BY <1>4, <1>7, EdgesSet
  <2>3. f.d = n
    BY <1>1 DEF EyeStates
  <2>2. r = f
    BY <1>6 DEF r
  <2> QED BY <2>1, <2>2, <2>3
<1> QED BY <1>7, <1>8, <1>9 DEF l, r

LEMMA LeftOnlyFits ==
    ASSUME NEW e, EyesFit(e), NEW none \in -Far .. Far, NEW s \in SUBSET Dqs
    PROVE  LET f == [LeftOnly(e, none) EXCEPT !.sticky = s]
           IN  EyesFit(f) /\ SameEye(e, f) /\ f.d = 0
<1> DEFINE r == [i \in Dqs |-> IF e.left[i] = none THEN none ELSE e.right[i]]
<1>1. e \in EyeStates /\ e.right \in [Dqs -> -Far .. Far] /\ e.left \in Edges
  BY DEF EyesFit, EyeStates, Edges
<1>2. r \in Edges
  BY <1>1 DEF Edges
<1>3. LeftOnly(e, none) = [e EXCEPT !.d = 0, !.right = r]
  BY <1>1 DEF LeftOnly, EyeStates
<1> HIDE DEF r
<1>4. [LeftOnly(e, none) EXCEPT !.sticky = s]
          = [e EXCEPT !.d = 0, !.sticky = s, !.left = e.left, !.right = r]
  BY <1>1, <1>3 DEF EyeStates
<1> DEFINE f == [e EXCEPT !.d = 0, !.sticky = s, !.left = e.left, !.right = r]
<1>5. EyesFit(f) /\ SameEye(e, f)
  BY <1>1, <1>2, EdgesSet
<1>6. f.d = 0
  BY <1>1 DEF EyeStates
<1> QED BY <1>4, <1>5, <1>6

\* What the reads' searches leave of the writes.
LEMMA OutWorks ==
    ASSUME NEW h, NEW k, NEW g, SameOut(h, k, g), k.board = h.board, WritesWork(h, g)
    PROVE  WritesWork(k, g)
BY OutPins DEF SameOut, WritesWork, DqssMet, WriteEye

LEMMA ReadsShape ==
    ASSUME CalInv, pc \in ReadLabels, NEW h, Reads(hw, h, write_group)
    PROVE  /\ Works(hw, h, write_group) /\ AtWork(h, write_group) /\ h \in HwStates
           /\ ~eye.use_read_test => WritesWork(h, write_group) /\ OutLoaded(h, write_group)
<1>1. pc \in GroupLabels
  BY DEF GroupLabels
<1>2. Works(hw, h, write_group) /\ AtWork(hw, write_group)
  BY <1>1, AtWorkNow DEF Reads
<1>3. AtWork(h, write_group) /\ h \in HwStates /\ h.board = hw.board
  BY <1>2 DEF Works, AtWork, OnlyMoves
<1>4. ASSUME ~eye.use_read_test
      PROVE  WritesWork(h, write_group) /\ OutLoaded(h, write_group)
  <2>1. WritesWork(hw, write_group) /\ OutLoaded(hw, write_group)
    BY <1>4 DEF CalInv, CenterInv
  <2>2. OutLoaded(h, write_group) /\ SameOut(hw, h, write_group)
    BY <1>2, <2>1 DEF Reads
  <2> QED BY <1>3, <2>1, <2>2, OutWorks
<1> QED BY <1>2, <1>3, <1>4

LEMMA EyeNow ==
    ASSUME CalInv, pc \in ReadLabels
    PROVE  /\ EyesFit(eye) /\ eye.start_dqs \in 0 .. IO_DQS_IN_DELAY_MAX /\ eye.d \in Nat
           /\ IO_DQS_IN_DELAY_MAX \in Nat /\ IO_IO_IN_DELAY_MAX \in Nat
           /\ pc = "read_left" => eye.d \in 0 .. IO_IO_IN_DELAY_MAX
           /\ pc = "read_right" => /\ eye.d + eye.start_dqs \in 0 .. IO_DQS_IN_DELAY_MAX
                                   /\ eye.d \in 0 .. IO_DQS_IN_DELAY_MAX
<1>1. eye \in EyeStates /\ eye.d \in Nat /\ eye.start_dqs \in Nat
  BY LocalsNow DEF EyeStates
<1>2. IO_DQS_IN_DELAY_MAX \in Nat /\ IO_IO_IN_DELAY_MAX \in Nat
  BY SccMgrAssumption DEF SccMgrAssumption
<1> QED BY <1>1, <1>2 DEF CalInv, EyeInv, EyesFit

LEMMA EyeStepStays ==
    ASSUME CalInv, pc \in ReadLabels, NEW l \in ReadLabels, NEW h, Reads(hw, h, write_group),
           NEW e, EyesFit(e), SameEye(eye, e), l = "read_left" => e.d <= IO_IO_IN_DELAY_MAX,
           l = "read_right" => e.d + e.start_dqs <= IO_DQS_IN_DELAY_MAX, EyeStep(l, h, e)
    PROVE  CalInv' /\ Apart
<1>1. pc' = l /\ hw' = h /\ eye' = e /\ UNCHANGED <<gbl, regs, write_group, fn, en>>
  BY DEF EyeStep, Goto
<1>2. pc \in GroupLabels /\ l \in GroupLabels
  BY DEF GroupLabels
<1>3. Shapes'
  BY <1>1, LocalsNow, ReadsShape DEF Shapes, EyesFit
<1>4. CenterInv'
  BY <1>1, ReadsShape DEF CenterInv, SameEye, ReadLabels
<1>5. EnInv' /\ DmInv'
  BY <1>1 DEF EnInv, DmInv, ReadLabels, DmLabels
<1>6. EyeInv'
  <2>1. e.start_dqs <= IO_DQS_IN_DELAY_MAX
    BY EyeNow DEF SameEye
  <2> QED BY <1>1, <2>1 DEF EyeInv, EyesFit, ReadLabels, WriteLabels
<1>7. l \notin {"vfifo_centered", "vfifo_end"}
  BY DEF ReadLabels
<1> QED BY <1>1, <1>2, <1>3, <1>4, <1>5, <1>6, <1>7, ReadsShape, GroupStep

LEMMA EyeTested ==
    ASSUME CalInv, pc \in ReadLabels, NEW h, Reads(hw, h, write_group), NEW t \in EyeTest(h)
    PROVE  Reads(hw, t.hw, write_group) /\ t.bits \in SUBSET Dqs
<1>1. AtWork(h, write_group)
  BY ReadsShape
<1>2. Reads(h, t.hw, write_group)
  BY <1>1, TestReads DEF EyeTest
<1>3. t.bits \in SUBSET Dqs
  BY <1>1, ReadTest, WriteTested DEF EyeTest
<1> QED BY <1>2, <1>3, ReadsOn

LEMMA LeftDoneStays ==
    ASSUME CalInv, pc = "read_left", NEW h, Reads(hw, h, write_group), NEW e, EyesFit(e),
           SameEye(eye, e), ReadLeftDone(h, e)
    PROVE  CalInv' /\ Apart
<1> DEFINE one == LeftOnly(e, ReadNone)
           s == Dqs \ MissingEdge(one, ReadNone)
           f == [one EXCEPT !.sticky = s]
           k == scc_mgr_apply_group_dq_in_delay(h, 0)
<1>1. pc \in ReadLabels /\ "read_right" \in ReadLabels
  BY DEF ReadLabels
<1>2. Reads(hw, k, write_group)
  BY ReadSets, ReadsOn, ReservesAre
<1>3. EyesFit(f) /\ SameEye(e, f) /\ f.d = 0
  BY FarAway, LeftOnlyFits
<1>4. EyeStep("read_right", k, f)
  BY DEF ReadLeftDone
<1> HIDE DEF f, k
<1>5. SameEye(eye, f) /\ f.d + f.start_dqs <= IO_DQS_IN_DELAY_MAX
  BY <1>1, <1>3, EyeNow DEF SameEye
<1> QED BY <1>1, <1>2, <1>3, <1>4, <1>5, EyeStepStays

LEMMA ReadLeftStays == ASSUME CalInv, ReadLeft PROVE CalInv' /\ Apart
<1> DEFINE k == Upd(scc_mgr_apply_group_dq_in_delay(hw, eye.d))
<1>1. pc = "read_left" /\ pc \in ReadLabels
  BY DEF ReadLeft, ReadLabels
<1>2. Reads(hw, k, write_group)
  BY <1>1, EyeNow, ReadSets
<1>3. PICK t \in EyeTest(k) :
          LET swept == LeftSwept(eye, eye.d, t.bits, ReadNone)
          IN  IF AllSeen(swept, t.bits) THEN ReadLeftDone(t.hw, eye)
              ELSE IF eye.d = IO_IO_IN_DELAY_MAX THEN ReadLeftDone(t.hw, swept)
              ELSE EyeStep("read_left", t.hw, swept)
  BY DEF ReadLeft
<1> HIDE DEF k
<1>4. Reads(hw, t.hw, write_group) /\ t.bits \in SUBSET Dqs
  BY <1>1, <1>2, <1>3, EyeTested
<1> DEFINE swept == LeftSwept(eye, eye.d, t.bits, ReadNone)
<1>5. EyesFit(swept) /\ SameEye(eye, swept) /\ swept.d = eye.d + 1
  <2>1. eye.d \in 0 .. Far - 1
    BY <1>1, EyeNow, FarAway
  <2> QED BY <1>1, <1>4, <2>1, EyeNow, Swept
<1>6. EyesFit(eye) /\ SameEye(eye, eye)
  BY <1>1, EyeNow DEF SameEye
<1>7. \/ ReadLeftDone(t.hw, eye) \/ ReadLeftDone(t.hw, swept)
      \/ eye.d # IO_IO_IN_DELAY_MAX /\ EyeStep("read_left", t.hw, swept)
  BY <1>3
<1> HIDE DEF swept
<1>8. CASE ReadLeftDone(t.hw, eye)
  BY <1>1, <1>4, <1>6, <1>8, LeftDoneStays
<1>9. CASE ReadLeftDone(t.hw, swept)
  BY <1>1, <1>4, <1>5, <1>9, LeftDoneStays
<1>10. CASE eye.d # IO_IO_IN_DELAY_MAX /\ EyeStep("read_left", t.hw, swept)
  <2>1. swept.d <= IO_IO_IN_DELAY_MAX
    BY <1>1, <1>5, <1>10, EyeNow
  <2> QED BY <1>1, <1>4, <1>5, <1>10, <2>1, EyeStepStays
<1> QED BY <1>7, <1>8, <1>9, <1>10

LEMMA ReturnStays ==
    ASSUME CalInv, pc \in ReadLabels, NEW h, Reads(hw, h, write_group), h.chain = h.io,
           NEW b \in GblStates, b.curr_read_lat = gbl.curr_read_lat, NEW m \in BOOLEAN,
           CenterReturns(h, b, m)
    PROVE  CalInv' /\ Apart
<1> DEFINE l == IF eye.use_read_test THEN "vfifo_centered" ELSE "vfifo_end"
           e == [NoEye EXCEPT !.margins = m]
<1>1. pc' = l /\ hw' = h /\ eye' = e /\ gbl' = b /\ UNCHANGED <<regs, write_group, fn, en>>
  BY DEF CenterReturns, Goto
<1>2. pc \in GroupLabels /\ l \in GroupLabels /\ l \in {"vfifo_centered", "vfifo_end"}
  BY DEF GroupLabels
<1>3. e \in EyeStates
  <2>1. NoEye \in EyeStates
    BY NothingFits
  <2> QED BY <2>1 DEF EyeStates
<1>4. l = "vfifo_end" => ~eye.use_read_test
  OBVIOUS
<1> HIDE DEF l, e
<1>5. Shapes'
  BY <1>1, <1>3, LocalsNow, ReadsShape DEF Shapes
<1>6. CenterInv'
  BY <1>1, <1>2, <1>4, ReadsShape DEF CenterInv, ReadLabels
<1>7. EnInv' /\ DmInv' /\ EyeInv'
  BY <1>1, <1>2 DEF EnInv, DmInv, EyeInv, ReadLabels, WriteLabels, DmLabels
<1> QED BY <1>1, <1>2, <1>5, <1>6, <1>7, ReadsShape, GroupStep

LEMMA BusWorks ==
    ASSUME NEW h, AtWork(h, write_group), NEW d \in 0 .. IO_DQS_IN_DELAY_MAX
    PROVE  /\ Reads(h, BusIn(h, d), write_group)
           /\ BusIn(h, d).chain = BusIn(h, d).io
<1> DEFINE s == scc_mgr_set_dqs_bus_in_delay(h, write_group, d)
           k == DqsEna(s, {write_group})
<1>1. BusIn(h, d) = Upd(k)
  BY DEF BusIn, scc_mgr_load_dqs
<1>2. Reads(h, Upd(k), write_group)
  BY ReadSets
<1>3. AtWork(k, write_group)
  BY DqsSet, DqsChain DEF Works
<1> HIDE DEF k
<1>4. Upd(k).io = Upd(k).chain
  BY <1>3, Updated
<1> QED BY <1>1, <1>2, <1>4

LEMMA LeastDq ==
    ASSUME NEW S \in SUBSET Dqs, S # {}
    PROVE  Min(S) \in Dqs
<1>1. Dqs \subseteq Nat
  BY DEF Dqs
<1>2. S \subseteq Int /\ (\A x \in S : 0 <= x) /\ 0 \in Int
  BY <1>1
<1>3. Min(S) \in S
  BY <1>2, MinIs
<1> QED BY <1>3

LEMMA EdgeMissing ==
    \A e, none : MissingEdge(e, none) \in SUBSET Dqs
BY DEF MissingEdge

\* The number of a DQ, with which a failure is reported.
LEMMA DqNumber ==
    ASSUME NEW i \in Dqs, write_group \in Groups
    PROVE  write_group * DQ_PER_DQS + i \in Nat
<1>1. write_group \in Nat /\ DQ_PER_DQS \in Nat /\ i \in Nat
  BY SccMgrAssumption DEF SccMgrAssumption, Groups, Dqs
<1>2. write_group * DQ_PER_DQS \in Nat
  BY <1>1, Product
<1> QED BY <1>1, <1>2

LEMMA CenterFailsStays ==
    ASSUME CalInv, pc \in ReadLabels, NEW h, Reads(hw, h, write_group), NEW e, EyesFit(e),
           SameEye(eye, e), MissingEdge(e, ReadNone) # {}, CenterFails(h, e)
    PROVE  CalInv' /\ Apart
<1> DEFINE i == Min(MissingEdge(e, ReadNone))
           stage == IF e.use_read_test THEN "VFIFO" ELSE "VFIFO_AFTER_WRITES"
           n == write_group * DQ_PER_DQS + i
           b == set_failing_group_stage(gbl, n, stage, "VFIFO_CENTER")
           k == BusIn(h, e.start_dqs)
<1>1. CenterReturns(k, b, FALSE)
  BY DEF CenterFails
<1>2. e.start_dqs \in 0 .. IO_DQS_IN_DELAY_MAX
  BY EyeNow DEF SameEye
<1>3. Reads(hw, k, write_group) /\ k.chain = k.io
  BY <1>2, ReadsShape, BusWorks, ReadsOn
<1>4. n \in Nat
  BY EdgeMissing, LeastDq, DqNumber, LocalsNow
<1>5. stage \in Stages /\ "VFIFO_CENTER" \in Substages
  BY DEF Stages, Substages
<1> HIDE DEF n, stage
<1>6. b \in GblStates /\ b.curr_read_lat = gbl.curr_read_lat
  BY <1>4, <1>5, LocalsNow, FailingSet
<1> HIDE DEF b, k
<1> QED BY <1>1, <1>3, <1>6, ReturnStays

\* The differences have a least one, and what DQ are set to fits.
LEMMA EdgeNumbers ==
    ASSUME NEW e, EyesFit(e)
    PROVE  /\ \A i \in Dqs : Difference(e, i) \in Int /\ -2 * Far <= Difference(e, i)
           /\ MinDifference(e) \in Int /\ MidMin(e) \in Int
<1>1. Far \in Nat /\ e.left \in [Dqs -> -Far .. Far] /\ e.right \in [Dqs -> -Far .. Far]
  BY FarAway DEF EyesFit, Edges
<1>2. \A i \in Dqs : Difference(e, i) \in Int /\ -2 * Far <= Difference(e, i)
  <2> SUFFICES ASSUME NEW i \in Dqs
               PROVE  Difference(e, i) \in Int /\ -2 * Far <= Difference(e, i)
    OBVIOUS
  <2>1. e.left[i] \in -Far .. Far /\ e.right[i] \in -Far .. Far
    BY <1>1
  <2> QED BY <1>1, <2>1 DEF Difference
<1> DEFINE S == {Difference(e, i) : i \in Dqs}
           a == -2 * Far
<1>3. S \subseteq Int /\ (\A x \in S : a <= x) /\ a \in Int
  BY <1>1, <1>2
<1>4. S # {}
  BY OutPins
<1>5. Min(S) = MinDifference(e)
  BY DEF MinDifference
<1> HIDE DEF S, a
<1>6. MinDifference(e) \in Int
  BY <1>3, <1>4, <1>5, MinIs
<1>7. MidMin(e) \in Int
  BY <1>6, DivIs DEF MidMin
<1> QED BY <1>2, <1>6, <1>7

LEMMA ShiftFits ==
    ASSUME NEW e, EyesFit(e), NEW m \in Int, NEW max \in Nat
    PROVE  [dq \in Dqs |-> ShiftDq(e, m, max, dq)] \in [Dqs -> 0 .. max]
<1> SUFFICES ASSUME NEW dq \in Dqs PROVE ShiftDq(e, m, max, dq) \in 0 .. max
  OBVIOUS
<1> DEFINE x == Div(Difference(e, dq) - MinDifference(e), 2) + MidMin(e) - m
<1>1. x \in Int
  BY EdgeNumbers, DivIs
<1> HIDE DEF x
<1>2. Clamp(x, 0, max) \in 0 .. max
  BY <1>1, ClampIs
<1> QED BY <1>2 DEF ShiftDq, x

LEMMA MarginsAre ==
    ASSUME NEW e, NEW m, NEW max PROVE MarginsMet(e, m, max) \in BOOLEAN
BY DEF MarginsMet

LEMMA CenterSetStays ==
    ASSUME CalInv, pc \in ReadLabels, NEW h, Reads(hw, h, write_group), NEW e, EyesFit(e),
           SameEye(eye, e), CenterSet(h, e)
    PROVE  CalInv' /\ Apart
<1> DEFINE new_dqs == Clamp(e.start_dqs - MidMin(e), 0, IO_DQS_IN_DELAY_MAX)
           mid_min == e.start_dqs - new_dqs
           shift == [dq \in Dqs |-> ShiftDq(e, mid_min, IO_IO_IN_DELAY_MAX, dq)]
           l == scc_mgr_load_dq(scc_mgr_set_dq_in_delay(h, shift))
           k == BusIn(l, new_dqs)
           m == MarginsMet(e, mid_min, IO_IO_IN_DELAY_MAX)
<1>1. CenterReturns(k, gbl, m)
  BY DEF CenterSet
<1>2. /\ IO_DQS_IN_DELAY_MAX \in Nat /\ IO_IO_IN_DELAY_MAX \in Nat
      /\ e.start_dqs \in 0 .. IO_DQS_IN_DELAY_MAX
  BY EyeNow DEF SameEye
<1>3. e.start_dqs - MidMin(e) \in Int
  BY <1>2, EdgeNumbers
<1>4. new_dqs \in 0 .. IO_DQS_IN_DELAY_MAX
  <2>1. 0 \in Int /\ IO_DQS_IN_DELAY_MAX \in Int /\ 0 <= IO_DQS_IN_DELAY_MAX
    BY <1>2
  <2> QED BY <1>3, <2>1, ClampIs
<1> HIDE DEF new_dqs
<1>5. mid_min \in Int
  BY <1>2, <1>4
<1> HIDE DEF mid_min
<1>6. shift \in [Dqs -> 0 .. IO_IO_IN_DELAY_MAX]
  BY <1>2, <1>5, ShiftFits
<1> HIDE DEF shift
<1>7. Reads(h, l, write_group)
  BY <1>6, ReadSets
<1> HIDE DEF l
<1>8. Reads(hw, l, write_group)
  BY <1>7, ReadsOn
<1>9. AtWork(l, write_group)
  BY <1>8, ReadsShape
<1>10. Reads(l, k, write_group) /\ k.chain = k.io
  BY <1>4, <1>9, BusWorks
<1> HIDE DEF k
<1>11. Reads(hw, k, write_group)
  BY <1>8, <1>10, ReadsOn
<1>12. m \in BOOLEAN
  BY MarginsAre
<1> HIDE DEF m
<1> QED BY <1>1, <1>10, <1>11, <1>12, LocalsNow, ReturnStays

LEMMA RightDoneStays ==
    ASSUME CalInv, pc \in ReadLabels, NEW h, Reads(hw, h, write_group), NEW e, EyesFit(e),
           SameEye(eye, e), ReadRightDone(h, e)
    PROVE  CalInv' /\ Apart
<1>1. \/ MissingEdge(e, ReadNone) # {} /\ CenterFails(h, e)
      \/ CenterSet(h, e)
  BY DEF ReadRightDone
<1>2. CASE MissingEdge(e, ReadNone) # {} /\ CenterFails(h, e)
  BY <1>2, CenterFailsStays
<1>3. CASE CenterSet(h, e)
  BY <1>3, CenterSetStays
<1> QED BY <1>1, <1>2, <1>3

LEMMA ReadRightStays == ASSUME CalInv, ReadRight PROVE CalInv' /\ Apart
<1> DEFINE k == BusIn(hw, eye.d + eye.start_dqs)
<1>1. pc = "read_right" /\ pc \in ReadLabels
  BY DEF ReadRight, ReadLabels
<1>2. Reads(hw, k, write_group)
  BY <1>1, EyeNow, ReadsNot, ReadsShape, BusWorks
<1>3. PICK t \in EyeTest(k) :
          LET swept == RightSwept(eye, eye.d, t.bits, ReadNone)
          IN  IF AllSeen(swept, t.bits) THEN ReadRightDone(t.hw, eye)
              ELSE IF eye.d = IO_DQS_IN_DELAY_MAX - eye.start_dqs THEN ReadRightDone(t.hw, swept)
              ELSE EyeStep("read_right", t.hw, swept)
  BY DEF ReadRight
<1> HIDE DEF k
<1>4. Reads(hw, t.hw, write_group) /\ t.bits \in SUBSET Dqs
  BY <1>1, <1>2, <1>3, EyeTested
<1> DEFINE swept == RightSwept(eye, eye.d, t.bits, ReadNone)
<1>5. EyesFit(swept) /\ SameEye(eye, swept) /\ swept.d = eye.d + 1
  <2>1. eye.d \in 0 .. Far - 1
    BY <1>1, EyeNow, FarAway
  <2> QED BY <1>1, <1>4, <2>1, EyeNow, Swept
<1>6. EyesFit(eye) /\ SameEye(eye, eye)
  BY <1>1, EyeNow DEF SameEye
<1>7. \/ ReadRightDone(t.hw, eye) \/ ReadRightDone(t.hw, swept)
      \/ /\ eye.d # IO_DQS_IN_DELAY_MAX - eye.start_dqs
         /\ EyeStep("read_right", t.hw, swept)
  BY <1>3
<1> HIDE DEF swept
<1>8. CASE ReadRightDone(t.hw, eye)
  BY <1>1, <1>4, <1>6, <1>8, RightDoneStays
<1>9. CASE ReadRightDone(t.hw, swept)
  BY <1>1, <1>4, <1>5, <1>9, RightDoneStays
<1>10. CASE /\ eye.d # IO_DQS_IN_DELAY_MAX - eye.start_dqs
            /\ EyeStep("read_right", t.hw, swept)
  <2>1. swept.d + swept.start_dqs <= IO_DQS_IN_DELAY_MAX
    <3>1. eye.d + eye.start_dqs # IO_DQS_IN_DELAY_MAX
      BY <1>1, <1>10, EyeNow
    <3>2. swept.start_dqs = eye.start_dqs
      BY <1>5 DEF SameEye
    <3> QED BY <1>1, <1>5, <3>1, <3>2, EyeNow
  <2> QED BY <1>1, <1>4, <1>5, <1>10, <2>1, EyeStepStays
<1> QED BY <1>7, <1>8, <1>9, <1>10

LEMMA ReadStays == ASSUME CalInv, ReadCenter PROVE CalInv' /\ Apart
BY ReadLeftStays, ReadRightStays DEF ReadCenter

-----------------------------------------------------------------------------
(* The centering of the writes. *)

LEMMA WriteStepStays ==
    ASSUME CalInv, pc \in WriteLabels, NEW l \in WriteLabels, NEW h, Works(hw, h, write_group),
           NEW e, EyesFit(e), SameEye(eye, e), l = "write_left" => e.d <= IO_IO_OUT1_DELAY_MAX,
           l = "write_right" => e.d + e.start_dqs <= IO_IO_OUT1_DELAY_MAX, EyeStep(l, h, e)
    PROVE  CalInv' /\ Apart
<1>1. pc' = l /\ hw' = h /\ eye' = e /\ UNCHANGED <<gbl, regs, write_group, fn, en>>
  BY DEF EyeStep, Goto
<1>2. pc \in GroupLabels /\ l \in GroupLabels
  BY DEF GroupLabels
<1>3. h \in HwStates
  BY <1>2, WorksShape
<1>4. Shapes'
  BY <1>1, <1>3, LocalsNow DEF Shapes, EyesFit
<1>5. CenterInv' /\ EnInv' /\ DmInv'
  BY <1>1 DEF CenterInv, EnInv, DmInv, ReadLabels, WriteLabels, DmLabels
<1>6. EyeInv'
  <2>1. e.start_dqs <= IO_IO_OUT1_DELAY_MAX
    BY DEF SameEye, CalInv, EyeInv
  <2> QED BY <1>1, <2>1 DEF EyeInv, EyesFit, ReadLabels, WriteLabels
<1>7. l \notin {"vfifo_centered", "vfifo_end"}
  BY DEF WriteLabels
<1> QED BY <1>1, <1>2, <1>4, <1>5, <1>6, <1>7, GroupStep

LEMMA OutNow ==
    ASSUME CalInv, pc \in WriteLabels \cup DmLabels
    PROVE  /\ eye \in EyeStates /\ eye.start_dqs \in 0 .. IO_IO_OUT1_DELAY_MAX /\ eye.d \in Nat
           /\ IO_IO_OUT1_DELAY_MAX \in Nat /\ AtWork(hw, write_group)
           /\ pc \in WriteLabels => EyesFit(eye)
           /\ pc \in {"write_left", "dm_left"} => eye.d \in 0 .. IO_IO_OUT1_DELAY_MAX
           /\ pc \in {"write_right", "dm_right"} =>
                  /\ eye.d + eye.start_dqs \in 0 .. IO_IO_OUT1_DELAY_MAX
                  /\ eye.d \in 0 .. IO_IO_OUT1_DELAY_MAX
<1>1. eye \in EyeStates /\ eye.d \in Nat /\ eye.start_dqs \in Nat
  BY LocalsNow DEF EyeStates
<1>2. IO_IO_OUT1_DELAY_MAX \in Nat
  BY SccMgrAssumption DEF SccMgrAssumption
<1>3. AtWork(hw, write_group)
  BY AtWorkNow DEF GroupLabels
<1>4. /\ eye.start_dqs <= IO_IO_OUT1_DELAY_MAX
      /\ pc \in WriteLabels => EyesFit(eye)
  BY <1>1 DEF CalInv, EyeInv, DmInv, EyesFit
<1>5. /\ pc \in {"write_left", "dm_left"} => eye.d <= IO_IO_OUT1_DELAY_MAX
      /\ pc \in {"write_right", "dm_right"} => eye.d + eye.start_dqs <= IO_IO_OUT1_DELAY_MAX
  BY DEF CalInv, EyeInv, DmInv
<1> QED BY <1>1, <1>2, <1>3, <1>4, <1>5

LEMMA WriteTestedNow ==
    ASSUME CalInv, pc \in WriteLabels \cup DmLabels, NEW h, Works(hw, h, write_group),
           NEW use_dm \in BOOLEAN, NEW t \in WriteTest(h, use_dm)
    PROVE  Works(hw, t.hw, write_group) /\ t.bits \in SUBSET Dqs
<1>1. AtWork(h, write_group)
  BY OutNow DEF Works
<1>2. Works(h, t.hw, write_group) /\ t.bits \subseteq Dqs
  BY <1>1, WriteTestWorks DEF WriteTest
<1> QED BY <1>2, WorksOn

LEMMA WriteLeftDoneStays ==
    ASSUME CalInv, pc = "write_left", NEW h, Works(hw, h, write_group), NEW e, EyesFit(e),
           SameEye(eye, e), WriteLeftDone(h, e)
    PROVE  CalInv' /\ Apart
<1> DEFINE one == LeftOnly(e, WriteNone)
           s == {i \in Dqs : one.left[i] # WriteNone}
           f == [one EXCEPT !.sticky = s]
           k == scc_mgr_apply_group_dq_out1_delay(h, 0)
<1>1. pc \in WriteLabels /\ "write_right" \in WriteLabels
  BY DEF WriteLabels
<1>2. Works(hw, k, write_group)
  BY ApplyDq, WorksOn, ReservesAre
<1>3. EyesFit(f) /\ SameEye(e, f) /\ f.d = 0
  BY FarAway, LeftOnlyFits
<1>4. EyeStep("write_right", k, f)
  BY DEF WriteLeftDone
<1> HIDE DEF f, k
<1>5. SameEye(eye, f) /\ f.d + f.start_dqs <= IO_IO_OUT1_DELAY_MAX
  BY <1>1, <1>3, OutNow DEF SameEye
<1> QED BY <1>1, <1>2, <1>3, <1>4, <1>5, WriteStepStays

LEMMA WriteLeftStays == ASSUME CalInv, WriteLeft PROVE CalInv' /\ Apart
<1> DEFINE k == Upd(scc_mgr_apply_group_dq_out1_delay(hw, eye.d))
<1>1. pc = "write_left" /\ pc \in WriteLabels
  BY DEF WriteLeft, WriteLabels
<1>2. Works(hw, k, write_group)
  BY <1>1, OutNow, ApplyDq
<1>3. PICK t \in WriteTest(k, FALSE) :
          LET swept == LeftSwept(eye, eye.d, t.bits, WriteNone)
          IN  IF AllSeen(swept, t.bits) THEN WriteLeftDone(t.hw, eye)
              ELSE IF eye.d = IO_IO_OUT1_DELAY_MAX THEN WriteLeftDone(t.hw, swept)
              ELSE EyeStep("write_left", t.hw, swept)
  BY DEF WriteLeft
<1> HIDE DEF k
<1>4. Works(hw, t.hw, write_group) /\ t.bits \in SUBSET Dqs
  BY <1>1, <1>2, <1>3, WriteTestedNow
<1> DEFINE swept == LeftSwept(eye, eye.d, t.bits, WriteNone)
<1>5. EyesFit(swept) /\ SameEye(eye, swept) /\ swept.d = eye.d + 1
  <2>1. eye.d \in 0 .. Far - 1
    BY <1>1, OutNow, FarAway
  <2> QED BY <1>1, <1>4, <2>1, OutNow, Swept
<1>6. EyesFit(eye) /\ SameEye(eye, eye)
  BY <1>1, OutNow DEF SameEye
<1>7. \/ WriteLeftDone(t.hw, eye) \/ WriteLeftDone(t.hw, swept)
      \/ eye.d # IO_IO_OUT1_DELAY_MAX /\ EyeStep("write_left", t.hw, swept)
  BY <1>3
<1> HIDE DEF swept
<1>8. CASE WriteLeftDone(t.hw, eye)
  BY <1>1, <1>4, <1>6, <1>8, WriteLeftDoneStays
<1>9. CASE WriteLeftDone(t.hw, swept)
  BY <1>1, <1>4, <1>5, <1>9, WriteLeftDoneStays
<1>10. CASE eye.d # IO_IO_OUT1_DELAY_MAX /\ EyeStep("write_left", t.hw, swept)
  <2>1. swept.d <= IO_IO_OUT1_DELAY_MAX
    BY <1>1, <1>5, <1>10, OutNow
  <2> QED BY <1>1, <1>4, <1>5, <1>10, <2>1, WriteStepStays
<1> QED BY <1>7, <1>8, <1>9, <1>10

LEMMA WritesFailStays ==
    ASSUME CalInv, pc \in GroupLabels, NEW h, Works(hw, h, write_group),
           NEW S \in SUBSET Dqs, WritesFail(h, S)
    PROVE  CalInv' /\ Apart
<1> DEFINE n == write_group * DQ_PER_DQS + Min(S)
           center == IF S = {} THEN gbl
                     ELSE set_failing_group_stage(gbl, n, "WRITES", "WRITES_CENTER")
           b == set_failing_group_stage(center, write_group, "WRITES", "WRITES_CENTER")
<1>1. /\ MemCalibrateReturns(h, FALSE) /\ gbl' = b /\ eye' = NoEye
      /\ UNCHANGED <<regs, write_group, en>>
  BY DEF WritesFail
<1>2. "WRITES" \in Stages /\ "WRITES_CENTER" \in Substages /\ write_group \in Nat
  BY LocalsNow DEF Stages, Substages, Groups
<1>3. S # {} => n \in Nat
  BY LeastDq, DqNumber, LocalsNow
<1> HIDE DEF n
<1>4. center \in GblStates /\ center.curr_read_lat = gbl.curr_read_lat
  <2>1. CASE S = {}
    BY <2>1, LocalsNow
  <2>2. CASE S # {}
    BY <2>2, <1>2, <1>3, LocalsNow, FailingSet
  <2> QED BY <2>1, <2>2
<1> HIDE DEF center
<1>5. b \in GblStates /\ b.curr_read_lat = gbl.curr_read_lat
  BY <1>2, <1>4, FailingSet
<1> HIDE DEF b
<1> QED BY <1>1, <1>5, LocalsNow, NothingFits, FailStep

\* A step to the search for the delay of DM, or in it.
LEMMA DmStepStays ==
    ASSUME CalInv, pc \in WriteLabels \cup DmLabels, NEW l \in DmLabels,
           NEW h, Works(hw, h, write_group), NEW e \in EyeStates,
           e.start_dqs <= IO_IO_OUT1_DELAY_MAX,
           DqOut(h, write_group), DmEye(h, write_group, e),
           l = "dm_left" => /\ e.d <= IO_IO_OUT1_DELAY_MAX
                            /\ h.chain.pin[write_group][DqsPin].out1 = e.start_dqs,
           l = "dm_right" => /\ e.d + e.start_dqs <= IO_IO_OUT1_DELAY_MAX
                             /\ h.chain.pin[write_group][DmPin].out1 = 0,
           EyeStep(l, h, e)
    PROVE  CalInv' /\ Apart
<1>1. pc' = l /\ hw' = h /\ eye' = e /\ UNCHANGED <<gbl, regs, write_group, fn, en>>
  BY DEF EyeStep, Goto
<1>2. pc \in GroupLabels /\ l \in GroupLabels
  BY DEF GroupLabels
<1>3. h \in HwStates
  BY <1>2, WorksShape
<1>4. Shapes'
  BY <1>1, <1>3, LocalsNow DEF Shapes
<1>5. CenterInv' /\ EnInv' /\ EyeInv'
  BY <1>1 DEF CenterInv, EnInv, EyeInv, ReadLabels, WriteLabels, DmLabels
<1>6. DmInv'
  <2>1. DqOut(hw', write_group') /\ DmEye(hw', write_group', eye')
    BY <1>1
  <2>2. /\ eye'.start_dqs <= IO_IO_OUT1_DELAY_MAX
        /\ pc' = "dm_left" =>
               /\ eye'.d <= IO_IO_OUT1_DELAY_MAX
               /\ hw'.chain.pin[write_group'][DqsPin].out1 = eye'.start_dqs
        /\ pc' = "dm_right" =>
               /\ eye'.d + eye'.start_dqs <= IO_IO_OUT1_DELAY_MAX
               /\ hw'.chain.pin[write_group'][DmPin].out1 = 0
    BY <1>1
  <2> QED BY <2>1, <2>2 DEF DmInv
<1>7. l \notin {"vfifo_centered", "vfifo_end"}
  BY DEF DmLabels
<1> QED BY <1>1, <1>2, <1>4, <1>5, <1>6, <1>7, GroupStep

LEMMA DqLoaded ==
    ASSUME NEW h, NEW g, AtWork(h, g), NEW f \in [Dqs -> 0 .. IO_IO_OUT1_DELAY_MAX]
    PROVE  LET k == scc_mgr_load_dq(scc_mgr_set_dq_out1_delay(h, f))
           IN  Works(h, k, g) /\ DqOut(k, g)
<1> DEFINE s == scc_mgr_set_dq_out1_delay(h, f)
           k == scc_mgr_load_dq(s)
<1>1. Works(h, k, g)
  BY SpreadDq
<1>2. AtWork(s, g) /\ g \in Groups
  BY DqSet DEF Works, AtWork
<1> HIDE DEF s
<1>3. s \in HwStates /\ s.group_counter = g
  BY <1>2 DEF AtWork
<1>4. s.chain \in Cells /\ s.chain.pin \in [Groups -> [Pins -> PinSetting]]
  BY <1>3 DEF HwStates, Cells
<1>5. k = [s EXCEPT !.chain.pin[g] = [p \in Pins |-> IF p \in Dqs THEN s.pin[p] ELSE @[p]]]
  BY <1>3 DEF scc_mgr_load_dq, PinEna
<1>6. k.pin = s.pin
  BY <1>3, <1>5 DEF HwStates
<1>7. k.chain.pin[g] = [p \in Pins |-> IF p \in Dqs THEN s.pin[p] ELSE s.chain.pin[g][p]]
  BY <1>2, <1>3, <1>4, <1>5 DEF HwStates, Cells
<1>8. \A dq \in Dqs : k.chain.pin[g][dq] = s.pin[dq]
  BY <1>7, OutPins
<1> HIDE DEF k
<1>9. DqOut(k, g)
  BY <1>6, <1>8 DEF DqOut
<1> QED BY <1>1, <1>9 DEF k, s

LEMMA DqIsSet ==
    ASSUME NEW h, AtWork(h, write_group), NEW e, EyesFit(e),
           e.start_dqs \in 0 .. IO_IO_OUT1_DELAY_MAX
    PROVE  LET k == SetDq(h, e)
           IN  /\ Works(h, k, write_group) /\ DqOut(k, write_group)
               /\ k.chain.pin[write_group][DqsPin].out1 = e.start_dqs
<1> DEFINE shift == [dq \in Dqs |-> ShiftDq(e, 0, IO_IO_OUT1_DELAY_MAX, dq)]
           dqs == scc_mgr_load_dq(scc_mgr_set_dq_out1_delay(h, shift))
           a == scc_mgr_apply_group_dqs_io_and_oct_out1(dqs, write_group, e.start_dqs)
           k == Upd(a)
<1>1. SetDq(h, e) = k
  BY DEF SetDq
<1>2. shift \in [Dqs -> 0 .. IO_IO_OUT1_DELAY_MAX]
  BY SccMgrAssumption, ShiftFits DEF SccMgrAssumption
<1> HIDE DEF shift
<1>3. Works(h, dqs, write_group) /\ DqOut(dqs, write_group)
  BY <1>2, DqLoaded
<1> HIDE DEF dqs
<1>4. AtWork(dqs, write_group)
  BY <1>3 DEF Works
<1>5. Works(dqs, a, write_group) /\ SameDq(dqs, a, write_group)
      /\ a.chain.pin[write_group][DqsPin].out1 = e.start_dqs
  BY <1>4, ApplyDqs, DqsApplied
<1> HIDE DEF a
<1>6. AtWork(a, write_group)
  BY <1>4, <1>5 DEF Works
<1>7. Works(a, k, write_group) /\ SameDq(a, k, write_group) /\ k.chain = a.chain
  BY <1>6, Update, Updated
<1> HIDE DEF k
<1>8. DqOut(a, write_group)
  BY <1>3, <1>5, DmEyeStays
<1>9. DqOut(k, write_group)
  BY <1>7, <1>8, DmEyeStays
<1>10. Works(h, k, write_group)
  BY <1>3, <1>5, <1>7, WorksOn
<1>11. k.chain.pin[write_group][DqsPin].out1 = e.start_dqs
  BY <1>5, <1>7
<1> QED BY <1>1, <1>9, <1>10, <1>11

\* The search for DM has found nothing yet.
LEMMA DmBegins ==
    ASSUME NEW s \in Nat, NEW m \in BOOLEAN
    PROVE  LET f == [NoEye EXCEPT !.start_dqs = s, !.margins = m,
                                  !.d = IO_IO_OUT1_DELAY_MAX,
                                  !.bgn_curr = WriteNone, !.end_curr = WriteNone,
                                  !.bgn_best = WriteNone, !.end_best = WriteNone]
           IN  /\ f \in EyeStates /\ f.start_dqs = s /\ f.d = IO_IO_OUT1_DELAY_MAX
               /\ \A h, g : DmEye(h, g, f)
<1> DEFINE f == [NoEye EXCEPT !.start_dqs = s, !.margins = m,
                              !.d = IO_IO_OUT1_DELAY_MAX,
                              !.bgn_curr = WriteNone, !.end_curr = WriteNone,
                              !.bgn_best = WriteNone, !.end_best = WriteNone]
<1>1. /\ IO_IO_OUT1_DELAY_MAX \in Nat /\ WriteNone \in Int
      /\ WriteNone \in -IO_IO_OUT1_DELAY_MAX .. WriteNone
  BY SccMgrAssumption DEF SccMgrAssumption, WriteNone
<1>2. NoEye \in EyeStates /\ NoEye.win_best = 0
  <2>1. NoEye.win_best = 0
    BY DEF NoEye
  <2> QED BY <2>1, NothingFits
<1>3. f \in EyeStates
  BY <1>1, <1>2 DEF EyeStates
<1>4. /\ f.start_dqs = s /\ f.d = IO_IO_OUT1_DELAY_MAX /\ f.bgn_curr = WriteNone
      /\ f.bgn_best = WriteNone /\ f.end_best = WriteNone /\ f.win_best = 0
  BY <1>2 DEF EyeStates
<1> HIDE DEF f
<1>5. \A h, g : DmEye(h, g, f)
  BY <1>1, <1>4 DEF DmEye
<1> QED BY <1>3, <1>4, <1>5 DEF f

LEMMA WriteRightDoneStays ==
    ASSUME CalInv, pc = "write_right", NEW h, Works(hw, h, write_group), NEW e, EyesFit(e),
           SameEye(eye, e), WriteRightDone(h, e)
    PROVE  CalInv' /\ Apart
<1> DEFINE S == MissingEdge(e, WriteNone)
           m == MarginsMet(e, 0, IO_IO_OUT1_DELAY_MAX)
           f == [NoEye EXCEPT !.start_dqs = e.start_dqs, !.margins = m,
                              !.d = IO_IO_OUT1_DELAY_MAX,
                              !.bgn_curr = WriteNone, !.end_curr = WriteNone,
                              !.bgn_best = WriteNone, !.end_best = WriteNone]
           k == SetDq(h, e)
<1>1. pc \in WriteLabels /\ pc \in GroupLabels /\ "dm_left" \in DmLabels
  BY DEF WriteLabels, DmLabels, GroupLabels
<1>2. WritesFail(h, S) \/ EyeStep("dm_left", k, f)
  BY DEF WriteRightDone
<1>3. e.start_dqs \in 0 .. IO_IO_OUT1_DELAY_MAX /\ e.start_dqs \in Nat
  BY <1>1, OutNow DEF SameEye
<1>4. m \in BOOLEAN
  BY MarginsAre
<1> HIDE DEF m
<1>5. f \in EyeStates /\ f.start_dqs = e.start_dqs /\ f.d = IO_IO_OUT1_DELAY_MAX
      /\ DmEye(k, write_group, f)
  BY <1>3, <1>4, DmBegins
<1>6. AtWork(h, write_group)
  BY <1>1, OutNow DEF Works
<1>7. /\ Works(h, k, write_group) /\ DqOut(k, write_group)
      /\ k.chain.pin[write_group][DqsPin].out1 = e.start_dqs
  BY <1>3, <1>6, DqIsSet
<1> HIDE DEF f, k
<1>8. Works(hw, k, write_group)
  BY <1>7, WorksOn
<1>9. CASE WritesFail(h, S)
  BY <1>1, <1>9, EdgeMissing, WritesFailStays
<1>10. CASE EyeStep("dm_left", k, f)
  <2>1. IO_IO_OUT1_DELAY_MAX \in Nat
    BY <1>1, OutNow
  <2> QED BY <1>1, <1>3, <1>5, <1>7, <1>8, <1>10, <2>1, DmStepStays
<1> QED BY <1>2, <1>9, <1>10

LEMMA StopsFits ==
    ASSUME NEW e, EyesFit(e)
    PROVE  EyesFit(StopsAt(e)) /\ SameEye(e, StopsAt(e))
<1> DEFINE r == [i \in Dqs |-> IF e.right[i] = WriteNone /\ e.left[i] # WriteNone
                              THEN -1 ELSE e.right[i]]
<1>1. e \in EyeStates /\ e.right \in [Dqs -> -Far .. Far] /\ e.left \in Edges
  BY DEF EyesFit, EyeStates, Edges
<1>2. r \in Edges
  BY <1>1, FarAway DEF Edges
<1>3. StopsAt(e) = e \/ StopsAt(e) = [e EXCEPT !.right = r]
  BY <1>1 DEF StopsAt, EyeStates
<1> HIDE DEF r
<1> DEFINE f == [e EXCEPT !.right = r]
<1>4. f \in EyeStates /\ f.right = r /\ f.left = e.left /\ SameEye(e, f)
  <2>1. r \in Edges \cup {<<>>}
    BY <1>2
  <2> QED BY <1>1, <2>1 DEF EyeStates, SameEye
<1>5. EyesFit(f)
  BY <1>1, <1>2, <1>4 DEF EyesFit
<1>6. SameEye(e, e)
  BY DEF SameEye
<1> QED BY <1>3, <1>4, <1>5, <1>6

LEMMA WriteRightStays == ASSUME CalInv, WriteRight PROVE CalInv' /\ Apart
<1> DEFINE k == Upd(scc_mgr_apply_group_dqs_io_and_oct_out1(hw, write_group,
                                                           eye.d + eye.start_dqs))
<1>1. pc = "write_right" /\ pc \in WriteLabels
  BY DEF WriteRight, WriteLabels
<1>2. Works(hw, k, write_group)
  BY <1>1, OutNow, ApplyDqs
<1>3. PICK t \in WriteTest(k, FALSE) :
          LET swept == RightSwept(eye, eye.d, t.bits, WriteNone)
          IN  IF AllSeen(swept, t.bits) THEN WriteRightDone(t.hw, StopsAt(eye))
              ELSE IF eye.d = IO_IO_OUT1_DELAY_MAX - eye.start_dqs THEN WriteRightDone(t.hw, swept)
              ELSE EyeStep("write_right", t.hw, swept)
  BY DEF WriteRight
<1> HIDE DEF k
<1>4. Works(hw, t.hw, write_group) /\ t.bits \in SUBSET Dqs
  BY <1>1, <1>2, <1>3, WriteTestedNow
<1> DEFINE swept == RightSwept(eye, eye.d, t.bits, WriteNone)
<1>5. EyesFit(swept) /\ SameEye(eye, swept) /\ swept.d = eye.d + 1
  <2>1. eye.d \in 0 .. Far - 1
    BY <1>1, OutNow, FarAway
  <2> QED BY <1>1, <1>4, <2>1, OutNow, Swept
<1>6. EyesFit(StopsAt(eye)) /\ SameEye(eye, StopsAt(eye))
  BY <1>1, OutNow, StopsFits
<1>7. \/ WriteRightDone(t.hw, StopsAt(eye)) \/ WriteRightDone(t.hw, swept)
      \/ /\ eye.d # IO_IO_OUT1_DELAY_MAX - eye.start_dqs
         /\ EyeStep("write_right", t.hw, swept)
  BY <1>3
<1> HIDE DEF swept
<1>8. CASE WriteRightDone(t.hw, StopsAt(eye))
  BY <1>1, <1>4, <1>6, <1>8, WriteRightDoneStays
<1>9. CASE WriteRightDone(t.hw, swept)
  BY <1>1, <1>4, <1>5, <1>9, WriteRightDoneStays
<1>10. CASE /\ eye.d # IO_IO_OUT1_DELAY_MAX - eye.start_dqs
            /\ EyeStep("write_right", t.hw, swept)
  <2>1. swept.d + swept.start_dqs <= IO_IO_OUT1_DELAY_MAX
    <3>1. eye.d + eye.start_dqs # IO_IO_OUT1_DELAY_MAX
      BY <1>1, <1>10, OutNow
    <3>2. swept.start_dqs = eye.start_dqs
      BY <1>5 DEF SameEye
    <3> QED BY <1>1, <1>5, <3>1, <3>2, OutNow
  <2> QED BY <1>1, <1>4, <1>5, <1>10, <2>1, WriteStepStays
<1> QED BY <1>7, <1>8, <1>9, <1>10

-----------------------------------------------------------------------------
(* The delay of DM. *)

\* A result is added to the window.
LEMMA WindowKeeps ==
    ASSUME NEW h, NEW g, NEW e \in EyeStates, DmEye(h, g, e), NEW works \in BOOLEAN,
           NEW x \in -IO_IO_OUT1_DELAY_MAX .. IO_IO_OUT1_DELAY_MAX,
           works = TRUE => DmPassed(h, g, e.start_dqs, x)
    PROVE  LET f == Window(e, x, works)
           IN  /\ f \in EyeStates /\ f.start_dqs = e.start_dqs /\ f.d = e.d
               /\ DmEye(h, g, f)
<1> DEFINE f == Window(e, x, works)
           bgn == IF e.bgn_curr = WriteNone THEN x ELSE e.bgn_curr
           size == x - bgn + 1
           none == [e EXCEPT !.bgn_curr = WriteNone, !.end_curr = WriteNone]
           on == [e EXCEPT !.bgn_curr = bgn, !.end_curr = x]
           best == [e EXCEPT !.bgn_curr = bgn, !.end_curr = x, !.win_best = size,
                             !.bgn_best = bgn, !.end_best = x]
<1>1. \/ f = none
      \/ works = TRUE /\ size > e.win_best /\ f = best
      \/ works = TRUE /\ f = on
  BY DEF Window
<1>2. /\ IO_IO_OUT1_DELAY_MAX \in Nat /\ WriteNone = IO_IO_OUT1_DELAY_MAX + 1
      /\ x \in Int /\ WriteNone \in Int /\ WriteNone \in -IO_IO_OUT1_DELAY_MAX .. WriteNone
      /\ x \in -IO_IO_OUT1_DELAY_MAX .. WriteNone
  BY SccMgrAssumption DEF SccMgrAssumption, WriteNone
<1>3. e.bgn_curr \in -IO_IO_OUT1_DELAY_MAX .. WriteNone /\ e.win_best \in Nat
  BY DEF DmEye
<1>4. /\ bgn \in Int /\ bgn \in -IO_IO_OUT1_DELAY_MAX .. IO_IO_OUT1_DELAY_MAX
      /\ bgn \in -IO_IO_OUT1_DELAY_MAX .. WriteNone
      /\ works = TRUE => DmPassed(h, g, e.start_dqs, bgn)
  BY <1>2, <1>3 DEF DmEye
<1> HIDE DEF bgn
<1>5. size \in Int /\ (size > e.win_best => size \in Nat /\ size > 0 /\ bgn <= x)
  BY <1>2, <1>3, <1>4
<1> HIDE DEF size, f
<1>6. CASE f = none
  <2>1. none \in EyeStates
    BY <1>2 DEF EyeStates
  <2>2. /\ none.bgn_curr = WriteNone /\ none.start_dqs = e.start_dqs /\ none.d = e.d
        /\ none.win_best = e.win_best /\ none.bgn_best = e.bgn_best
        /\ none.end_best = e.end_best
    BY DEF EyeStates
  <2> HIDE DEF none
  <2>3. DmEye(h, g, none)
    BY <1>2, <2>2 DEF DmEye
  <2> QED BY <1>6, <2>1, <2>2, <2>3 DEF f
<1>7. CASE works = TRUE /\ size > e.win_best /\ f = best
  <2>1. best \in EyeStates
    BY <1>2, <1>4, <1>5 DEF EyeStates
  <2>2. /\ best.bgn_curr = bgn /\ best.start_dqs = e.start_dqs /\ best.d = e.d
        /\ best.win_best = size /\ best.bgn_best = bgn /\ best.end_best = x
    BY DEF EyeStates
  <2> HIDE DEF best
  <2>3. x \in bgn .. IO_IO_OUT1_DELAY_MAX
    BY <1>2, <1>4, <1>5, <1>7
  <2>4. DmEye(h, g, best)
    BY <1>2, <1>4, <1>5, <1>7, <2>2, <2>3 DEF DmEye
  <2> QED BY <1>7, <2>1, <2>2, <2>4 DEF f
<1>8. CASE works = TRUE /\ f = on
  <2>1. on \in EyeStates
    BY <1>2, <1>4 DEF EyeStates
  <2>2. /\ on.bgn_curr = bgn /\ on.start_dqs = e.start_dqs /\ on.d = e.d
        /\ on.win_best = e.win_best /\ on.bgn_best = e.bgn_best
        /\ on.end_best = e.end_best
    BY DEF EyeStates
  <2> HIDE DEF on
  <2>3. DmEye(h, g, on)
    BY <1>4, <1>8, <2>2 DEF DmEye
  <2> QED BY <1>8, <2>1, <2>2, <2>3 DEF f
<1> QED BY <1>1, <1>6, <1>7, <1>8

\* The number of the delay changes.
LEMMA DelayTurns ==
    ASSUME NEW e \in EyeStates, NEW d \in Nat
    PROVE  LET f == [e EXCEPT !.d = d]
           IN  /\ f \in EyeStates /\ f.start_dqs = e.start_dqs /\ f.d = d
               /\ \A h, g : DmEye(h, g, e) => DmEye(h, g, f)
<1> DEFINE f == [e EXCEPT !.d = d]
<1>1. f \in EyeStates
  BY DEF EyeStates
<1>2. /\ f.start_dqs = e.start_dqs /\ f.d = d /\ f.bgn_curr = e.bgn_curr
      /\ f.win_best = e.win_best /\ f.bgn_best = e.bgn_best /\ f.end_best = e.end_best
  BY DEF EyeStates
<1> HIDE DEF f
<1>3. \A h, g : DmEye(h, g, e) => DmEye(h, g, f)
  BY <1>2 DEF DmEye
<1> QED BY <1>1, <1>2, <1>3 DEF f

LEMMA TurnKeeps ==
    ASSUME NEW h, NEW g, NEW e \in EyeStates, DmEye(h, g, e)
    PROVE  LET f == DmTurns(e)
           IN  f \in EyeStates /\ f.start_dqs = e.start_dqs /\ f.d = 0 /\ DmEye(h, g, f)
<1> DEFINE z == [e EXCEPT !.d = 0]
           n == [z EXCEPT !.bgn_curr = WriteNone, !.end_curr = WriteNone]
           f == DmTurns(e)
<1>1. z \in EyeStates /\ z.start_dqs = e.start_dqs /\ z.d = 0 /\ DmEye(h, g, z)
  BY DelayTurns
<1>2. f = z \/ f = n
  BY DEF DmTurns, EyeStates
<1>3. WriteNone \in Int /\ WriteNone \in -IO_IO_OUT1_DELAY_MAX .. WriteNone
  BY SccMgrAssumption DEF SccMgrAssumption, WriteNone
<1> HIDE DEF z, f
<1>4. n \in EyeStates
  BY <1>1, <1>3 DEF EyeStates
<1>5. /\ n.bgn_curr = WriteNone /\ n.start_dqs = z.start_dqs /\ n.d = z.d
      /\ n.win_best = z.win_best /\ n.bgn_best = z.bgn_best /\ n.end_best = z.end_best
  BY <1>1 DEF EyeStates
<1> HIDE DEF n
<1>6. DmEye(h, g, n)
  BY <1>1, <1>3, <1>5 DEF DmEye
<1> QED BY <1>1, <1>2, <1>4, <1>5, <1>6 DEF f

LEMMA MaskTestSame ==
    ASSUME NEW h, NEW g, AtWork(h, g), NEW nops,
           NEW t \in rw_mgr_mem_calibrate_write_test(h, g, nops, TRUE)
    PROVE  t.hw.pin = h.pin /\ t.hw.chain = h.chain /\ t.hw.board = h.board
<1>1. \A u \in BOOLEAN : \A s \in rw_mgr_mem_calibrate_write_test(h, g, nops, u) :
          s.hw.pin = h.pin /\ s.hw.chain = h.chain /\ s.hw.board = h.board
  BY WriteTestSame
<1>2. \A s \in rw_mgr_mem_calibrate_write_test(h, g, nops, TRUE) :
          s.hw.pin = h.pin /\ s.hw.chain = h.chain /\ s.hw.board = h.board
  BY <1>1
<1> QED BY <1>2

\* A test of DM in a state k that has the delay x.
LEMMA DmWindow ==
    ASSUME CalInv, pc \in DmLabels, NEW k, Works(hw, k, write_group), SameDq(hw, k, write_group),
           k.io = k.chain, NEW x \in -IO_IO_OUT1_DELAY_MAX .. IO_IO_OUT1_DELAY_MAX,
           k.chain.pin[write_group][DmPin].out1 - k.chain.pin[write_group][DqsPin].out1
               = -x - eye.start_dqs,
           x <= 0 => k.chain.pin[write_group][DqsPin].out1 = eye.start_dqs,
           NEW t \in WriteTest(k, TRUE)
    PROVE  LET f == Window(eye, x, t.bits = Dqs)
           IN  /\ f \in EyeStates /\ f.start_dqs = eye.start_dqs /\ f.d = eye.d
               /\ DmEye(t.hw, write_group, f) /\ DqOut(t.hw, write_group)
               /\ Works(hw, t.hw, write_group) /\ t.hw.chain = k.chain
<1> DEFINE works == t.bits = Dqs
           f == Window(eye, x, works)
<1>1. /\ eye \in EyeStates /\ eye.start_dqs \in Nat /\ AtWork(hw, write_group)
      /\ IO_IO_OUT1_DELAY_MAX \in Nat
  BY OutNow
<1>2. AtWork(k, write_group) /\ x \in Int
  BY <1>1 DEF Works
<1>3. DqOut(hw, write_group) /\ DmEye(hw, write_group, eye)
  BY DEF CalInv, DmInv
<1>4. DqOut(k, write_group) /\ DmEye(k, write_group, eye)
  BY <1>3, DmEyeStays
<1>5. works = TRUE => DmPassed(k, write_group, eye.start_dqs, x)
  BY <1>1, <1>2, <1>4, DmTested DEF WriteTest
<1>6. works \in BOOLEAN
  OBVIOUS
<1> HIDE DEF works
<1>7. /\ f \in EyeStates /\ f.start_dqs = eye.start_dqs /\ f.d = eye.d
      /\ DmEye(k, write_group, f)
  BY <1>1, <1>4, <1>5, <1>6, WindowKeeps
<1> HIDE DEF f
<1>8. SameDq(k, t.hw, write_group) /\ t.hw.chain = k.chain
  <2>1. t.hw.pin = k.pin /\ t.hw.chain = k.chain /\ t.hw.board = k.board
    BY <1>2, MaskTestSame DEF WriteTest
  <2> QED BY <2>1 DEF SameDq
<1>9. DmEye(t.hw, write_group, f) /\ DqOut(t.hw, write_group)
  BY <1>4, <1>7, <1>8, DmEyeStays
<1>10. Works(hw, t.hw, write_group)
  BY WriteTestedNow
<1> QED BY <1>7, <1>8, <1>9, <1>10 DEF f, works

LEMMA DmLeftStays == ASSUME CalInv, DmLeft PROVE CalInv' /\ Apart
<1> DEFINE g == write_group
           a == scc_mgr_apply_group_dm_out1_delay(hw, eye.d)
           k == Upd(a)
<1>1. pc = "dm_left" /\ pc \in DmLabels /\ "dm_right" \in DmLabels
  BY DEF DmLeft, DmLabels
<1>2. /\ eye \in EyeStates /\ eye.start_dqs \in 0 .. IO_IO_OUT1_DELAY_MAX
      /\ eye.d \in 0 .. IO_IO_OUT1_DELAY_MAX /\ IO_IO_OUT1_DELAY_MAX \in Nat
      /\ AtWork(hw, g)
  BY <1>1, OutNow
<1>3. /\ Works(hw, a, g) /\ SameDq(hw, a, g)
      /\ a.chain.pin[g][DqsPin] = hw.chain.pin[g][DqsPin]
      /\ a.chain.pin[g][DmPin].out1 = eye.d
  <2>1. Works(hw, a, g)
    BY <1>2, ApplyDq
  <2>2. /\ SameDq(hw, a, g) /\ a.chain.pin[g][DqsPin] = hw.chain.pin[g][DqsPin]
        /\ a.chain.pin[g][DmPin].out1 = eye.d
    BY <1>2, DmApplied
  <2> QED BY <2>1, <2>2
<1>4. PICK t \in WriteTest(k, TRUE) :
          LET e == Window(eye, -eye.d, t.bits = Dqs)
          IN  IF eye.d = 0
              THEN EyeStep("dm_right", scc_mgr_apply_group_dm_out1_delay(t.hw, 0), DmTurns(e))
              ELSE EyeStep("dm_left", t.hw, [e EXCEPT !.d = @ - 1])
  BY DEF DmLeft
<1> HIDE DEF a
<1>5. /\ Works(hw, k, g) /\ SameDq(hw, k, g) /\ k.io = k.chain /\ k.chain = a.chain
  <2>1. AtWork(a, g)
    BY <1>2, <1>3 DEF Works
  <2>2. Works(a, k, g) /\ SameDq(a, k, g) /\ k.io = k.chain /\ k.chain = a.chain
    BY <2>1, Update, Updated
  <2> QED BY <1>3, <2>2, WorksOn, SameDqOn
<1> HIDE DEF k
<1>6. k.chain.pin[g][DqsPin].out1 = eye.start_dqs /\ k.chain.pin[g][DmPin].out1 = eye.d
  BY <1>1, <1>3, <1>5 DEF CalInv, DmInv
<1> DEFINE e == Window(eye, -eye.d, t.bits = Dqs)
           x == -eye.d
<1>7. /\ x \in -IO_IO_OUT1_DELAY_MAX .. IO_IO_OUT1_DELAY_MAX
      /\ k.chain.pin[g][DmPin].out1 - k.chain.pin[g][DqsPin].out1 = -x - eye.start_dqs
  BY <1>2, <1>6
<1>8. /\ e \in EyeStates /\ e.start_dqs = eye.start_dqs /\ e.d = eye.d
      /\ DmEye(t.hw, g, e) /\ DqOut(t.hw, g)
      /\ Works(hw, t.hw, g) /\ t.hw.chain = k.chain
  BY <1>1, <1>5, <1>6, <1>7, DmWindow
<1> HIDE DEF e, x
<1>9. CASE eye.d = 0
  <2> DEFINE f == DmTurns(e)
             n == scc_mgr_apply_group_dm_out1_delay(t.hw, 0)
  <2>1. EyeStep("dm_right", n, f)
    BY <1>4, <1>9 DEF e
  <2>2. AtWork(t.hw, g)
    BY <1>2, <1>8 DEF Works
  <2>3. /\ Works(t.hw, n, g) /\ SameDq(t.hw, n, g) /\ n.chain.pin[g][DmPin].out1 = 0
    <3>1. Works(t.hw, n, g)
      BY ReservesAre, ApplyDq
    <3>2. SameDq(t.hw, n, g) /\ n.chain.pin[g][DmPin].out1 = 0
      BY <2>2, ReservesAre, DmApplied
    <3> QED BY <3>1, <3>2
  <2>4. f \in EyeStates /\ f.start_dqs = e.start_dqs /\ f.d = 0 /\ DmEye(t.hw, g, f)
    BY <1>8, TurnKeeps
  <2> HIDE DEF f, n
  <2>5. DmEye(n, g, f) /\ DqOut(n, g) /\ Works(hw, n, g)
    BY <1>8, <2>3, <2>4, DmEyeStays, WorksOn
  <2>6. f.d + f.start_dqs <= IO_IO_OUT1_DELAY_MAX /\ f.start_dqs <= IO_IO_OUT1_DELAY_MAX
    BY <1>2, <1>8, <2>4
  <2> QED BY <1>1, <2>1, <2>3, <2>4, <2>5, <2>6, DmStepStays
<1>10. CASE eye.d # 0
  <2> DEFINE n == eye.d - 1
             f == [e EXCEPT !.d = n]
  <2>1. EyeStep("dm_left", t.hw, f)
    <3>1. EyeStep("dm_left", t.hw, [e EXCEPT !.d = e.d - 1])
      BY <1>4, <1>10 DEF e
    <3> QED BY <1>8, <3>1
  <2>2. n \in Nat /\ n <= IO_IO_OUT1_DELAY_MAX
    BY <1>2, <1>10
  <2> HIDE DEF n
  <2>3. f \in EyeStates /\ f.start_dqs = e.start_dqs /\ f.d = n /\ DmEye(t.hw, g, f)
    BY <1>8, <2>2, DelayTurns
  <2> HIDE DEF f
  <2>4. t.hw.chain.pin[g][DqsPin].out1 = f.start_dqs
    BY <1>6, <1>8, <2>3
  <2>5. f.start_dqs <= IO_IO_OUT1_DELAY_MAX
    BY <1>2, <1>8, <2>3
  <2> QED BY <1>1, <1>8, <2>1, <2>2, <2>3, <2>4, <2>5, DmStepStays
<1> QED BY <1>9, <1>10

LEMMA Halves ==
    \A a \in Int : /\ Div(a, 2) \in Int
                   /\ \A n \in Int : 2 * n <= a => n <= Div(a, 2)
                   /\ \A n \in Nat : a <= 2 * n => Div(a, 2) <= n
<1> SUFFICES ASSUME NEW a \in Int
             PROVE  /\ Div(a, 2) \in Int
                    /\ \A n \in Int : 2 * n <= a => n <= Div(a, 2)
                    /\ \A n \in Nat : a <= 2 * n => Div(a, 2) <= n
  OBVIOUS
<1> DEFINE q == Div(a, 2)
<1>1. /\ q \in Int
      /\ a >= 0 => 0 <= q /\ a - 1 <= 2 * q /\ 2 * q <= a
      /\ a < 0 => q <= 0 /\ a <= 2 * q
  BY DivIs
<1> HIDE DEF q
<1>2. /\ \A n \in Int : 2 * n <= a => n <= q
      /\ \A n \in Nat : a <= 2 * n => q <= n
  BY <1>1
<1> QED BY <1>1, <1>2 DEF q

\* What DmDone sets the delay of DM to: a delay of the window if there is one.
LEMMA DmDelay ==
    ASSUME NEW h \in HwStates, NEW g \in Groups, NEW e \in EyeStates, DmEye(h, g, e),
           e.start_dqs \in Nat
    PROVE  LET left == -e.bgn_best
               mid == Div(left - e.end_best, 2)
               delay == IF mid < 0 THEN 0 ELSE mid
           IN  /\ delay \in 0 .. IO_IO_OUT1_DELAY_MAX
               /\ e.win_best > 0 /\ left - delay >= 0 =>
                      /\ InWindow(h.board.group[g].dm, delay - e.start_dqs)
                      /\ InWindow(h.board.group[g].dqss, e.start_dqs)
                      /\ \A dq \in Dqs : InWindow(h.board.group[g].write[dq],
                                                  h.pin[dq].out1 - e.start_dqs)
<1> DEFINE bgn == e.bgn_best
           end == e.end_best
           start == e.start_dqs
           a == (-bgn) - end
           mid == Div(a, 2)
           delay == IF mid < 0 THEN 0 ELSE mid
           dm == h.board.group[g].dm
<1>1. /\ IO_IO_OUT1_DELAY_MAX \in Nat /\ WriteNone = IO_IO_OUT1_DELAY_MAX + 1
      /\ start \in Nat /\ e.win_best \in Nat
  BY SccMgrAssumption DEF SccMgrAssumption, WriteNone, DmEye
<1>2. /\ bgn \in Int /\ end \in Int /\ bgn <= end /\ -IO_IO_OUT1_DELAY_MAX <= bgn
      /\ e.win_best > 0 => DmPassed(h, g, start, bgn) /\ DmPassed(h, g, start, end)
  BY <1>1 DEF DmEye
<1>3. dm[1] \in Int /\ dm[2] \in Int
  <2>1. h.board \in Boards
    BY DEF HwStates
  <2>2. dm \in Int \X Int
    BY <2>1, CalibrationAssumption
  <2> QED BY <2>2
<1> HIDE DEF bgn, end, start, dm
<1>4. a \in Int /\ 2 * (-end) <= a /\ a <= 2 * IO_IO_OUT1_DELAY_MAX /\ -end \in Int
  BY <1>1, <1>2
<1> HIDE DEF a
<1>5. mid \in Int /\ -end <= mid /\ mid <= IO_IO_OUT1_DELAY_MAX
  BY <1>1, <1>4, Halves
<1> HIDE DEF mid
<1>6. delay \in 0 .. IO_IO_OUT1_DELAY_MAX /\ -end <= delay /\ delay \in Nat
  BY <1>1, <1>2, <1>5
<1> HIDE DEF delay
<1>7. ASSUME e.win_best > 0, (-bgn) - delay >= 0
      PROVE  /\ InWindow(dm, delay - start)
             /\ InWindow(h.board.group[g].dqss, start)
             /\ \A dq \in Dqs : InWindow(h.board.group[g].write[dq], h.pin[dq].out1 - start)
  <2>1. bgn <= 0 /\ delay <= -bgn
    BY <1>2, <1>6, <1>7
  <2>2. /\ InWindow(h.board.group[g].dqss, start)
        /\ \A dq \in Dqs : InWindow(h.board.group[g].write[dq], h.pin[dq].out1 - start)
    BY <1>2, <1>7, <2>1 DEF DmPassed
  <2>3. InWindow(dm, -bgn - start) /\ InWindow(dm, -end - start)
    BY <1>2, <1>7 DEF DmPassed, dm
  <2>4. dm[1] <= -end - start /\ -bgn - start <= dm[2]
    BY <2>3 DEF InWindow
  <2>5. dm[1] <= delay - start /\ delay - start <= dm[2]
    BY <1>1, <1>2, <1>3, <1>6, <2>1, <2>4
  <2> QED BY <2>2, <2>5 DEF InWindow
<1> QED BY <1>6, <1>7 DEF delay, mid, a, bgn, end, start, dm

\* DQS and DM are set.
LEMMA DmIsSet ==
    ASSUME NEW h, NEW g, AtWork(h, g), DqOut(h, g), NEW start \in 0 .. IO_IO_OUT1_DELAY_MAX,
           NEW delay \in 0 .. IO_IO_OUT1_DELAY_MAX
    PROVE  LET dqs == scc_mgr_apply_group_dqs_io_and_oct_out1(h, g, start)
               set == Upd(scc_mgr_apply_group_dm_out1_delay(dqs, delay))
           IN  /\ Works(h, set, g) /\ SameDq(h, set, g) /\ OutLoaded(set, g)
               /\ set.io.pin[g][DqsPin].out1 = start /\ set.io.pin[g][DmPin].out1 = delay
               /\ set.io.dqs[g].oct_out1 = start
               /\ \A dq \in Dqs : set.io.pin[g][dq].out1 = set.pin[dq].out1
<1> DEFINE dqs == scc_mgr_apply_group_dqs_io_and_oct_out1(h, g, start)
           dm == scc_mgr_apply_group_dm_out1_delay(dqs, delay)
           set == Upd(dm)
<1>1. Works(h, dqs, g)
  BY ApplyDqs
<1>2. /\ SameDq(h, dqs, g) /\ dqs.dqs[g].oct_out1 = start
      /\ dqs.chain.dqs[g].oct_out1 = start /\ dqs.pin[DqsPin].out1 = start
      /\ dqs.chain.pin[g][DqsPin].out1 = start
  BY DqsApplied
<1> HIDE DEF dqs
<1>3. AtWork(dqs, g)
  BY <1>1 DEF Works
<1>4. Works(dqs, dm, g)
  BY ApplyDq
<1>5. /\ SameDq(dqs, dm, g) /\ dm.dqs = dqs.dqs /\ dm.chain.dqs = dqs.chain.dqs
      /\ dm.pin[DqsPin] = dqs.pin[DqsPin] /\ dm.pin[DmPin].out1 = delay
      /\ dm.chain.pin[g][DqsPin] = dqs.chain.pin[g][DqsPin]
      /\ dm.chain.pin[g][DmPin].out1 = delay
  BY <1>3, DmApplied
<1> HIDE DEF dm
<1>6. AtWork(dm, g)
  BY <1>3, <1>4 DEF Works
<1>7. /\ Works(dm, set, g) /\ SameDq(dm, set, g) /\ set.io = dm.chain
      /\ set.chain = dm.chain /\ set.pin = dm.pin /\ set.dqs = dm.dqs
  BY <1>6, Update, Updated
<1> HIDE DEF set
<1>8. Works(h, set, g) /\ SameDq(h, set, g)
  BY <1>1, <1>2, <1>4, <1>5, <1>7, WorksOn, SameDqOn
<1>9. DqOut(set, g)
  BY <1>8, DmEyeStays
<1>10. \A dq \in Dqs : set.io.pin[g][dq].out1 = set.pin[dq].out1
  BY <1>7, <1>9 DEF DqOut
<1>11. /\ set.io.pin[g][DqsPin].out1 = start /\ set.io.pin[g][DmPin].out1 = delay
       /\ set.io.dqs[g].oct_out1 = start /\ set.dqs[g].oct_out1 = start
       /\ set.pin[DqsPin].out1 = start /\ set.pin[DmPin].out1 = delay
       /\ set.chain = set.io
  BY <1>2, <1>5, <1>7
<1>12. OutLoaded(set, g)
  BY <1>10, <1>11, OutPins DEF OutLoaded
<1> QED BY <1>8, <1>10, <1>11, <1>12 DEF set, dm, dqs

LEMMA DmDoneStays ==
    ASSUME CalInv, pc \in DmLabels, NEW h, Works(hw, h, write_group), NEW e \in EyeStates,
           e.start_dqs \in 0 .. IO_IO_OUT1_DELAY_MAX, DmEye(h, write_group, e),
           DqOut(h, write_group), DmDone(h, e)
    PROVE  CalInv' /\ Apart
<1> DEFINE g == write_group
           left == -e.bgn_best
           mid == Div(left - e.end_best, 2)
           delay == IF mid < 0 THEN 0 ELSE mid
           dqs == scc_mgr_apply_group_dqs_io_and_oct_out1(h, g, e.start_dqs)
           set == Upd(scc_mgr_apply_group_dm_out1_delay(dqs, delay))
           r == reg_file_set_group(
                    reg_file_set_sub_stage(
                        reg_file_set_stage(regs, "VFIFO_AFTER_WRITES"), "VFIFO_CENTER"), g)
           ok == e.margins /\ e.win_best > 0 /\ left - delay >= 0
<1>1. \/ /\ e.win_best > 0 /\ left - delay >= 0
         /\ CenterBegins(set, FALSE) /\ regs' = r /\ UNCHANGED <<gbl, write_group, fn, en>>
      \/ WritesFail(set, {})
  BY DEF DmDone
<1>2. AtWork(h, g) /\ h \in HwStates /\ g \in Groups /\ pc \in GroupLabels /\ e.start_dqs \in Nat
  BY OutNow DEF Works, AtWork, GroupLabels
<1>3. /\ delay \in 0 .. IO_IO_OUT1_DELAY_MAX
      /\ e.win_best > 0 /\ left - delay >= 0 =>
             /\ InWindow(h.board.group[g].dm, delay - e.start_dqs)
             /\ InWindow(h.board.group[g].dqss, e.start_dqs)
             /\ \A dq \in Dqs : InWindow(h.board.group[g].write[dq],
                                         h.pin[dq].out1 - e.start_dqs)
  BY <1>2, DmDelay
<1> HIDE DEF delay
<1>4. /\ Works(h, set, g) /\ SameDq(h, set, g) /\ OutLoaded(set, g)
      /\ set.io.pin[g][DqsPin].out1 = e.start_dqs /\ set.io.pin[g][DmPin].out1 = delay
      /\ set.io.dqs[g].oct_out1 = e.start_dqs
      /\ \A dq \in Dqs : set.io.pin[g][dq].out1 = set.pin[dq].out1
  BY <1>2, <1>3, DmIsSet
<1> HIDE DEF set
<1>5. Works(hw, set, g)
  BY <1>4, WorksOn
<1>6. CASE WritesFail(set, {})
  BY <1>2, <1>5, <1>6, WritesFailStays
<1>7. CASE /\ e.win_best > 0 /\ left - delay >= 0
           /\ CenterBegins(set, FALSE) /\ regs' = r /\ UNCHANGED <<gbl, write_group, fn, en>>
  <2>1. WritesWork(set, g)
    BY <1>3, <1>4, <1>7 DEF WritesWork, DqssMet, WriteEye, SameDq
  <2>2. AtWork(set, g) /\ set \in HwStates
    BY <1>2, <1>4 DEF Works, AtWork
  <2>3. /\ pc' = "read_left" /\ hw' = set /\ eye' \in EyeStates
        /\ eye'.left \in Edges /\ eye'.right \in Edges /\ eye'.d = 0
        /\ eye'.start_dqs <= IO_DQS_IN_DELAY_MAX /\ eye'.use_read_test = FALSE
    BY <1>7, <2>2, CenterBegun
  <2>4. regs' \in RegStates /\ regs'.cal_status = regs.cal_status
    <3>1. "VFIFO_AFTER_WRITES" \in Stages /\ "VFIFO_CENTER" \in Substages
      BY DEF Stages, Substages
    <3> QED BY <1>2, <1>7, <3>1, LocalsNow, StageEntered
  <2> HIDE DEF r
  <2>5. Shapes'
    BY <1>7, <2>2, <2>3, <2>4, LocalsNow DEF Shapes
  <2>6. CenterInv'
    BY <1>4, <1>7, <2>1, <2>3 DEF CenterInv
  <2>7. EnInv' /\ DmInv'
    BY <2>3 DEF EnInv, DmInv, DmLabels
  <2>8. EyeInv'
    <3>1. 0 <= IO_IO_IN_DELAY_MAX
      BY SccMgrAssumption DEF SccMgrAssumption
    <3> QED BY <2>3, <3>1 DEF EyeInv, ReadLabels, WriteLabels
  <2>9. pc' \in GroupLabels /\ pc' \notin {"vfifo_centered", "vfifo_end"}
    BY <2>3 DEF GroupLabels, ReadLabels
  <2> QED BY <1>2, <1>5, <1>7, <2>3, <2>4, <2>5, <2>6, <2>7, <2>8, <2>9, GroupStep
<1> QED BY <1>1, <1>6, <1>7

LEMMA DmRightStays == ASSUME CalInv, DmRight PROVE CalInv' /\ Apart
<1> DEFINE g == write_group
           x == eye.d
           y == eye.d + eye.start_dqs
           a == scc_mgr_apply_group_dqs_io_and_oct_out1(hw, g, y)
           k == Upd(a)
<1>1. pc = "dm_right" /\ pc \in DmLabels
  BY DEF DmRight, DmLabels
<1>2. /\ eye \in EyeStates /\ eye.start_dqs \in 0 .. IO_IO_OUT1_DELAY_MAX
      /\ y \in 0 .. IO_IO_OUT1_DELAY_MAX /\ x \in 0 .. IO_IO_OUT1_DELAY_MAX
      /\ IO_IO_OUT1_DELAY_MAX \in Nat /\ AtWork(hw, g)
  BY <1>1, OutNow
<1>3. PICK t \in WriteTest(k, TRUE) :
          LET e == Window(eye, eye.d, t.bits = Dqs)
              rest == IO_IO_OUT1_DELAY_MAX - eye.start_dqs - eye.d
          IN  IF rest = 0 \/ (t.bits # Dqs /\ e.win_best - 1 > rest)
              THEN DmDone(t.hw, e)
              ELSE EyeStep("dm_right", t.hw, [e EXCEPT !.d = @ + 1])
  BY DEF DmRight
<1> DEFINE e == Window(eye, eye.d, t.bits = Dqs)
           n == eye.d + 1
<1>4. \/ DmDone(t.hw, e)
      \/ /\ IO_IO_OUT1_DELAY_MAX - eye.start_dqs - eye.d # 0
         /\ EyeStep("dm_right", t.hw, [e EXCEPT !.d = e.d + 1])
  BY <1>3
<1> HIDE DEF y
<1>5. /\ Works(hw, a, g) /\ SameDq(hw, a, g)
      /\ a.chain.pin[g][DmPin] = hw.chain.pin[g][DmPin]
      /\ a.chain.pin[g][DqsPin].out1 = y
  <2>1. Works(hw, a, g)
    BY <1>2, ApplyDqs
  <2>2. /\ SameDq(hw, a, g) /\ a.chain.pin[g][DmPin] = hw.chain.pin[g][DmPin]
        /\ a.chain.pin[g][DqsPin].out1 = y
    BY <1>2, DqsApplied
  <2> QED BY <2>1, <2>2
<1> HIDE DEF a
<1>6. /\ Works(hw, k, g) /\ SameDq(hw, k, g) /\ k.io = k.chain /\ k.chain = a.chain
  <2>1. AtWork(a, g)
    BY <1>2, <1>5 DEF Works
  <2>2. Works(a, k, g) /\ SameDq(a, k, g) /\ k.io = k.chain /\ k.chain = a.chain
    BY <2>1, Update, Updated
  <2> QED BY <1>5, <2>2, WorksOn, SameDqOn
<1> HIDE DEF k
<1>7. k.chain.pin[g][DqsPin].out1 = y /\ k.chain.pin[g][DmPin].out1 = 0
  BY <1>1, <1>5, <1>6 DEF CalInv, DmInv
<1>8. /\ x \in -IO_IO_OUT1_DELAY_MAX .. IO_IO_OUT1_DELAY_MAX
      /\ k.chain.pin[g][DmPin].out1 - k.chain.pin[g][DqsPin].out1 = -x - eye.start_dqs
      /\ x <= 0 => k.chain.pin[g][DqsPin].out1 = eye.start_dqs
  BY <1>2, <1>7 DEF y
<1>9. /\ e \in EyeStates /\ e.start_dqs = eye.start_dqs /\ e.d = eye.d
      /\ DmEye(t.hw, g, e) /\ DqOut(t.hw, g)
      /\ Works(hw, t.hw, g) /\ t.hw.chain = k.chain
  BY <1>1, <1>3, <1>6, <1>8, DmWindow
<1> HIDE DEF e
<1>10. CASE DmDone(t.hw, e)
  BY <1>1, <1>2, <1>9, <1>10, DmDoneStays
<1>11. CASE /\ IO_IO_OUT1_DELAY_MAX - eye.start_dqs - eye.d # 0
            /\ EyeStep("dm_right", t.hw, [e EXCEPT !.d = e.d + 1])
  <2> DEFINE f == [e EXCEPT !.d = n]
  <2>1. EyeStep("dm_right", t.hw, f)
    BY <1>9, <1>11
  <2>2. n \in Nat /\ n + eye.start_dqs <= IO_IO_OUT1_DELAY_MAX
    BY <1>2, <1>11 DEF y
  <2> HIDE DEF n
  <2>3. f \in EyeStates /\ f.start_dqs = e.start_dqs /\ f.d = n /\ DmEye(t.hw, g, f)
    BY <1>9, <2>2, DelayTurns
  <2> HIDE DEF f
  <2>4. t.hw.chain.pin[g][DmPin].out1 = 0
    BY <1>7, <1>9
  <2>5. f.start_dqs <= IO_IO_OUT1_DELAY_MAX /\ f.d + f.start_dqs <= IO_IO_OUT1_DELAY_MAX
    BY <1>2, <1>9, <2>2, <2>3
  <2> QED BY <1>1, <1>9, <2>1, <2>3, <2>4, <2>5, DmStepStays
<1> QED BY <1>4, <1>10, <1>11

LEMMA WriteStays == ASSUME CalInv, WriteCenter PROVE CalInv' /\ Apart
BY WriteLeftStays, WriteRightStays, DmLeftStays, DmRightStays DEF WriteCenter

-----------------------------------------------------------------------------
(* The theorems. *)

\* Every step keeps the invariant, and moves no group but its own once the
\* groups are begun.
LEMMA NextStays ==
    ASSUME CalInv, [Next]_vars
    PROVE  CalInv' /\ (pc \notin {"sdram_calibration", "mem_calibrate"} => Apart)
<1>1. CASE SdramCalibration
  BY <1>1, SdramStays DEF SdramCalibration
<1>2. CASE MemCalibrate
  BY <1>2, MemStays DEF MemCalibrate
<1>3. CASE GuaranteedRead
  BY <1>3, GuaranteedStays
<1>4. CASE FindDqsEnPhase
  BY <1>4, FindStays
<1>5. CASE VfifoCenterBegins
  BY <1>5, CenterBeginsStays
<1>6. CASE ReadCenter
  BY <1>6, ReadStays
<1>7. CASE VfifoCentered
  BY <1>7, CenteredStays
<1>8. CASE VfifoRetry
  BY <1>8, RetryStays
<1>9. CASE WriteCenter
  BY <1>9, WriteStays
<1>10. CASE VfifoEnd
  BY <1>10, EndStays
<1>11. CASE Lfifo
  BY <1>11, LfifoStays
<1>12. CASE RunMemCalibrate
  BY <1>12, RunStays
<1>13. CASE Returned \/ UNCHANGED vars
  <2>1. UNCHANGED vars
    BY <1>13 DEF Returned
  <2>2. Apart
    BY <2>1 DEF Apart, vars
  <2>3. CalInv'
    BY <2>1 DEF CalInv, vars, Shapes, MemoryInv, GroupsInv, CenterInv, EnInv, EyeInv, DmInv,
                LatencyInv, OutcomeInv, HandedOver
  <2> QED BY <2>2, <2>3
<1> QED BY <1>1, <1>2, <1>3, <1>4, <1>5, <1>6, <1>7, <1>8, <1>9, <1>10, <1>11, <1>12, <1>13
        DEF Next

LEMMA CalInvariant == Spec => []CalInv
<1>1. CalInv /\ [Next]_vars => CalInv'
  BY NextStays
<1> QED BY InitInv, <1>1, PTL DEF Spec

\* The commands keep to the order of the memory, and wait out its reset and its
\* ZQ calibration, from power up to the hand over (sequencer.pre.c:2009, 3082,
\* 8302), whatever its board.  The recovery times of mode registers, left to
\* the processor's own cycles, are not part of it.
THEOREM CalMemoryRules == Spec => []MemoryRules
BY CalInvariant, InvRules, PTL

\* The calibration of a group leaves the delays and the VFIFO of every other
\* group alone, though all pins share their registers and SCC_MGR_UPD loads
\* all i/o cells.
THEOREM CalGroupsApart == Spec => GroupsApart
<1>1. CalInv /\ [Next]_vars =>
          [pc \notin {"sdram_calibration", "mem_calibrate"} =>
               \A g \in Groups \ {write_group'} :
                   /\ hw'.io.dqs[g] = hw.io.dqs[g] /\ hw'.io.pin[g] = hw.io.pin[g]
                   /\ hw'.vfifo[g] = hw.vfifo[g]]_vars
  BY NextStays DEF Apart
<1> QED BY CalInvariant, <1>1, PTL DEF Spec, GroupsApart

\* Every delay, position and latency that is loaded fits its register, for
\* boards whose reads PHY_RLAT can wait for.
THEOREM CalTypeCorrect == LatenciesFit => (Spec => []TypeOK)
<1> SUFFICES ASSUME LatenciesFit PROVE Spec => []TypeOK
  OBVIOUS
<1>1. CalInv => TypeOK
  BY InvTypes
<1> QED BY CalInvariant, <1>1, PTL

\* When the program reports success every group works at the delays that the
\* i/o cells hold then, and the memory is the controller's.
THEOREM CalSuccessWorks == LatenciesFit => (Spec => []SuccessWorks)
<1> SUFFICES ASSUME LatenciesFit PROVE Spec => []SuccessWorks
  OBVIOUS
<1>1. CalInv => SuccessWorks
  BY InvSuccess
<1> QED BY CalInvariant, <1>1, PTL
=============================================================================
