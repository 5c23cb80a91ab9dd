----------------------------- MODULE NetdmaIrq -----------------------------
(***************************************************************************)
(* Interrupts of the netdma core: the control and status registers, the    *)
(* irq strobes and the pending bits of dispatcher/netdma_csr.sv with       *)
(* LATCH_IRQ_STATUS_ENABLE = 0 (as netdma_wrapper.sv instantiates it), and *)
(* the report FIFO whose head gates the receive irq.                       *)
(*                                                                         *)
(* The two DMA directions appear as what they send here: reports.  The     *)
(* network driver is not in the repository; it is the "napi technique" of  *)
(* doc/NetdmaIpCoreUG:388 written down: on an irq mask it, poll until the  *)
(* status register shows nothing more, unmask it.  One clock edge is one   *)
(* step, with at most one access of the driver in it.                      *)
(***************************************************************************)
EXTENDS Integers, ScFifo

CONSTANTS RX_RESPONSE_FIFO_DEPTH,
          SEQUENCE_MOD,       \* range of tx sequence numbers
          DISABLE_IRQ         \* disable_*_irq flags the driver uses

ASSUME IrqAssumption ==
    /\ RX_RESPONSE_FIFO_DEPTH \in Nat \ {0}
    /\ SEQUENCE_MOD \in Nat \ {0, 1}
    /\ DISABLE_IRQ \subseteq BOOLEAN

VARIABLES
    tx_irq_enable_bit, rx_irq_enable_bit,   \* csr.ctrl
    reset,                                  \* csr.ctrl.reset
    tx_irq_pending, rx_irq_pending,         \* csr.status from here on
    disable_tx_irq,
    tx_last_seq_number,
    rx_report_buf_empty,
    reportFifo,                             \* disable_irq of each rx report
    stale_disable_irq,                      \* the same of q while it is empty
    tx_report,      \* this cycle's tx report: none, or its disable_irq flag
    tx_event_r,                             \* tx_event_posedge_detector
    rx_event_r,                             \* rx_event_posedge_detector
    txMode, rxMode,                         \* where the driver is
    txIrqSeen, rxIrqSeen,                   \* the interrupt controller
    txSeen                                  \* last sequence number it read

ctrlVars   == <<tx_irq_enable_bit, rx_irq_enable_bit, reset>>
statusVars == <<tx_irq_pending, rx_irq_pending, disable_tx_irq,
                tx_last_seq_number, rx_report_buf_empty>>
fifoVars   == <<reportFifo, stale_disable_irq>>
eventVars  == <<tx_report, tx_event_r, rx_event_r>>
driverVars == <<txMode, rxMode, txIrqSeen, rxIrqSeen, txSeen>>
irqVars == <<ctrlVars, statusVars, fifoVars, eventVars, driverVars>>

TxReports == {[is_report |-> FALSE, disable_irq |-> FALSE]}
                 \cup [is_report : {TRUE}, disable_irq : DISABLE_IRQ]

NoReport == [is_report |-> FALSE, disable_irq |-> FALSE]

-----------------------------------------------------------------------------
(* The wires of netdma_csr. *)

rx_report_available == ~FifoEmpty(reportFifo)

tx_irq_event == tx_report.is_report /\ ~tx_event_r
rx_irq_event == rx_report_available /\ ~rx_event_r

\* rx_report is the output of the FIFO, valid or not.
rx_disable_irq == IF rx_report_available THEN Head(reportFifo)
                                         ELSE stale_disable_irq

tx_irq_enable == tx_irq_enable_bit /\ ~disable_tx_irq
rx_irq_enable == rx_irq_enable_bit /\ ~rx_disable_irq

\* Mutant: the pending bit is kept and never looked at.
rx_irqEventOnly == rx_irq_enable /\ rx_irq_event

tx_irq == tx_irq_enable /\ (tx_irq_event \/ tx_irq_pending)
rx_irq == rx_irq_enable /\ (rx_irq_event \/ rx_irq_pending)

-----------------------------------------------------------------------------
(* Register updates of one clock edge. *)

\* Mutant: an irq that comes while it is disabled is forgotten.
StatusForgets ==
    /\ tx_irq_pending' = FALSE
    /\ rx_irq_pending' = FALSE
    /\ rx_report_buf_empty' = ~rx_report_available
    /\ IF tx_report.is_report
       THEN /\ disable_tx_irq' = tx_report.disable_irq
            /\ tx_last_seq_number' = (tx_last_seq_number + 1) % SEQUENCE_MOD
       ELSE UNCHANGED <<disable_tx_irq, tx_last_seq_number>>

\* The clear_*_irq_pending bits of the control register stay 0: the driver
\* has no use for them.  A report carries the next sequence number.
Status ==
    /\ tx_irq_pending' = (~tx_irq_enable /\ (tx_irq_event \/ tx_irq_pending))
    /\ rx_irq_pending' = (~rx_irq_enable /\ (rx_irq_event \/ rx_irq_pending))
    /\ rx_report_buf_empty' = ~rx_report_available
    /\ IF tx_report.is_report
       THEN /\ disable_tx_irq' = tx_report.disable_irq
            /\ tx_last_seq_number' = (tx_last_seq_number + 1) % SEQUENCE_MOD
       ELSE UNCHANGED <<disable_tx_irq, tx_last_seq_number>>

\* posedge_detector, with its reset input left open
Events == /\ tx_event_r' = tx_report.is_report
          /\ rx_event_r' = rx_report_available

\* The receive direction reports at any time but, as NetdmaRx shows, never
\* into a full FIFO.  What q shows after the last report was read is unknown.
ReportFifo(rdreq) ==
    /\ \E report \in {<<>>} \cup {<<d>> : d \in DISABLE_IRQ} :
          /\ FifoFull(reportFifo, RX_RESPONSE_FIFO_DEPTH) => report = <<>>
          /\ reportFifo' = FifoEdge(reportFifo, RX_RESPONSE_FIFO_DEPTH,
                                    report, rdreq)
    /\ stale_disable_irq' \in DISABLE_IRQ

\* The transmit direction reports at any time, but not in two cycles in a row
\* (DONE_S lies between) and not more than the driver has sent: one sequence
\* number less than there are.
TxReport ==
    /\ tx_report' \in TxReports
    /\ tx_report'.is_report =>
          /\ ~tx_report.is_report
          /\ (tx_last_seq_number + 1) % SEQUENCE_MOD # txSeen

\* The interrupt controller remembers a strobe until the handler is entered.
Irqs(txTaken, rxTaken) ==
    /\ txIrqSeen' = (tx_irq \/ (txIrqSeen /\ ~txTaken))
    /\ rxIrqSeen' = (rx_irq \/ (rxIrqSeen /\ ~rxTaken))

Clock(rdreq, txTaken, rxTaken) ==
    /\ ~reset
    /\ Status /\ Events /\ ReportFifo(rdreq) /\ TxReport
    /\ Irqs(txTaken, rxTaken)
    /\ UNCHANGED reset

-----------------------------------------------------------------------------
(* The driver, one bus access at a time. *)

\* The answer of a read takes the driver at least one clock more.
Tick ==
    /\ Clock(FALSE, FALSE, FALSE)
    /\ rxMode' = IF rxMode = "popped" THEN "poll" ELSE rxMode
    /\ UNCHANGED <<tx_irq_enable_bit, rx_irq_enable_bit, txMode, txSeen>>

RxIrqHandler ==
    /\ rxMode = "idle" /\ rxIrqSeen
    /\ Clock(FALSE, FALSE, TRUE)
    /\ rx_irq_enable_bit' = FALSE
    /\ rxMode' = "poll"
    /\ UNCHANGED <<tx_irq_enable_bit, txMode, txSeen>>

RxPollStatus ==
    /\ rxMode = "poll"
    /\ Clock(FALSE, FALSE, FALSE)
    /\ rxMode' = IF rx_report_buf_empty THEN "leave" ELSE "read"
    /\ UNCHANGED <<tx_irq_enable_bit, rx_irq_enable_bit, txMode, txSeen>>

\* Mutant: the next poll follows at once.
RxReadReportAtOnce ==
    /\ rxMode = "read"
    /\ Clock(TRUE, FALSE, FALSE)
    /\ rxMode' = "poll"
    /\ UNCHANGED <<tx_irq_enable_bit, rx_irq_enable_bit, txMode, txSeen>>

RxReadReport ==
    /\ rxMode = "read"
    /\ Clock(TRUE, FALSE, FALSE)
    /\ rxMode' = "popped"
    /\ UNCHANGED <<tx_irq_enable_bit, rx_irq_enable_bit, txMode, txSeen>>

RxLeave ==
    /\ rxMode = "leave"
    /\ Clock(FALSE, FALSE, FALSE)
    /\ rx_irq_enable_bit' = TRUE
    /\ rxMode' = "idle"
    /\ UNCHANGED <<tx_irq_enable_bit, txMode, txSeen>>

TxIrqHandler ==
    /\ txMode = "idle" /\ txIrqSeen
    /\ Clock(FALSE, TRUE, FALSE)
    /\ tx_irq_enable_bit' = FALSE
    /\ txMode' = "poll"
    /\ UNCHANGED <<rx_irq_enable_bit, rxMode, txSeen>>

TxPollStatus ==
    /\ txMode = "poll"
    /\ Clock(FALSE, FALSE, FALSE)
    /\ txSeen' = tx_last_seq_number
    /\ txMode' = IF txSeen = tx_last_seq_number THEN "leave" ELSE "poll"
    /\ UNCHANGED <<tx_irq_enable_bit, rx_irq_enable_bit, rxMode>>

TxLeave ==
    /\ txMode = "leave"
    /\ Clock(FALSE, FALSE, FALSE)
    /\ tx_irq_enable_bit' = TRUE
    /\ txMode' = "idle"
    /\ UNCHANGED <<rx_irq_enable_bit, rxMode, txSeen>>

\* The driver starts over: it writes 0x1 to the control register, and with
\* that resets the core and masks both irqs, then 0x6 (doc/REGMAP).
HostReset ==
    /\ ~reset
    /\ reset' = TRUE
    /\ tx_irq_enable_bit' = FALSE /\ rx_irq_enable_bit' = FALSE
    /\ tx_irq_pending' = FALSE /\ rx_irq_pending' = FALSE
    /\ disable_tx_irq' = FALSE /\ tx_last_seq_number' = 0
    /\ rx_report_buf_empty' = FALSE
    /\ reportFifo' = <<>> /\ stale_disable_irq' \in DISABLE_IRQ
    /\ tx_report' = NoReport
    /\ Events
    /\ txMode' = "idle" /\ rxMode' = "idle" /\ txSeen' = 0
    /\ Irqs(FALSE, FALSE)

\* With no report in sight the edge detectors settle while reset is set.
HostEnable ==
    /\ reset
    /\ reset' = FALSE
    /\ tx_irq_enable_bit' = TRUE /\ rx_irq_enable_bit' = TRUE
    /\ Events
    /\ UNCHANGED <<statusVars, fifoVars, tx_report, driverVars>>

IrqInit ==
    /\ reset = TRUE
    /\ tx_irq_enable_bit = FALSE /\ rx_irq_enable_bit = FALSE
    /\ tx_irq_pending = FALSE /\ rx_irq_pending = FALSE
    /\ disable_tx_irq = FALSE /\ tx_last_seq_number = 0
    /\ rx_report_buf_empty = FALSE
    /\ reportFifo = <<>> /\ stale_disable_irq \in DISABLE_IRQ
    /\ tx_report = NoReport /\ tx_event_r = FALSE /\ rx_event_r = FALSE
    /\ txMode = "idle" /\ rxMode = "idle"
    /\ txIrqSeen = FALSE /\ rxIrqSeen = FALSE
    /\ txSeen = 0

IrqNext == \/ Tick
           \/ RxIrqHandler \/ RxPollStatus \/ RxReadReport \/ RxLeave
           \/ TxIrqHandler \/ TxPollStatus \/ TxLeave
           \/ HostReset \/ HostEnable

\* The clock runs, and the processor gets on with the driver.
Fairness ==
    /\ WF_irqVars(Tick)
    /\ WF_irqVars(RxIrqHandler) /\ WF_irqVars(RxPollStatus)
    /\ WF_irqVars(RxReadReport) /\ WF_irqVars(RxLeave)
    /\ WF_irqVars(TxIrqHandler) /\ WF_irqVars(TxPollStatus)
    /\ WF_irqVars(TxLeave) /\ WF_irqVars(HostEnable)

IrqSpec == IrqInit /\ [][IrqNext]_irqVars
FairIrqSpec == IrqSpec /\ Fairness

-----------------------------------------------------------------------------
(* Properties. *)

\* An irq is raised only when the FIFO goes from empty to not empty, so the
\* driver must never sleep with a report in the FIFO and nothing to wake it:
\* the irq is being raised, was raised, or is pending behind the mask.
RxNeverForgotten ==
    rxMode = "idle" /\ ~reset /\ rx_report_available =>
        rxIrqSeen \/ rx_irq_event \/ rx_irq_pending

\* The same for transmitted packets the driver has not heard of.
TxNeverForgotten ==
    txMode = "idle" /\ ~reset /\ tx_last_seq_number # txSeen =>
        txIrqSeen \/ tx_irq_pending

\* Neither direction is forgotten by irq and driver.
NeverForgotten == RxNeverForgotten /\ TxNeverForgotten

\* The status bit rx_report_buf_empty is a clock cycle old when it is read;
\* the driver still never pops a report that is not there.
NoEmptyRead == rxMode = "read" => rx_report_available

\* Every report is read in the end.
RxReportsAreRead == []<>(~rx_report_available \/ rxMode = "read")

\* Every transmitted packet is noticed in the end.
TxDonesAreSeen == []<>(tx_last_seq_number = txSeen \/ txMode = "poll")

\* In the end the driver comes to everything that the irqs are about.
IrqsAreServed == RxReportsAreRead /\ TxDonesAreSeen
=============================================================================
