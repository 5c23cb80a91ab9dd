# A TLA+ verification project for ethond

ethond is the FPGA side of a network tap built on an Altera SoC: two gigabit
ports, a parser and classifier of their traffic, and a DMA core (`netdma`) that
carries packets between the streaming buses of the FPGA and the memory of the
ARM processor, where a Linux driver uses it as a network card.  Beside the
SystemVerilog and Verilog of `src/fpga`, two C programs are modelled: `reg16`,
which works the registers from Linux, and the program of the sequencer that
calibrates the SDRAM interface before Linux starts.

Contents: [inventory](#inventory), [how hardware is modelled](#how-hardware-is-modelled),
[modules](#modules), [runs](#runs), [proofs](#proofs),
[disagreements](#disagreements-between-code-and-documents), [limits](#limits),
[plan](#plan).

## Inventory

The table names the state each part keeps and what makes it correct.

| Part (under `src/fpga`) | State | Operations | Correct when |
| --- | --- | --- | --- |
| netdma receive: `netdma_writemaster.sv`, `netdma_st2mm_adapter.sv` | `state`, `address_reg`, `bytecount_reg` | load a descriptor, wait for startofpacket, write a data unit, stop at the end, the limit or an error | each packet is stored from the start of one buffer, in order, within the limit, and reported once with its length |
| netdma transmit: `netdma_readmaster.sv`, `netdma_mm2st_adapter.sv`, `amm_aligner.sv` | `address_reg`, `bytecount_reg1/2`, `sop_trigger`, FIFO, aligner state and last word | request words ahead, receive answers, shift them, frame them | the stream carries exactly the bytes of the buffer; no answer is lost or taken for another packet |
| netdma control: `netdma_control_fsm.sv`, `netdma_control.sv`, `posedge_detector.sv` | `flow_control`, `run_r` | start, report and retire a descriptor | control and master agree on which descriptor is in progress |
| descriptor buffer: `netdma_descriptor_buffer.sv` | `state`, `address_field`, FIFO | two writes make a descriptor | it is a queue of the descriptors the driver wrote |
| registers and irqs: `netdma_csr.sv` | control and status bits, report FIFO, edge detectors | read, write, pop a report, raise an irq | no report or completion is forgotten by a driver that masks, polls and unmasks |
| FIFO: `fifo_showahead.v` | contents | write, read, both | an Altera megafunction in show-ahead mode with the checks of its parameters |
| `netdma.sv`, `netdma_wrapper.sv` | none | wiring, the core's reset, two instances | |
| processor packet buffers: `xge_cpubuf/rx_cpu.sv`, `tx_cpu.sv`, `cge_lib/eth_pkt_fifo.v`, `cge_pkt_fifo_one_clock.v` | packet FIFO, FIFO of tokens | take a packet or drop it, send it when it is whole | packets leave whole or not at all |
| GMII receive: `gmii_to_10G/conv_1G_rx*.v`, `gbe_rx_mac_ctrl_simple.sv` | byte packer, packet FIFO, arbiter | gather bytes to words, frame, mark errors | each frame on the wire is one packet on the bus |
| GMII transmit: `conv_1G_tx*.v`, `tx_64b_fifo.v` | FIFO between two clocks, state machine, counters of bytes and gap | preamble, body, padding, CRC, gap | each packet is one frame, and the FIFO never runs dry in it |
| traffic engine, parsers, classifiers: `src_files/mx_traf_engine.sv`, `traf_engine`, `trafparser`, `trafclasser` | pipelines, packet FIFO, status FIFO | extract header fields, choose a direction | the verdict meets the packet it was made from |
| register bridge: `avalon_width_adapter.sv`, `avalon_mm_to_csr_if.sv` | `state`, `takt_cnt`, the held request, the wait counter | an access of 32 bits becomes two of 16 | an access reaches the register it names and no other, and the bus is answered |
| register files: `csr_addr_decoder.sv`, `regfile_with_be.sv`, `mx_csr` | control registers, ROM address | write, read, show status | the registers are a memory |
| MDIO: `mdio.v`, `mdio_wrapper.sv` | `state`, bit counter, shift registers, MDC | a serial frame to the PHY, turn-around, answer | an operation does to the PHY what it says, and only one side drives the line |
| `reg16` (`src/utils/reg16`) | where `main` is | open, map, access, unmap, close | what it prints is what the register holds; a failure is told |
| SDRAM calibration: `sequencer.pre.c` | the delays in the i/o cells, the positions of the VFIFO, the registers the host reads, locals of the searches | set a delay, load it, test reads and writes, search, retry | it says SUCCESS only if the memory works at the delays that are set, and passes every board that can work |
| the rest: clocks, pins, SDRAM wiring, generated SoC | | | not state machines of this project; see `components` in `PROJECT.json` |

How they meet: a packet from the network goes GMII receive -> traffic engine ->
`rx_cpu` -> netdma receive -> memory, one from the processor the other way
through netdma transmit, `tx_cpu` and GMII transmit.  All of it is streaming
buses with ready and valid.  The driver meets netdma through the register file
(descriptors, status, reports) and two irq lines; netdma meets memory through
two pipelined Avalon masters.  The other registers, of the classifier, the PHYs
and the FPGA's identity, are reached over the register bridge; a PHY's own
registers through the MDIO master that is worked with them.  The sequencer runs
before any of this, on a processor of its own, and meets the rest
through the word that says whether the memory may be used.

What is hard in it, and drew the properties (`hazards` in `PROJECT.json` lists
them at their lines): state machines that exchange only strobes and must leave
a descriptor on the same clock edge; registers that still hold the value of the
descriptor before; back-pressure on any cycle; answers that arrive for reads
of a packet that is over, or after a reset; counters at the end of their range;
a driver that dies halfway or resets at any time; irqs that are single-cycle
edges while the driver masks and unmasks; two clocks on the two sides of a FIFO
that must neither overflow nor run dry; requests that are seen late and answers
that are trusted early; searches in a space of delays, where what is being tried
and what is in effect are different things.

## How hardware is modelled

One rising clock edge is one step. The parts of `netdma` share one clock; in
`GmiiRx` two unrelated clocks interleave in every way, and what one side of a
dual-clock FIFO sees of the other lags by an arbitrary time; in `GmiiTx`, where
the speed of one against the other matters, the edges of the transmit clock
between two of the system clock are bounded by `EDGES`, and the counts
pass the FIFO through as many stages as its parameters say.  Registers and FIFOs are variables; wires
are operators of the state, with the names of the netlist; an edge conjoins the
updates of all registers.  The actions of `Next` say what the surroundings do on
this edge: `Tick` (nothing), a host access, or the host's reset.  The inputs
of the next cycle (stream, `waitrequest`, `readdatavalid`, `ready`) are drawn
afresh in each step, so every interleaving of pauses and back-pressure is there.

The Avalon interconnect, the packet source and sink, and the driver are not in
the repository: they are modelled from how the code and the user guide
(`src/fpga/netdma/doc`) use them and marked external in the map.  The
source keeps a data unit until it is taken; the interconnect answers accepted
reads in order; the driver obeys the user guide's rule of never having more
descriptors in flight than the FIFO holds.

Data is abstracted to what the properties tell apart.  A byte on the GMII is its
place in its frame and a bit that tells frames next to each other apart; whether
the CRC fits is an input.  No byte of a frame is taken for a preamble, which could only
happen if the MAC woke up in the middle of a frame, after a reset.  A received data unit is
its position in its packet; memory read for transmission is its own byte
address, so a property can say *which* byte is on the bus; descriptors carry only
fields the master looks at.  Histories (`stored`, `lastStored`, `received`,
`outstanding`, `rx_stale` and the like) are commented as such and read by no register.
Widths are kept as moduli (`BYTECOUNT_MOD` for the 16-bit bytecount), so
counters wrap where the hardware's do.

The C programs are sequential. A step of `Reg16` is a system call or the access
to the register, any of which may fail; the hardware's clock goes on meanwhile.
A step of the calibration is a test of the memory with what the program does up to the next one,
since nobody sees the delays in between; the functions it
calls are operators of the state of the hardware with the names of the source.
Where the preprocessor chooses, the branches are those of this build
(`sequencer_defines.pre.h`: DDR3, hard PHY, one rank, no report). What the hard
PHY and the memory answer is the board: for each pin a window of delays in
which it is read or written right, for each group a window for the enable of
its reads, and at a blurred edge of it any answer. The memory keeps a
note (`misuse`) of any command that it is not ready for.

## Modules

- `ScFifo` - operators for the show-ahead FIFO: full, empty, almost full, and
  what an edge does with a write and a read, with the over- and underflow checks
  of `fifo_showahead.v`. `ScFifoTheorems` proves lemmas about them and about the numbering
  of the marked elements of a queue.
- `NetdmaControl` - control state machine and edge detector; extended by both
  directions.
- `NetdmaRx` - receive direction: descriptor FIFO, control, write master,
  streaming adapter, report FIFO. `NetdmaRxProofs` proves its safety properties.
- `AmmDataAligner` - the unaligned-read barrel shifter; extended by
- `NetdmaTx` - transmit direction. The variable `unaligned`, constant in a
  behaviour, is the build parameter `TX_UNALIGNED_ACCESS_ENABLE`. `NetdmaTxProofs` proves
  its safety properties.
- `NetdmaIrq` - control and status registers, report FIFO and irqs, with a
  driver whose two handlers mask, poll and unmask as the user guide describes.
- `DescriptorQueue` - the abstract queue of descriptors a driver thinks it
  writes to: a descriptor being written is either all there or not at all.
- `NetdmaDescBuffer` - the buffer that joins two writes; implements
  `DescriptorQueue`. `HostProofs` proves it, and of `NetdmaIrq` that nothing is
  forgotten and nothing read that is not there.
- `GbeRxMac` - the receive MAC: finds a frame on the GMII, counts it, judges it.
- `GmiiRxFifo` - the byte packer behind it and the FIFO between the two clocks;
  extends `GbeRxMac`.
- `GmiiRxArb` - the arbiter on the system clock, as operators of its inputs.
- `GmiiRx` - the receive converter: these three, the wire in front and the
  traffic engine behind. `GmiiRxProofs` proves its safety properties.
- `EthPktFifo` - operators for the single-clock packet FIFO and its two room registers,
  on top of `ScFifo`.
- `TrafEngine` - the receiving half of the traffic engine: parser and classifier of the
  destination address, the status assembled from them, the FIFOs of packets and of
  statuses, the direction resolver, the two stages behind it, and `rx_cpu`. Its
  source is what the arbiter of `GmiiRxArb` can give: words of a packet with any pauses,
  two words or more, an end with or without a CRC error, or a forced end.
  `TrafEngineProofs` proves its safety properties.
- `TxCpu` - `tx_cpu.sv` on `EthPktFifo`, with its FIFO of tokens and the register
  stage behind it.
- `GmiiTxCtrl` - the state machine of `conv_1G_tx_ctrl.v` with `CRC_gen.v`: what is put
  around a packet, a byte at a time.
- `GmiiTx` - netdma in front (a source that may be reset in mid-packet), `TxCpu`, the
  dual-clock FIFO, `GmiiTxCtrl`, the transmit half of `gbe_phy_int.sv`, and the pins.
  The histories `accepted` and `ends` keep the words netdma gave and where packets end in
  them; the frame that should be on the pins is defined from these, byte by byte.
  `GmiiTxProofs` proves that the FIFO does not run dry in a frame, and that a frame is
  the packet.
- `RegBridge` - the bridge from the processor's bus to `csr_if`.
- `RegFiles` - address decoder, control registers, the hack that shows the version ROM.
- `Mdio` - the serial master, and the PHY at the other end.
- `Reg16` - `main` of `reg16`, a label per step.
- `Registers` - these four composed, with a user who does operations on the PHY by
  calling `reg16` for one register after the other, looks at `busy` until it falls, calls
  again what failed, and calls it for other registers, or wrongly, in between.
  `RegistersProofs` proves its safety properties.
- `SccMgr` - the delays of the i/o cells: what the program has in the chain, which pins it has
  enabled, and what SCC_MGR_UPD loads. `SdramBoard` - the board and the memory.
  `RwMgr` - initialisation of the memory, tests, hand-over, on top of both.
- `CalibState` - the variables of the calibration and its 32-bit arithmetic; `DqsEnable`,
  `VfifoCenter`, `WritesCenter` - the three searches; `Calibration` - `mem_calibrate`
  around them, with retries, latency search and the outcome. `HostProofs` proves four of its
  properties.
- `MC...` - the instances for TLC.  `NetdmaTx`, `NetdmaIrq` and `NetdmaDescBuffer` have none:
  their constants are given in the `.cfg` alone.

Actions and code: `Tick`, `HostWriteDescriptor`, `HostReadReport` and the like
all contain `Clock`, which is every `always_ff` of the direction's modules on one
edge; `HostReset` is the reset that `netdma.sv` derives from the control
register.  In `TrafEngine` all actions but `Reset` contain `EngineEdge` and differ in
what the arbiter presents.  In `GmiiTx` there is an action per clock, and the one of
the system clock comes with a word, without one, or with a reset of netdma. In
`Registers` every action is an edge (`Hardware`) with or without a step of
the program. In `Calibration` each action is named for the loop of the source it is a turn of.
`PROJECT.json` maps each definition to its lines.

## Runs

| Run | Shows |
| --- | --- |
| `rx` | Receive: `MachinesAgree`; `StoredInPlace` (one packet, from the start of the buffer, inside it); `ReportMeaning` (what a report says at each end of a descriptor, errors included; cause of an empty one); `NothingDropped`; `StreamIsKept` (writes held, no packet skipped); `StreamMoves` |
| `tx` | Transmit, both builds: `AnswersAreKept` (none lost, none left over), `StreamCarriesBuffer`, `ReadsInsideBuffer`, `DescriptorsFinish`; the host resets at any time, and what a reset with reads under way takes away is said by `orphaned` |
| `irq` | Driver and irqs: `NeverForgotten`, `NoEmptyRead`, `IrqsAreServed`, for both directions |
| `desc_buffer` | Descriptor buffer implements `DescriptorQueue`; `HalvesAgree` |
| `gmii_rx` | GMII receive: `FrameIsCarried` (the bytes of a data unit are of one frame, in order, and an unmarked packet is all of the frame the link partner sent, or the beginning of one that the MAC cut), `FifoNotOverrun`, `BadCrcIsMarked`, `PacketsAreWhole` (framed, none skipped), `PacketsEnd` |
| `traf_engine` | Traffic engine up to the processor's FIFO: `PacketsAreJudged` (by their own status, in the right direction), `FifosNotOverrun`, `CpuGetsPackets`, `PacketsLeave` |
| `gmii_tx` | From netdma to the pins: `FrameIsPacket` (preamble, the packet's bytes and no others, padding, CRC of just that, half by half at 100 Mbit/s), `NoUnderrun` (the assertion of `conv_1G_tx_ctrl.v:382`), `PacketsSent` |
| `registers` | `reg16` to the PHY: `RegistersAreMemory`, `OperationsAreDone`, `OneDrivesTheLine`, `OperationsEnd` |
| `calibration` | `SuccessWorks`, `CalibratablePasses`, `EnableCentred`, `MemoryRules`, `GroupsApart`, `Ends` |
| `rx_phantom_report`, `tx_offset`, `gmii_fragment` | [disagreements](#disagreements-between-code-and-documents), one each |

Bounds, and why they are enough:

- FIFO depths of 2 or 3 let a FIFO be empty, partly filled, full, and full while
  it is read; nothing in the code compares a depth with anything else, save the
  almost-full level of the transmit FIFO, for which `TX_FIFO_DEPTH = 5` with
  `TX_MM_IF_MAX_PENDING_COUNT = 2` gives a level of 2.
- Receive: data units of 2 bytes, buffers of 1 and 2 of them, packets of 1 to 3:
  a packet shorter than, equal to and longer than its buffer, with and without
  an incomplete last data unit; two buffers, so the counter of the one before
  may equal the new limit or not. `BYTECOUNT_MOD = 16` is above what the runs
  reach, so a wrap would be an error.
- Transmit: data units of 4 bytes, lengths of 1, 4, 15 and 18 (below, equal to and
  above whole data units, up to 5 of them), an offset of 0 and of 2. The offset
  of 3 is the run `tx_offset`.
- Irqs: a report FIFO of 3 and a driver bounded only by it.
- GMII receive: limits of 13 and 22 bytes in place of 64 and 9600, so that a frame
  is two or three data units, and a frame of each kind: too short, just long
  enough, longer (its last data unit full), too long, cut by `rx_err`. A FIFO of
  3 words of which 1 is kept free, the least that `SAFE_WORDS` may be (no code
  depends on a power of two), a watchdog of 1 tick: the arbiter's view of
  the FIFO is free to lag, so the watchdog may beat any end of packet.
  Frames that end just after their first data unit are the run `gmii_fragment`.
- Traffic engine: limits of 16 to 47 bytes in place of 64 to 9600 and an MTU of 45, with four
  packets: too short, shortest that passes, a group address, and one that is six words
  long, so that a short packet can leave right behind it while the room is still counted
  without its last words.  Both packet FIFOs have 10 words; 2 of them are kept free
  for the processor, and the run fails with 1 (the code keeps 50). A packet exceeds
  the upper limit only by a forced end, which adds a word. `MIN_EOP_GAP = 6` is an
  assumption: a status takes six cycles to be written from registers that are shared between packets,
  and the run fails with 5. With the clock of `etn_main.sv` (62.5 MHz) the shortest legal frame at one gigabit takes
  42 cycles, and one of 13 bytes, the shortest that the MAC does not drop, still seven. Nothing but a full packet FIFO
  holds the arbiter up so that frames could come closer together, and the real FIFO has room for a packet of 9600 bytes.
- GMII transmit: a FIFO of 8 words, ready at 2 and full at 4, as in the code. Packets of 3, 11 and
  24 bytes with a least length of 11 in place of 60: padded, just long enough, and longer with a full last word;
  two packets and one that a reset cuts short. `EDGES = 3`: the transmit clock of 125 MHz has two edges to one
  of the system clock of 62.5 MHz, three if they drift, and at 10 and 100 Mbit/s mostly none.
  The packet FIFO has 8 words of which 2 are kept free, and that of the tokens 2.
- Registers: frames of 3 + 2 + 1 + 3 bits in place of 32 + 14 + 2 + 16, a divider of 4, two operations of
  the PHY (reads of two registers and a write), one other call and one failing system call anywhere.
  The other calls name a register of each kind, one past the last and one past the
  mapped page, and what `main` refuses. System calls take a clock edge at least;
  the time that passes before and after the access is put at one place (`NoCall`), as nothing but the
  access meets the hardware.
- Calibration: two groups of three DQ, delays of 0 to 7 in place of 31, four phases, five units of delay to a phase
  and two to a tap of the chain (375 and 25 ps in the build: neither divides the other here, so rounding is worse),
  a VFIFO of 4. The boards (`MCBoards`): the enable at each place of a clock with 14 lengths of its
  window, with blurred edges; every combination of seven read eyes of three DQ and of six write eyes, and of the
  mask pin; output phases, DQS skews and latencies that work or not; and pairs of groups that both
  deviate, since only there one group can disturb another.

Fairness: `WF` of a clock edge on which the interconnect does not refuse (`rx`),
or on which it accepts and answers what it can and the sink is ready (`tx`).
Weak fairness of *such* an edge, not of the bus as a whole: the clock runs by
itself, Avalon obliges a slave to release `waitrequest` and to answer reads, and the
packet path takes data when it has room.  In `gmii_rx` both clocks run.  In `traf_engine` the clock runs and has cycles
without a word from the wire, which brings eight bytes in four cycles at one gigabit and 62.5 MHz (`Pause`).
In `irq` the driver's handler steps are
weakly fair: an interrupt handler that runs is scheduled to its end.  In `gmii_tx` both clocks run, and
nothing is assumed of netdma. In `registers` the clock runs and `reg16` does not stay for ever
where it can go on; this is weak fairness of `Work` with its `ENABLED` written out (`CanWork`), which
TLC is too slow to compute. In `calibration` the program goes on until it is done: a processor of its own runs it.
`Obliging` and `Fairness` define this in the modules of netdma.  Liveness needs no fairness of the
*core*: all of its registers move on each edge.

Each property has a mutant (`mutants` in `PROJECT.json`; the bodies are in the
modules, each commented as a mutant): the model with one plausible bug, in which
TLC finds that property violated.

## Proofs

TLAPS proves the following for every value of the constants that the named assumptions allow.
`theorems` in `PROJECT.json` lists them one by one. Each invariant was checked by TLC on
the run of its component first.

- `NetdmaRxProofs`: all safety properties of `rx`, for every FIFO depth, size of data unit,
  set of buffers and longest packet. The
  invariant `IInv` conjoins `TypeOK`, `MachinesAgree`, `NothingDropped` and what ties the
  counters to the history: while the master is busy, `bytecount_reg` is the
  number of words stored for the descriptor and `address_reg` is the buffer plus that
  number; while it is not, `bytecount_reg` is `lastStored`, which is exactly the stale
  value that the first cycle of the next descriptor compares with its limit.
  `StoredInPlace` is inductive only with the position of the source's
  next data unit. One lemma per action of `Next`; the report properties and
  the action properties follow from `IInv` in the state before the step.
- `NetdmaTxProofs`: all safety properties of `tx`, for both builds and every buffer, length
  and bound on the reads under way. `ReadInv` holds whatever is reset: the FIFO has room for
  every answer that can still come (`Room`: the almost-full level is set for that), and the reads that
  are made for a descriptor are those of its buffer (`Asking`), so `TxNoDataLost` and `TxReadsInsideBuffer` hold of every state. A
  reset while answers are under way leaves them to be taken for the next packet
  ([seen](#disagreements-between-code-and-documents)). The history `orphaned` tells whether the last reset did: while it
  is FALSE the invariant `IInv` adds that what was
  asked for is what is pending, in the FIFO, or has been streamed (`Requests`, `Answers`), which gives
  the rest of `AnswersAreKept` and `StreamCarriesBuffer`; the first reset that finds no read under way brings it back. The latter has the hypothesis `OffsetsWired`, that no buffer
  begins at the last byte of a data unit; the run `tx_offset` shows the excluded case.
- `HostProofs`, for `NetdmaIrq` (`IrqSpec`): `NeverForgotten` and `NoEmptyRead`, without a hypothesis. The irqs are edges of two registers, so
  the invariant says what trace anything leaves that arrives after the driver has looked for the last time and before it
  takes the next irq: an edge still to come, a pending bit, or an irq not yet taken (`RxTrace`, `TxTrace`).
  `EmptyMeansEdge` and `FilledMeansReport` tie the registered copy of the FIFO's state to the edge and to the FIFO.
- `HostProofs`, for `NetdmaDescBuffer` (`BufferSpec`): buffer and driver agree on the next half
  (`HalvesAlwaysAgree`), and every step of the buffer is a step or a stutter
  of the abstract queue (`BufferIsQueue`).
- `GmiiRxProofs`: all safety properties of `gmii_rx`, for every FIFO size, limit, watchdog and set of
  frames. `IInv` ties the packet that is open on the output to the arbiter's state
  (`PacketsAreWhole`) and the verdict of the MAC to the flag
  that travels with the last data unit (`BadCrcIsMarked`), counters of the MAC included.
  `FifoNotOverrun` needs a second invariant, `RoomInv`: `almost_full` is a
  register that the MAC looks at once a byte, but between the fifth byte of
  one data unit and the fourth of the next it has caught up with the level, so a frame
  can pass the level by two writes at most. One word kept free is enough; the
  code keeps ten. `FrameIsCarried` needs a third, `FrameInv`, which follows the bytes of a frame: on the wire and in the
  MAC (`PhyInv`), in the packer and the FIFO (`QueueInv`), at the arbiter and behind it (`ReadInv`); a packet that is not marked
  is one frame from its first byte on (`UnmarkedIsOneFrame`), and to the last byte that the link partner sent unless the MAC cut it: `SentInv` and
  `WireEnds` tie the count of the MAC to what has been on the wire (`sent`). A frame cut for a full FIFO, for `rx_err` or for its length is
  unmarked too ([seen](#disagreements-between-code-and-documents)). Its hypothesis `NoFragments` is that no
  frame ends, or is cut, after 8 to 12 bytes, that the length counter can count beyond the limit, and that frames are at least three
  bytes apart; the run `gmii_fragment` shows what happens without the first.
- `TrafEngineProofs`: all safety properties of `traf_engine`. The ends of the packets in
  `rx_fifo` and on their way there are numbered, by a function from numbers to places, and status `k` is that of the packet that
  ends at the `k`-th place; hence `PacketsAreJudged`. For `CpuGetsPackets` the direction must stay at "processor" only as long as words of that packet
  leave: what leaves next is of the same packet, or starts one (`ReadInv`, `AtStart`), also behind the rest of a packet that a reset
  has cut. That the FIFO of statuses is not overrun is a matter of time: as soon as there
  is a status a word is read in each cycle (`Drained`), so the statuses that can collect are bounded by the words that are in `rx_fifo`
  when the first arrives, divided by `MIN_EOP_GAP`. `RxSized` asks for two spare words and for
  more statuses times `MIN_EOP_GAP` than the FIFO has words, or than the longest packet and five words: in the code 256 statuses, 6 cycles, and
  1205 words. `CpuSized` asks for two spare words in front of the processor; the code keeps 50.
- `GmiiTxProofs`: both safety properties of `gmii_tx`. For `NoUnderrun`, the assertion of `conv_1G_tx_ctrl.v:382`, `IInv` holds whatever the clocks do: a token in `tx_cpu`
  for each whole packet and no other (`Tokens`), no FIFO of `tx_cpu` overflows (`Room`), what a side of the FIFO between the clocks knows of the other is
  behind in the safe direction (`Counts`), and behind a word that does not end its packet the next one is at hand (`AtHand`).
  `TimeInv` counts edges of the transmit clock: reads are eight edges apart (`ReadsApart`), so the
  writing side, which sees them late, finds room, and the count of a word that is written while the one before is sent
  has come across by its last byte (`Due`). The hypothesis `Synced` relates stages and clocks: `RD_SYNC + EDGES <= 8` and
  `WR_SYNC * EDGES <= 8 * (FULL_WORDS - 1)`. The code has 4 stages, 4 words and 3 edges: 7 and 12 <= 24. TLC finds an
  underrun on the instance of the run if `WR_SYNC` is 9. `tx_cpu` reading a FIFO only when a packet is whole is an argument
  about tokens only because packets are bounded so that one that a reset has cut fits beside the next (`GmiiTxAssumption`;
  [seen](#disagreements-between-code-and-documents) is what happens otherwise).
  For `FrameIsPacket`, `FrameInv` says what is where. The words that have not been read are the last ones of `accepted`, in their order,
  spread over three FIFOs and a register (`Chain`), and the ends of packets in `accepted` are numbered by `ends` (`EndsInv`). While a frame is sent the CRC register
  holds the bytes of the words read since the last end, and then the padding (`Body`); the three registers behind
  the state machine each hold what the one before it held an enabled edge ago, and the line so far is the frame up to the byte in
  the last of them (`Pipe`). `FrameInv` is inductive only together with `TimeInv`: a read of an empty FIFO would send a
  word twice. The frame is a function from places to symbols, so no induction over the packet's words is needed.
- `RegistersProofs`: all safety properties of `registers`, for every division of the addresses into files, every contents of the
  ROM, every length of the parts of a frame, every divider, set of operations and of other calls. `MemInv` follows an
  access through the bridge: at which of its edges it is (`Places`; of a read there are six), that the registers are
  the memory but for the one store whose edge is still to come (`LateWrite`: `main` may have gone on by then, and the
  ROM's address is another edge behind), and that the half of the word which is named is on its way (`Carried`), in one register
  after the other. `RegistersAreMemory` follows, without a hypothesis. `OpInv` is about an operation on the PHY: which calls are left
  (`StepsOk`), what those that were made have stored (`RegsOk`), how far `run` has come in the synchroniser (`PipeOk`: it rises
  once, and falls once, in an operation), how much of the frame the PHY has taken (`FrameOk`), and that a word with busy at 0 can be on
  its way to the program only after the frame (`ReadOk`). The frame itself is two automata in step: the bit counters of master and
  PHY agree from the end of the preamble, what has been shifted out is the higher part of the word, and what has been
  shifted in is (`Taken`, `Sends`). That the word comes out whole rests on two divisions by powers of two, proved from the
  cardinality of sets of places, as induction is out of reach. `OperationsAreDone` and `OneDrivesTheLine` follow. Both need
  `OtherCallsAssumption`: between the calls of an operation the user makes none that writes a register of the PHY's
  file by which the operation is told. Such a call would change the operation, and in mid-frame its course.
- `HostProofs`, for `Calibration` (`Spec`): `MemoryRules`, `GroupsApart`, `TypeOK` and `SuccessWorks`, for every number of groups
  and bits, every range of the delays, every time of a tap, every set of boards and whatever the chains hold at power
  up. (The three specifications share a module only because the programs of the processor work all three.) `CalInv` follows a delay
  from its register through the chain to the i/o cell. While a group is worked on the others are `Settled`:
  SCC_MGR_UPD loads the cells of all groups, and what it loads of the others is what they hold. A function of the program `Works` if it keeps to
  that and to the order of the memory's commands; most of the lemmas say it of one function, and `GroupsApart` and `MemoryRules` follow.
  `SuccessWorks` is about what is moved after it has been tested last. Writes are tested with the reads as they then are, and then the reads are
  centred again, which must leave the outputs alone (`CenterInv`). Each DQ is put at an edge less half of what is between its edges, and the
  edges are those of a sweep that moved all pins at once; that the place is in the window is arithmetic about the two
  ends of a passed interval, and the test that follows says the same of DQS. DM and its DQS are put, at the end, where no test has been made: the passes
  noted in `DmInv` must be of the two ends of one window. The latency is raised by two after its last test (`LatencyInv`), which
  shows that something passed is not exceeded, so `PHY_RLAT` must hold the sum: this is the hypothesis
  `LatenciesFit`, that a board's read latency and 16 are less than `MAX_LATENCY`. The register has five bits
  (`sequencer_defines.pre.h:106`), so that is a read latency below 15; it is 5 in this build (`emif.pre.xml:147`, `:164`:
  CAS latency 5, no additive latency). `MemoryRules` and `GroupsApart` need no hypothesis.
- `ScFifoTheorems`: what an edge does to length, head and order of a FIFO, and how a numbering of its marked elements
  (ends of packets, with a status or token each) changes when one is written or the first one read; cited by the others.

Assumptions: those of the modules (`RxAssumption`, `DescBufferAssumption`, ...), each
named where the constants are declared: sizes positive, the limits of a
descriptor inside the counter's range, a report FIFO no smaller than the
descriptor FIFO. For the registers they are that the control registers of a file end before the next file begins, and that the registers
by their names are among those of their file (`mx_anlz_csr_to_if.sv:26`: files at 0, 9, 41 and 59; 7, 24 and 18 control registers), and the rule
about other calls above. `HostAssumption` is the driver's side: a buffer has at least one
whole data unit, as the user guide has the driver round buffers to data units. The hypotheses
named above (`OffsetsWired`, `NoFragments`, `RxSized`, `CpuSized`, `Synced`) stand in the
theorems that need them; the constants of the runs satisfy all of them.

For the calibration they are that the delay chain is longer than a phase tap and that times stay below the
word's width (`DelaysFit`; 25 ps times 31 against 375 ps in the build), that the ranges of the delays are natural numbers, and that the power-up state of
the chain is one (`ChainAtPowerUp`: any).

Only model-checked: of the calibration `CalibratablePasses` and `EnableCentred`, which say where whole
sweeps end. Their invariant would have to say what each test of a sweep has answered, with its time round the VFIFO, in products of three
constants that the SMT solver does not get through; and `EnableCentred` is for edges no more blurred than
those of the run's boards. Also everything temporal that needs fairness
(`StreamMoves`, `DescriptorsFinish`, `IrqsAreServed`, `PacketsEnd`, `PacketsLeave`, `PacketsSent`,
`OperationsEnd`, `Ends`), which is out of the prover's reach.

The proofs found one fault of the model: `Div`, the division of the centring (`sequencer.pre.c:5181`), rounded a
negative middle down where C rounds it to 0. No run had seen it, as the properties held of either; the lemma about its range
did not.

## Disagreements between code and documents

Each of these is a run that TLC finds violated, and an entry of `findings`.

- `rx_phantom_report`: in the first cycle of a descriptor the limit is compared
  with the count of the one before; if equal, a report is made for a packet never received.
- `tx_offset`: a buffer at the last byte of a data unit is streamed from
  inputs of the shifter that no assignment drives.
- `gmii_fragment`: a frame of which 8 to 12 bytes were handed on is dropped, as the
  comment says, but `sop_logic` keeps its flag, and the next frame starts with
  the bytes of the dropped one. A frame below the limit of 64 bytes is
  passed on without an error mark, too, if it is long enough to be written;
  no document says it should not be.

Seen, without a run of their own. In netdma:

- Answers to reads accepted before a reset are taken for data of the next packet
  (`netdma.sv:94` clears the read master, not what the interconnect has accepted;
  `NetdmaIpCoreUG:406` asks for no wait). `tx` has these resets. Without the condition on `orphaned`,
  `AnswersAreKept` and `StreamCarriesBuffer` fail there; the other properties do not need it.
- A report that disables its irq, left at the head of the FIFO, keeps the irqs of those
  behind it from being raised (`netdma_csr.sv:128`; `NetdmaIpCoreUG:348-349` says "only for
  current transaction"); the bit for transmission acts on the next packet, since the registered
  status gates an event that is not registered (`netdma_csr.sv:127`). The driver of `irq` sets neither.
- The report of a packet cut at the limit subtracts the empty bytes of a data unit that
  was not stored, and that of an error counts the data unit on the bus, stored or not
  (`netdma_writemaster.sv:207-211`); `REGMAP:114` has only "Byte size of the last received packet". `ReportMeaning` says what the count is in each case.
- A read that `waitrequest` holds off is withdrawn when the transmit FIFO becomes almost
  full (`netdma_mm2st_adapter.sv:135`), and the last few unaligned lengths below 2^16 wrap the count
  of reads (`netdma_readmaster.sv:124`).

In the packet path:

- A frame that the MAC cuts, because the FIFO is full, for `rx_err` or for its length, ends through `ERR_END_S` or
  `FIFO_FULL_ERR_END_S` with `crc_err_reg` 0, and what there is of it is passed on unmarked
  (`gbe_rx_mac_ctrl_simple.sv:228`). `FrameIsCarried` lets these pass as beginnings of a frame and asks of every
  other unmarked packet that it is all that was sent.
- In the promiscuous mode (3) a good packet for another address is dropped all the same;
  `rx_dir_resolver.sv:51` knows nothing of the mode, against `nic_ctrl_regs.vh:77-78`.
- A packet that a reset of netdma cuts short stays in `tx_cpu` until the end of the next one, and goes out
  joined to it. If both do not fit, or a packet is longer than the FIFO, no word enters and no
  token comes, until `rst_i` (`tx_cpu.sv:99-103`).
- The shorter gap of `conv_1G_tx_ctrl.v:137` asks for more than 10 words in a counter of
  three bits and is never taken; a packet of one word waits for a word behind it (`:120`).

Registers:

- The example of `utils/reg16/README.md` names register 0xaaff and a range up to 0xffff; `main.c:36` refuses 4096
  and above, and from 2048 on the address is past the page that is mapped: the program dies of it.
- `csr_if` has 10 address bits (`etn_main.sv:57-63`), so indexes repeat after 1024, against the
  comment of `csr_addr_decoder.sv:52-56` that addresses past the last file do nothing.
- `BASE_ADDR` gives the last file 18 registers of the 20 it has: its version registers read 0.
- With a divider of 0 or 1, and 0 is the power-up value, MDC stands still and `busy` never falls (`mdio.v:171-192`);
  an operation code changed in mid-frame changes the frame's course (`:141-153`). Looking at `busy` right
  after `run` is safe only because a system call takes longer than the three edges of the selector.

Calibration (`sequencer.pre.c`), none of which fails a property:

- A window of the enable that is longer than a clock is not centred (4430), so `EnableCentred` is stated of shorter ones.
- A retry with the output delayed helps a group whose DQS was too early, and then `scc_mgr_zero_group` at 5815 puts
  DQS back, so that such a group fails later, in the write search.
- Mode registers are loaded 4 clocks apart by a wait (2486 to 3181) or by none (MR1 to MR0, 2491; the branch of mirrored
  ranks waits at 2480). The comments at 2667 and 3186 leave such times to the processor, whose cycle is five of the memory's. The time
  of the processor is not modelled, so these waits do nothing in the model and `MemoryRules` does not check them: it checks
  the order of the commands, the 250 clocks after a reset and the 512 after ZQCL (the loops of 2009), and that the sequencer has the memory.
- At 5997 two is added to a latency that was limited to the register's width only when it was set first (8519):
  it could pass the width with a read latency of 15 and more, which no board of this build has
  and none of the run comes near.
- If the middle falls on delay 0, the phase written at 4443 is -1. No board of the run gets there.
- The assertion at 592 that the group is one of the groups is passed a number of a DQ (5157, 5159) and 0xff (6010);
  the build compiles assertions out.
- Eyes of a single delay may be missed by the rounding of the middle; `Calibratable` asks for three.

## Limits

Not modelled: metastability, byte reordering (a
permutation of the data), the latched variant of the irqs (its source is not
in the repository), combinational glitches, and `X` values other than the
undriven wires of the aligner, which read as any value. A buffer shorter than a
data unit (its first word would be written before the limit of 0 is looked at, `netdma_st2mm_adapter.sv:80`) and
`TX_FIFO_DEPTH = TX_MM_IF_MAX_PENDING_COUNT + 1` (no read would ever be made) are excluded by
assumptions. The host's registers of the
traffic engine are constants of a behaviour: a change of address, MTU or mode while packets are under way is
not modelled; that a value of several registers is written in parts is one reason the driver should not do it.
Of a packet's headers only the destination address is modelled, since
nothing else reaches the direction resolver; six bytes of payload that look like the host's
address stand for any. A data unit with an error that descriptors
stop on stays on the stream and ends every descriptor: `StreamMoves` names it as
its exception.

Of the transmitter: changes of speed while frames are sent, and what the clock enable does in the
first cycle after a reset. Of the registers: accesses narrower than a register, the reset bit of the MDIO
master, the address of the PHY (there is one on the wire), loading of firmware. The PHY is taken to change the line
later than one clock after a rising MDC, as the hold time of the standard has it.

Of the calibration: code that the build compiles and does not call (write levelling, gradual
delay setters, `full_test`, shadow registers), the report, the tracking that goes on in
hardware afterwards, and the constants that `initialize_hps_phy` writes to the controller. The
micro-sequencer's programs are represented by what their entry points do; a
test reads right or not per pin, with no rate of errors.

## Plan

Done: netdma, GMII receive and transmit, the traffic engine up to the processor and
the way back, the registers with MDIO and `reg16`, the calibration; all safety properties but two of the
calibration are proved. Next:

1. The rest of the parsers (VLAN, MPLS and IP headers), if the status record gets a reader.
2. The registers of the traffic engine as variables, written over the bridge while packets pass.
