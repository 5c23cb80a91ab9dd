--------------------------- MODULE NetdmaRxProofs ---------------------------
(***************************************************************************)
(* The receive direction, proved for every FIFO depth, data unit size,     *)
(* buffer address, buffer length, packet length and behaviour of the bus,  *)
(* the source and the host: what NetdmaRx checks with TLC on small         *)
(* instances.                                                              *)
(*                                                                         *)
(* None of the properties is inductive alone.  What carries them is IInv:  *)
(* the two state machines agree (MachinesAgree), and while the write       *)
(* master is busy bytecount_reg is at once the number of words stored, the *)
(* distance of address_reg from the start of the buffer and, in RUN_S, the *)
(* number of data units of the packet already taken (Position,             *)
(* StoredPrefix).  While it is idle bytecount_reg still counts the words   *)
(* of the descriptor before.                                               *)
(***************************************************************************)
EXTENDS NetdmaRx, ScFifoTheorems

SourceWellFormed == snk.valid /\ snk.word = MAX_WORDS => snk.eop

Busy == state # "IDLE_S"

Position ==
    /\ state = "WAIT_SOP_S" => bytecount_reg = 0
    /\ state = "RUN_S" => snk.word = bytecount_reg + 1
    /\ Busy => /\ bytecount_reg <= Limit(descriptor)
               /\ address_reg = descriptor.address + bytecount_reg
    /\ ~Busy => bytecount_reg = lastStored

StoredPrefix ==
    /\ ~Busy => stored = <<>>
    /\ Busy => /\ Len(stored) = bytecount_reg
               /\ \A i \in DOMAIN stored :
                     stored[i] = [at |-> descriptor.address + i - 1,
                                  word |-> i]

InFlight == NothingDropped /\ outstanding <= DESC_FIFO_DEPTH

IInv == /\ TypeOK /\ SourceWellFormed /\ MachinesAgree
        /\ Position /\ StoredPrefix /\ InFlight

-----------------------------------------------------------------------------
(* Arithmetic of data units. *)

\* Division by the size of a data unit: the words of a buffer fit into it.
LEMMA DivBounds ==
    ASSUME NEW x \in Nat, NEW b \in Nat \ {0}
    PROVE  /\ x \div b \in Nat
           /\ (x \div b) * b <= x
           /\ x < (x \div b + 1) * b
OBVIOUS

\* The product with a data unit's size grows with the number of words.
LEMMA MulMono ==
    ASSUME NEW x \in Int, NEW y \in Int, x <= y, NEW b \in Nat \ {0}
    PROVE  x * b <= y * b
OBVIOUS

\* A number below the modulus is its own remainder.
LEMMA ModSmall ==
    ASSUME NEW m \in Nat \ {0}, NEW x \in 0 .. m - 1
    PROVE  x % m = x
OBVIOUS

\* A remainder is in the range of the register it is kept in.
LEMMA ModRange ==
    ASSUME NEW m \in Nat \ {0}, NEW x \in Int
    PROVE  x % m \in 0 .. m - 1
OBVIOUS

\* The range of a bytecount is a whole number of data units
\* (bytecount[15:REM_WIDTH], netdma_writemaster.sv).
LEMMA WordCount ==
    /\ WordCountMod \in Nat \ {0}
    /\ WordCountMod * BYTES_NUM = BYTECOUNT_MOD
<1>1. /\ BYTES_NUM \in Nat \ {0} /\ BYTECOUNT_MOD \in Nat \ {0}
      /\ BYTECOUNT_MOD % BYTES_NUM = 0
  BY RxAssumption DEF RxAssumption
<1>2. \A m, b \in Nat \ {0} : m % b = 0 => /\ m \div b \in Nat \ {0}
                                           /\ (m \div b) * b = m
  OBVIOUS
<1> QED BY <1>1, <1>2 DEF WordCountMod

\* A buffer holds at least one data unit and no more than its bytecount says.
LEMMA LimitFacts ==
    ASSUME NEW d \in Descriptor
    PROVE  /\ d.address \in Nat
           /\ d.bytecount \in 0 .. BYTECOUNT_MOD - 1
           /\ Limit(d) \in 1 .. WordCountMod - 1
           /\ Limit(d) * BYTES_NUM <= d.bytecount
<1>1. /\ BYTES_NUM \in Nat \ {0} /\ BYTECOUNT_MOD \in Nat \ {0}
      /\ ADDRESSES \subseteq Nat
      /\ LENGTHS \subseteq 0 .. BYTECOUNT_MOD - 1
  BY RxAssumption DEF RxAssumption
<1>2. d.address \in Nat /\ d.bytecount \in LENGTHS
  BY <1>1 DEF Descriptor
<1>3. d.bytecount \in Nat /\ d.bytecount >= BYTES_NUM
      /\ d.bytecount <= BYTECOUNT_MOD - 1
  <2>1. d.bytecount >= BYTES_NUM
    BY <1>2, HostAssumption DEF HostAssumption
  <2>2. d.bytecount \in 0 .. BYTECOUNT_MOD - 1
    BY <1>1, <1>2
  <2> QED BY <1>1, <2>1, <2>2
<1>4. /\ Limit(d) \in Nat
      /\ Limit(d) * BYTES_NUM <= d.bytecount
      /\ d.bytecount < (Limit(d) + 1) * BYTES_NUM
  BY <1>1, <1>3, DivBounds DEF Limit
<1>5. Limit(d) >= 1
  <2>1. ASSUME Limit(d) = 0 PROVE FALSE
    BY <1>1, <1>3, <1>4, <2>1
  <2> QED BY <1>4, <2>1
<1>6. Limit(d) < WordCountMod
  <2>1. ASSUME WordCountMod <= Limit(d) PROVE FALSE
    <3>1. WordCountMod * BYTES_NUM <= Limit(d) * BYTES_NUM
      BY <1>1, <1>4, <2>1, MulMono, WordCount
    <3>2. Limit(d) * BYTES_NUM \in Int
      BY <1>1, <1>4
    <3> QED BY <1>1, <1>3, <1>4, <3>1, <3>2, WordCount
  <2> QED BY <1>4, <2>1, WordCount
<1> QED BY <1>2, <1>3, <1>4, <1>5, <1>6, WordCount

-----------------------------------------------------------------------------
(* What the wires show in a state of the invariant. *)

\* While the control is in RUN_S there is a descriptor at the head.
LEMMA HeadFacts ==
    ASSUME IInv, Run
    PROVE  /\ descFifo # <<>> /\ descriptorOnQueue
           /\ descriptor \in Descriptor
<1>1. descFifo # <<>> /\ descFifo \in Seq(Descriptor)
  BY DEF IInv, TypeOK, MachinesAgree, descriptorOnQueue, FifoEmpty
<1> QED BY <1>1 DEF descriptor, descriptorOnQueue, FifoEmpty

\* Every write is the next data unit of the packet, for the next place of the
\* buffer, and there is room for it (netdma_st2mm_adapter.sv, write).
LEMMA WriteFacts ==
    ASSUME IInv, write
    PROVE  /\ Busy /\ Run /\ run_r
           /\ descriptor \in Descriptor
           /\ snk.valid /\ snk.word = bytecount_reg + 1
           /\ bytecount_reg < Limit(descriptor)
           /\ address_reg = descriptor.address + bytecount_reg
<1>1. Busy
  BY DEF write, st2mm_run, wait_for_sop, run_state, Busy
<1>2. Run /\ run_r
  BY <1>1 DEF IInv, MachinesAgree, Busy
<1>3. descriptor \in Descriptor /\ descriptorOnQueue
  BY <1>2, HeadFacts
<1>4. /\ snk.valid /\ snk.word = bytecount_reg + 1
  BY <1>1 DEF IInv, TypeOK, Position, Busy, write, st2mm_run, wait_for_sop,
              run_state, sop
<1>5. /\ bytecount_reg <= Limit(descriptor)
      /\ address_reg = descriptor.address + bytecount_reg
  BY <1>1 DEF IInv, Position
<1>6. bytecount_reg # Limit(descriptor)
  <2>1. CASE wait_for_sop
    BY <1>3, <2>1, LimitFacts DEF IInv, Position, wait_for_sop
  <2>2. CASE ~wait_for_sop
    BY <1>3, <2>2 DEF write, st2mm_run, bytecount_limit
  <2> QED BY <2>1, <2>2
<1>7. bytecount_reg \in Int /\ Limit(descriptor) \in Int
  BY <1>3, LimitFacts, WordCount DEF IInv, TypeOK
<1> QED BY <1>1, <1>2, <1>3, <1>4, <1>5, <1>6, <1>7

\* The signals that end a descriptor, one by one.
LEMMA SignalTypes ==
    ASSUME IInv
    PROVE  /\ error \in BOOLEAN /\ write \in BOOLEAN
           /\ new_transaction \in BOOLEAN /\ eop \in BOOLEAN
           /\ bytecount_limit \in BOOLEAN /\ make_report \in BOOLEAN
BY DEF error, write, new_transaction, eop, bytecount_limit, make_report,
       IInv, TypeOK, Bus, st2mm_run, sop, descriptorOnQueue, MakeReport,
       Descriptor

-----------------------------------------------------------------------------
(* The four kinds of clock edges. *)

\* An edge with a report: both machines leave the descriptor together.
LEMMA ReportEdge ==
    ASSUME IInv, NEW w, NEW rd, Clock(w, rd), make_report
    PROVE  /\ flow_control' = "DONE_S" /\ run_r' = TRUE /\ state' = "IDLE_S"
           /\ stored' = <<>> /\ lastStored' = Len(Stored)
<1>1. Run /\ (error \/ eop \/ bytecount_limit)
  BY DEF make_report, MakeReport
<1>2. flow_control' = "DONE_S" /\ run_r' = TRUE
  BY <1>1 DEF Clock, ControlFsm, Run
<1>3. state' = "IDLE_S"
  BY <1>1 DEF Clock, WriteMasterFsm, endoftransaction
<1> QED BY <1>2, <1>3 DEF Clock, History

\* An edge in the middle of a descriptor.
LEMMA BusyEdge ==
    ASSUME IInv, NEW w, NEW rd, Clock(w, rd), ~make_report, Run, run_r
    PROVE  /\ flow_control' = "RUN_S" /\ run_r' = TRUE
           /\ state \in {"WAIT_SOP_S", "RUN_S"}
           /\ state' = (IF sop THEN "RUN_S" ELSE state)
           /\ new_transaction => /\ address_reg' = address_reg + 1
                                 /\ bytecount_reg' = bytecount_reg + 1
           /\ ~new_transaction => UNCHANGED <<address_reg, bytecount_reg>>
           /\ stored' = Stored /\ lastStored' = lastStored
           /\ ~eop /\ ~bytecount_limit /\ ~error
<1>1. ~error /\ ~eop /\ ~bytecount_limit
  BY DEF make_report, MakeReport
<1>2. flow_control' = "RUN_S" /\ run_r' = TRUE
  BY <1>1 DEF Clock, ControlFsm, Run
<1>3. state \in {"WAIT_SOP_S", "RUN_S"}
  BY DEF IInv, MachinesAgree, TypeOK
<1>4. ~endoftransaction /\ ~RunPosedge
  BY <1>1 DEF endoftransaction, Run, Done, RunPosedge
<1>5. state' = IF sop THEN "RUN_S" ELSE state
  BY <1>3, <1>4 DEF Clock, WriteMasterFsm
<1>6. ASSUME new_transaction
      PROVE  address_reg' = address_reg + 1 /\ bytecount_reg' = bytecount_reg + 1
  <2>1. /\ address_reg' = address_reg + 1
        /\ bytecount_reg' = (bytecount_reg + 1) % WordCountMod
    BY <1>4, <1>6 DEF Clock, Counters
  <2>2. write
    BY <1>6 DEF new_transaction
  <2>3. bytecount_reg + 1 \in 0 .. WordCountMod - 1
    BY <2>2, WriteFacts, LimitFacts, WordCount DEF IInv, TypeOK
  <2> QED BY <2>1, <2>3, ModSmall, WordCount
<1>7. ~new_transaction => UNCHANGED <<address_reg, bytecount_reg>>
  BY <1>4 DEF Clock, Counters
<1>8. stored' = Stored /\ lastStored' = lastStored
  BY DEF Clock, History
<1> QED BY <1>1, <1>2, <1>3, <1>5, <1>6, <1>7, <1>8

\* The first edge of a descriptor: the counters are loaded.
LEMMA StartEdge ==
    ASSUME IInv, NEW w, NEW rd, Clock(w, rd), ~make_report, Run, ~run_r
    PROVE  /\ flow_control' = "RUN_S" /\ run_r' = TRUE
           /\ state' = "WAIT_SOP_S"
           /\ address_reg' = descriptor.address /\ bytecount_reg' = 0
           /\ stored' = <<>> /\ lastStored' = lastStored
<1>1. ~error /\ ~eop /\ ~bytecount_limit
  BY DEF make_report, MakeReport
<1>2. flow_control' = "RUN_S" /\ run_r' = TRUE
  BY <1>1 DEF Clock, ControlFsm, Run
<1>3. state = "IDLE_S"
  BY DEF IInv, MachinesAgree
<1>4. ~endoftransaction /\ RunPosedge
  BY <1>1 DEF endoftransaction, Run, Done, RunPosedge
<1>5. state' = "WAIT_SOP_S"
  BY <1>3, <1>4 DEF Clock, WriteMasterFsm
<1>6. address_reg' = descriptor.address /\ bytecount_reg' = 0
  BY <1>4 DEF Clock, Counters
<1>7. Stored = <<>>
  <2>1. ~write
    BY <1>3, WriteFacts DEF Busy
  <2> QED BY <1>3, <2>1 DEF Stored, new_transaction, IInv, StoredPrefix, Busy
<1>8. stored' = <<>> /\ lastStored' = lastStored
  BY <1>7 DEF Clock, History
<1> QED BY <1>2, <1>5, <1>6, <1>8

\* An edge between two descriptors.
LEMMA IdleEdge ==
    ASSUME IInv, NEW w, NEW rd, Clock(w, rd), ~Run
    PROVE  /\ flow_control' \in {"IDLE_S", "RUN_S"} /\ run_r' = FALSE
           /\ flow_control' = "RUN_S" => descFifo # <<>>
           /\ state = "IDLE_S" /\ state' = "IDLE_S"
           /\ UNCHANGED <<address_reg, bytecount_reg>>
           /\ stored' = <<>> /\ lastStored' = lastStored
           /\ ~make_report
<1>1. ~make_report /\ ~RunPosedge
  BY DEF make_report, MakeReport, RunPosedge
<1>2. state = "IDLE_S"
  BY DEF IInv, MachinesAgree
<1>3. ~write
  BY <1>2, WriteFacts DEF Busy
<1>4. /\ flow_control' \in {"IDLE_S", "RUN_S"} /\ run_r' = FALSE
      /\ flow_control' = "RUN_S" => descFifo # <<>>
  BY DEF Clock, ControlFsm, Run, descriptorOnQueue, FifoEmpty
<1>5. state' = "IDLE_S"
  BY <1>1, <1>2 DEF Clock, WriteMasterFsm
<1>6. UNCHANGED <<address_reg, bytecount_reg>>
  BY <1>1, <1>3 DEF Clock, Counters, new_transaction
<1>7. stored' = <<>> /\ lastStored' = lastStored
  BY <1>1, <1>2, <1>3
     DEF Clock, History, Stored, new_transaction, IInv, StoredPrefix, Busy
<1> QED BY <1>1, <1>2, <1>4, <1>5, <1>6, <1>7

\* On an edge without a report the descriptor in progress stays the head.
LEMMA HeadKept ==
    ASSUME IInv, NEW w \in Seq(Descriptor), NEW rd, Clock(w, rd),
           ~make_report, descFifo # <<>>
    PROVE  descriptorOnQueue' /\ descriptor' = descriptor
<1>1. descFifo' = FifoEdge(descFifo, DESC_FIFO_DEPTH, w, FALSE)
  BY SignalTypes DEF Clock, Fifos
<1>2. descFifo \in Seq(Descriptor) /\ DESC_FIFO_DEPTH \in Nat
  BY RxAssumption DEF RxAssumption, IInv, TypeOK
<1>3. descFifo' # <<>> /\ Head(descFifo') = Head(descFifo)
  BY <1>1, <1>2, FifoHeadKept
<1> QED BY <1>3 DEF descriptorOnQueue, descriptor, FifoEmpty

\* The source shows the next data unit once the last one was taken, and the
\* last one as long as it was not.
LEMMA SourceFacts ==
    ASSUME IInv, Source
    PROVE  /\ snk' \in Bus /\ SourceWellFormed'
           /\ snk'.word = NextWord
           /\ snk.valid /\ ~ready => snk' = snk
<1>1. NextWord \in 1 .. MAX_WORDS
  BY RxAssumption DEF RxAssumption, NextWord, taken, IInv, TypeOK, Bus,
                      SourceWellFormed
<1>2. CASE snk.valid /\ ~ready
  BY <1>2 DEF Source, NextWord, taken, IInv, TypeOK, SourceWellFormed
<1>3. CASE ~(snk.valid /\ ~ready)
  <2>1. snk' \in Offer(NextWord) \cup Idle(NextWord)
    BY <1>3 DEF Source
  <2>2. CASE snk' \in Offer(NextWord)
    BY <1>3, <2>2 DEF Offer, SourceWellFormed
  <2>3. CASE snk' \in Idle(NextWord)
    BY <1>1, <1>3, <2>3 DEF Idle, Bus, SourceWellFormed
  <2> QED BY <2>1, <2>2, <2>3
<1> QED BY <1>2, <1>3

-----------------------------------------------------------------------------
(* A clock edge preserves the invariant, one part of it at a time.  The     *)
(* host writes the word w (no descriptor, or one) and reads a report if rd. *)

\* What the driver's rules say of the host's part in a clock edge.
HostPart(w, rd) ==
    /\ w \in Seq(Descriptor) /\ Len(w) <= 1
    /\ rd \in BOOLEAN /\ (rd => reportFifo # <<>>)
    /\ outstanding' = outstanding + Len(w) - (IF rd THEN 1 ELSE 0)
    /\ outstanding' <= DESC_FIFO_DEPTH
    /\ w = <<>> \/ outstanding < DESC_FIFO_DEPTH

\* The two state machines go on agreeing.
LEMMA MachinesStep ==
    ASSUME IInv, NEW w, NEW rd, HostPart(w, rd), Clock(w, rd)
    PROVE  MachinesAgree'
<1> w \in Seq(Descriptor)
  BY DEF HostPart
<1>1. CASE make_report
  BY <1>1, ReportEdge DEF MachinesAgree, Run
<1>2. CASE ~make_report /\ Run /\ run_r
  <2>1. descriptorOnQueue'
    BY <1>2, HeadFacts, HeadKept
  <2> QED BY <1>2, <2>1, BusyEdge DEF MachinesAgree, Run
<1>3. CASE ~make_report /\ Run /\ ~run_r
  <2>1. descriptorOnQueue'
    BY <1>3, HeadFacts, HeadKept
  <2> QED BY <1>3, <2>1, StartEdge DEF MachinesAgree, Run
<1>4. CASE ~Run
  <2>1. flow_control' = "RUN_S" => descriptorOnQueue'
    BY <1>4, IdleEdge, HeadKept
  <2> QED BY <1>4, <2>1, IdleEdge DEF MachinesAgree, Run
<1> QED BY <1>1, <1>2, <1>3, <1>4 DEF IInv, TypeOK, ControlTypeOK

\* Counters and streaming bus stay in step.
LEMMA PositionStep ==
    ASSUME IInv, NEW w, NEW rd, HostPart(w, rd), Clock(w, rd)
    PROVE  Position'
<1> w \in Seq(Descriptor)
  BY DEF HostPart
<1>0. snk'.word = NextWord /\ bytecount_reg \in Int /\ address_reg \in Int
  BY SourceFacts, WordCount DEF Clock, IInv, TypeOK
<1>1. CASE make_report
  <2>1. Run /\ state' = "IDLE_S" /\ lastStored' = Len(Stored)
    BY <1>1, ReportEdge DEF make_report, MakeReport
  <2>2. bytecount_reg' = Len(Stored)
    <3>1. CASE run_r
      <4>1. Busy /\ ~RunPosedge
        BY <2>1, <3>1 DEF IInv, MachinesAgree, Busy, RunPosedge
      <4>2. Len(stored) = bytecount_reg
        BY <4>1 DEF IInv, StoredPrefix
      <4>3. CASE new_transaction
        <5>1. write
          BY <4>3 DEF new_transaction
        <5>2. bytecount_reg' = (bytecount_reg + 1) % WordCountMod
          BY <4>1, <4>3 DEF Clock, Counters
        <5>3. bytecount_reg + 1 \in 0 .. WordCountMod - 1
          BY <5>1, WriteFacts, LimitFacts, WordCount DEF IInv, TypeOK
        <5>4. Len(Stored) = bytecount_reg + 1
          BY <4>2, <4>3 DEF Stored, IInv, TypeOK
        <5> QED BY <5>2, <5>3, <5>4, ModSmall, WordCount
      <4>4. CASE ~new_transaction
        BY <4>1, <4>2, <4>4 DEF Clock, Counters, Stored
      <4> QED BY <4>3, <4>4
    <3>2. CASE ~run_r
      <4>1. ~Busy /\ RunPosedge
        BY <2>1, <3>2 DEF IInv, MachinesAgree, Busy, RunPosedge
      <4>2. stored = <<>> /\ ~new_transaction
        BY <4>1, WriteFacts DEF IInv, StoredPrefix, new_transaction
      <4>3. Stored = <<>> /\ bytecount_reg' = 0
        BY <4>1, <4>2 DEF Stored, Clock, Counters
      <4> QED BY <4>3
    <3> QED BY <3>1, <3>2 DEF IInv, TypeOK, ControlTypeOK
  <2> QED BY <2>1, <2>2 DEF Position, Busy
<1>2. CASE ~make_report /\ Run /\ run_r
  <2>1. descriptor' = descriptor /\ descriptor \in Descriptor
    BY <1>2, HeadFacts, HeadKept
  <2>2. Limit(descriptor)' = Limit(descriptor)
    BY <2>1 DEF Limit
  <2>3. Busy /\ Busy'
    BY <1>2, BusyEdge DEF Busy
  <2>4. /\ bytecount_reg' <= Limit(descriptor)
        /\ address_reg' = descriptor.address + bytecount_reg'
    <3>1. /\ bytecount_reg <= Limit(descriptor)
          /\ address_reg = descriptor.address + bytecount_reg
      BY <2>3 DEF IInv, Position
    <3>2. new_transaction => bytecount_reg < Limit(descriptor)
      BY WriteFacts DEF new_transaction
    <3>3. Limit(descriptor) \in Int /\ descriptor.address \in Int
      BY <2>1, LimitFacts, WordCount
    <3>4. CASE new_transaction
      <4>1. address_reg' = address_reg + 1 /\ bytecount_reg' = bytecount_reg + 1
        BY <1>2, <3>4, BusyEdge
      <4> QED BY <1>0, <3>1, <3>2, <3>3, <3>4, <4>1
    <3>5. CASE ~new_transaction
      <4>1. address_reg' = address_reg /\ bytecount_reg' = bytecount_reg
        BY <1>2, <3>5, BusyEdge
      <4> QED BY <3>1, <4>1
    <3> QED BY <3>4, <3>5
  <2>5. ASSUME state' = "WAIT_SOP_S" PROVE bytecount_reg' = 0
    <3>1. state = "WAIT_SOP_S" /\ ~sop
      BY <1>2, <2>5, BusyEdge
    <3>2. ~new_transaction
      BY <3>1 DEF new_transaction, write, wait_for_sop
    <3>3. bytecount_reg = 0
      BY <3>1 DEF IInv, Position
    <3> QED BY <1>2, <3>2, <3>3, BusyEdge
  <2>6. ASSUME state' = "RUN_S" PROVE snk'.word = bytecount_reg' + 1
    <3>1. ~bytecount_limit /\ ~eop
      BY <1>2, BusyEdge
    <3>2. st2mm_run
      BY <1>2, <3>1, BusyEdge DEF st2mm_run, run_state, wait_for_sop
    <3>3. snk.word = bytecount_reg + 1 /\ write = snk.valid
      <4>1. CASE state = "RUN_S"
        BY <3>2, <4>1 DEF IInv, TypeOK, Bus, Position, write, wait_for_sop
      <4>2. CASE state = "WAIT_SOP_S"
        <5>1. sop
          BY <1>2, <2>6, <4>2, BusyEdge
        <5>2. bytecount_reg = 0 /\ snk.word = 1 /\ snk.valid
          BY <4>2, <5>1 DEF IInv, Position, sop
        <5>3. write
          BY <4>2, <5>1 DEF write, wait_for_sop
        <5> QED BY <5>2, <5>3 DEF IInv, TypeOK, Bus
      <4> QED BY <1>2, <4>1, <4>2, BusyEdge
    <3>4. taken <=> new_transaction
      BY <3>2, <3>3 DEF taken, ready, new_transaction
    <3>5. snk'.word = IF new_transaction THEN snk.word + 1 ELSE snk.word
      <4>1. new_transaction => ~snk.eop
        BY <3>1 DEF eop
      <4> QED BY <1>0, <3>4, <4>1 DEF NextWord
    <3> QED BY <1>0, <1>2, <3>3, <3>5, BusyEdge
  <2> QED BY <2>1, <2>2, <2>3, <2>4, <2>5, <2>6 DEF Position
<1>3. CASE ~make_report /\ Run /\ ~run_r
  <2>1. descriptor' = descriptor /\ descriptor \in Descriptor
    BY <1>3, HeadFacts, HeadKept
  <2>2. Limit(descriptor)' = Limit(descriptor) /\ Limit(descriptor) >= 1
        /\ Limit(descriptor) \in Int /\ descriptor.address \in Int
    BY <2>1, LimitFacts, WordCount DEF Limit
  <2>3. /\ state' = "WAIT_SOP_S" /\ bytecount_reg' = 0
        /\ address_reg' = descriptor.address
    BY <1>3, StartEdge
  <2>4. address_reg' = descriptor.address + bytecount_reg'
    BY <2>2, <2>3
  <2> QED BY <2>1, <2>2, <2>3, <2>4 DEF Position, Busy
<1>4. CASE ~Run
  BY <1>4, IdleEdge DEF Position, Busy, IInv
<1> QED BY <1>1, <1>2, <1>3, <1>4 DEF IInv, TypeOK, ControlTypeOK

\* The words stored stay the beginning of one packet.
LEMMA StoredStep ==
    ASSUME IInv, NEW w, NEW rd, HostPart(w, rd), Clock(w, rd)
    PROVE  StoredPrefix'
<1> w \in Seq(Descriptor)
  BY DEF HostPart
<1>1. CASE make_report
  BY <1>1, ReportEdge DEF StoredPrefix, Busy
<1>2. CASE ~make_report /\ Run /\ run_r
  <2>1. descriptor' = descriptor /\ descriptor \in Descriptor
    BY <1>2, HeadFacts, HeadKept
  <2>2. Busy /\ Busy' /\ stored' = Stored
    BY <1>2, BusyEdge DEF Busy
  <2>3. /\ Len(stored) = bytecount_reg
        /\ stored \in Seq([at : Nat, word : 1 .. MAX_WORDS])
        /\ \A i \in DOMAIN stored :
              stored[i] = [at |-> descriptor.address + i - 1, word |-> i]
    BY <2>2 DEF IInv, StoredPrefix, TypeOK
  <2>4. CASE new_transaction
    <3> DEFINE new == [at |-> address_reg, word |-> snk.word]
    <3>1. /\ address_reg = descriptor.address + bytecount_reg
          /\ snk.word = bytecount_reg + 1
      BY <2>4, WriteFacts DEF new_transaction
    <3>2. stored' = Append(stored, new)
      BY <2>2, <2>4 DEF Stored
    <3>3. /\ Len(stored') = Len(stored) + 1
          /\ \A i \in 1 .. Len(stored) : stored'[i] = stored[i]
          /\ stored'[Len(stored) + 1] = new
      BY <2>3, <3>2
    <3>4. bytecount_reg' = bytecount_reg + 1
      BY <1>2, <2>4, BusyEdge
    <3>5. DOMAIN stored' = 1 .. Len(stored) + 1 /\ DOMAIN stored = 1 .. Len(stored)
      BY <2>3, <3>2
    <3>6. ASSUME NEW i \in DOMAIN stored'
          PROVE  stored'[i] = [at |-> descriptor.address + i - 1, word |-> i]
      <4>1. CASE i \in DOMAIN stored
        BY <2>3, <3>3, <3>5, <4>1
      <4>2. CASE i \notin DOMAIN stored
        <5>1. i = bytecount_reg + 1
          BY <2>3, <3>5, <4>2
        <5>2. descriptor.address + i - 1 = address_reg
          BY <2>1, <3>1, <5>1, LimitFacts, WordCount DEF IInv, TypeOK
        <5> QED BY <2>3, <3>1, <3>3, <5>1, <5>2
      <4> QED BY <4>1, <4>2
    <3> QED BY <2>1, <2>2, <2>3, <3>3, <3>4, <3>6 DEF StoredPrefix
  <2>5. CASE ~new_transaction
    <3>1. stored' = stored
      BY <2>2, <2>5 DEF Stored
    <3>2. bytecount_reg' = bytecount_reg
      BY <1>2, <2>5, BusyEdge
    <3> QED BY <2>1, <2>2, <2>3, <3>1, <3>2 DEF StoredPrefix
  <2> QED BY <2>4, <2>5
<1>3. CASE ~make_report /\ Run /\ ~run_r
  <2>1. stored' = <<>> /\ bytecount_reg' = 0 /\ Busy'
    BY <1>3, StartEdge DEF Busy
  <2> QED BY <2>1 DEF StoredPrefix
<1>4. CASE ~Run
  BY <1>4, IdleEdge DEF StoredPrefix, Busy
<1> QED BY <1>1, <1>2, <1>3, <1>4 DEF IInv, TypeOK, ControlTypeOK

\* A report made is one: its bytecount fits the field.
LEMMA ReportType ==
    ASSUME IInv
    PROVE  rx_report \in Report
<1>1. real_bytecount * BYTES_NUM - snk.empty \in Int
  <2>1. /\ BYTES_NUM \in Nat \ {0} /\ snk.empty \in Int
        /\ bytecount_reg \in Int
    BY RxAssumption, WordCount DEF RxAssumption, IInv, TypeOK, Bus
  <2>2. real_bytecount \in Int
    BY <2>1, WordCount DEF real_bytecount
  <2>3. \A x, b, e \in Int : x * b - e \in Int
    OBVIOUS
  <2> QED BY <2>1, <2>2, <2>3
<1>2. (real_bytecount * BYTES_NUM - snk.empty) % BYTECOUNT_MOD
          \in 0 .. BYTECOUNT_MOD - 1
  BY <1>1, ModRange, RxAssumption DEF RxAssumption
<1> QED BY <1>2, SignalTypes DEF rx_report, Report

\* The report FIFO is not full when a report is pushed: the descriptor the
\* report is for still counts among those in flight.
LEMMA RoomForReport ==
    ASSUME IInv, make_report
    PROVE  Len(reportFifo) < RX_RESPONSE_FIFO_DEPTH
<1>1. Run
  BY DEF make_report, MakeReport
<1>2. Len(descFifo) >= 1 /\ Len(descFifo) \in Nat /\ Len(reportFifo) \in Nat
  <2>1. /\ descFifo \in Seq(Descriptor) /\ descFifo # <<>>
        /\ reportFifo \in Seq(Report)
    BY <1>1, HeadFacts DEF IInv, TypeOK
  <2> QED BY <2>1
<1>3. /\ outstanding = Len(descFifo) + Len(reportFifo)
      /\ outstanding <= DESC_FIFO_DEPTH
  BY DEF IInv, InFlight, NothingDropped
<1>4. /\ DESC_FIFO_DEPTH \in Nat /\ RX_RESPONSE_FIFO_DEPTH \in Nat
      /\ RX_RESPONSE_FIFO_DEPTH >= DESC_FIFO_DEPTH
  BY RxAssumption, HostAssumption DEF RxAssumption, HostAssumption
<1> QED BY <1>2, <1>3, <1>4

\* No descriptor and no report gets lost.
LEMMA FlightStep ==
    ASSUME IInv, NEW w, NEW rd, HostPart(w, rd), Clock(w, rd)
    PROVE  /\ InFlight' /\ outstanding' \in Nat
           /\ descFifo' \in Seq(Descriptor)
           /\ Len(descFifo') <= DESC_FIFO_DEPTH
           /\ reportFifo' \in Seq(Report)
           /\ Len(reportFifo') <= RX_RESPONSE_FIFO_DEPTH
<1> DEFINE r == IF make_report THEN <<rx_report>> ELSE <<>>
<1>1. /\ w \in Seq(Descriptor) /\ Len(w) <= 1 /\ rd \in BOOLEAN
      /\ rd => reportFifo # <<>>
      /\ outstanding' = outstanding + Len(w) - (IF rd THEN 1 ELSE 0)
      /\ outstanding' <= DESC_FIFO_DEPTH
      /\ w = <<>> \/ outstanding < DESC_FIFO_DEPTH
  BY DEF HostPart
<1>2. /\ descFifo \in Seq(Descriptor) /\ Len(descFifo) <= DESC_FIFO_DEPTH
      /\ reportFifo \in Seq(Report)
      /\ Len(reportFifo) <= RX_RESPONSE_FIFO_DEPTH
      /\ DESC_FIFO_DEPTH \in Nat /\ RX_RESPONSE_FIFO_DEPTH \in Nat
  BY RxAssumption DEF RxAssumption, IInv, TypeOK
<1>3. outstanding = Len(descFifo) + Len(reportFifo)
  BY DEF IInv, InFlight, NothingDropped
<1>4. r \in Seq(Report) /\ Len(r) = (IF make_report THEN 1 ELSE 0)
  <2>1. Len(<<rx_report>>) = 1 /\ Len(<<>>) = 0
    OBVIOUS
  <2>2. <<rx_report>> \in Seq(Report)
    BY ReportType
  <2> QED BY <2>1, <2>2
<1>5. /\ descFifo' = FifoEdge(descFifo, DESC_FIFO_DEPTH, w, make_report)
      /\ reportFifo' = FifoEdge(reportFifo, RX_RESPONSE_FIFO_DEPTH, r, rd)
  BY DEF Clock, Fifos
<1> HIDE DEF r
<1>6. make_report \in BOOLEAN /\ (make_report => descFifo # <<>>)
  BY SignalTypes, HeadFacts DEF make_report, MakeReport
<1>7. /\ descFifo' \in Seq(Descriptor) /\ Len(descFifo') <= DESC_FIFO_DEPTH
  BY <1>1, <1>2, <1>5, <1>6, FifoEdgeType
<1>8. Len(r) <= 1
  BY <1>4
<1>9. /\ reportFifo' \in Seq(Report)
      /\ Len(reportFifo') <= RX_RESPONSE_FIFO_DEPTH
  BY <1>1, <1>2, <1>4, <1>5, <1>8, FifoEdgeType
<1>10. Len(descFifo') =
           Len(descFifo) + Len(w) - (IF make_report THEN 1 ELSE 0)
  <2>1. Len(descFifo) < DESC_FIFO_DEPTH \/ w = <<>>
    BY <1>1, <1>2, <1>3
  <2> QED BY <1>1, <1>2, <1>5, <1>6, <2>1, FifoEdgeLen
<1>11. Len(reportFifo') =
           Len(reportFifo) + Len(r) - (IF rd THEN 1 ELSE 0)
  <2>1. Len(reportFifo) < RX_RESPONSE_FIFO_DEPTH \/ r = <<>>
    BY RoomForReport DEF r
  <2>2. /\ reportFifo \in Seq(Report) /\ r \in Seq(Report) /\ rd \in BOOLEAN
        /\ RX_RESPONSE_FIFO_DEPTH \in Nat
    BY <1>1, <1>2, <1>4
  <2>3. Len(FifoEdge(reportFifo, RX_RESPONSE_FIFO_DEPTH, r, rd)) =
            Len(reportFifo) + Len(r)
                - (IF rd /\ reportFifo # <<>> THEN 1 ELSE 0)
    BY <2>1, <2>2, FifoEdgeLen
  <2> QED BY <1>1, <1>5, <2>3
<1>12. outstanding' = Len(descFifo') + Len(reportFifo')
  <2>1. /\ Len(descFifo) \in Int /\ Len(reportFifo) \in Int
        /\ Len(w) \in Int
    BY <1>1, <1>2
  <2> DEFINE k == IF rd THEN 1 ELSE 0
  <2>2. k \in Int /\ outstanding' = outstanding + Len(w) - k
    BY <1>1
  <2>3. Len(reportFifo') = Len(reportFifo) + Len(r) - k
    BY <1>11
  <2> HIDE DEF k
  <2>4. CASE make_report
    <3>1. /\ Len(descFifo') = Len(descFifo) + Len(w) - 1
          /\ Len(reportFifo') = Len(reportFifo) + 1 - k
      BY <1>4, <1>10, <2>4, <2>3
    <3> QED BY <1>3, <2>1, <2>2, <3>1
  <2>5. CASE ~make_report
    <3>1. /\ Len(descFifo') = Len(descFifo) + Len(w)
          /\ Len(reportFifo') = Len(reportFifo) - k
      BY <1>4, <1>10, <2>1, <2>5, <2>2, <2>3
    <3> QED BY <1>3, <2>1, <2>2, <3>1
  <2> QED BY <2>4, <2>5
<1> QED BY <1>1, <1>7, <1>9, <1>12 DEF InFlight, NothingDropped

\* Registers, FIFOs and buses keep to their ranges.
LEMMA TypeStep ==
    ASSUME IInv, NEW w, NEW rd, HostPart(w, rd), Clock(w, rd)
    PROVE  TypeOK'
<1>1. ControlTypeOK'
  BY DEF Clock, ControlFsm, ControlTypeOK, Run
<1>2. state' \in {"IDLE_S", "WAIT_SOP_S", "RUN_S"}
  BY DEF Clock, WriteMasterFsm, IInv, TypeOK
<1>3. address_reg' \in Nat /\ bytecount_reg' \in 0 .. WordCountMod - 1
  <2>1. CASE RunPosedge
    <3>1. descriptor.address \in Nat
      BY <2>1, HeadFacts, LimitFacts DEF RunPosedge
    <3> QED BY <2>1, <3>1, WordCount DEF Clock, Counters
  <2>2. CASE ~RunPosedge /\ new_transaction
    <3>1. /\ address_reg' = address_reg + 1
          /\ bytecount_reg' = (bytecount_reg + 1) % WordCountMod
      BY <2>2 DEF Clock, Counters
    <3>2. bytecount_reg + 1 \in Int /\ address_reg \in Nat
      BY WordCount DEF IInv, TypeOK
    <3> QED BY <3>1, <3>2, ModRange, WordCount
  <2>3. CASE ~RunPosedge /\ ~new_transaction
    BY <2>3 DEF Clock, Counters, IInv, TypeOK
  <2> QED BY <2>1, <2>2, <2>3
<1>4. stored' \in Seq([at : Nat, word : 1 .. MAX_WORDS]) /\ lastStored' \in Nat
  <2>1. stored \in Seq([at : Nat, word : 1 .. MAX_WORDS])
    BY DEF IInv, TypeOK
  <2>2. [at |-> address_reg, word |-> snk.word] \in
            [at : Nat, word : 1 .. MAX_WORDS]
    BY DEF IInv, TypeOK, Bus
  <2>3. Stored \in Seq([at : Nat, word : 1 .. MAX_WORDS])
    <3>1. \A T : \A q \in Seq(T), e \in T : Append(q, e) \in Seq(T)
      OBVIOUS
    <3>2. Append(stored, [at |-> address_reg, word |-> snk.word]) \in
              Seq([at : Nat, word : 1 .. MAX_WORDS])
      BY <2>1, <2>2, <3>1
    <3> QED BY <2>1, <3>2 DEF Stored
  <2>4. <<>> \in Seq([at : Nat, word : 1 .. MAX_WORDS]) /\ Len(Stored) \in Nat
    BY <2>3
  <2> QED BY <2>3, <2>4 DEF Clock, History, IInv, TypeOK
<1>5. snk' \in Bus /\ waitrequest' \in BOOLEAN
  BY SourceFacts DEF Clock, Interconnect
<1> QED BY <1>1, <1>2, <1>3, <1>4, <1>5, FlightStep DEF TypeOK

\* All of it together.
LEMMA ClockStep ==
    ASSUME IInv, NEW w, NEW rd, HostPart(w, rd), Clock(w, rd)
    PROVE  IInv'
<1>1. SourceWellFormed'
  BY SourceFacts DEF Clock
<1> QED BY <1>1, TypeStep, MachinesStep, PositionStep, StoredStep, FlightStep
        DEF IInv

-----------------------------------------------------------------------------
\* The invariant holds at first.
LEMMA InitIInv ==
    ASSUME Init
    PROVE  IInv
<1>1. snk \in Bus /\ SourceWellFormed
  <2>1. 1 \in 1 .. MAX_WORDS
    BY RxAssumption DEF RxAssumption
  <2>2. CASE snk \in Offer(1)
    BY <2>2 DEF Offer, SourceWellFormed
  <2>3. CASE snk \in Idle(1)
    BY <2>1, <2>3 DEF Idle, Bus, SourceWellFormed
  <2> QED BY <2>2, <2>3 DEF Init
<1>2. /\ <<>> \in Seq(Descriptor) /\ <<>> \in Seq(Report)
      /\ <<>> \in Seq([at : Nat, word : 1 .. MAX_WORDS]) /\ Len(<<>>) = 0
  OBVIOUS
<1>3. DESC_FIFO_DEPTH \in Nat /\ RX_RESPONSE_FIFO_DEPTH \in Nat
  BY RxAssumption DEF RxAssumption
<1>4. TypeOK
  <2>1. Len(<<>>) <= DESC_FIFO_DEPTH /\ Len(<<>>) <= RX_RESPONSE_FIFO_DEPTH
    BY <1>2, <1>3
  <2>2. 0 \in 0 .. WordCountMod - 1
    BY WordCount
  <2> QED BY <1>1, <1>2, <2>1, <2>2
          DEF Init, TypeOK, ControlReset, ControlTypeOK
<1>5. MachinesAgree /\ Position /\ StoredPrefix
  BY DEF Init, ControlReset, MachinesAgree, Run, Position, StoredPrefix, Busy
<1>6. InFlight
  BY <1>2, <1>3 DEF Init, InFlight, NothingDropped
<1> QED BY <1>1, <1>4, <1>5, <1>6 DEF IInv

\* A reset brings it back, whatever was in progress.
LEMMA ResetStep ==
    ASSUME IInv, HostReset
    PROVE  IInv'
<1>1. snk' \in Bus /\ SourceWellFormed' /\ waitrequest' \in BOOLEAN
  BY SourceFacts DEF HostReset, Interconnect
<1>2. /\ <<>> \in Seq(Descriptor) /\ <<>> \in Seq(Report)
      /\ <<>> \in Seq([at : Nat, word : 1 .. MAX_WORDS]) /\ Len(<<>>) = 0
  OBVIOUS
<1>3. DESC_FIFO_DEPTH \in Nat /\ RX_RESPONSE_FIFO_DEPTH \in Nat
  BY RxAssumption DEF RxAssumption
<1>4. TypeOK'
  <2>1. Len(<<>>) <= DESC_FIFO_DEPTH /\ Len(<<>>) <= RX_RESPONSE_FIFO_DEPTH
    BY <1>2, <1>3
  <2>2. 0 \in 0 .. WordCountMod - 1
    BY WordCount
  <2> QED BY <1>1, <1>2, <2>1, <2>2
          DEF HostReset, TypeOK, ControlTypeOK
<1>5. MachinesAgree' /\ Position' /\ StoredPrefix'
  BY DEF HostReset, MachinesAgree, Run, Position, StoredPrefix, Busy
<1>6. InFlight'
  BY <1>2, <1>3 DEF HostReset, InFlight, NothingDropped
<1> QED BY <1>1, <1>4, <1>5, <1>6 DEF IInv

\* Every step of the core and its surroundings preserves the invariant.
LEMMA NextStep ==
    ASSUME IInv, [Next]_vars
    PROVE  IInv'
<1>0. /\ <<>> \in Seq(Descriptor) /\ Len(<<>>) = 0 /\ outstanding \in Nat
      /\ outstanding <= DESC_FIFO_DEPTH /\ DESC_FIFO_DEPTH \in Nat
  BY RxAssumption DEF RxAssumption, IInv, TypeOK, InFlight
<1>1. CASE Tick
  <2>1. HostPart(<<>>, FALSE)
    BY <1>0, <1>1 DEF Tick, HostPart
  <2> QED BY <1>1, <2>1, ClockStep DEF Tick
<1>2. ASSUME NEW d \in Descriptor, HostWriteDescriptor(d)
      PROVE  IInv'
  <2>1. <<d>> \in Seq(Descriptor) /\ Len(<<d>>) = 1
    OBVIOUS
  <2>2. HostPart(<<d>>, FALSE)
    BY <1>0, <1>2, <2>1 DEF HostWriteDescriptor, HostPart
  <2> QED BY <1>2, <2>2, ClockStep DEF HostWriteDescriptor
<1>3. CASE HostReadReport
  <2>1. HostPart(<<>>, TRUE)
    BY <1>0, <1>3 DEF HostReadReport, HostPart, FifoEmpty
  <2> QED BY <1>3, <2>1, ClockStep DEF HostReadReport
<1>4. CASE HostReset
  BY <1>4, ResetStep
<1>5. CASE UNCHANGED vars
  BY <1>5 DEF vars, masterVars, historyVars, IInv, TypeOK, ControlTypeOK,
     SourceWellFormed, MachinesAgree, Run, descriptorOnQueue, Position, Busy,
     descriptor, StoredPrefix, InFlight, NothingDropped
<1> QED BY <1>1, <1>2, <1>3, <1>4, <1>5 DEF Next

\* The inductive invariant holds in every state.
THEOREM RxInvariant == Spec => []IInv
<1>1. Init => IInv
  BY InitIInv
<1>2. IInv /\ [Next]_vars => IInv'
  BY NextStep
<1> QED BY <1>1, <1>2, PTL DEF Spec

-----------------------------------------------------------------------------
(* The properties. *)

\* Registers, FIFOs and buses keep to their ranges, for every parameter.
THEOREM RxTypeCorrect == Spec => []TypeOK
<1>1. IInv => TypeOK
  BY DEF IInv
<1> QED BY <1>1, RxInvariant, PTL

\* Control and write master never lose each other.
THEOREM RxMachinesAgree == Spec => []MachinesAgree
<1>1. IInv => MachinesAgree
  BY DEF IInv
<1> QED BY <1>1, RxInvariant, PTL

\* No descriptor and no report is dropped by a full FIFO.
THEOREM RxNothingDropped == Spec => []NothingDropped
<1>1. IInv => NothingDropped
  BY DEF IInv, InFlight
<1> QED BY <1>1, RxInvariant, PTL

\* No write, accepted or not, leaves the buffer of the descriptor in progress.
THEOREM RxWritesInsideBuffer == Spec => []WritesInsideBuffer
<1>1. IInv => WritesInsideBuffer
  <2> SUFFICES ASSUME IInv PROVE WritesInsideBuffer
    OBVIOUS
  <2>1. ASSUME write
        PROVE  /\ Run
               /\ address_reg \in descriptor.address ..
                                  descriptor.address + Limit(descriptor) - 1
    <3>1. /\ Run /\ descriptor \in Descriptor
          /\ bytecount_reg < Limit(descriptor)
          /\ address_reg = descriptor.address + bytecount_reg
      BY <2>1, WriteFacts
    <3>2. /\ descriptor.address \in Nat /\ Limit(descriptor) \in Nat
          /\ bytecount_reg \in Nat
      BY <3>1, LimitFacts, WordCount DEF IInv, TypeOK
    <3> QED BY <3>1, <3>2
  <2> QED BY <2>1 DEF WritesInsideBuffer
<1> QED BY <1>1, RxInvariant, PTL

\* What is stored for a descriptor is the beginning of one packet.
THEOREM RxStoredIsOnePacket == Spec => []StoredIsOnePacket
<1>1. IInv => StoredIsOnePacket
  <2> SUFFICES ASSUME IInv PROVE StoredIsOnePacket
    OBVIOUS
  <2>1. /\ stored \in Seq([at : Nat, word : 1 .. MAX_WORDS])
        /\ DOMAIN stored = 1 .. Len(stored)
    BY DEF IInv, TypeOK
  <2>2. stored # <<>> => Run
    BY DEF IInv, StoredPrefix, MachinesAgree, Busy
  <2>3. ASSUME NEW i \in DOMAIN stored
        PROVE  /\ stored[i].word = i
               /\ stored[i].at = descriptor.address + i - 1
    <3>1. Busy
      BY <2>1, <2>3 DEF IInv, StoredPrefix
    <3>2. stored[i] = [at |-> descriptor.address + i - 1, word |-> i]
      BY <3>1 DEF IInv, StoredPrefix
    <3> QED BY <3>2
  <2>4. CASE new_transaction
    <3> DEFINE new == [at |-> address_reg, word |-> snk.word]
    <3>1. /\ Busy /\ Run /\ descriptor \in Descriptor
          /\ snk.word = bytecount_reg + 1
          /\ address_reg = descriptor.address + bytecount_reg
      BY <2>4, WriteFacts DEF new_transaction
    <3>2. Len(stored) = bytecount_reg
      BY <3>1 DEF IInv, StoredPrefix
    <3>3. Stored = Append(stored, new)
      BY <2>4 DEF Stored
    <3>4. /\ DOMAIN Stored = 1 .. Len(stored) + 1
          /\ \A i \in 1 .. Len(stored) : Stored[i] = stored[i]
          /\ Stored[Len(stored) + 1] = new
      BY <2>1, <3>3
    <3>5. ASSUME NEW i \in DOMAIN Stored
          PROVE  /\ Stored[i].word = i
                 /\ Stored[i].at = descriptor.address + i - 1
      <4>1. CASE i \in DOMAIN stored
        BY <2>1, <2>3, <3>4, <4>1
      <4>2. CASE i \notin DOMAIN stored
        <5>1. i = bytecount_reg + 1
          BY <2>1, <3>2, <3>4, <4>2
        <5>2. descriptor.address + i - 1 = address_reg
          BY <3>1, <5>1, LimitFacts, WordCount DEF IInv, TypeOK
        <5>3. Stored[i] = new
          BY <3>2, <3>4, <5>1
        <5> QED BY <3>1, <5>1, <5>2, <5>3
      <4> QED BY <4>1, <4>2
    <3> QED BY <3>1, <3>5 DEF StoredIsOnePacket
  <2>5. CASE ~new_transaction
    <3>1. Stored = stored
      BY <2>5 DEF Stored
    <3>2. ASSUME NEW i \in DOMAIN stored PROVE Run
      BY <2>1, <2>2, <3>2
    <3> QED BY <2>3, <3>1, <3>2 DEF StoredIsOnePacket
  <2> QED BY <2>4, <2>5
<1> QED BY <1>1, RxInvariant, PTL

\* The bytecount of a report made at the end of a packet or at the limit: the
\* subtraction and the cut to the field's width lose nothing.
LEMMA ReportValue ==
    ASSUME IInv, Run, eop \/ bytecount_limit
    PROVE  /\ descriptor \in Descriptor
           /\ real_bytecount \in 1 .. Limit(descriptor)
           /\ rx_report.bytecount = real_bytecount * BYTES_NUM - snk.empty
           /\ rx_report.bytecount \in 1 .. descriptor.bytecount
           /\ eop => real_bytecount = snk.word
<1>1. descriptor \in Descriptor /\ descriptorOnQueue
  BY HeadFacts
<1>2. /\ descriptor.bytecount \in 0 .. BYTECOUNT_MOD - 1
      /\ Limit(descriptor) \in 1 .. WordCountMod - 1
      /\ Limit(descriptor) * BYTES_NUM <= descriptor.bytecount
      /\ WordCountMod \in Nat \ {0}
      /\ bytecount_reg \in 0 .. WordCountMod - 1
  BY <1>1, LimitFacts, WordCount DEF IInv, TypeOK
<1>3. /\ real_bytecount \in 1 .. Limit(descriptor)
      /\ eop => real_bytecount = snk.word
  <2>1. CASE bytecount_limit
    <3>1. bytecount_reg = Limit(descriptor)
      BY <2>1 DEF bytecount_limit
    <3>2. ~eop
      BY <1>2, <3>1, WriteFacts DEF eop, new_transaction
    <3> QED BY <1>2, <2>1, <3>1, <3>2 DEF real_bytecount
  <2>2. CASE ~bytecount_limit
    <3>1. write
      BY <2>2 DEF eop, new_transaction
    <3>2. bytecount_reg < Limit(descriptor) /\ snk.word = bytecount_reg + 1
      BY <3>1, WriteFacts
    <3>3. real_bytecount = bytecount_reg + 1
      <4>1. bytecount_reg + 1 \in 0 .. WordCountMod - 1
        BY <1>2, <3>2
      <4> QED BY <1>2, <2>2, <4>1, ModSmall DEF real_bytecount
    <3> QED BY <1>2, <3>2, <3>3
  <2> QED BY <2>1, <2>2
<1>4. /\ BYTES_NUM \in Nat \ {0} /\ snk.empty \in 0 .. BYTES_NUM - 1
      /\ BYTECOUNT_MOD \in Nat \ {0}
  BY RxAssumption DEF RxAssumption, IInv, TypeOK, Bus
<1>5. /\ real_bytecount * BYTES_NUM \in Int
      /\ Limit(descriptor) * BYTES_NUM \in Int
      /\ BYTES_NUM <= real_bytecount * BYTES_NUM
      /\ real_bytecount * BYTES_NUM <= Limit(descriptor) * BYTES_NUM
  <2>1. 1 * BYTES_NUM = BYTES_NUM
    BY <1>4
  <2>2. /\ real_bytecount \in Int /\ Limit(descriptor) \in Int
        /\ 1 <= real_bytecount /\ real_bytecount <= Limit(descriptor)
    BY <1>2, <1>3
  <2>3. \A x, b \in Int : x * b \in Int
    OBVIOUS
  <2> QED BY <1>4, <2>1, <2>2, <2>3, MulMono
<1>6. real_bytecount * BYTES_NUM - snk.empty \in 1 .. descriptor.bytecount
  BY <1>2, <1>4, <1>5
<1>7. (real_bytecount * BYTES_NUM - snk.empty) % BYTECOUNT_MOD
          = real_bytecount * BYTES_NUM - snk.empty
  <2> DEFINE x == real_bytecount * BYTES_NUM - snk.empty
  <2> HIDE DEF x
  <2>1. x \in 0 .. BYTECOUNT_MOD - 1
    BY <1>2, <1>4, <1>6 DEF x
  <2>2. x % BYTECOUNT_MOD = x
    BY <1>4, <2>1, ModSmall
  <2> QED BY <2>2 DEF x
<1> QED BY <1>1, <1>3, <1>6, <1>7 DEF rx_report

\* No report claims more bytes than the descriptor allowed, nor none.
THEOREM RxReportWithinLimit == Spec => []ReportWithinLimit
<1>1. IInv => ReportWithinLimit
  BY ReportValue DEF ReportWithinLimit, make_report, MakeReport
<1> QED BY <1>1, RxInvariant, PTL

\* A report made at the end of a packet gives the packet's length in bytes.
THEOREM RxReportIsPacketLength == Spec => []ReportIsPacketLength
<1>1. IInv => ReportIsPacketLength
  <2> SUFFICES ASSUME IInv, make_report, eop
               PROVE  rx_report.bytecount = BYTES_NUM * snk.word - snk.empty
    BY DEF ReportIsPacketLength
  <2>1. Run
    BY DEF make_report, MakeReport
  <2>2. rx_report.bytecount = snk.word * BYTES_NUM - snk.empty
    BY <2>1, ReportValue
  <2>3. BYTES_NUM \in Int /\ snk.word \in Int
    BY RxAssumption DEF RxAssumption, IInv, TypeOK, Bus
  <2>4. snk.word * BYTES_NUM = BYTES_NUM * snk.word
    BY <2>3
  <2> QED BY <2>2, <2>4
<1> QED BY <1>1, RxInvariant, PTL

\* A report without data and without an error has one cause only.
THEOREM RxEmptyReportCause == Spec => []EmptyReportCause
<1>1. IInv => EmptyReportCause
  <2> SUFFICES ASSUME IInv PROVE EmptyReportCause
    OBVIOUS
  <2>1. ASSUME make_report, Stored = <<>>, ~error
        PROVE  RunPosedge /\ lastStored = Limit(descriptor)
    <3>1. Run /\ (eop \/ bytecount_limit) /\ descriptor \in Descriptor
      BY <2>1, HeadFacts DEF make_report, MakeReport
    <3>2. ~new_transaction
      <4>1. stored \in Seq([at : Nat, word : 1 .. MAX_WORDS])
        BY DEF IInv, TypeOK
      <4>2. Append(stored, [at |-> address_reg, word |-> snk.word]) # <<>>
        BY <4>1
      <4> QED BY <2>1, <4>2 DEF Stored
    <3>3. bytecount_reg = Limit(descriptor)
      BY <3>1, <3>2 DEF eop, bytecount_limit
    <3>4. stored = <<>> /\ Limit(descriptor) # 0 /\ Len(<<>>) = 0
      BY <2>1, <3>1, <3>2, LimitFacts, WordCount DEF Stored
    <3>5. ~Busy
      BY <3>3, <3>4 DEF IInv, StoredPrefix
    <3> QED BY <3>1, <3>3, <3>5
            DEF IInv, MachinesAgree, Position, Busy, RunPosedge
  <2> QED BY <2>1 DEF EmptyReportCause
<1> QED BY <1>1, RxInvariant, PTL

\* A number of bytes counted down from zero, and from the modulus.
LEMMA ModTurn ==
    ASSUME NEW m \in Nat \ {0}, NEW e \in 0 .. m - 1
    PROVE  (0 - e) % m = (m - e) % m
<1>1. CASE e = 0
  <2>1. 0 % m = 0 /\ m % m = 0
    OBVIOUS
  <2> QED BY <1>1, <2>1
<1>2. CASE e # 0
  <2>1. m - e \in 0 .. m - 1 /\ 0 - e \in Int
    BY <1>2
  <2>2. (m - e) % m = m - e
    BY <2>1, ModSmall
  <2>3. PICK q \in Int, r \in 0 .. m - 1 :
           0 - e = q * m + r /\ (0 - e) % m = r
    <3>1. \A x \in Int : x = (x \div m) * m + (x % m) /\ x \div m \in Int
      OBVIOUS
    <3> QED BY <2>1, <3>1, ModRange
  <2>4. q = -1
    <3>1. CASE q <= -2
      <4>1. q * m <= (-2) * m
        BY <3>1, MulMono
      <4>2. q * m \in Int /\ (-2) * m = 0 - m - m
        OBVIOUS
      <4> QED BY <1>2, <2>3, <4>1, <4>2
    <3>2. CASE q >= 0
      <4>1. 0 * m <= q * m
        BY <3>2, MulMono
      <4>2. q * m \in Int /\ 0 * m = 0
        OBVIOUS
      <4> QED BY <1>2, <2>3, <4>1, <4>2
    <3> QED BY <3>1, <3>2
  <2>5. (-1) * m = 0 - m
    OBVIOUS
  <2> QED BY <2>2, <2>3, <2>4, <2>5
<1> QED BY <1>1, <1>2

\* Every report gives the data units counted, and at the limit they fill the
\* buffer.
THEOREM RxReportOfCount == Spec => []ReportOfCount
<1>1. IInv => ReportOfCount
  <2> SUFFICES ASSUME IInv, make_report PROVE ReportOfCount
    BY DEF ReportOfCount
  <2> DEFINE units == CountedSoFar + (IF bytecount_limit THEN 0 ELSE 1)
  <2>1. Run
    BY DEF make_report, MakeReport
  <2>2. /\ RunPosedge => bytecount_reg = lastStored
        /\ ~RunPosedge => Busy /\ bytecount_reg = Len(stored)
    BY <2>1 DEF IInv, MachinesAgree, Position, StoredPrefix, Busy, RunPosedge
  <2>3. CountedSoFar = bytecount_reg
    BY <2>2 DEF CountedSoFar
  <2>4. bytecount_limit /\ ~RunPosedge => Len(Stored) = Limit(descriptor)
    <3> SUFFICES ASSUME bytecount_limit, ~RunPosedge
                 PROVE  Len(Stored) = Limit(descriptor)
      OBVIOUS
    <3>1. bytecount_reg = Limit(descriptor)
      BY DEF bytecount_limit
    <3>2. /\ descriptor \in Descriptor /\ Limit(descriptor) \in Int
      BY <2>1, HeadFacts, LimitFacts, WordCount
    <3>3. ~write
      BY <3>1, <3>2, WriteFacts
    <3> QED BY <2>2, <3>1, <3>3 DEF Stored, new_transaction
  <2>5. /\ BYTES_NUM \in Nat \ {0} /\ snk.empty \in 0 .. BYTES_NUM - 1
        /\ BYTECOUNT_MOD \in Nat \ {0}
        /\ bytecount_reg \in 0 .. WordCountMod - 1
        /\ WordCountMod \in Nat \ {0}
        /\ WordCountMod * BYTES_NUM = BYTECOUNT_MOD
    BY RxAssumption, WordCount DEF RxAssumption, IInv, TypeOK, Bus
  <2>6. CASE real_bytecount = units
    <3>1. units \in Int /\ units * BYTES_NUM = BYTES_NUM * units
      BY <2>3, <2>5
    <3> QED BY <2>4, <2>6, <3>1 DEF ReportOfCount, rx_report
  <2>7. CASE real_bytecount # units
    <3>1. ~bytecount_limit /\ units = bytecount_reg + 1
      BY <2>3, <2>5, <2>7 DEF real_bytecount
    <3>2. units = WordCountMod
      <4>1. CASE units \in 0 .. WordCountMod - 1
        BY <2>5, <2>7, <3>1, <4>1, ModSmall DEF real_bytecount
      <4> QED BY <2>5, <3>1, <4>1
    <3>3. real_bytecount = 0
      <4>1. real_bytecount = units % WordCountMod
        BY <3>1 DEF real_bytecount
      <4>2. WordCountMod % WordCountMod = 0
        BY <2>5
      <4> QED BY <3>2, <4>1, <4>2
    <3>4. rx_report.bytecount = (0 - snk.empty) % BYTECOUNT_MOD
      <4>1. 0 * BYTES_NUM = 0
        BY <2>5
      <4> QED BY <3>3, <4>1 DEF rx_report
    <3>5. BYTES_NUM * units = BYTECOUNT_MOD
      <4>1. BYTES_NUM * WordCountMod = WordCountMod * BYTES_NUM
        BY <2>5
      <4> QED BY <2>5, <3>2, <4>1
    <3>6. snk.empty \in 0 .. BYTECOUNT_MOD - 1
      <4>1. 1 * BYTES_NUM <= WordCountMod * BYTES_NUM
        BY <2>5, MulMono
      <4>2. 1 * BYTES_NUM = BYTES_NUM
        BY <2>5
      <4> QED BY <2>5, <4>1, <4>2
    <3>7. (0 - snk.empty) % BYTECOUNT_MOD
              = (BYTECOUNT_MOD - snk.empty) % BYTECOUNT_MOD
      BY <2>5, <3>6, ModTurn
    <3>8. rx_report.bytecount = (BYTES_NUM * units - snk.empty) % BYTECOUNT_MOD
      BY <3>4, <3>5, <3>7
    <3> QED BY <2>4, <3>8 DEF ReportOfCount
  <2> QED BY <2>6, <2>7
<1> QED BY <1>1, RxInvariant, PTL

\* A write the interconnect holds off stays as it is until it is accepted.
THEOREM RxWriteHeld == Spec => WriteHeld
<1>1. ASSUME IInv, [Next]_vars, write, waitrequest, ~error, run_r'
      PROVE  write' /\ address_reg' = address_reg /\ snk' = snk
  <2>1. /\ Busy /\ Run /\ run_r /\ descriptor \in Descriptor
        /\ snk.valid /\ snk.word = bytecount_reg + 1
        /\ bytecount_reg < Limit(descriptor)
    BY <1>1, WriteFacts
  <2>2. ~new_transaction /\ ~eop /\ ~ready
    BY <1>1 DEF new_transaction, eop, ready
  <2>3. ~make_report
    <3>1. bytecount_reg # Limit(descriptor)
      BY <1>1, <2>1, LimitFacts, WordCount DEF IInv, TypeOK
    <3> QED BY <1>1, <2>2, <3>1
            DEF make_report, MakeReport, bytecount_limit
  <2>4. ASSUME NEW w \in Seq(Descriptor), NEW rd, Clock(w, rd)
        PROVE  write' /\ address_reg' = address_reg /\ snk' = snk
    <3>1. /\ address_reg' = address_reg /\ bytecount_reg' = bytecount_reg
          /\ state \in {"WAIT_SOP_S", "RUN_S"}
          /\ state' = (IF sop THEN "RUN_S" ELSE state)
      BY <1>1, <2>1, <2>2, <2>3, <2>4, BusyEdge
    <3>2. snk' = snk
      BY <1>1, <2>1, <2>2, <2>4, SourceFacts DEF Clock
    <3>3. descriptorOnQueue' /\ descriptor' = descriptor
      BY <1>1, <2>1, <2>3, <2>4, HeadFacts, HeadKept
    <3>4. state' = "RUN_S"
      BY <1>1, <3>1 DEF write, wait_for_sop
    <3>5. ~bytecount_limit'
      <4>1. Limit(descriptor)' = Limit(descriptor)
        BY <3>3 DEF Limit
      <4> QED BY <1>1, <2>1, <3>1, <4>1, LimitFacts, WordCount
              DEF bytecount_limit, IInv, TypeOK
    <3> QED BY <2>1, <3>1, <3>2, <3>4, <3>5
            DEF write, st2mm_run, wait_for_sop, run_state
  <2>5. CASE Next
    <3>1. <<>> \in Seq(Descriptor)
      OBVIOUS
    <3>2. \A d \in Descriptor : <<d>> \in Seq(Descriptor)
      OBVIOUS
    <3>3. ~HostReset
      BY <1>1 DEF HostReset
    <3>4. \E w \in Seq(Descriptor), rd \in BOOLEAN : Clock(w, rd)
      BY <2>5, <3>1, <3>2, <3>3
         DEF Next, Tick, HostWriteDescriptor, HostReadReport
    <3> QED BY <2>4, <3>4
  <2>6. CASE UNCHANGED vars
    BY <1>1, <2>6 DEF vars, masterVars, write, st2mm_run, wait_for_sop,
       run_state, sop, bytecount_limit, descriptorOnQueue, descriptor
  <2> QED BY <1>1, <2>5, <2>6
<1>2. ASSUME IInv, [Next]_vars
      PROVE  [write /\ waitrequest /\ ~error /\ run_r' =>
                  write' /\ address_reg' = address_reg /\ snk' = snk]_vars
  BY <1>1, <1>2
<1> QED BY <1>2, RxInvariant, PTL DEF Spec, WriteHeld

\* No packet loses its first data unit: it is stored, or ends the descriptor.
THEOREM RxNoPacketSkipped == Spec => NoPacketSkipped
<1>1. ASSUME IInv, Next, taken, snk.word = 1, run_r'
      PROVE  stored' # stored \/ make_report
  <2>1. snk.valid /\ st2mm_run /\ ~waitrequest
    BY <1>1 DEF taken, ready
  <2>2. Busy /\ write
    BY <1>1, <2>1 DEF st2mm_run, run_state, wait_for_sop, Busy, write, sop
  <2>3. new_transaction
    BY <2>1, <2>2 DEF new_transaction
  <2>4. ~make_report => stored' = Stored
    <3>1. ~HostReset
      BY <1>1 DEF HostReset
    <3> QED BY <1>1, <3>1 DEF Next, Tick, HostWriteDescriptor,
                              HostReadReport, Clock, History
  <2>5. Stored # stored
    <3>1. stored \in Seq([at : Nat, word : 1 .. MAX_WORDS])
      BY <1>1 DEF IInv, TypeOK
    <3>2. /\ Len(Append(stored, [at |-> address_reg, word |-> snk.word])) =
                 Len(stored) + 1
          /\ Len(stored) \in Nat
      BY <3>1
    <3>3. Len(Stored) # Len(stored)
      BY <2>3, <3>2 DEF Stored
    <3> QED BY <3>3
  <2> QED BY <2>4, <2>5
<1>2. IInv /\ [Next]_vars =>
          [taken /\ snk.word = 1 /\ run_r' => stored' # stored \/ make_report]_vars
  BY <1>1
<1> QED BY <1>2, RxInvariant, PTL DEF Spec, NoPacketSkipped

\* What is stored for a descriptor is the beginning of one packet, in place and
\* inside the buffer.
THEOREM RxStoredInPlace == Spec => []StoredInPlace
<1> QED BY RxWritesInsideBuffer, RxStoredIsOnePacket, PTL DEF StoredInPlace

\* What a report says of the data units stored, at each of the ways a
\* descriptor ends: exactly the packet at its end, the buffer less the empty on
\* the bus at the limit, the data unit on the bus included at an error.
THEOREM RxReportMeaning == Spec => []ReportMeaning
<1> QED BY RxReportIsPacketLength, RxReportWithinLimit, RxEmptyReportCause,
           RxReportOfCount, PTL
        DEF ReportMeaning

\* A write is held while the bus waits, and no packet loses its first word.
THEOREM RxStreamIsKept == Spec => StreamIsKept
<1> QED BY RxWriteHeld, RxNoPacketSkipped DEF StreamIsKept
=============================================================================
