--------------------------- MODULE NetdmaTxProofs ---------------------------
(***************************************************************************)
(* The transmit direction, proved for every data unit size, FIFO depth,    *)
(* number of reads under way, buffer and packet length, both builds, and   *)
(* every behaviour of the interconnect, the sink and the host that the     *)
(* model has.                                                              *)
(*                                                                         *)
(* ReadInv is what holds whenever the host resets: the reads made for the  *)
(* descriptor at the head are counted (Asking), and Room is what the early *)
(* almost_full of the FIFO buys.  A reset that finds reads under way leaves *)
(* their answers to be taken for those of the next packet (orphaned); from  *)
(* one that finds none to the next that does, the answers are counted as    *)
(* well, which is AnswerInv.  Of the data units that a descriptor needs,    *)
(* Requested have been asked for and Answered have come back, and the reads *)
(* in between are exactly those pending, in the order of their addresses    *)
(* (Requests).  The streamed data units follow from Answered alone, one     *)
(* behind it when the aligner keeps one (Answers).  A packet so long that its number of data units does not fit *)
(* into the register makes no read, or one whose answer the aligner        *)
(* ignores.                                                                *)
(***************************************************************************)
EXTENDS NetdmaTx, ScFifoTheorems

Unit == [sop : BOOLEAN, eop : BOOLEAN, empty : Int]

\* The descriptors the host gives to this build.
Given == {d \in Descriptor : unaligned \/ d.address % BYTE_NUM = 0}

TypeOK ==
    /\ ControlTypeOK
    /\ unaligned \in BOOLEAN
    /\ aligner_state \in {"EMPTY_S", "KEEP_1ST_PART"}
    /\ readdata_d1_reg \in Nat
    /\ address_reg \in Nat
    /\ bytecount_reg1 \in 0 .. WordCountMod - 1
    /\ bytecount_reg2 \in 0 .. WordCountMod - 1
    /\ sop_trigger \in BOOLEAN
    /\ descFifo \in Seq(Given)
    /\ txFifo \in Seq(Unit)
    /\ pending \in Seq(Nat)
    /\ waitrequest \in BOOLEAN /\ readdatavalid \in BOOLEAN
    /\ src_ready \in BOOLEAN
    /\ received \in Nat
    /\ orphaned \in BOOLEAN

\* The counters have been loaded for the descriptor at the head.
Active == Run /\ run_r

Requested == bytecount - bytecount_reg1
Answered == Requested - Len(pending)

FirstWord == descriptor.address \div BYTE_NUM

Room ==
    /\ Len(pending) <= TX_MM_IF_MAX_PENDING_COUNT
    /\ Len(pending) = TX_MM_IF_MAX_PENDING_COUNT => waitrequest
    /\ pending = <<>> => ~readdatavalid
    /\ Len(txFifo) + Len(pending) <= TX_FIFO_DEPTH - 1

DescriptorThere == Run => descFifo # <<>>

Asking ==
    Active =>
        /\ bytecount_reg1 <= bytecount
        /\ address_reg = descriptor.address + Requested * BYTE_NUM

\* What is kept whatever comes back from the interconnect.
ReadInv == TypeOK /\ Room /\ DescriptorThere /\ Asking

Quiet ==
    /\ ~Active => pending = <<>> /\ received = 0
    /\ Run /\ ~run_r => aligner_state = "EMPTY_S"

Requests ==
    Active =>
        /\ Len(pending) <= Requested
        /\ \A i \in 1 .. Len(pending) :
              pending[i] = FirstWord + Answered + i - 1

Answers ==
    Active =>
        /\ bytecount_reg2 = bytecount - received
        /\ sop_trigger <=> received = 0
        /\ bytecount > PRE_INCR => Answered < bytecount
        /\ ~unaligned => received = Answered
        /\ unaligned /\ bytecount <= 1 =>
              received = 0 /\ aligner_state = "EMPTY_S"
        /\ unaligned /\ bytecount > 1 =>
              /\ received = IF Answered = 0 THEN 0 ELSE Answered - 1
              /\ aligner_state = "KEEP_1ST_PART" <=> Answered > 0
              /\ Answered > 0 => readdata_d1_reg = FirstWord + Answered - 1

AnswerInv == ReadInv /\ Quiet /\ Requests /\ Answers

IInv == ReadInv /\ (~orphaned => AnswerInv)

-----------------------------------------------------------------------------
(* Arithmetic of data units. *)

\* Quotient and remainder put together again.
LEMMA DivMod ==
    ASSUME NEW x \in Nat, NEW b \in Nat \ {0}
    PROVE  /\ x \div b \in Nat
           /\ x % b \in 0 .. b - 1
           /\ x = (x \div b) * b + (x % b)
OBVIOUS

\* The product with a data unit's size grows with the number of words.
LEMMA MulMono ==
    ASSUME NEW x \in Int, NEW y \in Int, x <= y, NEW b \in Nat \ {0}
    PROVE  x * b <= y * b
OBVIOUS

\* A product with a sum of numbers of words.
LEMMA MulSum ==
    ASSUME NEW x \in Int, NEW y \in Int, NEW b \in Int
    PROVE  (x + y) * b = x * b + y * b
OBVIOUS

\* A byte's place: the data unit it is in, and where in that.
LEMMA DivUnique ==
    ASSUME NEW q \in Nat, NEW b \in Nat \ {0}, NEW r \in 0 .. b - 1
    PROVE  (q * b + r) \div b = q /\ (q * b + r) % b = r
<1> DEFINE x == q * b + r
           k == x \div b
           t == x % b
<1>1. x \in Nat
  OBVIOUS
<1>2. k \in Nat /\ t \in 0 .. b - 1 /\ q * b + r = k * b + t
  <2> HIDE DEF x
  <2>1. k \in Nat /\ t \in 0 .. b - 1 /\ x = k * b + t
    BY <1>1, DivMod
  <2> QED BY <2>1 DEF x
<1> HIDE DEF x, k, t
<1>3. k = q
  <2>1. ASSUME q + 1 <= k PROVE FALSE
    <3>1. (q + 1) * b <= k * b
      BY <1>2, <2>1, MulMono
    <3>2. (q + 1) * b = q * b + b
      BY MulSum
    <3> QED BY <1>2, <3>1, <3>2
  <2>2. ASSUME k + 1 <= q PROVE FALSE
    <3>1. (k + 1) * b <= q * b
      BY <1>2, <2>2, MulMono
    <3>2. (k + 1) * b = k * b + b
      BY <1>2, MulSum
    <3> QED BY <1>2, <3>1, <3>2
  <2> QED BY <1>2, <2>1, <2>2
<1>4. t = r
  BY <1>2, <1>3
<1> QED BY <1>3, <1>4 DEF x, k, t

\* A register that is a little too small holds what exceeds it.
LEMMA ModLittle ==
    ASSUME NEW m \in Nat \ {0}, NEW p \in {0, 1}, NEW x \in 0 .. m + p
    PROVE  /\ x % m \in 0 .. m - 1 /\ x % m <= x
           /\ x % m > p => x % m = x
<1>1. x \in Nat /\ x % m \in 0 .. m - 1
  BY DivMod
<1>2. CASE x < m
  <2>1. x % m = x
    BY <1>1, <1>2
  <2> QED BY <1>1, <2>1
<1>3. CASE x >= m
  <2>1. x - m \in {0, 1} /\ x - m <= p
    BY <1>3
  <2>2. x % m = (x - m) % m
    BY <1>1, <1>3
  <2>3. (x - m) % m <= x - m
    BY <2>1
  <2> QED BY <1>1, <1>3, <2>1, <2>2, <2>3
<1> QED BY <1>2, <1>3

\* The range of a bytecount is a whole number of data units.
LEMMA WordCount ==
    /\ WordCountMod \in Nat \ {0}
    /\ WordCountMod * BYTE_NUM = BYTECOUNT_MOD
<1>1. /\ BYTE_NUM \in Nat \ {0} /\ BYTECOUNT_MOD \in Nat \ {0}
      /\ BYTECOUNT_MOD % BYTE_NUM = 0
  BY TxAssumption DEF TxAssumption
<1>2. \A m, b \in Nat \ {0} : m % b = 0 => /\ m \div b \in Nat \ {0}
                                           /\ (m \div b) * b = m
  OBVIOUS
<1> QED BY <1>1, <1>2 DEF WordCountMod

\* The number of data units that hold a packet of a given length.
LEMMA UnitsFacts ==
    ASSUME NEW d \in Descriptor
    PROVE  /\ d.address \in Nat /\ d.bytecount \in Nat \ {0}
           /\ Units(d) \in 1 .. WordCountMod
           /\ Units(d) = d.bytecount \div BYTE_NUM
                           + (IF d.bytecount % BYTE_NUM = 0 THEN 0 ELSE 1)
           /\ (Units(d) - 1) * BYTE_NUM < d.bytecount
           /\ (BYTE_NUM - (d.bytecount % BYTE_NUM)) % BYTE_NUM =
                  Units(d) * BYTE_NUM - d.bytecount
<1> DEFINE b == BYTE_NUM
           len == d.bytecount
           q == len \div b
           r == len % b
           u == IF r = 0 THEN q ELSE q + 1
<1>1. /\ b \in Nat \ {0} /\ d.address \in Nat
      /\ len \in Nat \ {0} /\ len < BYTECOUNT_MOD /\ BYTECOUNT_MOD \in Nat
  <2>1. /\ BYTE_NUM \in Nat \ {0} /\ BYTECOUNT_MOD \in Nat \ {0}
        /\ ADDRESSES \subseteq Nat /\ LENGTHS \subseteq 1 .. BYTECOUNT_MOD - 1
    BY TxAssumption DEF TxAssumption
  <2>2. d.address \in ADDRESSES /\ d.bytecount \in LENGTHS
    BY DEF Descriptor
  <2>3. d.address \in Nat /\ d.bytecount \in 1 .. BYTECOUNT_MOD - 1
    BY <2>1, <2>2
  <2> QED BY <2>1, <2>3
<1> HIDE DEF b, len
<1>2. /\ q \in Nat /\ r \in 0 .. b - 1 /\ len = q * b + r
  BY <1>1, DivMod
<1> HIDE DEF q, r
<1>3. u \in Nat \ {0} /\ (len + b - 1) \div b = u /\ (u - 1) * b < len
  <2>1. CASE r = 0
    <3>1. len + b - 1 = q * b + (b - 1) /\ b - 1 \in 0 .. b - 1
      BY <1>1, <1>2, <2>1
    <3>2. q # 0
      BY <1>1, <1>2, <2>1
    <3>3. (q - 1) * b = q * b - b
      BY <1>1, <1>2
    <3> QED BY <1>1, <1>2, <2>1, <3>1, <3>2, <3>3, DivUnique
  <2>2. CASE r # 0
    <3>1. (q + 1) * b = q * b + b
      BY <1>1, <1>2, MulSum
    <3>2. len + b - 1 = (q + 1) * b + (r - 1) /\ r - 1 \in 0 .. b - 1
      BY <1>1, <1>2, <2>2, <3>1
    <3>3. q + 1 \in Nat
      BY <1>2
    <3>4. (len + b - 1) \div b = q + 1
      BY <1>1, <3>2, <3>3, DivUnique
    <3> QED BY <1>1, <1>2, <2>2, <3>3, <3>4, SMTT(30)
  <2> QED BY <2>1, <2>2
<1>4. (b - r) % b = u * b - len
  <2>1. CASE r = 0
    <3>1. b % b = 0
      BY <1>1
    <3> QED BY <1>1, <1>2, <2>1, <3>1
  <2>2. CASE r # 0
    <3>1. (q + 1) * b = q * b + b
      BY <1>1, <1>2, MulSum
    <3>2. b - r \in 0 .. b - 1
      BY <1>1, <1>2, <2>2
    <3>3. (b - r) % b = b - r
      BY <1>1, <3>2
    <3> QED BY <1>1, <1>2, <2>2, <3>1, <3>3
  <2> QED BY <2>1, <2>2
<1>5. u <= WordCountMod
  <2>1. ASSUME u - 1 >= WordCountMod PROVE FALSE
    <3>1. WordCountMod * b <= (u - 1) * b
      BY <1>1, <1>3, <2>1, WordCount, MulMono
    <3>2. (u - 1) * b \in Int
      BY <1>1, <1>3
    <3> QED BY <1>1, <1>3, <3>1, <3>2, WordCount DEF b
  <2> QED BY <1>3, <2>1, WordCount
<1>6. Units(d) = u
  BY <1>3 DEF Units, b, len
<1>7. Units(d) \in 1 .. WordCountMod
  BY <1>3, <1>5, <1>6, WordCount
<1>8. Units(d) = q + (IF r = 0 THEN 0 ELSE 1)
  BY <1>2, <1>6
<1> QED BY <1>1, <1>3, <1>4, <1>6, <1>7, <1>8 DEF b, len, q, r

-----------------------------------------------------------------------------
(* What the wires show in a state of the invariant. *)

\* The data units read for a descriptor: those of the packet and the one more
\* of the aligner, unless they are too many for the register.
LEMMA ReadsFacts ==
    ASSUME ReadInv, Run
    PROVE  /\ descFifo # <<>>
           /\ descriptor \in Descriptor
           /\ unaligned \/ descriptor.address % BYTE_NUM = 0
           /\ PRE_INCR \in {0, 1}
           /\ bytecount \in 0 .. WordCountMod - 1
           /\ bytecount <= Units(descriptor) + PRE_INCR
           /\ bytecount > PRE_INCR =>
                  bytecount = Units(descriptor) + PRE_INCR
<1>1. descFifo # <<>> /\ descFifo \in Seq(Given)
  BY DEF ReadInv, TypeOK, DescriptorThere
<1>2. descriptor \in Given
  BY <1>1 DEF descriptor
<1>3. descriptor \in Descriptor
      /\ (unaligned \/ descriptor.address % BYTE_NUM = 0)
  BY <1>2 DEF Given
<1>4. PRE_INCR \in {0, 1}
  BY DEF PRE_INCR
<1> DEFINE u == Units(descriptor)
<1>5. /\ u \in 1 .. WordCountMod
      /\ u = descriptor.bytecount \div BYTE_NUM
               + (IF descriptor.bytecount % BYTE_NUM = 0 THEN 0 ELSE 1)
      /\ descriptor.bytecount \div BYTE_NUM \in Int
  <2>1. descriptor.bytecount \in Nat /\ BYTE_NUM \in Nat \ {0}
    BY <1>3, UnitsFacts, TxAssumption DEF TxAssumption
  <2> QED BY <1>3, <2>1, UnitsFacts, DivMod
<1>6. bytecount = (u + PRE_INCR) % WordCountMod
  <2>1. bytecount = (descriptor.bytecount \div BYTE_NUM + PRE_INCR
                       + (IF descriptor.bytecount % BYTE_NUM = 0 THEN 0 ELSE 1))
                     % WordCountMod
    BY DEF bytecount, reminder
  <2> QED BY <1>4, <1>5, <2>1
<1>7. u + PRE_INCR \in 0 .. WordCountMod + PRE_INCR
  BY <1>4, <1>5, WordCount
<1> HIDE DEF u
<1>8. /\ bytecount \in 0 .. WordCountMod - 1
      /\ bytecount <= u + PRE_INCR
      /\ bytecount > PRE_INCR => bytecount = u + PRE_INCR
  BY <1>4, <1>6, <1>7, WordCount, ModLittle
<1> QED BY <1>1, <1>3, <1>4, <1>8 DEF u

\* What has been asked for, whatever has come back.
LEMMA AskFacts ==
    ASSUME ReadInv, Active
    PROVE  /\ Requested \in 0 .. WordCountMod - 1
           /\ Requested <= bytecount /\ bytecount \in 0 .. WordCountMod - 1
           /\ bytecount_reg1 = bytecount - Requested
           /\ BYTE_NUM \in Nat \ {0}
           /\ FirstWord \in Nat
<1>1. bytecount \in 0 .. WordCountMod - 1 /\ descriptor \in Descriptor
  BY ReadsFacts DEF Active
<1>2. /\ bytecount_reg1 \in 0 .. WordCountMod - 1
      /\ bytecount_reg1 <= bytecount
  BY DEF ReadInv, TypeOK, Asking
<1>3. BYTE_NUM \in Nat \ {0} /\ descriptor.address \in Nat
  BY <1>1, UnitsFacts, TxAssumption DEF TxAssumption
<1>4. FirstWord \in Nat
  BY <1>3, DivMod DEF FirstWord
<1> QED BY <1>1, <1>2, <1>3, <1>4, WordCount DEF Requested

\* The numbers that the invariant counts with.
LEMMA CountFacts ==
    ASSUME AnswerInv, Active
    PROVE  /\ Requested \in 0 .. WordCountMod - 1
           /\ Requested <= bytecount /\ bytecount \in 0 .. WordCountMod - 1
           /\ Len(pending) \in Nat
           /\ Answered \in 0 .. Requested
           /\ Requested = Answered + Len(pending)
           /\ BYTE_NUM \in Nat \ {0}
           /\ FirstWord \in Nat
<1>1. Len(pending) \in Nat /\ Len(pending) <= Requested
  BY DEF AnswerInv, ReadInv, TypeOK, Requests
<1>2. /\ Requested \in 0 .. WordCountMod - 1
      /\ Requested <= bytecount /\ bytecount \in 0 .. WordCountMod - 1
      /\ BYTE_NUM \in Nat \ {0} /\ FirstWord \in Nat
  BY AskFacts DEF AnswerInv
<1> QED BY <1>1, <1>2, WordCount DEF Answered

\* A read goes to the data unit that is the next to be requested.
LEMMA ReadFacts ==
    ASSUME ReadInv, read
    PROVE  /\ Active
           /\ Requested < bytecount
           /\ readAddress = FirstWord + Requested
           /\ Len(txFifo) < TX_FIFO_DEPTH - TX_MM_IF_MAX_PENDING_COUNT - 1
<1>1. Active /\ bytecount_reg1 # 0 /\ ~almost_full
  BY DEF read, run_requests, RunPosedge, Active
<1>2. Requested < bytecount
  BY <1>1, AskFacts, WordCount DEF ReadInv, TypeOK
<1>3. /\ descriptor \in Descriptor /\ descriptor.address \in Nat
      /\ address_reg = descriptor.address + Requested * BYTE_NUM
  BY <1>1, ReadsFacts, UnitsFacts DEF Active, ReadInv, Asking
<1>4. readAddress = FirstWord + Requested
  <2> DEFINE r == descriptor.address % BYTE_NUM
  <2>1. /\ FirstWord \in Nat /\ r \in 0 .. BYTE_NUM - 1
        /\ BYTE_NUM \in Nat \ {0} /\ Requested \in Nat
        /\ descriptor.address = FirstWord * BYTE_NUM + r
    <3>1. /\ FirstWord \in Nat /\ BYTE_NUM \in Nat \ {0}
          /\ Requested \in Nat
      BY <1>1, AskFacts, WordCount
    <3>2. /\ r \in 0 .. BYTE_NUM - 1
          /\ descriptor.address =
                 (descriptor.address \div BYTE_NUM) * BYTE_NUM + r
      BY <1>3, <3>1, DivMod
    <3> QED BY <3>1, <3>2 DEF FirstWord
  <2> HIDE DEF r
  <2>2. (FirstWord + Requested) * BYTE_NUM
            = FirstWord * BYTE_NUM + Requested * BYTE_NUM
    BY <2>1, MulSum
  <2>3. address_reg = (FirstWord + Requested) * BYTE_NUM + r
    <3>1. FirstWord * BYTE_NUM \in Int /\ Requested * BYTE_NUM \in Int
      BY <2>1
    <3> QED BY <1>3, <2>1, <2>2, <3>1
  <2>4. FirstWord + Requested \in Nat
    BY <2>1
  <2>5. address_reg \div BYTE_NUM = FirstWord + Requested
    BY <2>1, <2>3, <2>4, DivUnique
  <2> QED BY <2>5 DEF readAddress
<1>5. Len(txFifo) < TX_FIFO_DEPTH - TX_MM_IF_MAX_PENDING_COUNT - 1
  <2>1. Len(txFifo) \in Nat
    BY DEF ReadInv, TypeOK
  <2> QED BY <1>1, <2>1, TxAssumption DEF almost_full, FifoAlmostFull,
                                          TxAssumption
<1> QED BY <1>1, <1>2, <1>4, <1>5

\* The answer of a read belongs to the data unit that is the next to come.
LEMMA AnswerFacts ==
    ASSUME AnswerInv, readdatavalid
    PROVE  /\ Active /\ pending # <<>> /\ Len(pending) >= 1
           /\ Head(pending) = FirstWord + Answered
           /\ Answered < Requested
<1>1. pending # <<>> /\ Active
  BY DEF AnswerInv, ReadInv, Room, Quiet
<1>2. pending \in Seq(Nat) /\ Len(pending) >= 1 /\ Head(pending) = pending[1]
  BY <1>1 DEF AnswerInv, ReadInv, TypeOK
<1>3. pending[1] = FirstWord + Answered + 1 - 1 /\ Answered < Requested
  BY <1>1, <1>2, CountFacts DEF AnswerInv, Requests
<1> QED BY <1>1, <1>2, <1>3, CountFacts

\* What is streamed is the data unit that follows those streamed before.
LEMMA DataFacts ==
    ASSUME AnswerInv, new_dataunit
    PROVE  /\ Active /\ readdatavalid
           /\ bytecount = Units(descriptor) + PRE_INCR
           /\ Answered = received + PRE_INCR
           /\ received < Units(descriptor)
           /\ bytecount_reg2 = Units(descriptor) + PRE_INCR - received
           /\ unaligned => readdata_d1_reg = FirstWord + received
           /\ eop <=> received + 1 = Units(descriptor)
           /\ sop <=> received = 0
<1>1. readdatavalid
  BY DEF new_dataunit, ReaddatavalidOut
<1>2. Active /\ Answered < Requested
  BY <1>1, AnswerFacts
<1>3. /\ Requested <= bytecount /\ bytecount \in Nat /\ Answered \in Nat
      /\ FirstWord \in Nat /\ Requested \in Nat
  BY <1>2, CountFacts, WordCount
<1>4. /\ received \in Nat /\ unaligned \in BOOLEAN
      /\ PRE_INCR = IF unaligned THEN 1 ELSE 0
  BY DEF AnswerInv, ReadInv, TypeOK, PRE_INCR
<1>5. unaligned => /\ aligner_state = "KEEP_1ST_PART" /\ bytecount > 1
                   /\ Answered > 0 /\ received = Answered - 1
                   /\ readdata_d1_reg = FirstWord + Answered - 1
  <2> SUFFICES ASSUME unaligned
               PROVE  /\ aligner_state = "KEEP_1ST_PART" /\ bytecount > 1
                      /\ Answered > 0 /\ received = Answered - 1
                      /\ readdata_d1_reg = FirstWord + Answered - 1
    OBVIOUS
  <2>1. aligner_state = "KEEP_1ST_PART"
    BY DEF new_dataunit, ReaddatavalidOut
  <2>2. bytecount > 1
    BY <1>2, <1>3, <2>1 DEF AnswerInv, Answers
  <2>3. Answered > 0
    BY <1>2, <2>1, <2>2 DEF AnswerInv, Answers
  <2> QED BY <1>2, <1>3, <2>1, <2>2, <2>3 DEF AnswerInv, Answers
<1>6. ~unaligned => bytecount > 0 /\ received = Answered
  BY <1>2, <1>3 DEF AnswerInv, Answers
<1>7. bytecount > PRE_INCR
  BY <1>4, <1>5, <1>6
<1>8. bytecount = Units(descriptor) + PRE_INCR
  BY <1>2, <1>7, ReadsFacts DEF AnswerInv, Active
<1>9. Answered < bytecount /\ bytecount_reg2 = bytecount - received
      /\ (sop_trigger <=> received = 0)
  BY <1>2, <1>7 DEF AnswerInv, Answers
<1>10. Units(descriptor) \in Nat
  BY <1>2, ReadsFacts, UnitsFacts, WordCount DEF AnswerInv, Active
<1>11. /\ Answered = received + PRE_INCR
       /\ received < Units(descriptor)
       /\ bytecount_reg2 = Units(descriptor) + PRE_INCR - received
  BY <1>3, <1>4, <1>5, <1>6, <1>8, <1>9, <1>10
<1>12. unaligned => readdata_d1_reg = FirstWord + received
  BY <1>3, <1>4, <1>5
<1>13. eop <=> received + 1 = Units(descriptor)
  BY <1>2, <1>4, <1>10, <1>11 DEF eop, Active
<1>14. sop <=> received = 0
  BY <1>9 DEF sop
<1> QED BY <1>1, <1>2, <1>8, <1>11, <1>12, <1>13, <1>14

\* endofpacket comes with the answer to the last read.
LEMMA LastFacts ==
    ASSUME AnswerInv, make_report
    PROVE  /\ new_dataunit /\ Active /\ readdatavalid
           /\ bytecount_reg1 = 0 /\ Len(pending) = 1
<1>1. new_dataunit /\ eop
  BY DEF make_report, MakeReport, eop
<1>2. /\ Active /\ readdatavalid
      /\ Answered = bytecount - 1 /\ bytecount \in Nat
  <2>1. Units(descriptor) \in Nat /\ PRE_INCR \in {0, 1}
    BY <1>1, DataFacts, ReadsFacts, UnitsFacts, WordCount DEF AnswerInv, Active
  <2> QED BY <1>1, <2>1, DataFacts, WordCount DEF AnswerInv, ReadInv, TypeOK
<1>3. Answered < Requested
  BY <1>2, AnswerFacts
<1>4. Requested = bytecount /\ Len(pending) = 1
  <2>1. /\ Requested \in Int /\ Answered \in Int /\ Len(pending) \in Int
        /\ Requested <= bytecount /\ Requested = Answered + Len(pending)
    BY <1>2, CountFacts, WordCount
  <2>2. bytecount \in Int /\ Answered = bytecount - 1
    BY <1>2
  <2>3. Requested = bytecount
    BY <1>3, <2>1, <2>2
  <2>4. Requested - Answered = 1
    BY <2>2, <2>3
  <2>5. Len(pending) = Requested - Answered
    BY <2>1
  <2> QED BY <2>3, <2>4, <2>5
<1>5. bytecount_reg1 \in Int
  BY WordCount DEF AnswerInv, ReadInv, TypeOK
<1>6. bytecount_reg1 = 0
  BY <1>2, <1>4, <1>5 DEF Requested
<1> QED BY <1>1, <1>2, <1>4, <1>6

-----------------------------------------------------------------------------
(* One clock edge, part by part. *)

Taken == IF readdatavalid THEN 1 ELSE 0
Asked == IF new_pending THEN 1 ELSE 0

\* The interconnect forgets a read when it is answered, and never holds more
\* than it accepts: the same with or without a reset of the core.
LEMMA InterconnectStep ==
    ASSUME ReadInv, Interconnect
    PROVE  /\ pending' \in Seq(Nat)
           /\ Len(pending') = Len(pending) - Taken + Asked
           /\ Len(pending') <= TX_MM_IF_MAX_PENDING_COUNT
           /\ Len(pending') = TX_MM_IF_MAX_PENDING_COUNT => waitrequest'
           /\ pending' = <<>> => ~readdatavalid'
           /\ waitrequest' \in BOOLEAN /\ readdatavalid' \in BOOLEAN
           /\ src_ready' \in BOOLEAN
           /\ \A i \in 1 .. Len(pending') :
                 pending'[i] = IF i <= Len(pending) - Taken
                               THEN pending[i + Taken] ELSE readAddress
<1> DEFINE rest == IF readdatavalid THEN Tail(pending) ELSE pending
           new == IF new_pending THEN <<readAddress>> ELSE <<>>
<1>1. /\ pending \in Seq(Nat)
      /\ readdatavalid => pending # <<>>
      /\ Len(pending) <= TX_MM_IF_MAX_PENDING_COUNT
      /\ Len(pending) = TX_MM_IF_MAX_PENDING_COUNT => waitrequest
  BY DEF ReadInv, TypeOK, Room
<1>2. /\ rest \in Seq(Nat) /\ Len(rest) = Len(pending) - Taken
      /\ \A i \in 1 .. Len(rest) : rest[i] = pending[i + Taken]
  <2>1. CASE readdatavalid
    BY <1>1, <2>1 DEF Taken
  <2>2. CASE ~readdatavalid
    BY <1>1, <2>2 DEF Taken
  <2> QED BY <2>1, <2>2
<1>3. /\ new \in Seq(Nat) /\ Len(new) = Asked
      /\ Asked \in {0, 1}
      /\ Asked = 1 => new[1] = readAddress
  <2>1. CASE new_pending
    <3>1. readAddress \in Nat
      BY <2>1, ReadFacts, AskFacts, WordCount DEF new_pending
    <3> QED BY <2>1, <3>1 DEF Asked
  <2>2. CASE ~new_pending
    <3>1. <<>> \in Seq(Nat) /\ Len(<<>>) = 0
      OBVIOUS
    <3> QED BY <2>2, <3>1 DEF Asked
  <2> QED BY <2>1, <2>2
<1>4. pending' = rest \o new
  BY DEF Interconnect
<1> HIDE DEF rest, new
<1>5. /\ pending' \in Seq(Nat)
      /\ Len(pending') = Len(pending) - Taken + Asked
  BY <1>1, <1>2, <1>3, <1>4
<1>6. \A i \in 1 .. Len(pending') :
         pending'[i] = IF i <= Len(pending) - Taken
                       THEN pending[i + Taken] ELSE readAddress
  <2> SUFFICES ASSUME NEW i \in 1 .. Len(pending')
               PROVE  pending'[i] = IF i <= Len(pending) - Taken
                                    THEN pending[i + Taken] ELSE readAddress
    OBVIOUS
  <2>1. CASE i <= Len(rest)
    <3>1. pending'[i] = rest[i]
      BY <1>2, <1>3, <1>4, <2>1
    <3> QED BY <1>2, <2>1, <3>1
  <2>2. CASE i > Len(rest)
    <3>1. Asked = 1 /\ i = Len(rest) + 1
      BY <1>2, <1>3, <1>5, <2>2
    <3>2. pending'[i] = new[1]
      BY <1>2, <1>3, <1>4, <3>1
    <3> QED BY <1>2, <1>3, <2>2, <3>1, <3>2
  <2> QED BY <1>2, <2>1, <2>2
<1>7. Len(pending') <= TX_MM_IF_MAX_PENDING_COUNT
  <2>1. Asked = 1 => Len(pending) # TX_MM_IF_MAX_PENDING_COUNT
    BY <1>1 DEF Asked, new_pending
  <2>2. Len(pending) \in Nat /\ Taken \in {0, 1}
        /\ TX_MM_IF_MAX_PENDING_COUNT \in Nat
    BY <1>1, TxAssumption DEF Taken, TxAssumption
  <2> QED BY <1>1, <1>3, <1>5, <2>1, <2>2
<1> QED BY <1>5, <1>6, <1>7 DEF Interconnect

\* A data unit that comes back finds room (rm_fifo_inst, almost_full).
LEMMA FifoHasRoom ==
    ASSUME ReadInv
    PROVE  /\ Len(txFifo) \in Nat /\ Len(txFifo) < TX_FIFO_DEPTH
           /\ TX_FIFO_DEPTH \in Nat
<1>1. Len(txFifo) \in Nat /\ Len(pending) \in Nat
      /\ Len(txFifo) + Len(pending) <= TX_FIFO_DEPTH - 1
  BY DEF ReadInv, TypeOK, Room
<1> QED BY <1>1, TxAssumption DEF TxAssumption

LEMMA TxFifoStep ==
    ASSUME ReadInv, NEW w, Fifos(w)
    PROVE  /\ txFifo' \in Seq(Unit)
           /\ Len(txFifo') <= Len(txFifo) + (IF new_dataunit THEN 1 ELSE 0)
<1> DEFINE new == IF new_dataunit
                  THEN <<[sop |-> sop, eop |-> eop, empty |-> empty]>>
                  ELSE <<>>
<1>1. new \in Seq(Unit) /\ Len(new) = (IF new_dataunit THEN 1 ELSE 0)
  <2>1. CASE new_dataunit
    <3>1. sop \in BOOLEAN /\ eop \in BOOLEAN
      BY DEF sop, eop
    <3>2. empty \in Int
      <4> SUFFICES ASSUME eop PROVE empty \in Int
        BY DEF empty
      <4>1. descriptor \in Descriptor
        BY ReadsFacts DEF eop
      <4>2. /\ descriptor.bytecount \in Nat /\ BYTE_NUM \in Nat \ {0}
        BY <4>1, UnitsFacts, TxAssumption DEF TxAssumption
      <4>3. reminder \in Int
        BY <4>2, DivMod DEF reminder
      <4> QED BY <4>2, <4>3 DEF empty
    <3> HIDE DEF sop, eop, empty
    <3>3. [sop |-> sop, eop |-> eop, empty |-> empty] \in Unit
      BY <3>1, <3>2 DEF Unit
    <3> QED BY <2>1, <3>3
  <2>2. CASE ~new_dataunit
    <3>1. <<>> \in Seq(Unit) /\ Len(<<>>) = 0
      OBVIOUS
    <3> QED BY <2>2, <3>1
  <2> QED BY <2>1, <2>2
<1>2. txFifo' = FifoEdge(txFifo, TX_FIFO_DEPTH, new, src_ready)
  BY DEF Fifos
<1> HIDE DEF new
<1>3. txFifo \in Seq(Unit) /\ src_ready \in BOOLEAN /\ Len(new) <= 1
  BY <1>1 DEF ReadInv, TypeOK
<1>4. /\ Len(txFifo) \in Nat /\ TX_FIFO_DEPTH \in Nat
      /\ Len(txFifo) < TX_FIFO_DEPTH /\ Len(txFifo) <= TX_FIFO_DEPTH
  BY FifoHasRoom
<1>5. txFifo' \in Seq(Unit)
  BY <1>1, <1>2, <1>3, <1>4, FifoEdgeType
<1>6. Len(txFifo') =
          Len(txFifo) + Len(new) - (IF src_ready /\ txFifo # <<>> THEN 1 ELSE 0)
  BY <1>1, <1>2, <1>3, <1>4, FifoEdgeLen
<1>7. Len(txFifo') <= Len(txFifo) + Len(new)
  <2>1. Len(new) \in {0, 1}
    BY <1>1
  <2>2. CASE src_ready /\ txFifo # <<>>
    BY <1>4, <1>6, <2>1, <2>2
  <2>3. CASE ~(src_ready /\ txFifo # <<>>)
    BY <1>4, <1>6, <2>1, <2>3
  <2> QED BY <2>2, <2>3
<1> QED BY <1>1, <1>5, <1>7

LEMMA RoomStep ==
    ASSUME ReadInv, NEW w, Clock(w)
    PROVE  Room'
<1>1. Interconnect /\ Fifos(w)
  BY DEF Clock
<1>2. /\ Len(pending') = Len(pending) - Taken + Asked
      /\ Len(pending') <= TX_MM_IF_MAX_PENDING_COUNT
      /\ Len(pending) \in Nat /\ Len(txFifo) \in Nat
      /\ Len(pending') \in Nat
      /\ Len(txFifo') \in Nat
      /\ Len(txFifo') <= Len(txFifo) + (IF new_dataunit THEN 1 ELSE 0)
  BY <1>1, InterconnectStep, TxFifoStep DEF ReadInv, TypeOK
<1>3. Len(txFifo) + Len(pending) <= TX_FIFO_DEPTH - 1
  BY DEF ReadInv, Room
<1>4. /\ TX_FIFO_DEPTH \in Nat /\ TX_MM_IF_MAX_PENDING_COUNT \in Nat
  BY TxAssumption DEF TxAssumption
<1>5. CASE new_pending
  <2>1. Len(txFifo) < TX_FIFO_DEPTH - TX_MM_IF_MAX_PENDING_COUNT - 1
    BY <1>5, ReadFacts DEF new_pending
  <2>2. Len(txFifo') + Len(pending') <= TX_FIFO_DEPTH - 1
    BY <1>2, <1>4, <2>1
  <2> QED BY <1>1, <2>2, InterconnectStep DEF Room
<1>6. CASE ~new_pending
  <2>1. Asked = 0 /\ Taken \in {0, 1} /\ (new_dataunit => Taken = 1)
    BY <1>6 DEF Asked, Taken, new_dataunit, ReaddatavalidOut
  <2>2. Len(txFifo') + Len(pending') <= TX_FIFO_DEPTH - 1
    BY <1>2, <1>3, <1>4, <2>1
  <2> QED BY <1>1, <2>2, InterconnectStep DEF Room
<1> QED BY <1>5, <1>6

\* What the host writes, if it writes.
HostWrites == {<<>>} \cup {<<d>> : d \in Given}

\* The descriptor at the head stays until its packet has ended.
LEMMA DescriptorStep ==
    ASSUME ReadInv, NEW w \in HostWrites, Clock(w)
    PROVE  /\ descFifo' \in Seq(Given)'
           /\ ~make_report /\ descFifo # <<>> =>
                  /\ descFifo' # <<>>
                  /\ descriptor' = descriptor
                  /\ bytecount' = bytecount /\ FirstWord' = FirstWord
                  /\ PRE_INCR' = PRE_INCR
<1>1. /\ descFifo' = FifoEdge(descFifo, DESC_FIFO_DEPTH, w, make_report)
      /\ unaligned' = unaligned
      /\ DESC_FIFO_DEPTH \in Nat
  BY TxAssumption DEF Clock, Fifos, TxAssumption
<1>2. descFifo \in Seq(Given) /\ w \in Seq(Given)
  <2>1. <<>> \in Seq(Given)
    OBVIOUS
  <2>2. \A d \in Given : <<d>> \in Seq(Given)
    OBVIOUS
  <2> QED BY <2>1, <2>2 DEF ReadInv, TypeOK, HostWrites
<1>3. make_report \in BOOLEAN
  BY DEF make_report, MakeReport
<1>4. descFifo' \in Seq(Given)'
  <2>1. Given' = Given
    BY <1>1 DEF Given
  <2>2. FifoRead(descFifo, make_report) \in Seq(Given)
    BY <1>2, <1>3, FifoReadType
  <2>3. descFifo' \in Seq(Given)
    BY <1>1, <1>2, <2>2 DEF FifoEdge
  <2> QED BY <2>1, <2>3
<1>5. ASSUME ~make_report, descFifo # <<>>
      PROVE  descFifo' # <<>> /\ descriptor' = descriptor
  <2>1. descFifo' = FifoEdge(descFifo, DESC_FIFO_DEPTH, w, FALSE)
    BY <1>1, <1>3, <1>5
  <2>2. /\ FifoEdge(descFifo, DESC_FIFO_DEPTH, w, FALSE) # <<>>
        /\ Head(FifoEdge(descFifo, DESC_FIFO_DEPTH, w, FALSE))
               = Head(descFifo)
    BY <1>1, <1>2, <1>5, FifoHeadKept
  <2> QED BY <2>1, <2>2 DEF descriptor
<1>6. descriptor' = descriptor =>
          /\ bytecount' = bytecount /\ FirstWord' = FirstWord
          /\ PRE_INCR' = PRE_INCR
  BY <1>1 DEF bytecount, reminder, PRE_INCR, FirstWord
<1> QED BY <1>4, <1>5, <1>6

LEMMA TypeStep ==
    ASSUME ReadInv, NEW w \in HostWrites, Clock(w)
    PROVE  TypeOK'
<1>1. ControlTypeOK' /\ unaligned' \in BOOLEAN /\ orphaned' \in BOOLEAN
  BY DEF Clock, ControlFsm, ReadInv, TypeOK, ControlTypeOK, Run
<1>2. /\ aligner_state' \in {"EMPTY_S", "KEEP_1ST_PART"}
      /\ readdata_d1_reg' \in Nat
  <2>1. readdatavalid => Head(pending) \in Nat
    BY DEF ReadInv, TypeOK, Room
  <2> QED BY <2>1 DEF Clock, AlignerEdge, ReadInv, TypeOK
<1>3. /\ address_reg' \in Nat
      /\ bytecount_reg1' \in 0 .. WordCountMod - 1
      /\ bytecount_reg2' \in 0 .. WordCountMod - 1
  <2>1. /\ address_reg \in Nat /\ BYTE_NUM \in Nat
        /\ bytecount_reg1 \in 0 .. WordCountMod - 1
        /\ bytecount_reg2 \in 0 .. WordCountMod - 1
        /\ WordCountMod \in Nat \ {0}
    BY WordCount, TxAssumption DEF TxAssumption, ReadInv, TypeOK
  <2>2. CASE RunPosedge
    <3>1. /\ descriptor.address \in Nat
          /\ bytecount \in 0 .. WordCountMod - 1
      BY <2>2, ReadsFacts, UnitsFacts DEF RunPosedge
    <3> QED BY <2>2, <3>1 DEF Clock, Counters
  <2>3. CASE ~RunPosedge
    <3>1. /\ (bytecount_reg1 - 1) % WordCountMod \in 0 .. WordCountMod - 1
          /\ (bytecount_reg2 - 1) % WordCountMod \in 0 .. WordCountMod - 1
      BY <2>1
    <3> QED BY <2>1, <2>3, <3>1 DEF Clock, Counters
  <2> QED BY <2>2, <2>3
<1>4. sop_trigger' \in BOOLEAN
  BY DEF Clock, SopTrigger, ReadInv, TypeOK, RunPosedge
<1>5. received' \in Nat
  BY DEF Clock, History, ReadInv, TypeOK
<1>6. /\ descFifo' \in Seq(Given)' /\ txFifo' \in Seq(Unit)
      /\ pending' \in Seq(Nat)
      /\ waitrequest' \in BOOLEAN /\ readdatavalid' \in BOOLEAN
      /\ src_ready' \in BOOLEAN
  BY DescriptorStep, TxFifoStep, InterconnectStep DEF Clock
<1> QED BY <1>1, <1>2, <1>3, <1>4, <1>5, <1>6 DEF TypeOK

\* An edge in the middle of a packet, seen in the numbers of the invariant.
LEMMA ContinueFacts ==
    ASSUME ReadInv, NEW w \in HostWrites, Clock(w), Active, ~make_report
    PROVE  /\ Run /\ ~RunPosedge /\ ~eop
           /\ descriptor' = descriptor /\ bytecount' = bytecount
           /\ FirstWord' = FirstWord /\ unaligned' = unaligned
           /\ PRE_INCR' = PRE_INCR
           /\ Asked \in {0, 1} /\ Taken \in {0, 1}
           /\ Requested + Asked <= bytecount
           /\ bytecount_reg1' = bytecount_reg1 - Asked
           /\ Requested' = Requested + Asked
           /\ address_reg' = address_reg + Asked * BYTE_NUM
           /\ Len(pending') = Len(pending) - Taken + Asked
           /\ Answered' = Answered + Taken
<1>1. Run /\ ~RunPosedge /\ ~eop
  BY DEF Active, RunPosedge, make_report, MakeReport
<1>2. /\ descriptor' = descriptor /\ bytecount' = bytecount
      /\ FirstWord' = FirstWord /\ unaligned' = unaligned
      /\ PRE_INCR' = PRE_INCR
  BY <1>1, DescriptorStep DEF ReadInv, DescriptorThere, Clock
<1>3. /\ Asked \in {0, 1} /\ Taken \in {0, 1}
      /\ new_pending <=> Asked = 1
  BY DEF Asked, Taken
<1>4. /\ Requested \in Int /\ Requested <= bytecount /\ bytecount \in Int
      /\ Len(pending) \in Int
      /\ Requested = Answered + Len(pending)
      /\ BYTE_NUM \in Nat \ {0}
  <2>1. Len(pending) \in Nat
    BY DEF ReadInv, TypeOK
  <2> QED BY <2>1, AskFacts, WordCount DEF Answered
<1>5. new_pending => Requested < bytecount /\ bytecount_reg1 # 0
  BY ReadFacts DEF new_pending, read, run_requests
<1>6. Requested + Asked <= bytecount
  BY <1>3, <1>4, <1>5
<1>7. /\ bytecount_reg1 \in 0 .. WordCountMod - 1
      /\ WordCountMod \in Nat \ {0}
      /\ address_reg \in Nat
  BY WordCount DEF ReadInv, TypeOK
<1>8. /\ bytecount_reg1' = bytecount_reg1 - Asked
      /\ address_reg' = address_reg + Asked * BYTE_NUM
  <2>1. CASE new_pending
    <3>1. (bytecount_reg1 - 1) % WordCountMod = bytecount_reg1 - 1
      BY <1>5, <1>7, <2>1
    <3>2. Asked = 1 /\ Asked * BYTE_NUM = BYTE_NUM
      BY <1>3, <1>4, <2>1
    <3> QED BY <1>1, <2>1, <3>1, <3>2 DEF Clock, Counters
  <2>2. CASE ~new_pending
    <3>1. Asked = 0 /\ Asked * BYTE_NUM = 0
      BY <1>3, <1>4, <2>2
    <3> QED BY <1>1, <1>7, <2>2, <3>1 DEF Clock, Counters
  <2> QED BY <2>1, <2>2
<1>9. Requested' = Requested + Asked
  BY <1>2, <1>3, <1>4, <1>7, <1>8 DEF Requested
<1>10. Len(pending') = Len(pending) - Taken + Asked
  BY InterconnectStep DEF Clock
<1>11. Answered' = Requested' - Len(pending')
  BY DEF Answered
<1>12. Answered' = Answered + Taken
  <2>1. Answered = Requested - Len(pending)
    BY DEF Answered
  <2> QED BY <1>3, <1>4, <1>9, <1>10, <1>11, <2>1
<1> QED BY <1>1, <1>2, <1>3, <1>6, <1>8, <1>9, <1>10, <1>12

\* The control state machine, seen from the descriptor at the head.
LEMMA RunFacts ==
    ASSUME ReadInv, NEW w, Clock(w)
    PROVE  /\ run_r' = Run
           /\ Run' <=> IF Run THEN ~eop ELSE descriptorOnQueue
           /\ make_report <=> Run /\ eop
BY DEF Clock, ControlFsm, Run, ReadInv, TypeOK, ControlTypeOK, make_report,
       MakeReport

LEMMA AskingStep ==
    ASSUME ReadInv, NEW w \in HostWrites, Clock(w)
    PROVE  DescriptorThere' /\ Asking'
<1>1. DescriptorThere'
  BY RunFacts, DescriptorStep
     DEF descriptorOnQueue, FifoEmpty, ReadInv, DescriptorThere
<1>2. CASE RunPosedge /\ ~make_report
  <2>1. Run /\ descFifo # <<>>
    BY <1>2 DEF RunPosedge, ReadInv, DescriptorThere
  <2>2. descriptor' = descriptor /\ bytecount' = bytecount
    BY <1>2, <2>1, DescriptorStep
  <2>3. address_reg' = descriptor.address /\ bytecount_reg1' = bytecount
    BY <1>2 DEF Clock, Counters
  <2>4. /\ bytecount \in Nat /\ descriptor.address \in Nat
        /\ BYTE_NUM \in Nat
    BY <2>1, ReadsFacts, UnitsFacts, WordCount, TxAssumption
       DEF TxAssumption
  <2>5. Requested' = 0
    BY <2>2, <2>3, <2>4 DEF Requested
  <2> QED BY <1>1, <2>2, <2>3, <2>4, <2>5 DEF Asking
<1>3. CASE Active /\ ~make_report
  <2>1. /\ bytecount' = bytecount /\ descriptor' = descriptor
        /\ Asked \in {0, 1} /\ Requested' = Requested + Asked
        /\ bytecount_reg1' = bytecount_reg1 - Asked
        /\ address_reg' = address_reg + Asked * BYTE_NUM
    BY <1>3, ContinueFacts
  <2>2. /\ Requested \in Int /\ BYTE_NUM \in Int /\ bytecount \in Int
        /\ bytecount_reg1 \in Int /\ bytecount_reg1 <= bytecount
        /\ address_reg = descriptor.address + Requested * BYTE_NUM
        /\ descriptor.address \in Int
    <3>1. /\ Requested \in Int /\ BYTE_NUM \in Int /\ bytecount \in Int
          /\ bytecount_reg1 \in Int
      BY <1>3, AskFacts, WordCount DEF ReadInv, TypeOK
    <3>2. descriptor.address \in Int
      BY <1>3, ReadsFacts, UnitsFacts DEF Active
    <3> QED BY <1>3, <3>1, <3>2 DEF ReadInv, Asking
  <2>3. (Requested + Asked) * BYTE_NUM
            = Requested * BYTE_NUM + Asked * BYTE_NUM
    BY <2>1, <2>2, MulSum
  <2>4. Requested * BYTE_NUM \in Int /\ Asked * BYTE_NUM \in Int
    BY <2>1, <2>2
  <2>5. bytecount_reg1' <= bytecount'
    BY <2>1, <2>2
  <2> HIDE DEF Asked
  <2>6. address_reg' = descriptor'.address + Requested' * BYTE_NUM
    BY <2>1, <2>2, <2>3, <2>4
  <2> QED BY <1>1, <2>5, <2>6 DEF Asking
<1>4. CASE make_report \/ ~Run
  <2>1. ~Active'
    BY <1>4, RunFacts DEF Active
  <2> QED BY <1>1, <2>1 DEF Asking
<1> QED BY <1>1, <1>2, <1>3, <1>4 DEF RunPosedge, Active

LEMMA ReadClockStep ==
    ASSUME ReadInv, NEW w \in HostWrites, Clock(w)
    PROVE  ReadInv'
BY TypeStep, RoomStep, AskingStep DEF ReadInv

LEMMA QuietStep ==
    ASSUME AnswerInv, NEW w \in HostWrites, Clock(w)
    PROVE  Quiet'
<1>1. /\ run_r' = Run
      /\ Run' <=> IF Run THEN ~eop ELSE descriptorOnQueue
  BY RunFacts DEF AnswerInv
<1>2. make_report <=> Run /\ eop
  BY RunFacts DEF AnswerInv
<1>3. ReadInv
  BY DEF AnswerInv
<1>4. Run' /\ ~run_r' => aligner_state' = "EMPTY_S"
  BY <1>1 DEF run_receive, Clock, AlignerEdge
<1>5. ASSUME ~Active' PROVE pending' = <<>> /\ received' = 0
  <2>1. /\ pending' \in Seq(Nat) /\ pending \in Seq(Nat)
        /\ Len(pending') = Len(pending) - Taken + Asked
    BY <1>3, InterconnectStep DEF Clock, ReadInv, TypeOK
  <2>2. CASE ~Active
    <3>1. pending = <<>> /\ received = 0 /\ ~readdatavalid
      BY <2>2 DEF AnswerInv, ReadInv, Quiet, Room
    <3>2. ~new_pending /\ ~new_dataunit
      BY <1>3, <2>2, ReadFacts, DataFacts DEF new_pending
    <3>3. Len(pending') = 0
      BY <2>1, <3>1, <3>2 DEF Taken, Asked
    <3>4. received' = 0
      BY <3>1, <3>2 DEF Clock, History
    <3> QED BY <2>1, <3>3, <3>4
  <2>3. CASE Active
    <3>1. make_report
      BY <1>1, <1>2, <1>5, <2>3 DEF Active
    <3>2. Len(pending) = 1 /\ readdatavalid /\ bytecount_reg1 = 0
      BY <3>1, LastFacts
    <3>3. ~new_pending
      BY <3>2 DEF new_pending, read, run_requests
    <3>4. Len(pending') = 0
      BY <2>1, <3>2, <3>3 DEF Taken, Asked
    <3>5. received' = 0
      BY <3>1 DEF Clock, History
    <3> QED BY <2>1, <3>4, <3>5
  <2> QED BY <2>2, <2>3
<1> QED BY <1>4, <1>5 DEF Quiet

\* The edge that loads the counters.
LEMMA StartStep ==
    ASSUME AnswerInv, NEW w \in HostWrites, Clock(w), RunPosedge
    PROVE  Requests' /\ Answers'
<1>1. Run /\ ~Active /\ ReadInv
  BY DEF RunPosedge, Active, AnswerInv
<1>2. pending = <<>> /\ received = 0 /\ ~readdatavalid
  BY <1>1 DEF AnswerInv, ReadInv, Quiet, Room
<1>3. ~new_pending /\ ~new_dataunit /\ ~make_report
  BY <1>1, ReadFacts, DataFacts, LastFacts DEF new_pending
<1>4. pending' = <<>>
  <2>1. /\ pending' \in Seq(Nat)
        /\ Len(pending') = Len(pending) - Taken + Asked
    BY <1>1, InterconnectStep DEF Clock
  <2>2. Len(pending') = 0
    BY <1>2, <1>3, <2>1 DEF Taken, Asked
  <2> QED BY <2>1, <2>2
<1>5. /\ descriptor' = descriptor /\ bytecount' = bytecount
      /\ FirstWord' = FirstWord /\ PRE_INCR' = PRE_INCR
      /\ unaligned' = unaligned
  BY <1>1, <1>3, DescriptorStep DEF ReadInv, DescriptorThere, Clock
<1>6. /\ address_reg' = descriptor.address
      /\ bytecount_reg1' = bytecount /\ bytecount_reg2' = bytecount
      /\ received' = 0 /\ sop_trigger' = TRUE
      /\ aligner_state' = "EMPTY_S"
  BY <1>2, <1>3 DEF Clock, Counters, History, SopTrigger, sop, AlignerEdge,
                    run_receive
<1>7. /\ bytecount \in Nat /\ descriptor.address \in Nat
      /\ BYTE_NUM \in Nat
  BY <1>1, ReadsFacts, UnitsFacts, WordCount, TxAssumption DEF TxAssumption
<1>8. Requested' = 0 /\ Answered' = 0 /\ Len(pending') = 0
  <2>1. Len(<<>>) = 0
    OBVIOUS
  <2>2. Requested' = 0
    BY <1>5, <1>6, <1>7 DEF Requested
  <2>3. Len(pending') = 0
    BY <1>4, <2>1
  <2>4. Answered' = Requested' - Len(pending')
    BY DEF Answered
  <2> QED BY <2>2, <2>3, <2>4
<1>9. PRE_INCR' \in {0, 1}
  BY DEF PRE_INCR
<1>10. Requests'
  BY <1>4, <1>5, <1>6, <1>7, <1>8 DEF Requests
<1>11. Answers'
  BY <1>5, <1>6, <1>7, <1>8, <1>9 DEF Answers
<1> QED BY <1>10, <1>11

\* An edge in the middle of a packet: the reads in between are those pending.
LEMMA ContinueRequests ==
    ASSUME AnswerInv, NEW w \in HostWrites, Clock(w), Active, ~make_report
    PROVE  Requests'
<1>1. /\ FirstWord' = FirstWord
      /\ Asked \in {0, 1} /\ Taken \in {0, 1}
      /\ Requested' = Requested + Asked
      /\ Len(pending') = Len(pending) - Taken + Asked
      /\ Answered' = Answered + Taken
  BY ContinueFacts DEF AnswerInv
<1>2. /\ Requested \in Int /\ Answered \in Int /\ Len(pending) \in Nat
      /\ Answered >= 0 /\ FirstWord \in Nat /\ bytecount \in Nat
      /\ Requested = Answered + Len(pending)
      /\ BYTE_NUM \in Nat \ {0}
  BY CountFacts, WordCount
<1>3. ReadInv
  BY DEF AnswerInv
<1>4. Len(pending') <= Requested'
  BY <1>1, <1>2
<1>5. ASSUME NEW i \in 1 .. Len(pending')
      PROVE  pending'[i] = FirstWord' + Answered' + i - 1
  <2>1. pending'[i] = IF i <= Len(pending) - Taken
                      THEN pending[i + Taken] ELSE readAddress
    BY <1>3, InterconnectStep DEF Clock
  <2>2. CASE i <= Len(pending) - Taken
    <3>1. i + Taken \in 1 .. Len(pending)
      BY <1>1, <1>2, <2>2
    <3>2. pending[i + Taken] = FirstWord + Answered + (i + Taken) - 1
      BY <3>1 DEF AnswerInv, Requests
    <3> QED BY <1>1, <1>2, <2>1, <2>2, <3>2
  <2>3. CASE i > Len(pending) - Taken
    <3>1. Asked = 1 /\ i = Len(pending) - Taken + 1
      BY <1>1, <1>2, <2>3
    <3>2. readAddress = FirstWord + Requested
      BY <1>3, <3>1, ReadFacts DEF Asked, new_pending
    <3> QED BY <1>1, <1>2, <2>1, <2>3, <3>1, <3>2
  <2> QED BY <1>1, <1>2, <2>2, <2>3
<1> QED BY <1>4, <1>5 DEF Requests

LEMMA ContinueAnswers ==
    ASSUME AnswerInv, NEW w \in HostWrites, Clock(w), Active, ~make_report
    PROVE  Answers'
<1>1. /\ Run /\ ~RunPosedge /\ ~eop /\ run_r
      /\ bytecount' = bytecount /\ FirstWord' = FirstWord
      /\ unaligned' = unaligned /\ PRE_INCR' = PRE_INCR
      /\ Taken \in {0, 1} /\ Answered' = Answered + Taken
  BY ContinueFacts DEF AnswerInv, Active
<1>2. /\ Requested \in Int /\ Answered \in Int /\ Answered >= 0
      /\ Answered <= Requested /\ Requested <= bytecount
      /\ FirstWord \in Nat /\ bytecount \in Nat
      /\ received \in Nat
      /\ bytecount_reg2 \in 0 .. WordCountMod - 1
      /\ WordCountMod \in Nat \ {0}
  BY CountFacts, WordCount DEF AnswerInv, ReadInv, TypeOK
<1>3. /\ PRE_INCR = IF unaligned THEN 1 ELSE 0
      /\ unaligned \in BOOLEAN /\ sop_trigger \in BOOLEAN
      /\ readdatavalid \in BOOLEAN
      /\ aligner_state \in {"EMPTY_S", "KEEP_1ST_PART"}
  BY DEF AnswerInv, ReadInv, TypeOK, PRE_INCR
<1>4. /\ bytecount_reg2 = bytecount - received
      /\ sop_trigger <=> received = 0
      /\ bytecount > PRE_INCR => Answered < bytecount
      /\ ~unaligned => received = Answered
      /\ unaligned /\ bytecount <= 1 =>
            received = 0 /\ aligner_state = "EMPTY_S"
      /\ unaligned /\ bytecount > 1 =>
            /\ received = IF Answered = 0 THEN 0 ELSE Answered - 1
            /\ aligner_state = "KEEP_1ST_PART" <=> Answered > 0
            /\ Answered > 0 => readdata_d1_reg = FirstWord + Answered - 1
  BY DEF AnswerInv, Answers
<1>5. readdatavalid => /\ Head(pending) = FirstWord + Answered
                       /\ Answered < Requested
  BY AnswerFacts
<1>6. new_dataunit => /\ readdatavalid
                      /\ bytecount = Units(descriptor) + PRE_INCR
                      /\ Answered = received + PRE_INCR
                      /\ received + 1 < Units(descriptor)
                      /\ Units(descriptor) \in Nat
  <2> SUFFICES ASSUME new_dataunit
               PROVE  /\ readdatavalid
                      /\ bytecount = Units(descriptor) + PRE_INCR
                      /\ Answered = received + PRE_INCR
                      /\ received + 1 < Units(descriptor)
                      /\ Units(descriptor) \in Nat
    OBVIOUS
  <2>1. Units(descriptor) \in Nat
    BY ReadsFacts, UnitsFacts, WordCount DEF AnswerInv, Active
  <2>2. received < Units(descriptor) /\ received + 1 # Units(descriptor)
    BY <1>1, DataFacts
  <2> QED BY <1>2, <2>1, <2>2, DataFacts
<1>7. received' = IF new_dataunit THEN received + 1 ELSE received
  BY DEF Clock, History
<1>8. bytecount_reg2' = bytecount' - received'
  <2>1. CASE new_dataunit
    <3>1. bytecount_reg2 >= 1
      BY <1>2, <1>3, <1>4, <1>6, <2>1
    <3>2. (bytecount_reg2 - 1) % WordCountMod = bytecount_reg2 - 1
      BY <1>2, <3>1
    <3>3. bytecount_reg2' = bytecount_reg2 - 1
      BY <1>1, <2>1, <3>2 DEF Clock, Counters
    <3> QED BY <1>1, <1>2, <1>4, <1>7, <2>1, <3>3
  <2>2. CASE ~new_dataunit
    <3>1. bytecount_reg2' = bytecount_reg2
      BY <1>1, <2>2 DEF Clock, Counters
    <3> QED BY <1>1, <1>2, <1>4, <1>7, <2>2, <3>1
  <2> QED BY <2>1, <2>2
<1>9. sop_trigger' <=> received' = 0
  <2>1. sop_trigger' = IF sop THEN FALSE ELSE sop_trigger
    BY <1>1, <1>3 DEF Clock, SopTrigger
  <2> QED BY <1>2, <1>3, <1>4, <1>7, <2>1 DEF sop
<1>10. unaligned /\ bytecount > 1 => run_receive
  <2>1. unaligned /\ bytecount > 1 => bytecount_reg2 # 1
    BY <1>2, <1>3, <1>4
  <2> QED BY <1>1, <2>1 DEF run_receive
<1>11. ~unaligned => (new_dataunit <=> readdatavalid)
  BY DEF new_dataunit
<1>12. unaligned => (new_dataunit <=> /\ aligner_state = "KEEP_1ST_PART"
                                      /\ readdatavalid /\ run_receive)
  BY DEF new_dataunit, ReaddatavalidOut
<1>13. Taken = (IF readdatavalid THEN 1 ELSE 0)
  BY DEF Taken
<1>14. bytecount > PRE_INCR => Answered' < bytecount
  BY <1>1, <1>2, <1>3, <1>4, <1>6, <1>10, <1>11, <1>12, <1>13
<1>15. ~unaligned => received' = Answered'
  BY <1>1, <1>2, <1>4, <1>7, <1>11, <1>13
<1>16. /\ aligner_state' = IF ~run_receive THEN "EMPTY_S"
                           ELSE IF readdatavalid THEN "KEEP_1ST_PART"
                           ELSE aligner_state
       /\ readdata_d1_reg' = IF run_receive /\ readdatavalid
                             THEN Head(pending) ELSE readdata_d1_reg
  BY DEF Clock, AlignerEdge
<1>17. unaligned /\ bytecount <= 1 =>
           received' = 0 /\ aligner_state' = "EMPTY_S"
  <2> SUFFICES ASSUME unaligned, bytecount <= 1
               PROVE  received' = 0 /\ aligner_state' = "EMPTY_S"
    OBVIOUS
  <2>1. ~new_dataunit /\ received' = 0
    BY <1>4, <1>7, <1>12
  <2>2. bytecount = 1 => ~run_receive
    BY <1>4 DEF run_receive
  <2>3. bytecount = 0 => ~readdatavalid
    BY <1>2, <1>5
  <2> QED BY <1>2, <1>4, <1>16, <2>1, <2>2, <2>3
<1>18. unaligned /\ bytecount > 1 =>
           /\ received' = IF Answered' = 0 THEN 0 ELSE Answered' - 1
           /\ aligner_state' = "KEEP_1ST_PART" <=> Answered' > 0
           /\ Answered' > 0 => readdata_d1_reg' = FirstWord + Answered' - 1
  <2> SUFFICES ASSUME unaligned, bytecount > 1
               PROVE  /\ received' = IF Answered' = 0 THEN 0
                                     ELSE Answered' - 1
                      /\ aligner_state' = "KEEP_1ST_PART" <=> Answered' > 0
                      /\ Answered' > 0 =>
                            readdata_d1_reg' = FirstWord + Answered' - 1
    OBVIOUS
  <2>1. CASE readdatavalid
    <3>1. /\ aligner_state' = "KEEP_1ST_PART"
          /\ readdata_d1_reg' = FirstWord + Answered
          /\ Answered' = Answered + 1
      BY <1>1, <1>5, <1>10, <1>13, <1>16, <2>1
    <3>2. new_dataunit <=> Answered > 0
      BY <1>4, <1>10, <1>12, <2>1
    <3> QED BY <1>2, <1>4, <1>7, <3>1, <3>2
  <2>2. CASE ~readdatavalid
    <3>1. /\ aligner_state' = aligner_state
          /\ readdata_d1_reg' = readdata_d1_reg
          /\ Answered' = Answered /\ received' = received
      BY <1>1, <1>2, <1>6, <1>7, <1>10, <1>13, <1>16, <2>2
    <3> QED BY <1>4, <3>1
  <2> QED BY <2>1, <2>2
<1> QED BY <1>1, <1>8, <1>9, <1>14, <1>15, <1>17, <1>18 DEF Answers

-----------------------------------------------------------------------------
(* The invariant. *)

LEMMA InitAnswerInv == Init => AnswerInv
<1> SUFFICES ASSUME Init PROVE AnswerInv
  OBVIOUS
<1>1. /\ ~Run /\ ~Active /\ pending = <<>> /\ received = 0
  BY DEF Init, ControlReset, Run, Active
<1>2. <<>> \in Seq(Given) /\ <<>> \in Seq(Unit) /\ <<>> \in Seq(Nat)
      /\ Len(<<>>) = 0
  OBVIOUS
<1>3. TypeOK
  <2>1. unaligned \in BOOLEAN
    BY TxAssumption DEF Init, TxAssumption
  <2>2. 0 \in 0 .. WordCountMod - 1 /\ 0 \in Nat
    BY WordCount
  <2>3. ControlTypeOK
    BY DEF Init, ControlReset, ControlTypeOK
  <2> QED BY <1>2, <2>1, <2>2, <2>3 DEF Init, TypeOK, AlignerReset
<1>4. Room
  BY <1>2, TxAssumption DEF Init, Room, TxAssumption
<1>5. ReadInv
  BY <1>1, <1>3, <1>4 DEF ReadInv, DescriptorThere, Asking
<1> QED BY <1>1, <1>5 DEF AnswerInv, Quiet, Requests, Answers

LEMMA ClockStep ==
    ASSUME AnswerInv, NEW w \in HostWrites, Clock(w)
    PROVE  AnswerInv'
<1>1. ReadInv' /\ Quiet'
  BY ReadClockStep, QuietStep DEF AnswerInv
<1>2. CASE RunPosedge
  BY <1>1, <1>2, StartStep DEF AnswerInv
<1>3. CASE Active /\ ~make_report
  BY <1>1, <1>3, ContinueRequests, ContinueAnswers DEF AnswerInv
<1>4. CASE ~RunPosedge /\ ~(Active /\ ~make_report)
  <2>1. ~Active'
    BY <1>4, RunFacts DEF Active, RunPosedge, AnswerInv
  <2> QED BY <1>1, <2>1 DEF AnswerInv, Requests, Answers
<1> QED BY <1>2, <1>3, <1>4

\* A reset, whatever reads are under way.
LEMMA ReadResetStep == ReadInv /\ HostReset => ReadInv'
<1> SUFFICES ASSUME ReadInv, HostReset PROVE ReadInv'
  OBVIOUS
<1>1. ~Run' /\ ~Active'
  BY DEF HostReset, Run, Active
<1>2. /\ <<>> \in Seq(Given') /\ <<>> \in Seq(Unit)
      /\ Len(<<>>) = 0
  OBVIOUS
<1>3. /\ pending' \in Seq(Nat)
      /\ Len(pending') <= TX_MM_IF_MAX_PENDING_COUNT
      /\ Len(pending') = TX_MM_IF_MAX_PENDING_COUNT => waitrequest'
      /\ pending' = <<>> => ~readdatavalid'
      /\ waitrequest' \in BOOLEAN /\ readdatavalid' \in BOOLEAN
      /\ src_ready' \in BOOLEAN
  BY InterconnectStep DEF HostReset
<1>4. TypeOK'
  <2>1. unaligned' \in BOOLEAN /\ orphaned' \in BOOLEAN
    BY DEF HostReset, ReadInv, TypeOK
  <2>2. 0 \in 0 .. WordCountMod - 1 /\ 0 \in Nat
    BY WordCount
  <2>3. ControlTypeOK'
    BY DEF HostReset, ControlTypeOK
  <2> QED BY <1>2, <1>3, <2>1, <2>2, <2>3 DEF HostReset, TypeOK
<1>5. Room'
  <2>1. Len(txFifo') = 0
    BY <1>2 DEF HostReset
  <2>2. Len(txFifo') + Len(pending') <= TX_FIFO_DEPTH - 1
    <3>1. Len(pending') \in Nat
      BY <1>3
    <3> QED BY <1>3, <2>1, <3>1, TxAssumption DEF TxAssumption
  <2> QED BY <1>3, <2>2 DEF Room
<1> QED BY <1>1, <1>4, <1>5 DEF ReadInv, DescriptorThere, Asking

\* A reset that leaves no read under way: the answers are counted from here,
\* whatever became of those before.
LEMMA ResetStep == ReadInv /\ HostReset => IInv'
<1> SUFFICES ASSUME ReadInv, HostReset, ~orphaned' PROVE AnswerInv'
  BY ReadResetStep DEF IInv
<1>1. ~Run' /\ ~Active' /\ ReadInv'
  BY ReadResetStep DEF HostReset, Run, Active
<1>2. pending' = <<>>
  BY DEF HostReset
<1>3. Quiet'
  BY <1>1, <1>2 DEF HostReset, Quiet
<1> QED BY <1>1, <1>3 DEF AnswerInv, Requests, Answers

\* The step in which nothing happens.
LEMMA StutterStep ==
    ASSUME UNCHANGED vars
    PROVE  (ReadInv => ReadInv') /\ (IInv => IInv')
<1>1. /\ Run' = Run /\ Active' = Active /\ descriptor' = descriptor
      /\ Given' = Given
  BY DEF vars, controlVars, Run, Active, descriptor, Given
<1>2. /\ PRE_INCR' = PRE_INCR /\ FirstWord' = FirstWord
  BY <1>1 DEF vars, PRE_INCR, FirstWord
<1>3. bytecount' = bytecount
  BY <1>1, <1>2 DEF bytecount, reminder
<1>4. Requested' = Requested /\ Answered' = Answered
  BY <1>3 DEF vars, masterVars, busVars, Requested, Answered
<1>5. ReadInv => ReadInv'
  <2>1. TypeOK /\ Room => TypeOK' /\ Room'
    BY <1>1 DEF vars, controlVars, alignerVars, masterVars, busVars, TypeOK,
                ControlTypeOK, Room
  <2>2. DescriptorThere /\ Asking => DescriptorThere' /\ Asking'
    BY <1>1, <1>3, <1>4 DEF vars, masterVars, DescriptorThere, Asking
  <2> QED BY <2>1, <2>2 DEF ReadInv
<1>6. Quiet => Quiet'
  BY <1>1 DEF vars, controlVars, alignerVars, busVars, Quiet
<1>7. Requests /\ Answers => Requests' /\ Answers'
  BY <1>1, <1>2, <1>3, <1>4
     DEF vars, alignerVars, masterVars, busVars, Requests, Answers
<1>8. AnswerInv => AnswerInv'
  BY <1>5, <1>6, <1>7 DEF AnswerInv
<1>9. orphaned' = orphaned
  BY DEF vars
<1> QED BY <1>5, <1>8, <1>9 DEF IInv

\* What the host writes in one of its steps, that is what a clock edge sees.
LEMMA HostSteps ==
    ASSUME Next
    PROVE  HostReset \/ \E w \in HostWrites : Clock(w)
<1>1. CASE Tick
  BY <1>1 DEF Tick, HostWrites
<1>2. ASSUME NEW d \in Descriptor, HostWriteDescriptor(d)
      PROVE  \E w \in HostWrites : Clock(w)
  <2>1. <<d>> \in HostWrites /\ Clock(<<d>>)
    BY <1>2 DEF HostWriteDescriptor, HostWrites, Given
  <2> QED BY <2>1
<1> QED BY <1>1, <1>2 DEF Next

\* Whatever the host resets in the middle of, the FIFO has room for what comes
\* back and the reads made are counted right.
THEOREM TxReadInvariant == Spec => []ReadInv
<1>1. Init => ReadInv
  BY InitAnswerInv DEF AnswerInv
<1>2. ReadInv /\ [Next]_vars => ReadInv'
  BY HostSteps, ReadClockStep, ReadResetStep, StutterStep
<1> QED BY <1>1, <1>2, PTL DEF Spec

\* The count of reads is right in every state, and that of answers since a
\* reset that found no read under way (netdma.sv:94 clears the read master, not
\* the interconnect).
THEOREM TxInvariant == Spec => []IInv
<1>1. Init => IInv
  BY InitAnswerInv DEF IInv, AnswerInv
<1>2. IInv /\ [Next]_vars => IInv'
  <2>1. ASSUME IInv, NEW w \in HostWrites, Clock(w) PROVE IInv'
    <3>1. ReadInv' /\ orphaned' = orphaned
      BY <2>1, ReadClockStep DEF IInv, Clock
    <3> QED BY <2>1, <3>1, ClockStep DEF IInv
  <2>2. IInv /\ HostReset => IInv'
    BY ResetStep DEF IInv
  <2> QED BY <2>1, <2>2, HostSteps, StutterStep
<1> QED BY <1>1, <1>2, PTL DEF Spec

-----------------------------------------------------------------------------
(* The properties. *)

\* A data unit that comes back is never lost in a full FIFO, not even the
\* answer to a read of before a reset (netdma_mm2st_adapter.sv, almost_full).
THEOREM TxNoDataLost == Spec => []NoDataLost
<1>1. ReadInv => NoDataLost
  BY FifoHasRoom DEF NoDataLost, FifoFull
<1> QED BY <1>1, TxReadInvariant, PTL

\* No answer of the interconnect is lost in a full FIFO, whenever the host
\* resets, and none is left over when a packet ends unless the last reset found
\* reads under way (netdma_mm2st_adapter.sv, almost_full;
\* netdma_control_fsm.sv).
THEOREM TxAnswersAreKept == Spec => []AnswersAreKept
<1>1. IInv => (~orphaned => NoAnswerLeftOver)
  BY LastFacts DEF NoAnswerLeftOver, IInv, AnswerInv, Quiet, Active
<1>2. NoDataLost /\ (~orphaned => NoAnswerLeftOver) <=> AnswersAreKept
  BY DEF AnswersAreKept
<1> QED BY <1>1, <1>2, TxNoDataLost, TxInvariant, PTL

\* Nothing outside the buffer is read, but for the aligner's one data unit,
\* whenever the host resets.
THEOREM TxReadsInsideBuffer == Spec => []ReadsInsideBuffer
<1>1. ReadInv => ReadsInsideBuffer
  <2> SUFFICES ASSUME ReadInv, read
               PROVE  readAddress \in FirstWord ..
                          FirstWord + Units(descriptor) + PRE_INCR - 1
    BY DEF ReadsInsideBuffer, FirstWord
  <2>1. Active /\ Requested < bytecount /\ readAddress = FirstWord + Requested
    BY ReadFacts
  <2>2. /\ bytecount <= Units(descriptor) + PRE_INCR
        /\ Units(descriptor) \in Nat /\ PRE_INCR \in Nat /\ bytecount \in Nat
    BY <2>1, ReadsFacts, UnitsFacts, WordCount DEF Active
  <2>3. Requested \in Nat /\ FirstWord \in Nat
    BY <2>1, AskFacts, WordCount
  <2> QED BY <2>1, <2>2, <2>3
<1> QED BY <1>1, TxReadInvariant, PTL

\* The barrel shifter has no input for the last offset (amm_aligner.sv): no
\* buffer of the host begins at the last byte of a data unit.
OffsetsWired == \A a \in ADDRESSES : a % BYTE_NUM # BYTE_NUM - 1

\* The bytes on the streaming side are the bytes of the buffer.
LEMMA BytesOfBuffer ==
    ASSUME AnswerInv, OffsetsWired, new_dataunit, NEW k \in 0 .. BYTE_NUM - 1
    PROVE  readdata[k] = descriptor.address + received * BYTE_NUM + k
<1> DEFINE b == BYTE_NUM
           r == descriptor.address % b
<1>1. /\ Active /\ readdatavalid /\ descriptor \in Descriptor
      /\ unaligned \/ r = 0
      /\ Answered = received + PRE_INCR
      /\ PRE_INCR = IF unaligned THEN 1 ELSE 0
      /\ unaligned => readdata_d1_reg = FirstWord + received
      /\ Head(pending) = FirstWord + Answered
  BY DataFacts, ReadsFacts, AnswerFacts DEF AnswerInv, Active, PRE_INCR
<1>2. /\ b \in Nat \ {0} /\ FirstWord \in Nat /\ Requested \in Nat
      /\ received \in Nat /\ descriptor.address \in Nat
  BY <1>1, CountFacts, UnitsFacts, WordCount DEF AnswerInv, ReadInv, TypeOK
<1>3. r \in 0 .. b - 1 /\ descriptor.address = FirstWord * b + r
  BY <1>2, DivMod DEF FirstWord
<1>4. r # b - 1
  BY <1>1 DEF OffsetsWired, Descriptor
<1>5. address_reg % b = r
  <2>1. address_reg = descriptor.address + Requested * b
    BY <1>1 DEF AnswerInv, ReadInv, Asking
  <2>2. (FirstWord + Requested) * b = FirstWord * b + Requested * b
    BY <1>2, MulSum
  <2>3. FirstWord * b \in Int /\ Requested * b \in Int
    BY <1>2
  <2> HIDE DEF r, b
  <2>4. address_reg = (FirstWord + Requested) * b + r
    BY <1>2, <1>3, <2>1, <2>2, <2>3
  <2>5. FirstWord + Requested \in Nat
    BY <1>2
  <2> QED BY <1>2, <1>3, <2>4, <2>5, DivUnique
<1>6. k \in 0 .. b - 1
  OBVIOUS
<1>7. (FirstWord + received) * b = FirstWord * b + received * b
      /\ FirstWord * b \in Int /\ received * b \in Int
  BY <1>2, MulSum
<1>8. CASE ~unaligned
  <2>1. readdata[k] = Head(pending) * b + k
    BY <1>6, <1>8 DEF readdata
  <2>2. Head(pending) = FirstWord + received
    BY <1>1, <1>2, <1>8
  <2> HIDE DEF r, b
  <2> QED BY <1>1, <1>2, <1>3, <1>6, <1>7, <1>8, <2>1, <2>2 DEF b
<1>9. CASE unaligned
  <2>1. readdata[k] = ShiftedByte(r, readdata_d1_reg, Head(pending), k)
    <3>1. readdata = ReaddataOut(r, Head(pending))
      BY <1>5, <1>9 DEF readdata
    <3>2. r < b - 1
      BY <1>2, <1>3, <1>4
    <3> HIDE DEF r
    <3> QED BY <1>6, <3>1, <3>2 DEF ReaddataOut
  <2>2. Head(pending) = FirstWord + received + 1
    BY <1>1, <1>2, <1>9
  <2>3. (FirstWord + received + 1) * b = (FirstWord + received) * b + b
    BY <1>2, MulSum
  <2>4. ShiftedByte(r, FirstWord + received, FirstWord + received + 1, k)
            = (FirstWord + received) * b + k + r
    <3>1. (FirstWord + received) * b \in Int
      BY <1>2
    <3> HIDE DEF r
    <3> QED BY <1>2, <1>3, <1>6, <2>3, <3>1 DEF ShiftedByte
  <2>5. readdata[k] = (FirstWord + received) * b + k + r
    BY <1>1, <1>9, <2>1, <2>2, <2>4
  <2> HIDE DEF r, b
  <2> QED BY <1>2, <1>3, <1>6, <1>7, <2>5 DEF b
<1> QED BY <1>8, <1>9

\* Each data unit is the next one of its packet, byte by byte, in both builds,
\* with the packet's marks where they belong, unless the last reset found reads
\* under way.
THEOREM TxStreamCarriesBuffer == OffsetsWired => (Spec => []StreamCarriesBuffer)
<1> SUFFICES ASSUME OffsetsWired PROVE Spec => []StreamCarriesBuffer
  OBVIOUS
<1>1. IInv => StreamCarriesBuffer
  <2> SUFFICES ASSUME AnswerInv, new_dataunit PROVE StreamCarriesBuffer
    BY DEF StreamCarriesBuffer, IInv
  <2> DEFINE u == Units(descriptor)
             len == descriptor.bytecount
             left == len - received * BYTE_NUM
  <2>1. /\ Run /\ received < u /\ descriptor \in Descriptor
        /\ sop <=> received = 0
        /\ eop <=> received + 1 = u
    BY DataFacts, ReadsFacts DEF AnswerInv, Active
  <2>2. /\ u \in Nat /\ len \in Nat /\ BYTE_NUM \in Nat \ {0}
        /\ received \in Nat /\ (u - 1) * BYTE_NUM < len
        /\ (BYTE_NUM - reminder) % BYTE_NUM = u * BYTE_NUM - len
    BY <2>1, UnitsFacts, WordCount, TxAssumption
       DEF TxAssumption, AnswerInv, ReadInv, TypeOK, reminder
  <2> HIDE DEF u, len
  <2>3. left > 0
    <3>1. received * BYTE_NUM <= (u - 1) * BYTE_NUM
      BY <2>1, <2>2, MulMono
    <3>2. received * BYTE_NUM \in Int /\ (u - 1) * BYTE_NUM \in Int
      BY <2>2
    <3> QED BY <2>2, <3>1, <3>2
  <2>4. empty = IF eop THEN BYTE_NUM - left ELSE 0
    <3>1. CASE eop
      <4>1. u = received + 1 /\ u * BYTE_NUM = received * BYTE_NUM + BYTE_NUM
        BY <2>1, <2>2, <3>1, MulSum
      <4>2. received * BYTE_NUM \in Int
        BY <2>2
      <4> QED BY <2>2, <3>1, <4>1, <4>2 DEF empty
    <3>2. CASE ~eop
      BY <3>2 DEF empty
    <3> QED BY <3>1, <3>2
  <2>5. \A k \in 0 .. BYTE_NUM - 1 :
           readdata[k] = descriptor.address + received * BYTE_NUM + k
    BY BytesOfBuffer
  <2> QED BY <2>1, <2>3, <2>4, <2>5 DEF StreamCarriesBuffer, u, len
<1> QED BY <1>1, TxInvariant, PTL
=============================================================================
