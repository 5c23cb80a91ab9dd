--------------------------- MODULE RegistersProofs ---------------------------
(***************************************************************************)
(* The registers as reg16 and its user meet them, proved for every size of *)
(* the register files, of the ROM's contents and of a frame, for every     *)
(* divider, every set of operations and of other calls, and every bound.   *)
(*                                                                         *)
(* The invariant has two halves.  MemInv says where an access is: at which *)
(* edge of the bridge (Places), which store has still to reach its         *)
(* register (LateWrite), and what the value that is on its way to the      *)
(* program is (Carried).  With it the registers are a memory.  OpInv says  *)
(* where an operation is: which calls are left (StepsOk), what those made  *)
(* have stored (RegsOk), how far run has come in the synchroniser          *)
(* (PipeOk), how much of the frame the PHY has taken (FrameOk), and that   *)
(* busy can have been read as 0 only after the frame (ReadOk).             *)
(*                                                                         *)
(* First come the two divisions by powers of two on which shifting a word  *)
(* bit by bit rests, then addresses, register files and bridge, MemInv,    *)
(* the frame between master and PHY, and OpInv.                            *)
(***************************************************************************)
EXTENDS Registers, FiniteSetTheorems, TLAPS

-----------------------------------------------------------------------------
(* Powers of two, and the bits of a word. *)

\* The bits of a word are counted by its sets of places.
LEMMA PowerSum ==
    ASSUME NEW j \in Nat, NEW k \in Nat
    PROVE  2^j \in Nat \ {0} /\ 2^(j + k) = 2^j * 2^k
<1> DEFINE A == 1 .. j
           B == j + 1 .. j + k
           C == 1 .. j + k
           P == (SUBSET A) \X (SUBSET B)
           f == [c \in SUBSET C |-> <<c \cap A, c \cap B>>]
<1>1. /\ IsFiniteSet(A) /\ Cardinality(A) = j
      /\ IsFiniteSet(B) /\ Cardinality(B) = k
      /\ IsFiniteSet(C) /\ Cardinality(C) = j + k
  <2>1. \A a \in Int, b \in Int :
            /\ IsFiniteSet(a .. b)
            /\ Cardinality(a .. b) = IF a > b THEN 0 ELSE b - a + 1
    BY FS_Interval
  <2> HIDE DEF A, B, C
  <2>2. IsFiniteSet(A) /\ Cardinality(A) = j
    BY <2>1 DEF A
  <2>3. IsFiniteSet(B) /\ Cardinality(B) = k
    BY <2>1 DEF B
  <2>4. IsFiniteSet(C) /\ Cardinality(C) = j + k
    <3> DEFINE n == j + k
    <3>1. n \in Nat
      OBVIOUS
    <3>2. C = 1 .. n
      BY DEF C
    <3> HIDE DEF n
    <3>3. IsFiniteSet(C) /\ Cardinality(C) = n
      BY <2>1, <3>1, <3>2
    <3> QED BY <3>3 DEF n
  <2> QED BY <2>2, <2>3, <2>4
<1>2. /\ IsFiniteSet(SUBSET A) /\ Cardinality(SUBSET A) = 2^j
      /\ IsFiniteSet(SUBSET B) /\ Cardinality(SUBSET B) = 2^k
      /\ IsFiniteSet(SUBSET C) /\ Cardinality(SUBSET C) = 2^(j + k)
  BY <1>1, FS_SUBSET
<1>3. IsFiniteSet(P) /\ Cardinality(P) = 2^j * 2^k
  <2>1. /\ IsFiniteSet(P)
        /\ Cardinality(P) = Cardinality(SUBSET A) * Cardinality(SUBSET B)
    BY <1>2, FS_Product, Zenon
  <2> QED BY <2>1, <1>2
<1>4. A \cup B = C /\ A \cap B = {}
  OBVIOUS
<1> HIDE DEF A, B, C
<1>5. f \in Bijection(SUBSET C, P)
  <2>1. f \in [SUBSET C -> P]
    OBVIOUS
  <2>2. ASSUME NEW c \in SUBSET C, NEW d \in SUBSET C, f[c] = f[d]
        PROVE  c = d
    <3>1. c \cap A = d \cap A /\ c \cap B = d \cap B
      BY <2>2
    <3> QED BY <3>1, <1>4
  <2>3. ASSUME NEW p \in P PROVE \E c \in SUBSET C : f[c] = p
    <3>1. PICK a \in SUBSET A, b \in SUBSET B : p = <<a, b>>
      OBVIOUS
    <3>2. a \cup b \in SUBSET C /\ (a \cup b) \cap A = a /\ (a \cup b) \cap B = b
      BY <1>4
    <3>3. f[a \cup b] = <<a, b>>
      BY <3>2
    <3> QED BY <3>1, <3>2, <3>3
  <2> HIDE DEF f
  <2>4. f \in Injection(SUBSET C, P)
    BY <2>1, <2>2 DEF Injection, IsInjective
  <2>5. f \in Surjection(SUBSET C, P)
    BY <2>1, <2>3 DEF Surjection
  <2> QED BY <2>4, <2>5 DEF Bijection
<1>6. ExistsBijection(SUBSET C, P)
  BY <1>5 DEF ExistsBijection
<1>7. 2^(j + k) = 2^j * 2^k
  BY <1>2, <1>3, <1>6, FS_Bijection, Zenon
<1>8. 2^j \in Nat /\ 2^j # 0
  <2>1. {} \in SUBSET A
    OBVIOUS
  <2> QED BY <2>1, <1>2, FS_CardinalityType, FS_EmptySet
<1> QED BY <1>7, <1>8

LEMMA Quotient ==
    ASSUME NEW m \in Nat \ {0}, NEW q \in Int, NEW r \in 0 .. m - 1
    PROVE  (m * q + r) \div m = q /\ (m * q + r) % m = r
<1> DEFINE x == m * q + r
           d == x \div m
           e == x % m
<1>1. x \in Int /\ d \in Int /\ e \in 0 .. m - 1 /\ x = m * d + e
  OBVIOUS
<1> HIDE DEF d, e
<1>2. m * (d - q) = r - e
  BY <1>1
<1>3. d - q = 0
  <2>1. CASE d - q >= 1
    <3>1. m * (d - q) >= m
      BY <2>1, <1>1
    <3> QED BY <3>1, <1>1, <1>2
  <2>2. CASE d - q <= -1
    <3>1. m * (d - q) <= -m
      BY <2>2, <1>1
    <3> QED BY <3>1, <1>1, <1>2
  <2> QED BY <2>1, <2>2, <1>1
<1>4. d = q
  BY <1>1, <1>3
<1>5. m * d = m * q
  BY <1>4
<1>6. e = r
  BY <1>1, <1>5
<1> QED BY <1>4, <1>6 DEF d, e

LEMMA ModOfMod ==
    ASSUME NEW m \in Nat \ {0}, NEW e \in Nat \ {0}, NEW x \in Nat
    PROVE  (x % (m * e)) % m = x % m
<1> DEFINE n == m * e
           y == x \div n
           z == x % n
           u == z \div m
           v == z % m
<1>1. n \in Nat \ {0}
  OBVIOUS
<1> HIDE DEF n
<1>2. y \in Nat /\ z \in Nat /\ x = n * y + z
  BY <1>1
<1> HIDE DEF y, z
<1>3. u \in Nat /\ v \in 0 .. m - 1 /\ z = m * u + v
  BY <1>2
<1> HIDE DEF u, v
<1>4. x = m * (e * y + u) + v
  <2>1. n * y = m * (e * y)
    BY <1>2 DEF n
  <2> QED BY <2>1, <1>2, <1>3
<1>5. x % m = v
  <2>1. e * y + u \in Int
    BY <1>2, <1>3
  <2> DEFINE q == e * y + u
  <2> HIDE DEF q
  <2>2. q \in Int /\ x = m * q + v
    BY <2>1, <1>4 DEF q
  <2> QED BY <2>2, <1>3, Quotient
<1> QED BY <1>5 DEF v, z, n

\* Bits that come with the highest first: the last j of them are the first j
\* of a word, and so are the next j + 1.
LEMMA ShiftBit ==
    ASSUME NEW D \in Nat, NEW w \in 0 .. 2^D - 1, NEW j \in 0 .. D - 1,
           NEW s \in Nat, s % 2^j = w \div 2^(D - j),
           NEW N \in Nat, N >= j + 1
    PROVE  /\ Bit(w, D - 1 - j) \in 0 .. 1
           /\ ((2 * s + Bit(w, D - 1 - j)) % 2^N) % 2^(j + 1)
                  = w \div 2^(D - (j + 1))
<1> DEFINE a == 2^j
           q == 2^(D - 1 - j)
           e == 2^(N - j - 1)
           u == w \div q
           r == w % q
           b == u % 2
           v == u \div 2
           t == s \div a
           x == 2 * s + b
<1>1. /\ j \in Nat /\ D - 1 - j \in Nat /\ N - j - 1 \in Nat
      /\ 1 + (D - 1 - j) = D - j /\ (j + 1) + (N - j - 1) = N
      /\ j + 1 \in Nat /\ D - (j + 1) = D - 1 - j
  OBVIOUS
<1>0. 2^1 = 2
  OBVIOUS
<1>2. /\ a \in Nat \ {0} /\ q \in Nat \ {0} /\ e \in Nat \ {0} /\ 2^D \in Nat
      /\ 2^(j + 1) = 2 * a /\ 2^(D - j) = 2 * q /\ 2^N = (2 * a) * e
  <2>1. a \in Nat \ {0} /\ q \in Nat \ {0} /\ e \in Nat \ {0} /\ 2^D \in Nat
    BY <1>1, PowerSum
  <2>2. 2^(j + 1) = 2^j * 2^1
    BY <1>1, PowerSum
  <2>3. 2^(1 + (D - 1 - j)) = 2^1 * 2^(D - 1 - j)
    BY <1>1, PowerSum
  <2>4. 2^((j + 1) + (N - j - 1)) = 2^(j + 1) * 2^(N - j - 1)
    BY <1>1, PowerSum
  <2>5. 2^(j + 1) = 2 * a
    BY <2>1, <2>2, <1>0
  <2>6. 2^(D - j) = 2 * q
    BY <2>1, <2>3, <1>0, <1>1
  <2>7. 2^N = (2 * a) * e
    BY <2>4, <2>5, <1>1
  <2> QED BY <2>1, <2>5, <2>6, <2>7
<1>b. Bit(w, D - 1 - j) = b
  BY DEF Bit
<1>3. w \in Nat /\ s % a = w \div (2 * q)
  BY <1>2
<1> HIDE DEF a, q, e
<1>4. u \in Nat /\ r \in 0 .. q - 1 /\ w = q * u + r
  BY <1>2, <1>3
<1> HIDE DEF u, r
<1>5. v \in Nat /\ b \in 0 .. 1 /\ u = 2 * v + b
  BY <1>4
<1> HIDE DEF v, b
<1>6. w \div (2 * q) = v
  <2> DEFINE m == 2 * q
             z == q * b + r
  <2>1. m \in Nat \ {0} /\ z \in 0 .. m - 1
    <3>1. b = 0 \/ b = 1
      BY <1>5
    <3>2. CASE b = 0
      BY <3>2, <1>2, <1>4
    <3>3. CASE b = 1
      BY <3>3, <1>2, <1>4
    <3> QED BY <3>1, <3>2, <3>3
  <2>2. w = m * v + z
    BY <1>2, <1>4, <1>5
  <2> HIDE DEF m, z
  <2>3. v \in Int
    BY <1>5
  <2>4. w \div m = v
    BY <2>1, <2>2, <2>3, Quotient, Zenon
  <2> QED BY <2>4 DEF m
<1>7. s = a * t + v /\ v \in 0 .. a - 1 /\ t \in Nat
  BY <1>2, <1>3, <1>6
<1> HIDE DEF t
<1>8. x % (2 * a) = u
  <2> DEFINE m == 2 * a
  <2>1. m \in Nat \ {0} /\ u \in 0 .. m - 1
    BY <1>2, <1>5, <1>7
  <2>2. x = m * t + u
    BY <1>2, <1>5, <1>7
  <2> HIDE DEF m, x
  <2>3. t \in Int
    BY <1>7
  <2>4. x % m = u
    BY <2>1, <2>2, <2>3, Quotient, Zenon
  <2> QED BY <2>4 DEF m
<1>9. (x % ((2 * a) * e)) % (2 * a) = x % (2 * a)
  <2>1. x \in Nat /\ 2 * a \in Nat \ {0}
    BY <1>2, <1>5
  <2> HIDE DEF x
  <2> QED BY <2>1, <1>2, ModOfMod
<1>10. w \div 2^(D - (j + 1)) = u
  BY <1>1 DEF u, q
<1> QED
  <2>1. (x % 2^N) % 2^(j + 1) = u
    BY <1>2, <1>8, <1>9
  <2> QED BY <2>1, <1>b, <1>5, <1>10

-----------------------------------------------------------------------------
(* Addresses.  An address below the end of the last file is that of one     *)
(* register of one file.                                                    *)

Addresses == 0 .. CSR_WORDS - 1

LEMMA ThreeFiles ==
    /\ Files = {1, 2, 3} /\ BASE_ADDR[1] = 0 /\ DOMAIN CTRL_CNT = Files
    /\ Len(BASE_ADDR) = 4
    /\ \A k \in 1 .. 4 : BASE_ADDR[k] \in Nat
    /\ \A f \in Files : CTRL_CNT[f] \in Nat
    /\ \A f \in Files : BASE_ADDR[f] < BASE_ADDR[f + 1]
    /\ \A f \in Files : BASE_ADDR[f] + CTRL_CNT[f] <= BASE_ADDR[f + 1]
    /\ BASE_ADDR[4] <= CSR_WORDS /\ CSR_WORDS \in Nat \ {0}
    /\ CTRL_CNT[1] >= 2 /\ CTRL_CNT[2] >= 4
    /\ BASE_ADDR[2] + CTRL_CNT[2] + 1 < BASE_ADDR[3]
<1>1. /\ Len(BASE_ADDR) \in Nat /\ Len(CTRL_CNT) \in Nat
      /\ \A k \in 1 .. Len(BASE_ADDR) : BASE_ADDR[k] \in Nat
      /\ \A k \in 1 .. Len(CTRL_CNT) : CTRL_CNT[k] \in Nat
      /\ DOMAIN CTRL_CNT = 1 .. Len(CTRL_CNT)
      /\ Len(CTRL_CNT) = Len(BASE_ADDR) - 1
  BY RegFilesAssumption, SMTT(30) DEF RegFilesAssumption
<1>2. 1 .. Len(BASE_ADDR) - 1 = {1, 2, 3}
  BY RegistersAssumption
     DEF RegistersAssumption, Files, FPGA_ID, PHY, NIC_CTRL
<1>3. Len(BASE_ADDR) = 4
  <2>0. /\ 3 \in {1, 2, 3} <=> 3 \in 1 .. Len(BASE_ADDR) - 1
        /\ 4 \in {1, 2, 3} <=> 4 \in 1 .. Len(BASE_ADDR) - 1
    BY ONLY <1>2
  <2>1. 3 \in 1 .. Len(BASE_ADDR) - 1 /\ 4 \notin 1 .. Len(BASE_ADDR) - 1
    BY <2>0
  <2> QED BY <1>1, <2>1
<1>4. Files = {1, 2, 3} /\ BASE_ADDR[1] = 0
  BY <1>2, RegistersAssumption DEF RegistersAssumption, Files
<1>5. \A k \in 1 .. 4 : BASE_ADDR[k] \in Nat
  BY <1>1, <1>3
<1>6. DOMAIN CTRL_CNT = Files /\ \A f \in Files : CTRL_CNT[f] \in Nat
  <2>1. DOMAIN CTRL_CNT = 1 .. 3 /\ \A f \in 1 .. 3 : CTRL_CNT[f] \in Nat
    BY <1>1, <1>3
  <2> QED BY <2>1, <1>4
<1>7. \A f \in Files : BASE_ADDR[f] < BASE_ADDR[f + 1]
  BY <1>3, <1>4, RegistersAssumption DEF RegistersAssumption
<1> QED
  BY <1>3, <1>4, <1>5, <1>6, <1>7, RegFilesAssumption, RegBridgeAssumption,
     RegistersAssumption, SMTT(30)
     DEF RegFilesAssumption, RegBridgeAssumption, RegistersAssumption,
         FPGA_ID, PHY, FPGA_ID_CR, MDIODIV_CR, MDIODATALO_SR

\* csr_addr_decoder.sv chooses the file that has the address.
LEMMA SelectedFile ==
    ASSUME NEW addr \in Nat
    PROVE  \/ selected(addr) = 0 /\ addr >= BASE_ADDR[4]
           \/ /\ selected(addr) \in Files
              /\ BASE_ADDR[selected(addr)] <= addr
              /\ addr < BASE_ADDR[selected(addr) + 1]
<1> DEFINE mask == {f \in Files : addr < BASE_ADDR[f + 1]}
<1>0. /\ BASE_ADDR[1] = 0 /\ BASE_ADDR[2] \in Nat
      /\ BASE_ADDR[3] \in Nat /\ BASE_ADDR[4] \in Nat
      /\ BASE_ADDR[1] < BASE_ADDR[2] /\ BASE_ADDR[2] < BASE_ADDR[3]
      /\ BASE_ADDR[3] < BASE_ADDR[4]
  BY ThreeFiles
<1>1. selected(addr) = IF mask = {} THEN 0 ELSE Min(mask)
  BY DEF selected
<1>m. \A f : f \in mask <=> \/ f = 1 /\ addr < BASE_ADDR[2]
                            \/ f = 2 /\ addr < BASE_ADDR[3]
                            \/ f = 3 /\ addr < BASE_ADDR[4]
  BY ThreeFiles, <1>0
<1>2. CASE addr >= BASE_ADDR[4]
  <2>1. mask = {}
    BY <1>2, <1>0, <1>m
  <2> QED BY <2>1, <1>1, <1>2
<1>3. ASSUME NEW f \in Files, BASE_ADDR[f] <= addr, addr < BASE_ADDR[f + 1]
      PROVE  selected(addr) = f
  <2>1. f \in mask
    BY <1>3
  <2>2. \A y \in mask : f <= y
    BY <1>3, <1>0, <1>m, ThreeFiles
  <2>3. \A x \in mask : (\A y \in mask : x <= y) => x = f
    BY <2>1, <2>2, <1>m
  <2>4. Min(mask) = f
    BY <2>1, <2>2, <2>3 DEF Min
  <2> QED BY <2>1, <2>4, <1>1
<1>4. CASE addr < BASE_ADDR[4]
  <2>1. \E f \in Files : BASE_ADDR[f] <= addr /\ addr < BASE_ADDR[f + 1]
    BY <1>4, <1>0, ThreeFiles
  <2> QED BY <2>1, <1>3
<1> QED BY <1>2, <1>4, <1>0

LEMMA FileOfAddress ==
    ASSUME NEW addr \in Nat, NEW f \in Files,
           BASE_ADDR[f] <= addr, addr < BASE_ADDR[f + 1]
    PROVE  selected(addr) = f
  BY SelectedFile, ThreeFiles

\* No two control registers have the same index.
LEMMA OneIndex ==
    ASSUME NEW f \in Files, NEW r \in Nat, r < CTRL_CNT[f],
           NEW g \in Files, NEW q \in Nat, q < CTRL_CNT[g],
           Index(f, r) = Index(g, q)
    PROVE  f = g /\ r = q
  BY ThreeFiles DEF Index

LEMMA IndexIsAddress ==
    \A f \in Files : \A r \in 0 .. CTRL_CNT[f] - 1 : Index(f, r) \in Addresses
  BY ThreeFiles DEF Index, Addresses

-----------------------------------------------------------------------------
(* The register files. *)

Words == 0 .. DATA_MAX

IsRegs(regs) ==
    /\ regs = [f \in Files |-> regs[f]]
    /\ \A f \in Files : regs[f] \in [0 .. CTRL_CNT[f] - 1 -> Words]

IsCsr(c) == /\ c.addr \in Addresses /\ c.wr_data \in Words
            /\ c.be \in BOOLEAN /\ c.wr_en \in BOOLEAN

\* A write that the registers have not taken yet.
Pends(c) == c.wr_en /\ c.be

\* Every control register holds what memory has for its index.
Match(regs, mem) ==
    \A f \in Files : \A r \in 0 .. CTRL_CNT[f] - 1 :
        regs[f][r] = mem[Index(f, r)]

\* regfile_with_be.sv: a write changes the register it names and no other.
LEMMA WriteOne ==
    ASSUME IsRegs(ctrl_regs), NEW c, IsCsr(c)
    PROVE  /\ IsRegs(CtrlRegsNext(c))
           /\ \A f \in Files : \A r \in 0 .. CTRL_CNT[f] - 1 :
                  CtrlRegsNext(c)[f][r] =
                      IF Pends(c) /\ c.addr = Index(f, r) THEN c.wr_data
                                                         ELSE ctrl_regs[f][r]
<1> DEFINE s == selected(c.addr)
           l == LocalAddr(c.addr)
<1>1. c.addr \in Nat /\ l = c.addr - BASE_ADDR[s]
  BY ThreeFiles DEF IsCsr, Addresses, LocalAddr
<1>2. CASE c.wr_en /\ c.be /\ s # 0 /\ ~status_is_sel(c.addr)
  <2>1. s \in Files /\ BASE_ADDR[s] <= c.addr
    BY <1>2, <1>1, SelectedFile
  <2>2. l \in 0 .. CTRL_CNT[s] - 1 /\ c.addr = Index(s, l)
    BY <1>1, <1>2, <2>1, ThreeFiles DEF status_is_sel, Index
  <2>3. CtrlRegsNext(c) = [ctrl_regs EXCEPT ![s][l] = c.wr_data]
    BY <1>2 DEF CtrlRegsNext
  <2> HIDE DEF s, l
  <2>4. CtrlRegsNext(c) = [f \in Files |->
                              IF f = s THEN [ctrl_regs[s] EXCEPT ![l] = c.wr_data]
                                       ELSE ctrl_regs[f]]
    BY <2>1, <2>3 DEF IsRegs
  <2>5. [ctrl_regs[s] EXCEPT ![l] = c.wr_data] =
            [r \in 0 .. CTRL_CNT[s] - 1 |-> IF r = l THEN c.wr_data
                                                    ELSE ctrl_regs[s][r]]
    BY <2>1, <2>2 DEF IsRegs
  <2>6. [ctrl_regs[s] EXCEPT ![l] = c.wr_data]
            \in [0 .. CTRL_CNT[s] - 1 -> Words]
    BY <2>1, <2>5 DEF IsRegs, IsCsr
  <2>7. IsRegs(CtrlRegsNext(c))
    BY <2>1, <2>4, <2>6 DEF IsRegs
  <2>8. ASSUME NEW f \in Files, NEW r \in 0 .. CTRL_CNT[f] - 1
        PROVE  CtrlRegsNext(c)[f][r] =
                   IF Pends(c) /\ c.addr = Index(f, r) THEN c.wr_data
                                                      ELSE ctrl_regs[f][r]
    <3>1. r \in Nat /\ r < CTRL_CNT[f] /\ l \in Nat /\ l < CTRL_CNT[s]
      BY <2>1, <2>2, ThreeFiles
    <3>2. c.addr = Index(f, r) <=> f = s /\ r = l
      BY <2>1, <2>2, <3>1, OneIndex
    <3>3. CtrlRegsNext(c)[f][r] = IF f = s /\ r = l THEN c.wr_data
                                                    ELSE ctrl_regs[f][r]
      BY <2>4, <2>5
    <3> QED BY <1>2, <3>2, <3>3 DEF Pends
  <2> QED BY <2>7, <2>8
<1>3. CASE ~(c.wr_en /\ c.be /\ s # 0 /\ ~status_is_sel(c.addr))
  <2>1. CtrlRegsNext(c) = ctrl_regs
    BY <1>3 DEF CtrlRegsNext
  <2>2. ASSUME NEW f \in Files, NEW r \in 0 .. CTRL_CNT[f] - 1, Pends(c),
               c.addr = Index(f, r)
        PROVE  FALSE
    <3>1. BASE_ADDR[f] <= c.addr /\ c.addr < BASE_ADDR[f + 1]
      BY <2>2, ThreeFiles DEF Index
    <3>2. s = f
      BY <3>1, <1>1, FileOfAddress
    <3>3. l = r
      BY <3>2, <1>1, <2>2, ThreeFiles DEF Index
    <3> HIDE DEF s, l
    <3>4. s # 0 /\ l < CTRL_CNT[s] /\ l \in Nat /\ CTRL_CNT[s] \in Nat
      BY <3>2, <3>3, ThreeFiles
    <3> QED BY <1>3, <2>2, <3>4 DEF Pends, status_is_sel, s, l
  <2> QED BY <2>1, <2>2
<1> QED BY <1>2, <1>3

\* What an address reads as.
LEMMA ReadOne ==
    ASSUME NEW addr \in Addresses
    PROVE  /\ addr = FPGA_ID_RD_DATA => rd_data(addr, status) = ROM[rom_addr]
           /\ addr >= BASE_ADDR[4] => rd_data(addr, status) = 0
           /\ \A f \in Files : \A r \in 0 .. CTRL_CNT[f] - 1 :
                  addr = Index(f, r) /\ addr # FPGA_ID_RD_DATA =>
                      rd_data(addr, status) = ctrl_regs[f][r]
           /\ \A r \in {MDIO_SR, MDIODATALO_SR} :
                  addr = StatusOf(r) => rd_data(addr, status) = status(PHY, r)
<1>0. addr \in Nat
  BY ThreeFiles DEF Addresses
<1>1. ASSUME addr = FPGA_ID_RD_DATA
      PROVE  rd_data(addr, status) = ROM[rom_addr]
  <2>1. selected(addr) = 1
    BY <1>0, <1>1, FileOfAddress, ThreeFiles DEF FPGA_ID_RD_DATA
  <2>2. LocalAddr(addr) = 0
    BY <2>1, <1>1, ThreeFiles DEF LocalAddr, FPGA_ID_RD_DATA
  <2> QED BY <2>1, <2>2 DEF rd_data, FPGA_ID, FPGA_ID_RD_DATA
<1>2. ASSUME addr >= BASE_ADDR[4]
      PROVE  rd_data(addr, status) = 0
  <2>1. selected(addr) = 0
    BY <1>0, <1>2, SelectedFile, ThreeFiles
  <2> QED BY <2>1 DEF rd_data
<1>3. ASSUME NEW f \in Files, NEW r \in 0 .. CTRL_CNT[f] - 1,
             addr = Index(f, r), addr # FPGA_ID_RD_DATA
      PROVE  rd_data(addr, status) = ctrl_regs[f][r]
  <2>0. BASE_ADDR[f] \in Nat /\ CTRL_CNT[f] \in Nat /\ f # 0
    BY ThreeFiles
  <2>1. selected(addr) = f
    BY <1>0, <1>3, FileOfAddress, ThreeFiles DEF Index
  <2>2. LocalAddr(addr) = r
    BY <2>0, <2>1, <1>3 DEF LocalAddr, Index
  <2>3. ~status_is_sel(addr)
    BY <2>0, <2>1, <2>2 DEF status_is_sel
  <2>4. ~(f = FPGA_ID /\ r = FPGA_ID_RD_DATA)
    BY <1>3, ThreeFiles DEF Index, FPGA_ID, FPGA_ID_RD_DATA
  <2> QED BY <2>0, <2>1, <2>2, <2>3, <2>4 DEF rd_data
<1>4. ASSUME NEW r \in {MDIO_SR, MDIODATALO_SR}, addr = StatusOf(r)
      PROVE  rd_data(addr, status) = status(PHY, r)
  <2>0. /\ BASE_ADDR[2] \in Nat /\ CTRL_CNT[2] \in Nat /\ r \in {0, 1}
        /\ addr = BASE_ADDR[2] + (CTRL_CNT[2] + r)
    BY <1>4, ThreeFiles
       DEF StatusOf, Index, PHY, MDIO_SR, MDIODATALO_SR
  <2>1. selected(addr) = 2
    BY <1>0, <2>0, FileOfAddress, ThreeFiles
  <2>2. LocalAddr(addr) = CTRL_CNT[2] + r
    BY <2>0, <2>1 DEF LocalAddr
  <2>3. status_is_sel(addr)
    BY <2>0, <2>1, <2>2 DEF status_is_sel
  <2>4. LocalAddr(addr) - CTRL_CNT[2] = r
    BY <2>0, <2>2
  <2> QED BY <2>1, <2>3, <2>4 DEF rd_data, FPGA_ID, PHY
<1> QED BY <1>1, <1>2, <1>3, <1>4

-----------------------------------------------------------------------------
(* The bridge: what an edge does at each place of an access. *)

At(st, takt, rd_takt, waited, finished) ==
    /\ state = st /\ takt_cnt = takt /\ rd_takt_cnt = rd_takt
    /\ csr_waitreq_cnt = waited /\ (read_is_finished <=> finished)

AtRest == At("IDLE_S", 0, 0, 0, FALSE)
InWrite == At("WRITE_S", 1, 0, 0, FALSE)

\* The edges of a read, by their number.
InRead(k) == \/ k = 1 /\ At("READ_S", 0, 0, 1, FALSE)
             \/ k = 2 /\ At("READ_S", 0, 0, 2, FALSE)
             \/ k = 3 /\ At("READ_S", 1, 1, 0, FALSE)
             \/ k = 4 /\ At("READ_S", 1, 1, 1, FALSE)
             \/ k = 5 /\ At("READ_S", 1, 1, 2, FALSE)
             \/ k = 6 /\ At("READ_S", 2, 0, 0, TRUE)

IsRequest(req) == /\ req.addr \in Nat /\ req.data \in [0 .. 1 -> Words]
                  /\ req.be \in [0 .. 1 -> BOOLEAN]

\* The registers of the bridge that hold words have their types.
BridgeType ==
    /\ IsRequest(saved) /\ IsCsr(csr)
    /\ wide_readdata = [h \in 0 .. 1 |-> wide_readdata[h]]

BusArgs(args) ==
    /\ args \in Seq(Int) /\ Len(args) \in 1 .. 2 /\ args[1] \in 0 .. MAP_SIZE - 1
    /\ Len(args) = 2 => args[2] \in Words

\* The address of a half of the word that reg16 is at.
HalfAddr(h) == (2 * (reg_idx(prog) \div 2) + h) % CSR_WORDS

\* What csr shows of a half that is written.
HalfWrite(h) == [addr |-> HalfAddr(h), be |-> h = reg_idx(prog) % 2,
                 wr_data |-> prog.args[2], wr_en |-> TRUE]

LEMMA Limits == /\ CSR_WORDS \in Nat \ {0} /\ MAP_SIZE \in Nat
                /\ DATA_MAX \in Nat /\ 0 \in Words
  BY RegBridgeAssumption, Reg16Assumption
     DEF RegBridgeAssumption, Reg16Assumption, Words

LEMMA NamedHalf ==
    ASSUME BusArgs(prog.args)
    PROVE  /\ Named \in Addresses /\ reg_idx(prog) \in Nat
           /\ reg_idx(prog) % 2 \in 0 .. 1
           /\ HalfAddr(reg_idx(prog) % 2) = Named
           /\ \A h \in 0 .. 1 : HalfAddr(h) \in Addresses
<1>1. reg_idx(prog) \in Nat
  BY Limits DEF BusArgs, reg_idx
<1> DEFINE i == reg_idx(prog)
<1> HIDE DEF i
<1>2. i \in Nat
  BY <1>1 DEF i
<1>3. i % 2 \in 0 .. 1 /\ 2 * (i \div 2) + (i % 2) = i /\ i \div 2 \in Nat
  BY <1>2
<1>4. \A x \in Nat : x % CSR_WORDS \in 0 .. CSR_WORDS - 1
  BY Limits
<1> QED BY <1>2, <1>3, <1>4 DEF i, Named, HalfAddr, Addresses

LEMMA RequestHas ==
    ASSUME prog.pc = "bus", BusArgs(prog.args)
    PROVE  /\ IsRequest(Request)
           /\ Request.addr \div 2 = 2 * (reg_idx(prog) \div 2)
           /\ Request.kind = IF Writes(prog) THEN "write" ELSE "read"
           /\ \A h \in 0 .. 1 : /\ Request.be[h] = (h = reg_idx(prog) % 2)
                                /\ Writes(prog) => Request.data[h] = prog.args[2]
<1>1. reg_idx(prog) \in Nat /\ reg_idx(prog) % 2 \in 0 .. 1
  BY NamedHalf
<1>2. \A x \in Nat : 4 * (x \div 2) \in Nat /\ (4 * (x \div 2)) \div 2 = 2 * (x \div 2)
  OBVIOUS
<1>3. Writes(prog) => prog.args[2] \in Words
  BY DEF BusArgs, Writes
<1> QED BY <1>1, <1>2, <1>3, Limits DEF Request, IsRequest

\* The types are kept whatever is asked.
LEMMA BridgeTypeStep ==
    ASSUME BridgeType, takt_cnt \in 0 .. 2, rd_takt_cnt \in 0 .. 1,
           NEW req, IsRequest(req), NEW x, BridgeEdge(req, x)
    PROVE  BridgeType'
<1>1. IsRequest(Held(req)) /\ saved' = Held(req)
  BY DEF BridgeType, Held, BridgeEdge
<1>2. narrow_address(req) \in Nat
  <2>1. Held(req).addr \in Nat
    BY <1>1 DEF IsRequest
  <2> QED BY <2>1 DEF narrow_address
<1>3. narrow_address(req) % CSR_WORDS \in Addresses
  BY <1>2, Limits DEF Addresses
<1>4. Half \in 0 .. 1
  BY DEF Half, WIDTH_RATIO
<1>5. IsCsr(csr')
  BY <1>1, <1>3, <1>4 DEF BridgeEdge, CsrNext, IsRequest, IsCsr, narrow_write
<1>6. wide_readdata' = [h \in 0 .. 1 |-> wide_readdata'[h]]
  BY DEF BridgeEdge, BridgeType
<1> QED BY <1>1, <1>5, <1>6 DEF BridgeType

LEMMA RestStep ==
    ASSUME BridgeType, AtRest, prog.pc # "bus", NEW x, BridgeEdge(Request, x)
    PROVE  BridgeType' /\ AtRest' /\ ~csr'.wr_en
<1>1. Request = NoRequest /\ Request.kind = "none" /\ IsRequest(Request)
  BY Limits DEF Request, NoRequest, IsRequest
<1>2. BridgeType'
  BY <1>1, BridgeTypeStep DEF AtRest, At
<1>3. next_state(Request) = "IDLE_S" /\ ~narrow_write(Request)
      /\ ~narrow_read(Request)
  BY <1>1 DEF AtRest, At, next_state, narrow_write, narrow_read
<1>4. AtRest'
  BY <1>3 DEF BridgeEdge, wide_waitrequest, regs_wait_req, regs_dv,
              CSR_READ_CYCLES, AtRest, At
<1>5. ~csr'.wr_en
  BY <1>3 DEF BridgeEdge, CsrNext
<1> QED BY <1>2, <1>4, <1>5

LEMMA WriteBegins ==
    ASSUME BridgeType, AtRest, prog.pc = "bus", BusArgs(prog.args), Writes(prog),
           NEW x, BridgeEdge(Request, x)
    PROVE  /\ ~Done
           /\ BridgeType' /\ InWrite' /\ saved' = Request /\ csr' = HalfWrite(0)
<1>1. /\ IsRequest(Request) /\ Request.kind = "write"
      /\ Request.addr \div 2 = 2 * (reg_idx(prog) \div 2)
      /\ Request.be[0] = (0 = reg_idx(prog) % 2)
      /\ Request.data[0] = prog.args[2]
  BY RequestHas
<1>2. BridgeType'
  BY <1>1, BridgeTypeStep DEF AtRest, At
<1>3. /\ next_state(Request) = "WRITE_S" /\ wide_waitrequest(Request)
      /\ Held(Request) = Request
      /\ narrow_write(Request) = TRUE /\ ~narrow_read(Request)
  BY <1>1 DEF AtRest, At, next_state, narrow_write, narrow_read,
              wide_waitrequest, Held, Begins
<1>4. InWrite' /\ saved' = Request
  BY <1>3 DEF BridgeEdge, regs_wait_req, regs_dv, CSR_READ_CYCLES, AtRest,
              InWrite, At, WIDTH_RATIO
<1>5. Half = 0 /\ narrow_address(Request) = 2 * (reg_idx(prog) \div 2) + 0
  BY <1>1, <1>3 DEF Half, WIDTH_RATIO, narrow_address, AtRest, At
<1>6. csr' = HalfWrite(0)
  BY <1>1, <1>3, <1>5 DEF BridgeEdge, CsrNext, HalfWrite, HalfAddr
<1> QED BY <1>2, <1>3, <1>4, <1>6 DEF Done

LEMMA WriteEnds ==
    ASSUME BridgeType, InWrite, saved = Request, prog.pc = "bus",
           BusArgs(prog.args), Writes(prog), NEW x, BridgeEdge(Request, x)
    PROVE  Done /\ BridgeType' /\ AtRest' /\ csr' = HalfWrite(1)
<1>1. /\ IsRequest(Request) /\ Request.kind = "write"
      /\ Request.addr \div 2 = 2 * (reg_idx(prog) \div 2)
      /\ Request.be[1] = (1 = reg_idx(prog) % 2)
      /\ Request.data[1] = prog.args[2]
  BY RequestHas
<1>2. BridgeType'
  BY <1>1, BridgeTypeStep DEF InWrite, At
<1>3. /\ next_state(Request) = "IDLE_S" /\ ~wide_waitrequest(Request)
      /\ Held(Request) = Request
      /\ narrow_write(Request) = TRUE /\ ~narrow_read(Request)
  BY <1>1 DEF InWrite, At, next_state, narrow_write, narrow_read,
              wide_waitrequest, Held, Begins, WIDTH_RATIO
<1>4. AtRest'
  BY <1>3 DEF BridgeEdge, regs_wait_req, regs_dv, CSR_READ_CYCLES, AtRest,
              InWrite, At, WIDTH_RATIO
<1>5. Half = 1 /\ narrow_address(Request) = 2 * (reg_idx(prog) \div 2) + 1
  BY <1>1, <1>3 DEF Half, WIDTH_RATIO, narrow_address, InWrite, At
<1>6. csr' = HalfWrite(1)
  BY <1>1, <1>3, <1>5 DEF BridgeEdge, CsrNext, HalfWrite, HalfAddr
<1> QED BY <1>2, <1>3, <1>4, <1>6 DEF Done

LEMMA ReadBegins ==
    ASSUME BridgeType, AtRest, prog.pc = "bus", BusArgs(prog.args), ~Writes(prog),
           NEW x, BridgeEdge(Request, x)
    PROVE  /\ ~Done /\ BridgeType' /\ InRead(1)' /\ saved' = Request
           /\ csr'.addr = HalfAddr(0) /\ ~csr'.wr_en
<1>1. /\ IsRequest(Request) /\ Request.kind = "read"
      /\ Request.addr \div 2 = 2 * (reg_idx(prog) \div 2)
  BY RequestHas
<1>2. BridgeType'
  BY <1>1, BridgeTypeStep DEF AtRest, At
<1>3. /\ next_state(Request) = "READ_S" /\ wide_waitrequest(Request)
      /\ Held(Request) = Request
      /\ ~narrow_write(Request) /\ narrow_read(Request)
  BY <1>1 DEF AtRest, At, next_state, narrow_write, narrow_read,
              wide_waitrequest, Held, Begins, WIDTH_RATIO
<1>4. InRead(1)' /\ saved' = Request
  BY <1>3 DEF BridgeEdge, regs_wait_req, regs_dv, CSR_READ_CYCLES, AtRest,
              InRead, At, WIDTH_RATIO
<1>5. narrow_address(Request) = 2 * (reg_idx(prog) \div 2) + 0
  BY <1>1, <1>3 DEF narrow_address, AtRest, At
<1>6. csr'.addr = HalfAddr(0) /\ ~csr'.wr_en
  BY <1>3, <1>5 DEF BridgeEdge, CsrNext, HalfAddr
<1> QED BY <1>2, <1>3, <1>4, <1>6 DEF Done

\* A register is read two edges after its address is there.
LEMMA ReadGoesOn ==
    ASSUME BridgeType, NEW k \in 1 .. 5, InRead(k), saved = Request,
           prog.pc = "bus", BusArgs(prog.args), ~Writes(prog),
           NEW x, BridgeEdge(Request, x)
    PROVE  /\ ~Done /\ BridgeType' /\ InRead(k + 1)' /\ saved' = Request
           /\ csr'.addr = HalfAddr(IF k < 3 THEN 0 ELSE 1) /\ ~csr'.wr_en
           /\ regs_rdata' = x
           /\ wide_readdata'[0] =
                  IF k < 3 THEN regs_rdata ELSE wide_readdata[0]
           /\ k = 5 => wide_readdata'[1] = regs_rdata
<1>1. /\ IsRequest(Request) /\ Request.kind = "read"
      /\ Request.addr \div 2 = 2 * (reg_idx(prog) \div 2)
  BY RequestHas
<1>0. /\ state = "READ_S" /\ ~read_is_finished
      /\ takt_cnt = (IF k < 3 THEN 0 ELSE 1)
      /\ rd_takt_cnt = (IF k < 3 THEN 0 ELSE 1)
      /\ csr_waitreq_cnt = IF k < 3 THEN k ELSE k - 3
  BY DEF InRead, At
<1>2. BridgeType'
  BY <1>0, <1>1, BridgeTypeStep
<1>3. /\ next_state(Request) = "READ_S" /\ wide_waitrequest(Request)
      /\ Held(Request) = Request
      /\ ~narrow_write(Request) /\ narrow_read(Request)
  BY <1>0, <1>1 DEF next_state, narrow_write, narrow_read,
              wide_waitrequest, Held, Begins, WIDTH_RATIO
<1>4. regs_dv <=> k \in {2, 5}
  BY <1>0 DEF regs_dv, CSR_READ_CYCLES
<1>5. regs_wait_req(Request) <=> k \notin {2, 5}
  BY <1>3, <1>4 DEF regs_wait_req
<1>6. /\ state' = "READ_S"
      /\ takt_cnt' = IF k \in {2, 5} THEN takt_cnt + 1 ELSE takt_cnt
      /\ rd_takt_cnt' = IF k \in {2, 5} THEN (rd_takt_cnt + 1) % 2
                                        ELSE rd_takt_cnt
      /\ read_is_finished' <=> k = 5
      /\ csr_waitreq_cnt' = IF k \in {2, 5} THEN 0 ELSE csr_waitreq_cnt + 1
  <2>1. /\ state' = "READ_S"
        /\ takt_cnt' = IF k \in {2, 5} THEN takt_cnt + 1 ELSE takt_cnt
    BY <1>0, <1>3, <1>5 DEF BridgeEdge, WIDTH_RATIO
  <2>2. rd_takt_cnt' = IF k \in {2, 5} THEN (rd_takt_cnt + 1) % 2
                                      ELSE rd_takt_cnt
    BY <1>3, <1>4 DEF BridgeEdge, WIDTH_RATIO
  <2>3. read_is_finished' <=> k = 5
    BY <1>0, <1>4 DEF BridgeEdge, WIDTH_RATIO
  <2>4. csr_waitreq_cnt' = IF k \in {2, 5} THEN 0 ELSE csr_waitreq_cnt + 1
    BY <1>5 DEF BridgeEdge
  <2> QED BY <2>1, <2>2, <2>3, <2>4
<1>7. InRead(k + 1)'
  BY <1>0, <1>6 DEF InRead, At
<1>8. saved' = Request /\ regs_rdata' = x
  BY <1>3 DEF BridgeEdge
<1>9. narrow_address(Request) =
          2 * (reg_idx(prog) \div 2) + (IF k < 3 THEN 0 ELSE 1)
  BY <1>0, <1>1, <1>3 DEF narrow_address
<1>10. csr'.addr = HalfAddr(IF k < 3 THEN 0 ELSE 1) /\ ~csr'.wr_en
  BY <1>3, <1>9 DEF BridgeEdge, CsrNext, HalfAddr
<1>11. /\ wide_readdata'[0] = IF k < 3 THEN regs_rdata ELSE wide_readdata[0]
       /\ k = 5 => wide_readdata'[1] = regs_rdata
  BY <1>0 DEF BridgeEdge, BridgeType
<1> QED BY <1>2, <1>3, <1>7, <1>8, <1>10, <1>11 DEF Done

LEMMA ReadEnds ==
    ASSUME BridgeType, InRead(6), saved = Request, prog.pc = "bus",
           BusArgs(prog.args), ~Writes(prog), NEW x, BridgeEdge(Request, x)
    PROVE  Done /\ BridgeType' /\ AtRest' /\ ~csr'.wr_en
<1>1. IsRequest(Request) /\ Request.kind = "read"
  BY RequestHas
<1>0. At("READ_S", 2, 0, 0, TRUE)
  BY DEF InRead, At
<1>2. BridgeType'
  BY <1>0, <1>1, BridgeTypeStep DEF At
<1>3. /\ next_state(Request) = "IDLE_S" /\ ~wide_waitrequest(Request)
      /\ ~narrow_write(Request) /\ ~narrow_read(Request)
  BY <1>0, <1>1 DEF At, next_state, narrow_write, narrow_read,
              wide_waitrequest, WIDTH_RATIO
<1>4. AtRest'
  BY <1>0, <1>3 DEF BridgeEdge, regs_wait_req, regs_dv, CSR_READ_CYCLES,
              AtRest, At, WIDTH_RATIO
<1>5. ~csr'.wr_en
  BY <1>3 DEF BridgeEdge, CsrNext
<1> QED BY <1>2, <1>3, <1>4, <1>5 DEF Done

-----------------------------------------------------------------------------
(* What an access brings from the registers to the program. *)

\* The value of Named is on its way, or has come, and is in G.
Carried(G) ==
    /\ reg_idx(prog) % 2 = 0 =>
           /\ InRead(2) => regs_rdata \in G
           /\ \A k \in 3 .. 6 : InRead(k) => wide_readdata[0] \in G
    /\ reg_idx(prog) % 2 = 1 =>
           /\ InRead(5) => regs_rdata \in G
           /\ InRead(6) => wide_readdata[1] \in G

\* The same of the next state.
CarriedOn(G) ==
    /\ (reg_idx(prog) % 2 = 0)' =>
           /\ InRead(2)' => regs_rdata' \in G
           /\ \A k \in 3 .. 6 : InRead(k)' => wide_readdata'[0] \in G
    /\ (reg_idx(prog) % 2 = 1)' =>
           /\ InRead(5)' => regs_rdata' \in G
           /\ InRead(6)' => wide_readdata'[1] \in G

\* The k-th edge of a read.
Reading(k) == /\ InRead(k) /\ saved = Request /\ ~csr.wr_en
              /\ csr.addr = HalfAddr(IF k < 4 THEN 0 ELSE 1)

LEMMA CarriedStep ==
    ASSUME BridgeType, NEW k \in 1 .. 5, Reading(k), prog.pc = "bus",
           BusArgs(prog.args), ~Writes(prog), NEW G, Carried(G),
           NEW x, csr.addr = Named => x \in G,
           BridgeEdge(Request, x), prog' = prog
    PROVE  CarriedOn(G)
<1>1. /\ InRead(k + 1)' /\ regs_rdata' = x
      /\ wide_readdata'[0] = IF k < 3 THEN regs_rdata ELSE wide_readdata[0]
      /\ k = 5 => wide_readdata'[1] = regs_rdata
  BY ReadGoesOn DEF Reading
<1>2. /\ reg_idx(prog) \in Nat /\ reg_idx(prog) % 2 \in 0 .. 1
      /\ HalfAddr(reg_idx(prog) % 2) = Named
  BY NamedHalf
<1>3. \A j \in 1 .. 6 : InRead(j)' => j = k + 1
  BY <1>1 DEF InRead, At
<1>4. \A j \in 1 .. 6 : InRead(j) => j = k
  BY DEF Reading, InRead, At
<1>5. ASSUME reg_idx(prog) % 2 = 0
      PROVE  /\ k + 1 = 2 => regs_rdata' \in G
             /\ k + 1 \in 3 .. 6 => wide_readdata'[0] \in G
  <2>1. k < 4 => x \in G
    BY <1>2, <1>5 DEF Reading
  <2>2. k = 2 => regs_rdata \in G
    BY <1>5 DEF Carried, Reading
  <2>3. k \in 3 .. 6 => wide_readdata[0] \in G
    BY <1>5 DEF Carried, Reading
  <2> QED BY <1>1, <2>1, <2>2, <2>3
<1>6. ASSUME reg_idx(prog) % 2 = 1
      PROVE  /\ k + 1 = 5 => regs_rdata' \in G
             /\ k + 1 = 6 => wide_readdata'[1] \in G
  <2>1. k >= 4 => x \in G
    BY <1>2, <1>6 DEF Reading
  <2>2. k = 5 => regs_rdata \in G
    BY <1>6 DEF Carried, Reading
  <2> QED BY <1>1, <2>1, <2>2
<1>7. reg_idx(prog)' = reg_idx(prog)
  BY DEF reg_idx
<1> QED
  <2>1. reg_idx(prog) % 2 = 0 =>
            /\ InRead(2)' => regs_rdata' \in G
            /\ \A j \in 3 .. 6 : InRead(j)' => wide_readdata'[0] \in G
    BY <1>3, <1>5
  <2>2. reg_idx(prog) % 2 = 1 =>
            /\ InRead(5)' => regs_rdata' \in G
            /\ InRead(6)' => wide_readdata'[1] \in G
    BY <1>3, <1>6
  <2> QED BY <2>1, <2>2, <1>7 DEF CarriedOn

\* What the answer is.
LEMMA CarriedEnds ==
    ASSUME Reading(6), BusArgs(prog.args), NEW G, Carried(G)
    PROVE  wide_readdata[reg_idx(prog) % 2] \in G
<1>1. reg_idx(prog) % 2 \in 0 .. 1
  BY NamedHalf
<1> QED BY <1>1 DEF Carried, Reading

LEMMA NothingCarried ==
    ASSUME AtRest
    PROVE  \A G : Carried(G)
  BY DEF AtRest, InRead, At, Carried

-----------------------------------------------------------------------------
(* The registers are a memory.  Outside of an access every control register *)
(* is what memory has, but for the write whose second half is still on csr. *)

Pcs == {"idle", "args", "open", "mmap", "access", "bus", "MUNMAP",
        "CLOSE_FD", "exited"}

ProgType ==
    /\ prog = [pc |-> prog.pc, args |-> prog.args,
               return_code |-> prog.return_code, data |-> prog.data]
    /\ prog.pc \in Pcs /\ prog.args \in Seq(Int)
    /\ prog.pc \in {"open", "mmap", "access", "bus"} =>
           Len(prog.args) \in 1 .. 2 /\ prog.args[1] \in 0 .. MAP_SIZE - 1
    /\ prog.pc \in {"args", "open", "mmap", "access", "bus"} =>
           prog.return_code = "0"
    /\ \/ prog.pc = "bus"
       \/ prog.pc \in {"MUNMAP", "CLOSE_FD", "exited"} /\ prog.return_code = "0"
       => BusArgs(prog.args)

UserType ==
    /\ user = [steps |-> user.steps, other |-> user.other, op |-> user.op,
               result |-> user.result, regs |-> user.regs]
    /\ user.steps \in Seq(Seq(Int)) /\ user.other \in BOOLEAN
    /\ prog.pc = "idle" \/ user.other \/ user.steps # <<>>

\* Where the bridge is when the program is at its places.
Places ==
    /\ prog.pc # "bus" =>
           /\ AtRest /\ Match(CtrlRegsNext(csr), memory)
           /\ csr.wr_en => /\ prog.pc = "MUNMAP" /\ Writes(prog)
                           /\ BusArgs(prog.args) /\ csr = HalfWrite(1)
    /\ prog.pc = "bus" =>
           /\ Match(ctrl_regs, memory)
           /\ \/ AtRest /\ ~csr.wr_en
              \/ Writes(prog) /\ InWrite /\ saved = Request /\ csr = HalfWrite(0)
              \/ ~Writes(prog) /\ \E k \in 1 .. 6 : Reading(k)

\* A write that has ended may still have to reach its register.
LateWrite ==
    \A f \in Files : \A r \in 0 .. CTRL_CNT[f] - 1 :
        ~(prog.pc = "MUNMAP" /\ Writes(prog) /\ Index(f, r) = Named) =>
            ctrl_regs[f][r] = memory[Index(f, r)]

RomSettled == prog.pc \notin {"MUNMAP", "CLOSE_FD"} =>
                  rom_addr = ctrl_regs[FPGA_ID][FPGA_ID_CR]

\* The indexes of which RegistersAreMemory says what they read as, and that.
Told == \/ Named = FPGA_ID_RD_DATA \/ Named >= BASE_ADDR[4]
        \/ IsControl(Named)
Stored == IF Named = FPGA_ID_RD_DATA
          THEN {ROM[memory[Index(FPGA_ID, FPGA_ID_CR)]]}
          ELSE IF Named >= BASE_ADDR[4] THEN {0} ELSE {memory[Named]}

Served == prog.pc \in {"MUNMAP", "CLOSE_FD", "exited"} /\ prog.return_code = "0"

MemInv ==
    /\ IsRegs(ctrl_regs) /\ memory \in [Addresses -> Words] /\ BridgeType
    /\ ProgType /\ UserType /\ Places /\ LateWrite /\ RomSettled
    /\ prog.pc = "bus" /\ ~Writes(prog) /\ Told => Carried(Stored)
    /\ Served /\ ~Writes(prog) /\ Told => prog.data \in Stored
    /\ Served /\ Writes(prog) => memory[Named] = prog.args[2]

LEMMA RestEdge ==
    ASSUME MemInv, Hardware, prog.pc # "bus"
    PROVE  /\ AtRest' /\ BridgeType' /\ ~csr'.wr_en /\ IsRegs(ctrl_regs)'
           /\ Match(ctrl_regs', memory) /\ CtrlRegsNext(csr)' = ctrl_regs'
           /\ rom_addr' = ctrl_regs[FPGA_ID][FPGA_ID_CR]
           /\ prog.pc # "MUNMAP" => ctrl_regs' = ctrl_regs
<1>1. /\ BridgeEdge(Request, rd_data(csr.addr, status))
      /\ ctrl_regs' = CtrlRegsNext(csr)
      /\ rom_addr' = ctrl_regs[FPGA_ID][FPGA_ID_CR]
  BY DEF Hardware, RegFilesEdge
<1>2. /\ BridgeType /\ AtRest /\ Match(CtrlRegsNext(csr), memory)
      /\ csr.wr_en => prog.pc = "MUNMAP"
  BY DEF MemInv, Places
<1>3. AtRest' /\ BridgeType' /\ ~csr'.wr_en
  BY <1>1, <1>2, RestStep
<1>4. IsRegs(ctrl_regs')
  BY <1>1, WriteOne DEF MemInv, BridgeType
<1>5. Match(ctrl_regs', memory)
  BY <1>1, <1>2
<1>6. CtrlRegsNext(csr)' = ctrl_regs'
  BY <1>3 DEF CtrlRegsNext
<1>7. prog.pc # "MUNMAP" => ctrl_regs' = ctrl_regs
  BY <1>1, <1>2 DEF CtrlRegsNext
<1> QED BY <1>1, <1>3, <1>4, <1>5, <1>6, <1>7 DEF IsRegs

LEMMA StepsAreCalls ==
    ASSUME NEW op \in OPERATIONS
    PROVE  /\ Steps(op) \in Seq(Seq(Int)) /\ Len(Steps(op)) = 6
           /\ op = [cop |-> op.cop, dev |-> op.dev, data |-> op.data]
           /\ op.cop \in 1 .. 2 /\ op.dev \in DOMAIN PHY_REGS
           /\ op.data \in 0 .. 2^DATA - 1 /\ op.dev \in Nat
<1>1. /\ op = [cop |-> op.cop, dev |-> op.dev, data |-> op.data]
      /\ op.cop \in 1 .. 2 /\ op.dev \in DOMAIN PHY_REGS
      /\ op.data \in 0 .. 2^DATA - 1 /\ op.dev \in Nat
  BY RegistersAssumption, MdioAssumption
     DEF RegistersAssumption, MdioAssumption
<1>2. /\ Control(MDIODEVAD_CR) \in Int /\ Control(MDIODATALO_CR) \in Int
      /\ Control(MDIO_CR) \in Int /\ StatusOf(MDIO_SR) \in Int
      /\ StatusOf(MDIODATALO_SR) \in Int
  BY ThreeFiles DEF Control, StatusOf, Index, PHY, MDIODEVAD_CR,
     MDIODATALO_CR, MDIO_CR, MDIO_SR, MDIODATALO_SR
<1>3. op.data \in Int
  <2>1. 2^DATA \in Nat
    BY MdioAssumption, PowerSum DEF MdioAssumption
  <2> QED BY <1>1, <2>1
<1>4. Cr(1, op.cop) \in Int /\ Cr(0, op.cop) \in Int
  BY <1>1 DEF Cr
<1>5. Steps(op) \in Seq(Seq(Int)) /\ Len(Steps(op)) = 6
  <2> DEFINE a == <<Control(MDIODEVAD_CR), op.dev>>
             b == <<Control(MDIODATALO_CR), op.data>>
             c == <<Control(MDIO_CR), Cr(1, op.cop)>>
             d == <<StatusOf(MDIO_SR)>>
             e == <<StatusOf(MDIODATALO_SR)>>
             f == <<Control(MDIO_CR), Cr(0, op.cop)>>
  <2>1. /\ a \in Seq(Int) /\ b \in Seq(Int) /\ c \in Seq(Int)
        /\ d \in Seq(Int) /\ e \in Seq(Int) /\ f \in Seq(Int)
    BY <1>1, <1>2, <1>3, <1>4
  <2>2. Steps(op) = <<a, b, c, d, e, f>>
    BY DEF Steps
  <2> HIDE DEF a, b, c, d, e, f
  <2> QED BY <2>1, <2>2
<1> QED BY <1>1, <1>5

\* What a step of the program away from the registers does to it.
LEMMA ProgStep ==
    ASSUME MemInv, Program \/ NoCall, prog.pc # "bus"
    PROVE  /\ ProgType' /\ UserType' /\ memory' = memory
           /\ prog.pc = "MUNMAP" => prog'.pc = "CLOSE_FD"
           /\ prog'.pc = "MUNMAP" => ~Served'
           /\ Served' => Served /\ prog'.args = prog.args /\ prog'.data = prog.data
<1>1. ProgType /\ UserType
  BY DEF MemInv
<1>2. CASE SystemCall
  <2>1. PICK ok \in BOOLEAN : Call(ok)
    BY <1>2 DEF SystemCall
  <2>2. UserType' /\ memory' = memory
    BY <1>1, <1>2, <2>1 DEF SystemCall, UserType, Call
  <2>3. CASE prog.pc = "args" /\ Usage
    BY <1>1, <2>2, <2>3 DEF Usage, Exit, Goto, ProgType, Pcs, Served
  <2>4. CASE prog.pc = "open" /\ Open(ok)
    BY <1>1, <2>2, <2>4 DEF Open, Exit, Goto, ProgType, Pcs, Served
  <2>5. CASE prog.pc = "mmap" /\ Mmap(ok)
    BY <1>1, <2>2, <2>5 DEF Mmap, Exit, Goto, ProgType, Pcs, Served
  <2>6. CASE prog.pc = "access" /\ Access
    <3>1. BusArgs(prog.args) \/ (Writes(prog) /\ prog.args[2] \notin 0 .. DATA_MAX)
      BY <1>1, <2>6 DEF ProgType, BusArgs, Writes, Words
    <3> QED BY <1>1, <2>2, <2>6, <3>1
            DEF Access, Exit, Goto, ProgType, Pcs, Served
  <2>7. CASE prog.pc = "MUNMAP" /\ Munmap(ok)
    BY <1>1, <2>2, <2>7 DEF Munmap, Goto, ProgType, Pcs, Served
  <2>8. CASE prog.pc = "CLOSE_FD" /\ Close(ok)
    BY <1>1, <2>2, <2>8 DEF Close, Exit, ProgType, Pcs, Served
  <2> QED BY <2>1, <2>3, <2>4, <2>5, <2>6, <2>7, <2>8 DEF Call
<1>3. CASE CallNext
  <2>1. Head(user.steps) \in Seq(Int)
    BY <1>1, <1>3 DEF UserType, CallNext
  <2> QED BY <1>1, <1>3, <2>1
          DEF CallNext, Called, ProgType, UserType, Pcs, Served
<1>4. CASE CallOther
  <2>1. PICK args \in OTHER_CALLS : prog' = Called(args)
    BY <1>4 DEF CallOther
  <2>2. args \in Seq(Int)
    BY RegistersAssumption DEF RegistersAssumption
  <2> QED BY <1>1, <1>4, <2>1, <2>2
          DEF CallOther, Called, ProgType, UserType, Pcs, Served
<1>5. CASE Return
  <2>1. prog' = Idle /\ memory' = memory /\ prog.pc = "exited"
    BY <1>5 DEF Return
  <2>2. ProgType' /\ ~Served'
    BY <2>1 DEF Idle, ProgType, Pcs, Served
  <2>3. UserType'
    <3> DEFINE again == \/ user.other \/ prog.return_code # "0"
                        \/ /\ prog.args = <<StatusOf(MDIO_SR)>>
                           /\ prog.data % 2 = 1
               got == prog.args = <<StatusOf(MDIODATALO_SR)>>
    <3>1. user' = [user EXCEPT
                      !.other = FALSE,
                      !.steps = IF again THEN @ ELSE Tail(@),
                      !.result = IF ~again /\ got THEN prog.data ELSE @]
      BY <1>5 DEF Return
    <3>2. ~again => user.steps # <<>>
      BY <1>1, <2>1 DEF UserType
    <3> HIDE DEF again, got
    <3>3. ~again => Tail(user.steps) \in Seq(Seq(Int))
      BY <1>1, <3>2 DEF UserType
    <3>4. user'.steps = (IF again THEN user.steps ELSE Tail(user.steps))
          /\ user'.other = FALSE
          /\ user' = [steps |-> user'.steps, other |-> user'.other,
                      op |-> user'.op, result |-> user'.result,
                      regs |-> user'.regs]
      BY <1>1, <3>1 DEF UserType
    <3> QED BY <1>1, <2>1, <3>3, <3>4 DEF UserType, Idle
  <2> QED BY <2>1, <2>2, <2>3
<1>6. CASE BeginOperation
  <2>1. PICK op \in OPERATIONS :
            user' = [user EXCEPT !.steps = Steps(op), !.op = op,
                                 !.regs = phy.regs]
    BY <1>6 DEF BeginOperation
  <2>2. Steps(op) \in Seq(Seq(Int))
    BY StepsAreCalls
  <2>3. prog' = prog /\ memory' = memory /\ prog.pc = "idle"
    BY <1>6 DEF BeginOperation
  <2> QED BY <1>1, <2>1, <2>2, <2>3 DEF UserType, ProgType, Served
<1>7. CASE NoCall
  <2>1. prog' = prog /\ user' = user /\ memory' = memory
        /\ prog.pc \in {"access", "idle"}
    BY <1>7 DEF NoCall
  <2> QED BY <1>1, <2>1 DEF UserType, ProgType, Served
<1>8. ~Done
  BY DEF Done
<1> QED BY <1>2, <1>3, <1>4, <1>5, <1>6, <1>7, <1>8 DEF Program

LEMMA RestKeepsMemory ==
    ASSUME MemInv, Hardware, Program \/ NoCall, prog.pc # "bus"
    PROVE  MemInv'
<1>1. /\ AtRest' /\ BridgeType' /\ ~csr'.wr_en /\ IsRegs(ctrl_regs)'
      /\ Match(ctrl_regs', memory) /\ CtrlRegsNext(csr)' = ctrl_regs'
      /\ rom_addr' = ctrl_regs[FPGA_ID][FPGA_ID_CR]
      /\ prog.pc # "MUNMAP" => ctrl_regs' = ctrl_regs
  BY RestEdge
<1>2. /\ ProgType' /\ UserType' /\ memory' = memory
      /\ prog.pc = "MUNMAP" => prog'.pc = "CLOSE_FD"
      /\ prog'.pc = "MUNMAP" => ~Served'
      /\ Served' => Served /\ prog'.args = prog.args /\ prog'.data = prog.data
  BY ProgStep
<1>3. Match(ctrl_regs, memory)' /\ Match(CtrlRegsNext(csr), memory)'
  BY <1>1, <1>2 DEF Match
<1>4. Places'
  BY <1>1, <1>3 DEF Places
<1>5. LateWrite'
  BY <1>3 DEF LateWrite, Match
<1>6. RomSettled'
  BY <1>1, <1>2 DEF RomSettled
<1>7. \A G : Carried(G)'
  BY <1>1 DEF AtRest, InRead, At, Carried
<1>8. Served' /\ ~Writes(prog)' /\ Told' => prog'.data \in Stored'
  BY <1>2 DEF MemInv, Writes, Told, Stored, Named, reg_idx
<1>9. prog'.pc = "bus" /\ ~Writes(prog)' /\ Told' => Carried(Stored)'
  BY <1>1 DEF AtRest, InRead, At, Carried
<1>10. Served' /\ Writes(prog)' => memory'[Named'] = prog'.args[2]
  BY <1>2 DEF MemInv, Writes, Named, reg_idx
<1> QED BY <1>1, <1>2, <1>4, <1>5, <1>6, <1>8, <1>9, <1>10 DEF MemInv

\* A register whose index is told reads as what is stored for it.
LEMMA ReadsStored ==
    ASSUME MemInv, prog.pc = "bus", csr.addr = Named, Told
    PROVE  rd_data(csr.addr, status) \in Stored
<1>1. /\ BusArgs(prog.args) /\ Match(ctrl_regs, memory)
      /\ rom_addr = ctrl_regs[FPGA_ID][FPGA_ID_CR]
  BY DEF MemInv, ProgType, Places, RomSettled
<1>2. Named \in Addresses
  BY <1>1, NamedHalf
<1>3. CASE Named = FPGA_ID_RD_DATA
  <2>1. ctrl_regs[FPGA_ID][FPGA_ID_CR] = memory[Index(FPGA_ID, FPGA_ID_CR)]
    BY <1>1, ThreeFiles DEF Match, FPGA_ID, FPGA_ID_CR
  <2> QED BY <1>1, <1>2, <1>3, <2>1, ReadOne DEF Stored
<1>4. CASE Named # FPGA_ID_RD_DATA /\ Named >= BASE_ADDR[4]
  BY <1>2, <1>4, ReadOne DEF Stored
<1>5. CASE Named # FPGA_ID_RD_DATA /\ ~(Named >= BASE_ADDR[4]) /\ IsControl(Named)
  <2>1. PICK f \in Files : /\ Named \in BASE_ADDR[f] .. BASE_ADDR[f + 1] - 1
                           /\ Named - BASE_ADDR[f] < CTRL_CNT[f]
    BY <1>5 DEF IsControl
  <2> DEFINE r == Named - BASE_ADDR[f]
  <2>2. r \in 0 .. CTRL_CNT[f] - 1 /\ Named = Index(f, r)
    BY <2>1, ThreeFiles DEF Index
  <2> HIDE DEF r
  <2>3. rd_data(csr.addr, status) = ctrl_regs[f][r]
    BY <1>2, <1>5, <2>2, ReadOne
  <2> QED BY <1>1, <1>5, <2>2, <2>3 DEF Match, Stored
<1> QED BY <1>3, <1>4, <1>5 DEF Told

\* What an edge in the middle of an access leaves as it was.
LEMMA BusEdge ==
    ASSUME MemInv, Hardware, prog.pc = "bus"
    PROVE  /\ BusArgs(prog.args) /\ BridgeEdge(Request, rd_data(csr.addr, status))
           /\ ctrl_regs' = CtrlRegsNext(csr) /\ IsRegs(ctrl_regs')
           /\ rom_addr' = ctrl_regs[FPGA_ID][FPGA_ID_CR]
           /\ ~csr.wr_en => ctrl_regs' = ctrl_regs
<1>1. /\ BridgeEdge(Request, rd_data(csr.addr, status))
      /\ ctrl_regs' = CtrlRegsNext(csr)
      /\ rom_addr' = ctrl_regs[FPGA_ID][FPGA_ID_CR]
  BY DEF Hardware, RegFilesEdge
<1>2. IsRegs(ctrl_regs')
  BY <1>1, WriteOne DEF MemInv, BridgeType
<1> QED BY <1>1, <1>2 DEF MemInv, ProgType, CtrlRegsNext

LEMMA BusKeepsMemory ==
    ASSUME MemInv, Hardware, NoCall, prog.pc = "bus"
    PROVE  MemInv'
<1>1. /\ BusArgs(prog.args) /\ BridgeEdge(Request, rd_data(csr.addr, status))
      /\ ctrl_regs' = CtrlRegsNext(csr) /\ IsRegs(ctrl_regs')
      /\ rom_addr' = ctrl_regs[FPGA_ID][FPGA_ID_CR]
      /\ ~csr.wr_en => ctrl_regs' = ctrl_regs
  BY BusEdge
<1>2. ~Done /\ prog' = prog /\ user' = user /\ memory' = memory
  BY DEF NoCall
<1>3. /\ BridgeType /\ Match(ctrl_regs, memory)
      /\ \/ AtRest /\ ~csr.wr_en
         \/ Writes(prog) /\ InWrite /\ saved = Request /\ csr = HalfWrite(0)
         \/ ~Writes(prog) /\ \E k \in 1 .. 6 : Reading(k)
  BY DEF MemInv, Places
<1>4. /\ Request' = Request /\ Named' = Named
      /\ \A h \in 0 .. 1 : HalfAddr(h)' = HalfAddr(h) /\ HalfWrite(h)' = HalfWrite(h)
      /\ Writes(prog)' = Writes(prog)
  BY <1>2 DEF Request, Named, HalfAddr, HalfWrite, Writes, reg_idx
<1>5. /\ BridgeType' /\ ~csr.wr_en
      /\ \/ Writes(prog) /\ InWrite' /\ saved' = Request /\ csr' = HalfWrite(0)
         \/ ~Writes(prog) /\ \E k \in 1 .. 6 : Reading(k)'
      /\ ~Writes(prog) /\ Told => Carried(Stored)'
  <2>1. CASE AtRest /\ ~csr.wr_en /\ Writes(prog)
    BY <1>1, <1>3, <2>1, WriteBegins
  <2>2. CASE AtRest /\ ~csr.wr_en /\ ~Writes(prog)
    <3>1. /\ BridgeType' /\ InRead(1)' /\ saved' = Request
          /\ csr'.addr = HalfAddr(0) /\ ~csr'.wr_en
      BY <1>1, <1>3, <2>2, ReadBegins
    <3>2. Reading(1)'
      BY <1>4, <3>1 DEF Reading
    <3>3. Carried(Stored)'
      BY <3>1 DEF Carried, InRead, At
    <3> QED BY <2>2, <3>1, <3>2, <3>3
  <2>3. CASE Writes(prog) /\ InWrite /\ saved = Request /\ csr = HalfWrite(0)
    BY <1>1, <1>2, <1>3, <2>3, WriteEnds
  <2>4. ASSUME ~Writes(prog), NEW k \in 1 .. 5, Reading(k)
        PROVE  /\ BridgeType' /\ ~csr.wr_en /\ Reading(k + 1)'
               /\ Told => Carried(Stored)'
    <3>1. /\ BridgeType' /\ InRead(k + 1)' /\ saved' = Request
          /\ csr'.addr = HalfAddr(IF k < 3 THEN 0 ELSE 1) /\ ~csr'.wr_en
      BY <1>1, <1>3, <2>4, ReadGoesOn DEF Reading
    <3>2. Reading(k + 1)'
      <4>1. k + 1 < 4 <=> k < 3
        OBVIOUS
      <4> QED BY <1>4, <3>1, <4>1 DEF Reading
    <3>3. ASSUME Told PROVE Carried(Stored)'
      <4>1. Carried(Stored)
        BY <2>4, <3>3 DEF MemInv
      <4>2. csr.addr = Named => rd_data(csr.addr, status) \in Stored
        BY <3>3, ReadsStored
      <4> DEFINE G == Stored
      <4>3. Stored' = G
        BY <1>2, <1>4 DEF Stored
      <4> HIDE DEF G
      <4>4. CarriedOn(G)
        BY <1>1, <1>2, <1>3, <2>4, <4>1, <4>2, CarriedStep DEF G
      <4> QED BY <4>3, <4>4 DEF Carried, CarriedOn
    <3> QED BY <2>4, <3>1, <3>2, <3>3 DEF Reading
  <2>5. CASE ~Writes(prog) /\ Reading(6)
    BY <1>1, <1>2, <1>3, <2>5, ReadEnds DEF Reading
  <2>6. CASE ~Writes(prog) /\ \E k \in 1 .. 6 : Reading(k)
    <3>1. PICK k \in 1 .. 6 : Reading(k)
      BY <2>6
    <3>2. k = 6 \/ k \in 1 .. 5
      OBVIOUS
    <3>3. k \in 1 .. 5 => k + 1 \in 1 .. 6
      OBVIOUS
    <3> QED BY <2>4, <2>5, <2>6, <3>1, <3>2, <3>3
  <2> QED BY <1>3, <2>1, <2>2, <2>3, <2>6
<1>6. ctrl_regs' = ctrl_regs
  BY <1>1, <1>5
<1>7. Match(ctrl_regs, memory)'
  BY <1>2, <1>3, <1>6 DEF Match
<1>8. Places'
  BY <1>2, <1>4, <1>5, <1>7 DEF Places
<1>9. LateWrite' /\ RomSettled'
  BY <1>1, <1>2, <1>6, <1>7 DEF LateWrite, RomSettled, Match
<1>10. ProgType' /\ UserType' /\ ~Served'
  BY <1>2 DEF MemInv, ProgType, UserType, Served
<1>11. ~Writes(prog)' /\ Told' => Carried(Stored)'
  <2>1. Told' = Told
    BY <1>4 DEF Told
  <2> QED BY <1>4, <1>5, <2>1
<1> QED
  BY <1>1, <1>2, <1>5, <1>6, <1>8, <1>9, <1>10, <1>11 DEF MemInv

LEMMA WriteOneNow ==
    IsRegs(ctrl_regs) /\ IsCsr(csr) =>
        /\ IsRegs(CtrlRegsNext(csr))
        /\ \A f \in Files : \A r \in 0 .. CTRL_CNT[f] - 1 :
               CtrlRegsNext(csr)[f][r] =
                   IF Pends(csr) /\ csr.addr = Index(f, r) THEN csr.wr_data
                                                          ELSE ctrl_regs[f][r]
  BY WriteOne

\* The same of the next state.
LEMMA WriteOneThen ==
    (IsRegs(ctrl_regs) /\ IsCsr(csr) =>
        /\ IsRegs(CtrlRegsNext(csr))
        /\ \A f \in Files : \A r \in 0 .. CTRL_CNT[f] - 1 :
               CtrlRegsNext(csr)[f][r] =
                   IF Pends(csr) /\ csr.addr = Index(f, r) THEN csr.wr_data
                                                          ELSE ctrl_regs[f][r])'
  BY WriteOneNow, PTL

\* The last edge of a write: one half of it is in the registers or the other
\* is on csr.
LEMMA WriteStored ==
    ASSUME MemInv, Hardware, Done, Answer16, Writes(prog)
    PROVE  /\ AtRest' /\ BridgeType' /\ IsRegs(ctrl_regs)'
           /\ csr' = HalfWrite(1) /\ memory' \in [Addresses -> Words]
           /\ memory'[Named] = prog.args[2]
           /\ Match(CtrlRegsNext(csr), memory)'
           /\ \A f \in Files : \A r \in 0 .. CTRL_CNT[f] - 1 :
                  Index(f, r) # Named =>
                      /\ memory'[Index(f, r)] = memory[Index(f, r)]
                      /\ ctrl_regs'[f][r] = memory[Index(f, r)]
<1>0. prog.pc = "bus"
  BY DEF Done
<1>1. /\ BusArgs(prog.args) /\ BridgeEdge(Request, rd_data(csr.addr, status))
      /\ ctrl_regs' = CtrlRegsNext(csr) /\ IsRegs(ctrl_regs')
  BY <1>0, BusEdge
<1>2. BridgeType /\ Match(ctrl_regs, memory) /\ IsRegs(ctrl_regs)
      /\ memory \in [Addresses -> Words]
  BY <1>0 DEF MemInv, Places
<1>3. InWrite /\ saved = Request /\ csr = HalfWrite(0)
  <2>1. ~AtRest
    BY <1>0, <1>1, <1>2, WriteBegins
  <2> QED BY <1>0, <2>1 DEF MemInv, Places
<1>4. BridgeType' /\ AtRest' /\ csr' = HalfWrite(1)
  BY <1>0, <1>1, <1>2, <1>3, WriteEnds
<1>5. /\ Named \in Addresses /\ reg_idx(prog) % 2 \in 0 .. 1
      /\ HalfAddr(reg_idx(prog) % 2) = Named /\ prog.args[2] \in Words
  BY <1>1, NamedHalf DEF BusArgs, Writes
<1>6. memory' = [memory EXCEPT ![Named] = prog.args[2]]
  BY DEF Answer16
<1>7. memory' \in [Addresses -> Words] /\ memory'[Named] = prog.args[2]
  BY <1>2, <1>5, <1>6
<1>8. \A f \in Files : \A r \in 0 .. CTRL_CNT[f] - 1 :
          /\ ctrl_regs'[f][r] = IF Pends(csr) /\ csr.addr = Index(f, r)
                                THEN csr.wr_data ELSE memory[Index(f, r)]
          /\ CtrlRegsNext(csr)'[f][r] =
                 IF Pends(csr') /\ csr'.addr = Index(f, r)
                 THEN csr'.wr_data ELSE ctrl_regs'[f][r]
          /\ Index(f, r) \in Addresses
  <2>1. \A f \in Files : \A r \in 0 .. CTRL_CNT[f] - 1 :
            CtrlRegsNext(csr)[f][r] =
                   IF Pends(csr) /\ csr.addr = Index(f, r) THEN csr.wr_data
                                                          ELSE ctrl_regs[f][r]
    BY <1>2, WriteOneNow DEF BridgeType
  <2>2. \A f \in Files : \A r \in 0 .. CTRL_CNT[f] - 1 :
            CtrlRegsNext(csr)'[f][r] =
                   IF Pends(csr') /\ csr'.addr = Index(f, r) THEN csr'.wr_data
                                                            ELSE ctrl_regs'[f][r]
    <3>1. IsRegs(ctrl_regs)' /\ IsCsr(csr)'
      BY <1>1, <1>4 DEF BridgeType, IsRegs
    <3> QED BY <3>1, WriteOneThen DEF Pends, Index
  <2> QED BY <1>1, <1>2, <2>1, <2>2, IndexIsAddress DEF Match
<1>9. ASSUME NEW f \in Files, NEW r \in 0 .. CTRL_CNT[f] - 1
      PROVE  /\ Index(f, r) # Named =>
                    /\ memory'[Index(f, r)] = memory[Index(f, r)]
                    /\ ctrl_regs'[f][r] = memory[Index(f, r)]
             /\ CtrlRegsNext(csr)'[f][r] = memory'[Index(f, r)]
  <2> DEFINE i == Index(f, r)
             a == ctrl_regs'[f][r]
             b == CtrlRegsNext(csr)'[f][r]
             odd == reg_idx(prog) % 2
  <2>1. /\ a = IF odd = 0 /\ HalfAddr(0) = i THEN prog.args[2] ELSE memory[i]
        /\ b = IF odd = 1 /\ HalfAddr(1) = i THEN prog.args[2] ELSE a
    BY <1>3, <1>4, <1>8 DEF HalfWrite, Pends
  <2>2. i \in Addresses
    BY <1>8
  <2>3. memory'[i] = IF i = Named THEN prog.args[2] ELSE memory[i]
    BY <1>2, <1>5, <1>6, <2>2
  <2>4. odd \in {0, 1} /\ HalfAddr(odd) = Named
    BY <1>5
  <2> HIDE DEF i, a, b, odd
  <2>5. /\ i # Named => memory'[i] = memory[i] /\ a = memory[i]
        /\ b = memory'[i]
    BY <2>1, <2>3, <2>4
  <2> QED BY <2>5 DEF i, a, b
<1>10. Match(CtrlRegsNext(csr), memory)'
  BY <1>9 DEF Match, Index
<1> QED BY <1>1, <1>4, <1>7, <1>9, <1>10 DEF IsRegs

LEMMA WriteKeepsMemory ==
    ASSUME MemInv, Hardware, Done, Answer16, Writes(prog)
    PROVE  MemInv'
<1>0. prog.pc = "bus" /\ ProgType /\ UserType /\ BusArgs(prog.args)
  BY DEF Done, MemInv, ProgType
<1>1. /\ AtRest' /\ BridgeType' /\ IsRegs(ctrl_regs)'
      /\ csr' = HalfWrite(1) /\ memory' \in [Addresses -> Words]
      /\ memory'[Named] = prog.args[2]
      /\ Match(CtrlRegsNext(csr), memory)'
      /\ \A f \in Files : \A r \in 0 .. CTRL_CNT[f] - 1 :
             Index(f, r) # Named =>
                 /\ memory'[Index(f, r)] = memory[Index(f, r)]
                 /\ ctrl_regs'[f][r] = memory[Index(f, r)]
  BY WriteStored
<1>2. prog' = [prog EXCEPT !.pc = "MUNMAP", !.data = 0] /\ user' = user
  BY DEF Answer16, Answered
<1>3. /\ prog'.pc = "MUNMAP" /\ prog'.args = prog.args
      /\ prog'.return_code = prog.return_code /\ ProgType'
  BY <1>0, <1>2 DEF ProgType, Pcs
<1>4. UserType'
  BY <1>0, <1>2, <1>3 DEF UserType
<1>5. Named' = Named /\ HalfWrite(1)' = HalfWrite(1) /\ Writes(prog)'
  BY <1>3 DEF Named, HalfWrite, HalfAddr, Writes, reg_idx
<1>6. Places'
  BY <1>0, <1>1, <1>3, <1>5 DEF Places
<1>7. LateWrite' /\ RomSettled'
  BY <1>1, <1>3, <1>5 DEF LateWrite, RomSettled, Index
<1> QED BY <1>1, <1>3, <1>4, <1>5, <1>6, <1>7 DEF MemInv

LEMMA ReadKeepsMemory ==
    ASSUME MemInv, Hardware, Done, Answer16, ~Writes(prog)
    PROVE  MemInv'
<1>0. prog.pc = "bus" /\ ProgType /\ UserType
  BY DEF Done, MemInv
<1>1. /\ BusArgs(prog.args) /\ BridgeEdge(Request, rd_data(csr.addr, status))
      /\ ctrl_regs' = CtrlRegsNext(csr) /\ IsRegs(ctrl_regs')
      /\ rom_addr' = ctrl_regs[FPGA_ID][FPGA_ID_CR]
      /\ ~csr.wr_en => ctrl_regs' = ctrl_regs
  BY <1>0, BusEdge
<1>2. BridgeType /\ Match(ctrl_regs, memory)
  BY <1>0 DEF MemInv, Places
<1>3. Reading(6)
  <2>1. ~AtRest
    BY <1>0, <1>1, <1>2, ReadBegins
  <2>2. PICK k \in 1 .. 6 : Reading(k)
    BY <1>0, <2>1 DEF MemInv, Places
  <2>3. k \notin 1 .. 5
    BY <1>0, <1>1, <1>2, <2>2, ReadGoesOn DEF Reading
  <2> QED BY <2>2, <2>3
<1>4. BridgeType' /\ AtRest' /\ ~csr'.wr_en
  BY <1>0, <1>1, <1>2, <1>3, ReadEnds DEF Reading
<1>5. /\ prog' = [prog EXCEPT !.pc = "MUNMAP",
                              !.data = wide_readdata[reg_idx(prog) % 2]]
      /\ user' = user /\ memory' = memory
  BY DEF Answer16, Answered
<1>6. /\ prog'.pc = "MUNMAP" /\ prog'.args = prog.args
      /\ prog'.data = wide_readdata[reg_idx(prog) % 2]
      /\ prog'.return_code = prog.return_code /\ ProgType'
  BY <1>0, <1>5 DEF ProgType, Pcs
<1>7. UserType'
  BY <1>0, <1>5, <1>6 DEF UserType
<1>8. ctrl_regs' = ctrl_regs /\ CtrlRegsNext(csr)' = ctrl_regs
  BY <1>1, <1>3, <1>4 DEF Reading, CtrlRegsNext
<1>9. Match(ctrl_regs, memory)' /\ Match(CtrlRegsNext(csr), memory)'
  BY <1>2, <1>5, <1>8 DEF Match
<1>10. Places'
  BY <1>4, <1>6, <1>9 DEF Places
<1>11. LateWrite' /\ RomSettled'
  BY <1>6, <1>9 DEF LateWrite, RomSettled, Match
<1>12. Told => Carried(Stored)
  BY <1>0 DEF MemInv
<1>13. Told => prog'.data \in Stored
  BY <1>1, <1>3, <1>6, <1>12, CarriedEnds
<1>14. Told' = Told /\ Stored' = Stored
  BY <1>5, <1>6 DEF Told, Stored, Named, reg_idx
<1> QED BY <1>1, <1>4, <1>5, <1>6, <1>7, <1>8, <1>10, <1>11, <1>13, <1>14
        DEF MemInv, Writes

LEMMA MemInit == Init => MemInv
<1> SUFFICES ASSUME Init PROVE MemInv
  OBVIOUS
<1> USE DEF Init
<1>1. /\ prog.pc = "idle" /\ csr = [addr |-> 0, be |-> FALSE, wr_data |-> 0,
                                    wr_en |-> FALSE]
      /\ memory = [i \in 0 .. CSR_WORDS - 1 |-> 0]
  BY DEF Idle, BridgeInit
<1>2. IsRegs(ctrl_regs)
  <2>1. \A f \in Files : ctrl_regs[f] = [r \in 0 .. CTRL_CNT[f] - 1 |-> 0]
    BY DEF RegFilesInit
  <2> QED BY <2>1, Limits DEF RegFilesInit, IsRegs
<1>3. memory \in [Addresses -> Words]
  BY <1>1, Limits DEF Addresses
<1>4. BridgeType
  BY <1>1, Limits
     DEF BridgeInit, BridgeType, IsRequest, IsCsr, NoRequest, Addresses
<1>5. ProgType
  BY DEF Idle, ProgType, Pcs
<1>6. UserType
  <2>1. Control(MDIODIV_CR) \in Int /\ DIVIDER \in Int
    BY ThreeFiles, RegistersAssumption, MdioAssumption, SMTT(30)
       DEF Control, Index, PHY, MDIODIV_CR, RegistersAssumption, MdioAssumption
  <2>2. user.steps \in Seq(Seq(Int))
    <3> DEFINE a == <<Control(MDIODIV_CR), DIVIDER>>
    <3>1. a \in Seq(Int)
      BY <2>1
    <3>2. user.steps = <<a>>
      OBVIOUS
    <3> HIDE DEF a
    <3> QED BY <3>1, <3>2, SMTT(30)
  <2> QED BY <1>1, <2>2 DEF UserType
<1>7. Match(ctrl_regs, memory)
  <2>1. \A f \in Files : \A r \in 0 .. CTRL_CNT[f] - 1 : ctrl_regs[f][r] = 0
    BY DEF RegFilesInit
  <2> QED BY <1>1, <2>1, IndexIsAddress DEF Match, Addresses
<1>8. CtrlRegsNext(csr) = ctrl_regs
  BY <1>1 DEF CtrlRegsNext
<1>9. Places
  BY <1>1, <1>7, <1>8 DEF BridgeInit, Places, AtRest, At
<1>10. LateWrite
  BY <1>7 DEF LateWrite, Match
<1>11. RomSettled
  BY ThreeFiles DEF RegFilesInit, RomSettled, FPGA_ID, FPGA_ID_CR
<1> QED BY <1>1, <1>2, <1>3, <1>4, <1>5, <1>6, <1>9, <1>10, <1>11
        DEF MemInv, Served

LEMMA MemNext == MemInv /\ [Next]_vars => MemInv'
<1> SUFFICES ASSUME MemInv, [Next]_vars PROVE MemInv'
  OBVIOUS
<1>1. CASE Hardware /\ (Program \/ NoCall) /\ prog.pc # "bus"
  BY <1>1, RestKeepsMemory
<1>2. CASE Hardware /\ NoCall /\ prog.pc = "bus"
  BY <1>2, BusKeepsMemory
<1>3. CASE Hardware /\ Program /\ prog.pc = "bus"
  <2>1. CASE Done
    <3>1. Answer16
      BY <1>3, <2>1 DEF Program
    <3> QED BY <1>3, <2>1, <3>1, WriteKeepsMemory, ReadKeepsMemory
  <2>2. CASE ~Done
    <3>1. SystemCall \/ CallNext \/ CallOther \/ Return \/ BeginOperation
      BY <1>3, <2>2 DEF Program
    <3> QED BY <1>3, <3>1
            DEF SystemCall, Call, CallNext, CallOther, Return, BeginOperation
  <2> QED BY <2>1, <2>2
<1>4. CASE UNCHANGED vars
  <2> USE <1>4 DEF vars, bridgeVars
  <2>1. /\ IsRegs(ctrl_regs)' /\ BridgeType' /\ ProgType' /\ UserType'
    BY DEF MemInv, IsRegs, BridgeType, ProgType, UserType
  <2>2. /\ CtrlRegsNext(csr)' = CtrlRegsNext(csr) /\ Request' = Request
        /\ Named' = Named /\ AtRest' = AtRest /\ InWrite' = InWrite
        /\ \A h \in 0 .. 1 : HalfAddr(h)' = HalfAddr(h)
                             /\ HalfWrite(h)' = HalfWrite(h)
    BY DEF CtrlRegsNext, Request, Named, AtRest, InWrite, At, HalfAddr,
           HalfWrite, reg_idx, Writes
  <2>3. \A k \in 1 .. 6 : Reading(k)' = Reading(k) /\ InRead(k)' = InRead(k)
    BY <2>2 DEF Reading, InRead, At
  <2>4. Places'
    BY <2>2, <2>3 DEF MemInv, Places, Match, Writes
  <2>5. LateWrite' /\ RomSettled'
    BY <2>2 DEF MemInv, LateWrite, RomSettled, Writes
  <2>6. Told' = Told /\ Stored' = Stored
    BY <2>2 DEF Told, Stored
  <2>7. Carried(Stored)' = Carried(Stored)
    BY <2>3, <2>6 DEF Carried, reg_idx
  <2> QED BY <2>1, <2>2, <2>4, <2>5, <2>6, <2>7 DEF MemInv, Writes, Served
<1> QED BY <1>1, <1>2, <1>3, <1>4 DEF Next, Work, Wait

\* The registers are a memory of 16-bit words for reg16, whatever is called
\* and whichever of its system calls fail (avalon_width_adapter.sv:144,
\* avalon_mm_to_csr_if.sv:113, csr_addr_decoder.sv:80, regfile_with_be.sv:74).
THEOREM RegistersMemory == Spec => []RegistersAreMemory
<1>1. MemInv => RegistersAreMemory
  <2> SUFFICES ASSUME MemInv PROVE RegistersAreMemory
    OBVIOUS
  <2>1. ASSUME prog.pc # "bus", ~csr.wr_en, NEW f \in Files,
               NEW r \in 0 .. CSR_WORDS - 1, r < CTRL_CNT[f]
        PROVE  ctrl_regs[f][r] = memory[Index(f, r)]
    <3>1. CtrlRegsNext(csr) = ctrl_regs
      BY <2>1 DEF CtrlRegsNext
    <3>2. r \in 0 .. CTRL_CNT[f] - 1
      BY <2>1, ThreeFiles
    <3> QED BY <2>1, <3>1, <3>2 DEF MemInv, Places, Match
  <2>2. ASSUME prog.pc = "MUNMAP", prog.return_code = "0", ~Writes(prog)
        PROVE  /\ Named = FPGA_ID_RD_DATA =>
                      prog.data = ROM[memory[Index(FPGA_ID, FPGA_ID_CR)]]
               /\ Named >= BASE_ADDR[4] => prog.data = 0
               /\ IsControl(Named) /\ Named # FPGA_ID_RD_DATA =>
                      prog.data = memory[Named]
    <3>1. Told => prog.data \in Stored
      BY <2>2 DEF MemInv, Served
    <3>2. IsControl(Named) => ~(Named >= BASE_ADDR[4])
      <4> SUFFICES ASSUME NEW f \in Files,
                          Named \in BASE_ADDR[f] .. BASE_ADDR[f + 1] - 1
                   PROVE  ~(Named >= BASE_ADDR[4])
        BY DEF IsControl
      <4> QED BY ThreeFiles
    <3>3. Named >= BASE_ADDR[4] => Named # FPGA_ID_RD_DATA
      BY ThreeFiles DEF FPGA_ID_RD_DATA
    <3> QED BY <3>1, <3>2, <3>3 DEF Told, Stored
  <2> QED BY <2>1, <2>2, ThreeFiles DEF RegistersAreMemory
<1> QED BY <1>1, MemInit, MemNext, PTL DEF Spec

-----------------------------------------------------------------------------
(* A frame between master and PHY.  m is the master, p the PHY; op is the   *)
(* operation and old the registers of the PHY before it.                    *)

PhyRegFiles == [DOMAIN PHY_REGS -> 0 .. 2^DATA - 1]

IsOperation(op) == /\ op.cop \in 1 .. 2 /\ op.dev \in DOMAIN PHY_REGS
                   /\ op.data \in 0 .. 2^DATA - 1

IsMaster(m) == m.mdc \in BOOLEAN /\ m.mdc_r \in BOOLEAN /\ m.rcvdata \in Nat

IsPhy(p) == /\ p = [regs |-> p.regs, bits |-> p.bits, cop |-> p.cop,
                    dev |-> p.dev, shift |-> p.shift, out |-> p.out]
            /\ p.regs \in PhyRegFiles /\ p.shift \in Nat

\* What the PHY has of a line on which nothing is said.
Quiet(p) == p.bits \in 0 .. PREAMBLE /\ p.out = 2

\* The PHY's registers after op.
After(op, old) == IF Reads(op.cop) THEN old
                  ELSE [old EXCEPT ![op.dev] = op.data]

BeforeData == PREAMBLE + HEAD + TURN

\* r holds, last, the first j bits of w.
Holds(r, j, w) == r % 2^j = w \div 2^(DATA - j)

\* What both have when the PHY has taken t bits of the frame.
Taken(m, p, op, old, t) ==
    /\ t \in 0 .. FRAME
    /\ m.frame = [cop |-> op.cop, dev |-> op.dev, data |-> op.data]
    /\ t <= PREAMBLE => p.bits \in t .. PREAMBLE /\ p.out = 2 /\ p.regs = old
    /\ t > PREAMBLE /\ t < FRAME =>
           /\ p.bits = t /\ p.cop = op.cop /\ p.dev = op.dev
           /\ p.out = Answer(p, t) /\ p.regs = old
    /\ t >= BeforeData /\ t < FRAME /\ ~Reads(op.cop) =>
           Holds(p.shift, t - BeforeData, op.data)
    /\ t >= BeforeData /\ Reads(op.cop) =>
           Holds(m.rcvdata, t - BeforeData, old[op.dev])
    /\ t = FRAME => p.bits = 0 /\ p.out = 2 /\ p.regs = After(op, old)

\* The PHY takes a bit before the master counts it.
TakenBits(m) == IF m.mdc_r THEN m.bitscntr + 1 ELSE m.bitscntr

Sends(m, p, op, old) ==
    /\ m.bitscntr \in 0 .. FRAME - 1
    /\ m.state = IF Reads(op.cop) /\ m.bitscntr >= PREAMBLE + HEAD
                 THEN "rcv_s" ELSE "send_s"
    /\ Taken(m, p, op, old, TakenBits(m))

Active(m, p, op, old) ==
    \/ m.state = "mdcalign_s" /\ Quiet(p) /\ p.regs = old
    \/ Sends(m, p, op, old)

Finished(m, p, op, old) ==
    /\ m.state = "idle_s" /\ Quiet(p) /\ p.regs = After(op, old)
    /\ Reads(op.cop) => m.rcvdata % 2^DATA = old[op.dev]

LEMMA FrameParts ==
    /\ PREAMBLE \in Nat \ {0} /\ HEAD \in Nat \ {0} /\ TURN \in Nat \ {0}
    /\ DATA \in Nat \ {0} /\ 2^DATA \in Nat \ {0} /\ FRAME \in Nat
    /\ BeforeData \in Nat /\ FRAME = BeforeData + DATA
    /\ BeforeData = PREAMBLE + HEAD + TURN
<1>1. /\ PREAMBLE \in Nat \ {0} /\ HEAD \in Nat \ {0} /\ TURN \in Nat \ {0}
      /\ DATA \in Nat \ {0}
  BY MdioAssumption DEF MdioAssumption
<1> QED BY <1>1, PowerSum DEF FRAME, BeforeData

\* No bit has come, or one more, or all.
LEMMA HoldsNone ==
    ASSUME NEW r \in Nat, NEW w \in 0 .. 2^DATA - 1
    PROVE  Holds(r, 0, w)
<1>1. 2^0 = 1 /\ DATA - 0 = DATA /\ 2^DATA \in Nat \ {0}
  BY FrameParts
<1>2. r % 1 = 0
  OBVIOUS
<1>3. w \div 2^DATA = 0
  <2> DEFINE d == 2^DATA
  <2> HIDE DEF d
  <2>1. d \in Nat \ {0} /\ w \in 0 .. d - 1
    BY <1>1 DEF d
  <2>2. w \div d = 0
    BY <2>1
  <2> QED BY <2>2 DEF d
<1> QED BY <1>1, <1>2, <1>3 DEF Holds

LEMMA HoldsMore ==
    ASSUME NEW r \in Nat, NEW w \in 0 .. 2^DATA - 1, NEW j \in 0 .. DATA - 1,
           Holds(r, j, w), NEW N \in Nat, N >= DATA
    PROVE  /\ Bit(w, DATA - 1 - j) \in 0 .. 1
           /\ Holds((2 * r + Bit(w, DATA - 1 - j)) % 2^N, j + 1, w)
<1>1. N >= j + 1 /\ DATA \in Nat
  BY FrameParts
<1> QED BY <1>1, ShiftBit DEF Holds

LEMMA HoldsAll ==
    ASSUME NEW r \in Nat, NEW w \in 0 .. 2^DATA - 1, Holds(r, DATA, w)
    PROVE  r % 2^DATA = w
<1>1. DATA - DATA = 0 /\ w \in Nat
  BY FrameParts
<1>2. 2^(DATA - DATA) = 1
  <2>1. 2^0 = 1
    OBVIOUS
  <2> QED BY <1>1, <2>1
<1>3. w \div 1 = w
  BY <1>1
<1>4. r % 2^DATA = w \div 2^(DATA - DATA)
  BY DEF Holds
<1> QED BY <1>2, <1>3, <1>4

LEMMA NoAnswer ==
    ASSUME NEW p, NEW bits \in Nat,
           bits <= PREAMBLE + HEAD \/ (p.cop = 1 /\ bits <= FRAME)
    PROVE  Answer(p, bits) = 2
<1>1. Reads(p.cop) => bits - PREAMBLE - HEAD < TURN
  BY FrameParts DEF Reads
<1> QED BY <1>1, FrameParts DEF Answer

LEMMA AnswerBit ==
    ASSUME NEW p, NEW bits \in Nat, Reads(p.cop), bits >= BeforeData,
           bits < FRAME
    PROVE  Answer(p, bits) = Bit(p.regs[p.dev], DATA - 1 - (bits - BeforeData))
<1> DEFINE k == bits - PREAMBLE - HEAD
<1>1. k \in TURN .. TURN + DATA - 1 /\ k - TURN = bits - BeforeData
  BY FrameParts
<1> QED BY <1>1 DEF Answer

LEMMA MasterStep ==
    ASSUME NEW m, IsMaster(m), NEW in, NEW line \in Nat
    PROVE  IsMaster(MdioNext(m, in, line))
<1>1. Shifted(m.rcvdata, line) \in Nat
  <2>1. 2^(TURN + DATA) \in Nat \ {0}
    BY FrameParts, PowerSum
  <2> QED BY <2>1 DEF IsMaster, Shifted
<1>2. MdioNext(m, in, line).rcvdata \in Nat
  BY <1>1 DEF IsMaster, MdioNext
<1>3. /\ MdioNext(m, in, line).mdc \in BOOLEAN
      /\ MdioNext(m, in, line).mdc_r \in BOOLEAN
  BY DEF IsMaster, MdioNext
<1> QED BY <1>2, <1>3 DEF IsMaster

\* On an idle line the PHY counts the bits of a preamble at most.
LEMMA QuietPhy ==
    ASSUME NEW m, NEW p, IsPhy(p), Quiet(p), ~mdoen(m)
    PROVE  /\ IsPhy(PhyNext(p, m)) /\ Quiet(PhyNext(p, m))
           /\ PhyNext(p, m).regs = p.regs /\ Line(p) = 1
<1>1. CASE ~midofbit(m)
  BY <1>1 DEF PhyNext, Quiet, Line, Drives
<1>2. CASE midofbit(m) /\ p.bits < PREAMBLE
  <2>1. p.bits # FRAME - 1
    BY <1>2, FrameParts DEF Quiet
  <2>2. PhyNext(p, m) = [p EXCEPT !.bits = p.bits + 1]
    BY <1>2, <2>1 DEF PhyNext, PhyTakes
  <2>3. /\ PhyNext(p, m).bits = p.bits + 1 /\ PhyNext(p, m).out = p.out
        /\ PhyNext(p, m).regs = p.regs /\ IsPhy(PhyNext(p, m))
    BY <2>2 DEF IsPhy
  <2> QED BY <1>2, <2>3, FrameParts DEF Quiet, Line, Drives
<1>3. CASE midofbit(m) /\ p.bits = PREAMBLE
  <2>1. PhyNext(p, m) = p
    BY <1>3, FrameParts DEF PhyNext, PhyTakes
  <2> QED BY <2>1 DEF Quiet, Line, Drives
<1> QED BY <1>1, <1>2, <1>3, FrameParts DEF Quiet

\* The bit the PHY takes is that of its frame, and one it drives is taken
\* before it is changed.
LEMMA TakesMore ==
    ASSUME NEW m, IsMaster(m), NEW p, IsPhy(p), NEW op, IsOperation(op),
           NEW old \in PhyRegFiles, Sends(m, p, op, old), midofbit(m),
           NEW n, n.frame = m.frame,
           n.rcvdata = IF m.state = "rcv_s" THEN Shifted(m.rcvdata, Line(p))
                                           ELSE m.rcvdata
    PROVE  /\ Taken(n, PhyTakes(p, m), op, old, m.bitscntr + 1)
           /\ IsPhy(PhyTakes(p, m)) /\ Line(p) \in 0 .. 1
<1> DEFINE t == m.bitscntr
           q == PhyTakes(p, m)
           w == IF Reads(op.cop) THEN old[op.dev] ELSE op.data
<1>1. t \in 0 .. FRAME - 1 /\ ~m.mdc_r /\ Taken(m, p, op, old, t)
  BY DEF midofbit, Sends, TakenBits
<1>2. t \in Nat /\ t + 1 \in 0 .. FRAME /\ t < FRAME
  BY <1>1, FrameParts
<1>3. /\ m.frame = [cop |-> op.cop, dev |-> op.dev, data |-> op.data]
      /\ op.cop \in 1 .. 2 /\ (Reads(op.cop) <=> op.cop = 2)
      /\ m.state = IF Reads(op.cop) /\ t >= PREAMBLE + HEAD
                   THEN "rcv_s" ELSE "send_s"
  BY <1>1 DEF Taken, IsOperation, Reads, Sends
<1>w. w \in 0 .. 2^DATA - 1
  BY DEF IsOperation, PhyRegFiles
<1> HIDE DEF t
<1>4. CASE t < PREAMBLE
  <2>1. p.bits \in t .. PREAMBLE /\ p.out = 2 /\ p.regs = old
    BY <1>1, <1>2, <1>4, FrameParts DEF Taken
  <2>2. mdoen(m) /\ md_o(m) = [part |-> "preamble"]
    BY <1>2, <1>3, <1>4, FrameParts DEF mdoen, md_o, t
  <2>3. q = IF p.bits < PREAMBLE THEN [p EXCEPT !.bits = p.bits + 1] ELSE p
    <3>1. (p.bits # FRAME - 1 /\ p.bits < PREAMBLE) \/ p.bits = PREAMBLE
      BY <2>1, <1>2, FrameParts
    <3> QED BY <2>2, <3>1, FrameParts DEF PhyTakes
  <2>4. /\ q.bits = (IF p.bits < PREAMBLE THEN p.bits + 1 ELSE p.bits)
        /\ q.out = 2 /\ q.regs = old /\ IsPhy(q)
    BY <2>1, <2>3 DEF IsPhy
  <2>5. q.bits \in t + 1 .. PREAMBLE
    BY <2>1, <2>4, <1>2, <1>4, FrameParts
  <2>6. t + 1 <= PREAMBLE /\ t + 1 < BeforeData /\ t + 1 < FRAME
    BY <1>2, <1>4, FrameParts
  <2> HIDE DEF q
  <2>7. Taken(n, q, op, old, t + 1)
    BY <1>2, <1>3, <2>4, <2>5, <2>6, FrameParts DEF Taken
  <2> QED BY <2>1, <2>4, <2>7 DEF q, Line, Drives, t
<1>5. CASE t \in PREAMBLE .. PREAMBLE + HEAD - 1
  <2>1. p.bits = t /\ p.out = 2 /\ p.regs = old
    <3>1. t = PREAMBLE \/ t > PREAMBLE
      BY <1>2, <1>5, FrameParts
    <3>2. Answer(p, t) = 2
      BY <1>2, <1>5, FrameParts, NoAnswer
    <3> QED BY <1>1, <1>2, <3>1, <3>2, FrameParts DEF Taken
  <2>2. mdoen(m) /\ md_o(m) = [part |-> "head", cop |-> op.cop, dev |-> op.dev]
    BY <1>3, <1>5, FrameParts DEF mdoen, md_o, t
  <2> DEFINE h == [p EXCEPT !.bits = t + 1, !.cop = op.cop, !.dev = op.dev]
  <2>3. q = [h EXCEPT !.out = Answer(h, t + 1)]
    <3>1. t # FRAME - 1 /\ ~(t < PREAMBLE) /\ t < PREAMBLE + HEAD
      BY <1>2, <1>5, FrameParts
    <3> QED BY <2>1, <2>2, <3>1 DEF PhyTakes
  <2>4. h.bits = t + 1 /\ h.cop = op.cop /\ h.dev = op.dev /\ h.regs = old
        /\ h.shift = p.shift
        /\ h = [regs |-> h.regs, bits |-> h.bits, cop |-> h.cop,
                dev |-> h.dev, shift |-> h.shift, out |-> h.out]
    <3>1. h = [regs |-> p.regs, bits |-> t + 1, cop |-> op.cop,
               dev |-> op.dev, shift |-> p.shift, out |-> p.out]
      <4>1. p = [regs |-> p.regs, bits |-> p.bits, cop |-> p.cop,
                 dev |-> p.dev, shift |-> p.shift, out |-> p.out]
        BY DEF IsPhy
      <4> DEFINE u == [p EXCEPT !.bits = t + 1]
                 v == [u EXCEPT !.cop = op.cop]
      <4>2. u = [regs |-> p.regs, bits |-> t + 1, cop |-> p.cop,
                 dev |-> p.dev, shift |-> p.shift, out |-> p.out]
        BY ONLY <4>1
      <4>3. h = [v EXCEPT !.dev = op.dev]
        OBVIOUS
      <4> HIDE DEF u, h
      <4>4. v = [regs |-> p.regs, bits |-> t + 1, cop |-> op.cop,
                 dev |-> p.dev, shift |-> p.shift, out |-> p.out]
        BY ONLY <4>2
      <4> HIDE DEF v
      <4> QED BY ONLY <4>3, <4>4
    <3> HIDE DEF h
    <3> QED BY <2>1, <3>1
  <2>5. Answer(h, t + 1) = 2
    BY <1>2, <1>5, FrameParts, NoAnswer
  <2> HIDE DEF h
  <2>6. /\ q.bits = t + 1 /\ q.cop = op.cop /\ q.dev = op.dev /\ q.regs = old
        /\ q.out = 2 /\ IsPhy(q)
    BY <2>3, <2>4, <2>5 DEF IsPhy
  <2> HIDE DEF q
  <2>7. Answer(q, t + 1) = 2
    BY <1>2, <1>5, FrameParts, NoAnswer
  <2>8. t + 1 > PREAMBLE /\ t + 1 < BeforeData /\ t + 1 < FRAME
    BY <1>2, <1>5, FrameParts
  <2>9. Taken(n, q, op, old, t + 1)
    BY <1>2, <1>3, <2>6, <2>7, <2>8, FrameParts DEF Taken
  <2> QED BY <2>1, <2>6, <2>9 DEF q, Line, Drives, t
<1> DEFINE b == IF t = FRAME - 1 THEN 0 ELSE t + 1
<1>6. ASSUME t >= PREAMBLE + HEAD
      PROVE  /\ p.bits = t /\ p.cop = op.cop /\ p.dev = op.dev /\ p.regs = old
             /\ p.out = Answer(p, t) /\ b \in Nat /\ (b = 0 <=> t = FRAME - 1)
             /\ ~(p.bits < PREAMBLE) /\ p.bits # PREAMBLE
             /\ ~(p.bits < PREAMBLE + HEAD)
  <2>1. t > PREAMBLE
    BY <1>2, <1>6, FrameParts
  <2>2. /\ p.bits = t /\ p.cop = op.cop /\ p.dev = op.dev /\ p.regs = old
        /\ p.out = Answer(p, t)
    BY <1>1, <1>2, <2>1 DEF Taken
  <2> QED BY <1>2, <1>6, <2>1, <2>2, FrameParts
<1>7. ASSUME t >= PREAMBLE + HEAD, ~(mdoen(m) /\ t >= BeforeData)
      PROVE  /\ q.bits = b /\ q.cop = op.cop /\ q.dev = op.dev /\ q.regs = old
             /\ q.out = Answer(q, b) /\ q.shift = p.shift
             /\ Answer(q, b) = Answer(p, b)
             /\ q = [regs |-> q.regs, bits |-> q.bits, cop |-> q.cop,
                     dev |-> q.dev, shift |-> q.shift, out |-> q.out]
  <2>1. mdoen(m) => md_o(m) = [part |-> "turn"]
    BY <1>2, <1>7, FrameParts DEF md_o, t
  <2>2. (IF mdoen(m) THEN md_o(m) ELSE [part |-> "none"]).part # "data"
    BY <2>1
  <2>3. q = [p EXCEPT !.bits = b, !.out = Answer(p, b)]
    BY <1>6, <1>7, <2>2 DEF PhyTakes
  <2>4. /\ q.bits = b /\ q.cop = p.cop /\ q.dev = p.dev /\ q.regs = p.regs
        /\ q.out = Answer(p, b) /\ q.shift = p.shift
        /\ q = [regs |-> q.regs, bits |-> q.bits, cop |-> q.cop,
                     dev |-> q.dev, shift |-> q.shift, out |-> q.out]
    BY <2>3 DEF IsPhy
  <2>5. Answer(q, b) = Answer(p, b)
    BY <2>4 DEF Answer
  <2> QED BY <1>6, <1>7, <2>4, <2>5
<1>8. CASE t >= PREAMBLE + HEAD /\ Reads(op.cop)
  <2>1. m.state = "rcv_s" /\ ~mdoen(m)
    BY <1>3, <1>8 DEF mdoen
  <2>2. /\ q.bits = b /\ q.cop = op.cop /\ q.dev = op.dev /\ q.regs = old
        /\ q.out = Answer(q, b) /\ q.shift = p.shift
        /\ Answer(q, b) = Answer(p, b)
        /\ q = [regs |-> q.regs, bits |-> q.bits, cop |-> q.cop,
                dev |-> q.dev, shift |-> q.shift, out |-> q.out]
    BY <1>7, <1>8, <2>1
  <2>3. IsPhy(q)
    BY <2>2 DEF IsPhy
  <2>4. t = FRAME - 1 => q.bits = 0 /\ q.out = 2 /\ q.regs = After(op, old)
    <3>1. Answer(q, 0) = 2
      BY FrameParts, NoAnswer
    <3> QED BY <1>8, <2>2, <3>1 DEF After
  <2>5. /\ t < BeforeData => Line(p) = 1
        /\ t >= BeforeData =>
               /\ Line(p) = Bit(old[op.dev], DATA - 1 - (t - BeforeData))
               /\ Line(p) \in 0 .. 1
    <3>1. ASSUME t < BeforeData PROVE Line(p) = 1
      <4>1. ~(t - PREAMBLE - HEAD \in TURN .. TURN + DATA - 1)
        BY <1>2, <3>1, FrameParts
      <4>2. Answer(p, t) = 2
        BY <4>1 DEF Answer
      <4> QED BY <1>6, <1>8, <4>2 DEF Line, Drives
    <3>2. ASSUME t >= BeforeData
          PROVE  /\ Line(p) = Bit(old[op.dev], DATA - 1 - (t - BeforeData))
                 /\ Line(p) \in 0 .. 1
      <4>1. p.out = Bit(old[op.dev], DATA - 1 - (t - BeforeData))
        BY <1>2, <1>6, <1>8, <3>2, AnswerBit
      <4>2. t - BeforeData \in 0 .. DATA - 1 /\ DATA \in Nat
            /\ Holds(m.rcvdata, t - BeforeData, old[op.dev])
        BY <1>1, <1>2, <1>8, <3>2, FrameParts DEF Taken
      <4>3. Bit(old[op.dev], DATA - 1 - (t - BeforeData)) \in 0 .. 1
        BY <1>w, <1>8, <4>2, HoldsMore DEF IsMaster
      <4> QED BY <4>1, <4>3 DEF Line, Drives
    <3> QED BY <3>1, <3>2
  <2>6. Line(p) \in 0 .. 1
    BY <1>2, <2>5, FrameParts
  <2>7. n.rcvdata = (2 * m.rcvdata + Line(p)) % 2^(TURN + DATA)
    BY <2>1 DEF Shifted
  <2>8. ASSUME t + 1 >= BeforeData
        PROVE  Holds(n.rcvdata, t + 1 - BeforeData, old[op.dev])
    <3>1. CASE t + 1 = BeforeData
      <4>1. n.rcvdata \in Nat
        <5>1. 2^(TURN + DATA) \in Nat \ {0}
          BY FrameParts, PowerSum
        <5>2. 2 * m.rcvdata + Line(p) \in Nat
          BY <2>6 DEF IsMaster
        <5> QED BY <2>7, <5>1, <5>2
      <4>2. Holds(n.rcvdata, 0, old[op.dev])
        BY <1>w, <1>8, <4>1, HoldsNone
      <4>3. t + 1 - BeforeData = 0
        BY <1>2, <3>1, FrameParts
      <4> QED BY <4>2, <4>3
    <3>2. CASE t >= BeforeData
      <4> DEFINE j == t - BeforeData
      <4>1. /\ j \in 0 .. DATA - 1 /\ t + 1 - BeforeData = j + 1
            /\ TURN + DATA \in Nat /\ TURN + DATA >= DATA
        BY <1>2, <3>2, FrameParts
      <4>2. Holds(m.rcvdata, j, old[op.dev])
        BY <1>1, <1>8, <3>2 DEF Taken
      <4>3. Line(p) = Bit(old[op.dev], DATA - 1 - j)
        BY <2>5, <3>2
      <4> HIDE DEF j
      <4>4. m.rcvdata \in Nat /\ old[op.dev] \in 0 .. 2^DATA - 1
        BY <1>w, <1>8 DEF IsMaster
      <4>5. Holds((2 * m.rcvdata + Bit(old[op.dev], DATA - 1 - j))
                      % 2^(TURN + DATA), j + 1, old[op.dev])
        BY <4>1, <4>2, <4>4, HoldsMore
      <4> QED BY <2>7, <4>1, <4>3, <4>5
    <3> QED BY <1>2, <2>8, <3>1, <3>2, FrameParts
  <2> HIDE DEF q
  <2>9. /\ t + 1 > PREAMBLE /\ (t + 1 = FRAME <=> t = FRAME - 1)
        /\ t # FRAME - 1 => b = t + 1
    BY <1>2, <1>8, FrameParts
  <2>10. Taken(n, q, op, old, t + 1)
    BY <1>2, <1>3, <1>8, <2>2, <2>4, <2>8, <2>9, FrameParts DEF Taken
  <2> QED BY <2>3, <2>6, <2>10 DEF q, t
<1>9. CASE t >= PREAMBLE + HEAD /\ ~Reads(op.cop)
  <2>1. mdoen(m) /\ op.cop = 1
    BY <1>3, <1>9 DEF mdoen
  <2>2. Line(p) \in 0 .. 1 /\ p.out = 2
    <3>1. Answer(p, t) = 2
      <4>1. p.cop = 1 /\ t <= FRAME
        BY <1>2, <1>6, <1>9, <2>1, FrameParts
      <4> QED BY <1>2, <4>1, NoAnswer
    <3> QED BY <1>6, <1>9, <3>1 DEF Line, Drives
  <2>3. CASE t < BeforeData
    <3>1. /\ q.bits = b /\ q.cop = op.cop /\ q.dev = op.dev /\ q.regs = old
          /\ q.out = Answer(q, b) /\ q.shift = p.shift
          /\ q = [regs |-> q.regs, bits |-> q.bits, cop |-> q.cop,
                  dev |-> q.dev, shift |-> q.shift, out |-> q.out]
      BY <1>2, <1>7, <1>9, <2>3, FrameParts
    <3>2. IsPhy(q)
      BY <3>1 DEF IsPhy
    <3> HIDE DEF q
    <3>3. t + 1 > PREAMBLE /\ t + 1 < FRAME /\ b = t + 1
      BY <1>2, <1>9, <2>3, FrameParts
    <3>4. t + 1 >= BeforeData => Holds(q.shift, t + 1 - BeforeData, op.data)
      <4>1. t + 1 >= BeforeData => t + 1 - BeforeData = 0
        BY <1>2, <2>3, FrameParts
      <4>2. Holds(q.shift, 0, op.data)
        BY <1>w, <1>9, <3>2, HoldsNone DEF IsPhy
      <4> QED BY <4>1, <4>2
    <3>5. Taken(n, q, op, old, t + 1)
      BY <1>2, <1>3, <1>9, <3>1, <3>3, <3>4, FrameParts DEF Taken
    <3> QED BY <2>2, <3>2, <3>5 DEF q, t
  <2>4. CASE t >= BeforeData
    <3> DEFINE j == t - BeforeData
               s == (2 * p.shift + Bit(op.data, DATA - 1 - j)) % 2^DATA
    <3>1. /\ j \in 0 .. DATA - 1 /\ t + 1 - BeforeData = j + 1
          /\ FRAME - 1 - t = DATA - 1 - j /\ DATA >= DATA
      BY <1>2, <2>4, FrameParts
    <3>2. Holds(p.shift, j, op.data)
      BY <1>1, <1>2, <1>9, <2>4 DEF Taken
    <3>3. md_o(m) = [part |-> "data", bit |-> Bit(op.data, DATA - 1 - j)]
      BY <1>2, <1>3, <2>4, <3>1, FrameParts DEF md_o, t
    <3>4. Holds(s, j + 1, op.data) /\ Bit(op.data, DATA - 1 - j) \in 0 .. 1
      BY <1>w, <1>9, <3>1, <3>2, FrameParts, HoldsMore DEF IsPhy
    <3>5. s \in Nat
      BY <3>4, FrameParts DEF IsPhy
    <3>6. q = [p EXCEPT !.bits = b, !.shift = s,
                        !.regs[p.dev] = IF b = 0 THEN s ELSE @]
      <4> DEFINE l == IF mdoen(m) THEN md_o(m) ELSE [part |-> "none"]
                 c == IF p.bits = FRAME - 1 THEN 0 ELSE p.bits + 1
      <4>1. l.part = "data" /\ l.bit = Bit(op.data, DATA - 1 - j)
        BY <2>1, <3>3
      <4>2. ~Reads(p.cop) /\ c = b
        BY <1>6, <1>9
      <4> HIDE DEF l, b
      <4>3. PhyTakes(p, m) =
                [p EXCEPT !.bits = c, !.shift = (2 * p.shift + l.bit) % 2^DATA,
                          !.regs[p.dev] =
                              IF c = 0 THEN (2 * p.shift + l.bit) % 2^DATA ELSE @]
        BY <1>6, <1>9, <4>1, <4>2 DEF PhyTakes, l
      <4> QED BY <4>1, <4>2, <4>3
    <3> HIDE DEF j, s
    <3>7. /\ q.bits = b /\ q.cop = p.cop /\ q.dev = p.dev /\ q.shift = s
          /\ q.regs = [p.regs EXCEPT ![p.dev] = IF b = 0 THEN s ELSE @]
          /\ q.out = p.out
          /\ q = [regs |-> q.regs, bits |-> q.bits, cop |-> q.cop,
                  dev |-> q.dev, shift |-> q.shift, out |-> q.out]
      BY <3>6 DEF IsPhy
    <3>8. t = FRAME - 1 => s = op.data
      <4>1. t = FRAME - 1 => j + 1 = DATA
        BY <1>2, <3>1, FrameParts
      <4>2. s = s % 2^DATA
        <5> DEFINE d == 2^DATA
                   x == 2 * p.shift + Bit(op.data, DATA - 1 - j)
        <5>1. d \in Nat \ {0} /\ x \in Nat /\ s = x % d
          BY <3>4, FrameParts DEF s, IsPhy
        <5> HIDE DEF d, x
        <5>2. s % d = s
          BY <5>1
        <5> QED BY <5>2 DEF d
      <4>3. t = FRAME - 1 => s % 2^DATA = op.data
        BY <1>w, <1>9, <3>4, <3>5, <4>1, HoldsAll
      <4> QED BY <4>2, <4>3
    <3>9. q.regs = IF t = FRAME - 1 THEN After(op, old) ELSE old
      <4>1. CASE t = FRAME - 1
        BY <1>6, <1>9, <3>7, <3>8, <4>1 DEF After
      <4>2. CASE t # FRAME - 1
        <5>1. q.regs = [old EXCEPT ![op.dev] = old[op.dev]]
          BY <1>6, <1>9, <3>7, <4>2
        <5> QED BY <4>2, <5>1 DEF PhyRegFiles
      <4> QED BY <4>1, <4>2
    <3>10. After(op, old) \in PhyRegFiles
      BY DEF After, IsOperation, PhyRegFiles
    <3>11. IsPhy(q)
      BY <3>5, <3>7, <3>9, <3>10 DEF IsPhy
    <3> HIDE DEF q
    <3>12. Answer(q, t + 1) = 2
      BY <1>2, <1>6, <1>9, <2>1, <3>7, NoAnswer
    <3>13. /\ t + 1 > PREAMBLE /\ (t + 1 = FRAME <=> t = FRAME - 1)
           /\ t # FRAME - 1 => b = t + 1
           /\ t = FRAME - 1 => b = 0
      BY <1>2, <1>9, FrameParts
    <3>14. Taken(n, q, op, old, t + 1)
      BY <1>2, <1>3, <1>6, <1>9, <2>2, <3>1, <3>4, <3>7, <3>9, <3>12, <3>13,
         FrameParts DEF Taken
    <3> QED BY <2>2, <3>11, <3>14 DEF q, t
  <2> QED BY <1>2, <2>3, <2>4, FrameParts
<1> QED BY <1>2, <1>4, <1>5, <1>8, <1>9, FrameParts

\* An edge on which the master has nothing to do.
LEMMA QuietEdge ==
    ASSUME NEW m, IsMaster(m), NEW p, IsPhy(p), Quiet(p), m.state = "idle_s",
           ~run_i(m), NEW in, NEW n, NEW q, <<n, q>> = MdioEdge(<<m, p>>, in)
    PROVE  /\ IsMaster(n) /\ IsPhy(q) /\ Quiet(q) /\ n.state = "idle_s"
           /\ q.regs = p.regs /\ n.rcvdata = m.rcvdata
<1>1. n = MdioNext(m, in, Line(p)) /\ q = PhyNext(p, m)
  BY DEF MdioEdge
<1>2. ~mdoen(m)
  BY DEF mdoen
<1>3. IsPhy(q) /\ Quiet(q) /\ q.regs = p.regs /\ Line(p) = 1
  BY <1>1, <1>2, QuietPhy
<1>4. IsMaster(n)
  BY <1>1, <1>3, MasterStep
<1>5. n.state = "idle_s" /\ n.rcvdata = m.rcvdata
  BY <1>1 DEF MdioNext, next_state_mdio
<1> QED BY <1>3, <1>4, <1>5

\* An edge on which run is seen to rise.
LEMMA FirstEdge ==
    ASSUME NEW m, IsMaster(m), NEW p, IsPhy(p), Quiet(p), m.state = "idle_s",
           run_i(m), NEW in, NEW op,
           NEW n, NEW q, <<n, q>> = MdioEdge(<<m, p>>, in)
    PROVE  IsMaster(n) /\ IsPhy(q) /\ Active(n, q, op, p.regs)
<1>1. n = MdioNext(m, in, Line(p)) /\ q = PhyNext(p, m)
  BY DEF MdioEdge
<1>2. ~mdoen(m)
  BY DEF mdoen
<1>3. IsPhy(q) /\ Quiet(q) /\ q.regs = p.regs /\ Line(p) = 1
  BY <1>1, <1>2, QuietPhy
<1>4. IsMaster(n)
  BY <1>1, <1>3, MasterStep
<1>5. n.state = "mdcalign_s"
  BY <1>1 DEF MdioNext, next_state_mdio
<1> QED BY <1>3, <1>4, <1>5 DEF Active

\* An edge in a frame.
LEMMA ActiveEdge ==
    ASSUME NEW m, IsMaster(m), NEW p, IsPhy(p), NEW op, IsOperation(op),
           NEW old \in PhyRegFiles, Active(m, p, op, old),
           NEW in, in.cop = op.cop, in.dev = op.dev, in.data = op.data,
           NEW n, NEW q, <<n, q>> = MdioEdge(<<m, p>>, in)
    PROVE  /\ IsMaster(n) /\ IsPhy(q)
           /\ Active(n, q, op, old) \/ Finished(n, q, op, old)
<1>1. n = MdioNext(m, in, Line(p)) /\ q = PhyNext(p, m)
  BY DEF MdioEdge
<1>2. m.mdc \in BOOLEAN /\ m.mdc_r \in BOOLEAN /\ (n.mdc_r <=> m.mdc)
  BY <1>1 DEF IsMaster, MdioNext
<1>3. CASE m.state = "mdcalign_s" /\ Quiet(p) /\ p.regs = old
  <2>1. ~mdoen(m)
    BY <1>3 DEF mdoen
  <2>2. IsPhy(q) /\ Quiet(q) /\ q.regs = old /\ Line(p) = 1
    BY <1>1, <1>3, <2>1, QuietPhy
  <2>3. IsMaster(n)
    BY <1>1, <2>2, MasterStep
  <2>4. CASE ~startofbit(m)
    <3>1. n.state = "mdcalign_s"
      BY <1>1, <1>3, <2>4 DEF MdioNext, next_state_mdio
    <3> QED BY <2>2, <2>3, <3>1 DEF Active
  <2>5. CASE startofbit(m)
    <3>1. n.state = "send_s" /\ n.bitscntr = 0 /\ ~n.mdc_r
          /\ n.frame = [cop |-> op.cop, dev |-> op.dev, data |-> op.data]
      BY <1>1, <1>2, <1>3, <2>5
         DEF MdioNext, next_state_mdio, BitsNext, startofbit
    <3>2. Taken(n, q, op, old, 0)
      BY <2>2, <3>1, FrameParts DEF Taken, Quiet
    <3>3. Sends(n, q, op, old)
      BY <3>1, <3>2, FrameParts DEF Sends, TakenBits
    <3> QED BY <2>2, <2>3, <3>3 DEF Active
  <2> QED BY <2>4, <2>5
<1>4. CASE Sends(m, p, op, old)
  <2> DEFINE c == m.bitscntr
  <2>1. /\ c \in 0 .. FRAME - 1 /\ c \in Nat /\ FRAME \in Nat \ {0}
        /\ m.state = IF Reads(op.cop) /\ c >= PREAMBLE + HEAD
                     THEN "rcv_s" ELSE "send_s"
        /\ Taken(m, p, op, old, TakenBits(m))
    BY <1>4, FrameParts DEF Sends
  <2> HIDE DEF c
  <2>2. CASE midofbit(m)
    <3>1. ~startofbit(m) /\ ~m.mdc_r /\ m.mdc
      BY <2>2 DEF startofbit, midofbit
    <3>2. /\ n.state = m.state /\ n.bitscntr = c /\ n.frame = m.frame
          /\ n.rcvdata = IF m.state = "rcv_s" THEN Shifted(m.rcvdata, Line(p))
                                              ELSE m.rcvdata
      BY <1>1, <2>1, <2>2, <3>1 DEF MdioNext, next_state_mdio, BitsNext, c
    <3>3. q = PhyTakes(p, m)
      BY <1>1, <2>2 DEF PhyNext
    <3>4. Taken(n, q, op, old, c + 1) /\ IsPhy(q) /\ Line(p) \in 0 .. 1
      BY <1>4, <2>2, <3>2, <3>3, TakesMore DEF c
    <3>5. IsMaster(n)
      BY <1>1, <3>4, MasterStep
    <3>6. Sends(n, q, op, old)
      BY <1>2, <2>1, <3>1, <3>2, <3>4 DEF Sends, TakenBits
    <3> QED BY <3>4, <3>5, <3>6 DEF Active
  <2>3. ASSUME ~midofbit(m)
        PROVE  /\ q = p /\ n.rcvdata = m.rcvdata /\ n.frame = m.frame
               /\ IsMaster(n)
               /\ \A t : Taken(n, q, op, old, t) <=> Taken(m, p, op, old, t)
    <3>1. q = p /\ n.rcvdata = m.rcvdata /\ n.frame = m.frame
      BY <1>1, <2>1, <2>3 DEF PhyNext, MdioNext
    <3>2. IsMaster(n)
      BY <1>1, <3>1 DEF IsMaster, MdioNext
    <3> QED BY <3>1, <3>2 DEF Taken
  <2>4. CASE ~midofbit(m) /\ ~startofbit(m)
    <3>1. /\ n.state = m.state /\ n.bitscntr = c /\ (n.mdc_r <=> m.mdc_r)
      BY <1>1, <1>2, <2>1, <2>4
         DEF MdioNext, next_state_mdio, BitsNext, startofbit, midofbit, c
    <3>2. TakenBits(n) = TakenBits(m)
      BY <1>2, <3>1 DEF TakenBits, c
    <3>3. Taken(n, q, op, old, TakenBits(n))
      BY <2>1, <2>3, <2>4, <3>2
    <3>4. Sends(n, q, op, old)
      BY <2>1, <3>1, <3>3 DEF Sends
    <3> QED BY <2>3, <2>4, <3>4 DEF Active
  <2>5. CASE startofbit(m) /\ c # FRAME - 1
    <3>1. ~midofbit(m) /\ m.mdc_r /\ ~m.mdc
      BY <2>5 DEF startofbit, midofbit
    <3>2. c + 1 \in 0 .. FRAME - 1 /\ (c + 1) % FRAME = c + 1
      BY <2>1, <2>5
    <3>3. n.bitscntr = c + 1 /\ ~n.mdc_r
      BY <1>1, <1>2, <2>1, <2>5, <3>1, <3>2 DEF MdioNext, BitsNext, c
    <3>4. n.state = IF Reads(op.cop) /\ c + 1 >= PREAMBLE + HEAD
                    THEN "rcv_s" ELSE "send_s"
      <4>1. n.state = next_state_mdio(m, in)
        BY <1>1 DEF MdioNext
      <4>2. m.state = "rcv_s" => n.state = "rcv_s"
        BY <2>5, <4>1 DEF next_state_mdio, c
      <4>3. m.state = "send_s" =>
                n.state = IF Reads(op.cop) /\ c = PREAMBLE + HEAD - 1
                          THEN "rcv_s" ELSE "send_s"
        BY <2>5, <4>1 DEF next_state_mdio, c
      <4>4. /\ c >= PREAMBLE + HEAD => c + 1 >= PREAMBLE + HEAD
            /\ ~(c >= PREAMBLE + HEAD) =>
                   (c + 1 >= PREAMBLE + HEAD <=> c = PREAMBLE + HEAD - 1)
        BY <2>1, FrameParts
      <4> QED BY <2>1, <4>2, <4>3, <4>4
    <3>5. Taken(n, q, op, old, TakenBits(n))
      <4>1. TakenBits(n) = c + 1 /\ TakenBits(m) = c + 1
        BY <3>1, <3>3 DEF TakenBits, c
      <4> QED BY <2>1, <2>3, <3>1, <4>1
    <3>6. Sends(n, q, op, old)
      BY <3>2, <3>3, <3>4, <3>5 DEF Sends
    <3> QED BY <2>3, <3>1, <3>6 DEF Active
  <2>6. CASE startofbit(m) /\ c = FRAME - 1
    <3>1. ~midofbit(m) /\ m.mdc_r /\ ~m.mdc
      BY <2>6 DEF startofbit, midofbit
    <3>2. Taken(n, q, op, old, FRAME)
      <4>1. TakenBits(m) = FRAME
        BY <2>1, <2>6, <3>1 DEF TakenBits, c
      <4> QED BY <2>1, <2>3, <3>1, <4>1
    <3>3. Quiet(q) /\ q.regs = After(op, old)
      BY <3>2, FrameParts DEF Taken, Quiet
    <3>4. n.state = "idle_s"
      <4>1. n.state = next_state_mdio(m, in)
        BY <1>1 DEF MdioNext
      <4>2. c >= PREAMBLE + HEAD
        BY <2>1, <2>6, FrameParts
      <4> QED BY <2>1, <2>6, <4>1, <4>2 DEF next_state_mdio, c
    <3>5. Reads(op.cop) => n.rcvdata % 2^DATA = old[op.dev]
      <4>1. FRAME >= BeforeData /\ FRAME - BeforeData = DATA
        BY FrameParts
      <4>2. Reads(op.cop) => Holds(n.rcvdata, DATA, old[op.dev])
        BY <3>2, <4>1 DEF Taken
      <4>3. n.rcvdata \in Nat /\ old[op.dev] \in 0 .. 2^DATA - 1
        BY <2>3, <3>1 DEF IsMaster, IsOperation, PhyRegFiles
      <4> QED BY <4>2, <4>3, HoldsAll
    <3> QED BY <2>3, <3>1, <3>3, <3>4, <3>5 DEF Finished
  <2> QED BY <2>2, <2>3, <2>4, <2>5, <2>6
<1> QED BY <1>3, <1>4 DEF Active

\* In a frame the master is busy, and never drives the line with the PHY.
LEMMA ActiveLine ==
    ASSUME NEW m, IsMaster(m), NEW p, NEW op, IsOperation(op), NEW old,
           Active(m, p, op, old)
    PROVE  busy(m) /\ ~(mdoen(m) /\ Drives(p))
<1>1. CASE m.state = "mdcalign_s" /\ Quiet(p)
  BY <1>1 DEF busy, Quiet, Drives
<1>2. CASE Sends(m, p, op, old)
  <2>1. busy(m)
    BY <1>2 DEF Sends, busy
  <2>2. ASSUME mdoen(m) PROVE p.out = 2
    <3> DEFINE t == TakenBits(m)
    <3>1. Taken(m, p, op, old, t) /\ m.bitscntr \in 0 .. FRAME - 1
          /\ ~(Reads(op.cop) /\ m.bitscntr >= PREAMBLE + HEAD)
      BY <1>2, <2>2 DEF Sends, mdoen
    <3>2. t \in Nat /\ t <= FRAME /\ (Reads(op.cop) => t <= PREAMBLE + HEAD)
      BY <3>1, FrameParts DEF TakenBits, IsMaster
    <3>3. op.cop = 1 \/ Reads(op.cop)
      BY DEF IsOperation, Reads
    <3> HIDE DEF t
    <3>4. CASE t <= PREAMBLE
      BY <3>1, <3>4 DEF Taken
    <3>5. CASE t > PREAMBLE /\ t < FRAME
      <4>1. p.cop = op.cop /\ p.out = Answer(p, t)
        BY <3>1, <3>5 DEF Taken
      <4>2. t <= PREAMBLE + HEAD \/ (p.cop = 1 /\ t <= FRAME)
        BY <3>2, <3>3, <4>1
      <4> QED BY <3>2, <4>1, <4>2, NoAnswer
    <3>6. CASE t = FRAME
      BY <3>1, <3>6 DEF Taken
    <3> QED BY <3>2, <3>4, <3>5, <3>6, FrameParts
  <2> QED BY <2>1, <2>2 DEF Drives
<1> QED BY <1>1, <1>2 DEF Active

-----------------------------------------------------------------------------
(* The registers of the MDIO master around an access.  MDIO_CR, the device  *)
(* and the data are the control registers 0 to 2 of their file.             *)

MdioRegs == {MDIO_CR, MDIODEVAD_CR, MDIODATALO_CR}

\* What mdio.v sees of a register on the first edge of a step, and on the
\* second, and what was last stored for it.
Shown(i) == ctrl_regs[PHY][i]
Coming(i) == CtrlRegsNext(csr)[PHY][i]
Kept(i) == memory[Control(i)]

WritesTo(i) == Writes(prog) /\ Named = Control(i)

LEMMA MdioReg ==
    ASSUME NEW i \in MdioRegs
    PROVE  /\ PHY \in Files /\ i \in 0 .. CTRL_CNT[PHY] - 1
           /\ Control(i) \in Addresses
  BY ThreeFiles, IndexIsAddress
     DEF MdioRegs, MDIO_CR, MDIODEVAD_CR, MDIODATALO_CR, PHY, Control

LEMMA RegNow ==
    MemInv => \A i \in MdioRegs :
        /\ Shown(i) # Kept(i) => prog.pc = "MUNMAP" /\ WritesTo(i)
        /\ Coming(i) # Kept(i) => Done /\ WritesTo(i) /\ Coming(i) = prog.args[2]
<1> SUFFICES ASSUME MemInv, NEW i \in MdioRegs
             PROVE  /\ Shown(i) # Kept(i) => prog.pc = "MUNMAP" /\ WritesTo(i)
                    /\ Coming(i) # Kept(i) =>
                           Done /\ WritesTo(i) /\ Coming(i) = prog.args[2]
  OBVIOUS
<1>1. /\ PHY \in Files /\ i \in 0 .. CTRL_CNT[PHY] - 1
      /\ Control(i) = Index(PHY, i)
  BY MdioReg DEF Control
<1>2. Shown(i) # Kept(i) => prog.pc = "MUNMAP" /\ WritesTo(i)
  BY <1>1 DEF MemInv, LateWrite, Shown, Kept, WritesTo
<1>3. ASSUME Coming(i) # Kept(i)
      PROVE  Done /\ WritesTo(i) /\ Coming(i) = prog.args[2]
  <2>1. prog.pc = "bus"
    BY <1>1, <1>3 DEF MemInv, Places, Match, Coming, Kept
  <2>2. Shown(i) = Kept(i)
    BY <1>2, <2>1
  <2>3. csr.wr_en
    BY <1>3, <2>2 DEF Coming, Shown, CtrlRegsNext
  <2>4. Writes(prog) /\ InWrite /\ csr = HalfWrite(0) /\ BusArgs(prog.args)
    BY <2>1, <2>3 DEF MemInv, Places, Reading, ProgType
  <2>5. Coming(i) = IF Pends(csr) /\ csr.addr = Control(i)
                    THEN csr.wr_data ELSE Shown(i)
    BY <1>1, WriteOneNow DEF MemInv, BridgeType, Coming, Shown
  <2>6. reg_idx(prog) % 2 = 0 /\ HalfAddr(0) = Control(i)
        /\ Coming(i) = prog.args[2]
    BY <1>3, <2>2, <2>4, <2>5 DEF HalfWrite, Pends
  <2>7. Named = Control(i)
    BY <2>4, <2>6, NamedHalf
  <2>8. Done
    BY <2>1, <2>4 DEF Done, wide_waitrequest, next_state, InWrite, At,
                      WIDTH_RATIO
  <2> QED BY <2>4, <2>6, <2>7, <2>8 DEF WritesTo
<1> QED BY <1>2, <1>3

LEMMA RegThen ==
    (MemInv => \A i \in MdioRegs :
        /\ Shown(i) # Kept(i) => prog.pc = "MUNMAP" /\ WritesTo(i)
        /\ Coming(i) # Kept(i) => Done /\ WritesTo(i) /\ Coming(i) = prog.args[2])'
  BY RegNow, PTL

\* A step stores in a register, or leaves it.
LEMMA RegStep ==
    ASSUME MemInv, MemInv', Hardware, Program \/ NoCall, NEW i \in MdioRegs
    PROVE  /\ Shown(i)' = Coming(i)
           /\ Coming(i)' # Kept(i)' => WritesTo(i)' /\ Done'
                                       /\ Coming(i)' = prog'.args[2]
           /\ \/ /\ Done /\ WritesTo(i) /\ Kept(i)' = prog.args[2]
                 /\ Coming(i)' = prog.args[2]
                 /\ Coming(i) \in {Kept(i), prog.args[2]}
              \/ ~(Done /\ WritesTo(i)) /\ Kept(i)' = Kept(i) /\ Coming(i) = Kept(i)
<1>1. Shown(i)' = Coming(i)
  BY DEF Hardware, RegFilesEdge, Shown, Coming
<1>2. Coming(i)' # Kept(i)' => Done' /\ WritesTo(i)' /\ Coming(i)' = prog'.args[2]
  BY RegThen DEF Coming, Kept, WritesTo
<1>3. Coming(i) # Kept(i) => Done /\ WritesTo(i) /\ Coming(i) = prog.args[2]
  BY RegNow
<1>4. memory \in [Addresses -> Words] /\ Control(i) \in Addresses
  BY MdioReg DEF MemInv
<1>5. CASE Done /\ WritesTo(i)
  <2>1. Answer16
    BY <1>5 DEF Program, NoCall, Done
  <2>2. memory' = [memory EXCEPT ![Control(i)] = prog.args[2]]
    BY <1>5, <2>1 DEF Answer16, WritesTo
  <2>3. Kept(i)' = prog.args[2]
    BY <1>4, <2>2 DEF Kept, Control, Index
  <2>4. ~Done'
    <3>1. prog' = [prog EXCEPT !.pc = "MUNMAP", !.data = 0]
      BY <1>5, <2>1 DEF Answer16, Answered, WritesTo
    <3>2. prog'.pc = "MUNMAP"
      BY <3>1 DEF MemInv, ProgType
    <3> QED BY <3>2 DEF Done
  <2> QED BY <1>1, <1>2, <1>3, <1>5, <2>3, <2>4
<1>6. CASE ~(Done /\ WritesTo(i))
  <2>1. Kept(i)' = Kept(i)
    <3>1. CASE prog.pc # "bus"
      <4>1. memory' = memory
        BY <3>1, ProgStep
      <4> QED BY <4>1 DEF Kept, Control, Index
    <3>2. CASE prog.pc = "bus" /\ ~Done
      <4>1. memory' = memory
        BY <3>2 DEF Program, NoCall, SystemCall, CallNext, CallOther, Return,
                    BeginOperation
      <4> QED BY <4>1 DEF Kept, Control, Index
    <3>3. CASE Done /\ ~WritesTo(i)
      <4>1. Answer16
        BY <3>3 DEF Program, NoCall, Done
      <4>2. memory'[Control(i)] = memory[Control(i)]
        BY <1>4, <3>3, <4>1 DEF Answer16, WritesTo
      <4> QED BY <4>2 DEF Kept, Control, Index
    <3> QED BY <1>6, <3>1, <3>2, <3>3
  <2> QED BY <1>1, <1>2, <1>3, <1>6, <2>1
<1> QED BY <1>5, <1>6

-----------------------------------------------------------------------------
(* The operation under way.  Its stage is how many of its calls are left.   *)

\* The calls for something else do not write the registers that an operation
\* is told by.
OthersElsewhere ==
    \A args \in OTHER_CALLS, i \in MdioRegs :
        Len(args) = 2 => args[1] % CSR_WORDS # Control(i)

Stage == Len(user.steps)
InOp == user.op \in OPERATIONS
Between == ~InOp \/ Stage \in {0, 5, 6}

Run(v) == Bit(v, 1) = 1
Started == Cr(1, user.op.cop)
Ended == Cr(0, user.op.cop)

\* What MDIO_CR may hold.
CrOk(v) ==
    /\ Between => ~Run(v)
    /\ InOp /\ Stage = 4 => ~Run(v) \/ v = Started
    /\ InOp /\ Stage \in {2, 3} => v = Started
    /\ InOp /\ Stage = 1 => v = Started \/ v = Ended

StepsOk ==
    \/ /\ user.op = NoOperation
       /\ user.steps = << <<Control(MDIODIV_CR), DIVIDER>> >> \/ user.steps = <<>>
    \/ /\ InOp /\ Stage \in 0 .. 6
       /\ \A i \in 1 .. Stage : user.steps[i] = Steps(user.op)[6 - Stage + i]

\* What reg16 is called with.
CallOk ==
    /\ prog.pc = "idle" => ~user.other
    /\ prog.pc # "idle" /\ user.other => prog.args \in OTHER_CALLS
    /\ prog.pc # "idle" /\ ~user.other =>
           user.steps # <<>> /\ prog.args = Head(user.steps)

\* The registers of the MDIO master have what the calls made so far stored.
RegsOk ==
    /\ InOp /\ Stage \in 0 .. 5 => Kept(MDIODEVAD_CR) = user.op.dev
    /\ InOp /\ Stage \in 0 .. 4 => Kept(MDIODATALO_CR) = user.op.data
    /\ CrOk(Kept(MDIO_CR)) /\ CrOk(Shown(MDIO_CR)) /\ CrOk(Coming(MDIO_CR))

\* How run goes through the synchroniser of mdio.v: it rises once in an
\* operation, and falls once.
PipeOk ==
    /\ mdio.run_d1 \in BOOLEAN /\ mdio.run_d2 \in BOOLEAN
    /\ mdio.run_d3 \in BOOLEAN
    /\ mdio.run_d1 <=> Run(Shown(MDIO_CR))
    /\ mdio.run_d2 <=> mdio.run_d3
    /\ Between => ~mdio.run_d2
    /\ InOp /\ Stage = 4 => /\ mdio.run_d2 => Run(Shown(MDIO_CR))
                            /\ Run(Shown(MDIO_CR)) => Run(Coming(MDIO_CR))
    /\ InOp /\ Stage \in {2, 3} => mdio.run_d2
    /\ InOp /\ Stage = 1 => /\ Run(Coming(MDIO_CR)) => Run(Shown(MDIO_CR))
                            /\ Run(Shown(MDIO_CR)) => mdio.run_d2

\* Where master and PHY are.
FrameOk ==
    /\ ~InOp \/ Stage \in {5, 6} \/ (Stage = 4 /\ ~mdio.run_d2) =>
           mdio.state = "idle_s" /\ Quiet(phy) /\ phy.regs = user.regs
    /\ InOp /\ (Stage = 3 \/ (Stage = 4 /\ mdio.run_d2)) =>
           \/ Active(mdio, phy, user.op, user.regs)
           \/ Finished(mdio, phy, user.op, user.regs)
    /\ InOp /\ Stage \in 0 .. 2 => Finished(mdio, phy, user.op, user.regs)

\* What MDIO_SR may be read as: that it shows no busy says that the frame has
\* come to its end.
StatusSeen == {v \in 0 .. 3 :
                   (v % 2) = 0 => Finished(mdio, phy, user.op, user.regs)}

ReadOk ==
    /\ InOp /\ Stage = 3 /\ ~user.other =>
           /\ prog.pc = "bus" => Carried(StatusSeen)
           /\ Served => prog.data \in StatusSeen
    /\ InOp /\ Stage = 2 /\ ~user.other /\ Reads(user.op.cop) =>
           /\ prog.pc = "bus" => Carried({user.regs[user.op.dev]})
           /\ Served => prog.data = user.regs[user.op.dev]
    /\ InOp /\ Stage \in 0 .. 1 /\ Reads(user.op.cop) =>
           user.result = user.regs[user.op.dev]

OpInv ==
    /\ IsMaster(mdio) /\ IsPhy(phy) /\ user.regs \in PhyRegFiles
    /\ StepsOk /\ CallOk /\ RegsOk /\ PipeOk /\ FrameOk /\ ReadOk

LEMMA MdioCr ==
    ASSUME NEW cop \in 1 .. 2
    PROVE  /\ Run(Cr(1, cop)) /\ ~Run(Cr(0, cop)) /\ Cr(1, cop) \div 4 = cop
<1>1. cop = 1 \/ cop = 2
  OBVIOUS
<1>2. 2^1 = 2
  OBVIOUS
<1>3. Run(2 * 1 + 4 * 1) /\ Run(2 * 1 + 4 * 2) /\ ~Run(2 * 0 + 4 * 1)
      /\ ~Run(2 * 0 + 4 * 2)
  BY <1>2 DEF Run, Bit
<1>4. (2 * 1 + 4 * 1) \div 4 = 1 /\ (2 * 1 + 4 * 2) \div 4 = 2
  OBVIOUS
<1> QED BY <1>1, <1>3, <1>4 DEF Cr

LEMMA OpFacts ==
    ASSUME InOp
    PROVE  /\ IsOperation(user.op) /\ Run(Started) /\ ~Run(Ended)
           /\ Started \div 4 = user.op.cop /\ user.op # NoOperation
<1>1. IsOperation(user.op)
  BY StepsAreCalls DEF InOp, IsOperation
<1>2. user.op.cop \in 1 .. 2
  BY <1>1 DEF IsOperation
<1> QED BY <1>1, <1>2, MdioCr DEF Started, Ended, NoOperation

\* Both edges of the clock of mdio.v in a step.
LEMMA TwoEdges ==
    ASSUME Hardware
    PROVE  \E m, p :
               /\ <<m, p>> = MdioEdge(<<mdio, phy>>, In(ctrl_regs))
               /\ <<mdio', phy'>> = MdioEdge(<<m, p>>, In(CtrlRegsNext(csr)))
               /\ m.run_d2 = mdio.run_d1 /\ m.run_d3 = mdio.run_d2
               /\ mdio'.run_d1 = Run(Coming(MDIO_CR))
               /\ mdio'.run_d2 = Run(Shown(MDIO_CR))
               /\ mdio'.run_d3 = mdio.run_d1
<1> DEFINE m == MdioNext(mdio, In(ctrl_regs), Line(phy))
           p == PhyNext(phy, mdio)
<1>1. <<m, p>> = MdioEdge(<<mdio, phy>>, In(ctrl_regs))
  BY DEF MdioEdge
<1>2. /\ m.run_d1 = In(ctrl_regs).run /\ m.run_d2 = mdio.run_d1
      /\ m.run_d3 = mdio.run_d2
  BY DEF MdioNext
<1>3. In(ctrl_regs).run = Run(Shown(MDIO_CR))
      /\ In(CtrlRegsNext(csr)).run = Run(Coming(MDIO_CR))
  BY DEF In, Run, Shown, Coming
<1> HIDE DEF m, p
<1>4. LET pair == MdioEdge(<<m, p>>, In(CtrlRegsNext(csr)))
      IN  mdio' = pair[1] /\ phy' = pair[2]
  BY <1>1 DEF Hardware
<1>5. /\ mdio' = MdioNext(m, In(CtrlRegsNext(csr)), Line(p))
      /\ phy' = PhyNext(p, m)
  BY <1>4 DEF MdioEdge
<1>6. <<mdio', phy'>> = MdioEdge(<<m, p>>, In(CtrlRegsNext(csr)))
  BY <1>5 DEF MdioEdge
<1>7. /\ mdio'.run_d1 = In(CtrlRegsNext(csr)).run /\ mdio'.run_d2 = m.run_d1
      /\ mdio'.run_d3 = m.run_d2
  BY <1>5 DEF MdioNext
<1> QED BY <1>1, <1>2, <1>3, <1>6, <1>7

LEMMA StepsInOrder ==
    \A op : /\ Steps(op)[1] = <<Control(MDIODEVAD_CR), op.dev>>
            /\ Steps(op)[2] = <<Control(MDIODATALO_CR), op.data>>
            /\ Steps(op)[3] = <<Control(MDIO_CR), Cr(1, op.cop)>>
            /\ Steps(op)[4] = <<StatusOf(MDIO_SR)>>
            /\ Steps(op)[5] = <<StatusOf(MDIODATALO_SR)>>
            /\ Steps(op)[6] = <<Control(MDIO_CR), Cr(0, op.cop)>>
  BY DEF Steps

\* The call that is made at a stage.
LEMMA CurrentCall ==
    ASSUME UserType, StepsOk, CallOk, prog.pc # "idle", ~user.other, InOp
    PROVE  /\ Stage \in 1 .. 6
           /\ Stage = 6 => prog.args = <<Control(MDIODEVAD_CR), user.op.dev>>
           /\ Stage = 5 => prog.args = <<Control(MDIODATALO_CR), user.op.data>>
           /\ Stage = 4 => prog.args = <<Control(MDIO_CR), Started>>
           /\ Stage = 3 => prog.args = <<StatusOf(MDIO_SR)>>
           /\ Stage = 2 => prog.args = <<StatusOf(MDIODATALO_SR)>>
           /\ Stage = 1 => prog.args = <<Control(MDIO_CR), Ended>>
<1>1. /\ Stage \in 0 .. 6
      /\ \A i \in 1 .. Stage : user.steps[i] = Steps(user.op)[6 - Stage + i]
  BY OpFacts DEF StepsOk
<1>2. user.steps # <<>> /\ prog.args = Head(user.steps)
  BY DEF CallOk
<1>3. user.steps \in Seq(Seq(Int))
  BY DEF UserType
<1>4. Stage # 0 /\ prog.args = user.steps[1]
  BY <1>2, <1>3 DEF Stage
<1>5. Stage \in 1 .. 6 /\ 1 \in 1 .. Stage
  BY <1>1, <1>4
<1>6. prog.args = Steps(user.op)[6 - Stage + 1]
  BY <1>1, <1>4, <1>5
<1> HIDE DEF Stage
<1>7. /\ Stage = 6 => 6 - Stage + 1 = 1
      /\ Stage = 5 => 6 - Stage + 1 = 2
      /\ Stage = 4 => 6 - Stage + 1 = 3
      /\ Stage = 3 => 6 - Stage + 1 = 4
      /\ Stage = 2 => 6 - Stage + 1 = 5
      /\ Stage = 1 => 6 - Stage + 1 = 6
  BY <1>5
<1> QED BY <1>5, <1>6, <1>7, StepsInOrder DEF Started, Ended

LEMMA Distinct ==
    /\ \A i, j \in {MDIO_CR, MDIODEVAD_CR, MDIODATALO_CR, MDIODIV_CR} :
           Control(i) = Control(j) => i = j
    /\ \A i \in {MDIO_CR, MDIODEVAD_CR, MDIODATALO_CR, MDIODIV_CR} :
           Control(i) % CSR_WORDS = Control(i)
    /\ \A r \in {MDIO_SR, MDIODATALO_SR} :
           StatusOf(r) % CSR_WORDS = StatusOf(r) /\ StatusOf(r) \in Addresses
    /\ StatusOf(MDIO_SR) # StatusOf(MDIODATALO_SR)
    /\ MDIO_CR # MDIODEVAD_CR /\ MDIO_CR # MDIODATALO_CR
    /\ MDIODEVAD_CR # MDIODATALO_CR
    /\ \A i \in MdioRegs : i # MDIODIV_CR
<1>1. \A i \in {MDIO_CR, MDIODEVAD_CR, MDIODATALO_CR, MDIODIV_CR} :
          Control(i) \in 0 .. CSR_WORDS - 1
  BY ThreeFiles DEF Control, Index, PHY, MDIO_CR, MDIODEVAD_CR, MDIODATALO_CR,
                    MDIODIV_CR
<1>2. \A r \in {MDIO_SR, MDIODATALO_SR} : StatusOf(r) \in 0 .. CSR_WORDS - 1
  BY ThreeFiles DEF StatusOf, Index, PHY, MDIO_SR, MDIODATALO_SR
<1>3. \A x \in 0 .. CSR_WORDS - 1 : x % CSR_WORDS = x
  BY Limits
<1>4. \A i, j \in {MDIO_CR, MDIODEVAD_CR, MDIODATALO_CR, MDIODIV_CR} :
           Control(i) = Control(j) => i = j
  BY ThreeFiles DEF Control, Index, PHY, MDIO_CR, MDIODEVAD_CR, MDIODATALO_CR,
                    MDIODIV_CR
<1>5. StatusOf(MDIO_SR) # StatusOf(MDIODATALO_SR)
  BY ThreeFiles DEF StatusOf, Index, PHY, MDIO_SR, MDIODATALO_SR
<1> QED
  BY <1>1, <1>2, <1>3, <1>4, <1>5
     DEF MDIO_CR, MDIODEVAD_CR, MDIODATALO_CR, MDIODIV_CR, MdioRegs, Addresses

\* Only the calls of the operation store in its registers, each at its stage.
LEMMA WhoWrites ==
    UserType /\ StepsOk /\ CallOk /\ prog.pc # "idle" /\ OthersElsewhere =>
        \A i \in MdioRegs : WritesTo(i) =>
            /\ InOp
            /\ \/ Stage = 6 /\ i = MDIODEVAD_CR /\ prog.args[2] = user.op.dev
               \/ Stage = 5 /\ i = MDIODATALO_CR /\ prog.args[2] = user.op.data
               \/ Stage = 4 /\ i = MDIO_CR /\ prog.args[2] = Started
               \/ Stage = 1 /\ i = MDIO_CR /\ prog.args[2] = Ended
<1> SUFFICES ASSUME UserType, StepsOk, CallOk, prog.pc # "idle",
                    OthersElsewhere, NEW i \in MdioRegs, WritesTo(i)
             PROVE  /\ InOp
                    /\ \/ Stage = 6 /\ i = MDIODEVAD_CR
                          /\ prog.args[2] = user.op.dev
                       \/ Stage = 5 /\ i = MDIODATALO_CR
                          /\ prog.args[2] = user.op.data
                       \/ Stage = 4 /\ i = MDIO_CR /\ prog.args[2] = Started
                       \/ Stage = 1 /\ i = MDIO_CR /\ prog.args[2] = Ended
  OBVIOUS
<1>1. Len(prog.args) = 2 /\ prog.args[1] % CSR_WORDS = Control(i)
  BY DEF WritesTo, Writes, Named, reg_idx
<1>2. ~user.other
  BY <1>1 DEF CallOk, OthersElsewhere
<1>3. i \in {MDIO_CR, MDIODEVAD_CR, MDIODATALO_CR, MDIODIV_CR}
  BY DEF MdioRegs
<1>4. InOp
  <2>1. SUFFICES ASSUME user.op = NoOperation PROVE FALSE
    BY DEF StepsOk
  <2>2. ~InOp
    BY <2>1, OpFacts
  <2>3. user.steps = << <<Control(MDIODIV_CR), DIVIDER>> >>
    BY <1>2, <2>2 DEF StepsOk, CallOk
  <2>4. prog.args = <<Control(MDIODIV_CR), DIVIDER>>
    BY <1>2, <2>3 DEF CallOk
  <2>5. prog.args[1] = Control(MDIODIV_CR)
    BY <2>4
  <2> QED BY <1>1, <1>3, <2>5, Distinct
<1>5. /\ Stage \in 1 .. 6
      /\ Stage = 6 => prog.args = <<Control(MDIODEVAD_CR), user.op.dev>>
      /\ Stage = 5 => prog.args = <<Control(MDIODATALO_CR), user.op.data>>
      /\ Stage = 4 => prog.args = <<Control(MDIO_CR), Started>>
      /\ Stage = 3 => prog.args = <<StatusOf(MDIO_SR)>>
      /\ Stage = 2 => prog.args = <<StatusOf(MDIODATALO_SR)>>
      /\ Stage = 1 => prog.args = <<Control(MDIO_CR), Ended>>
  BY <1>2, <1>4, CurrentCall
<1> HIDE DEF Stage
<1>6. Stage # 3 /\ Stage # 2
  <2>1. \A x : Len(<<x>>) = 1
    OBVIOUS
  <2> QED BY <1>1, <1>5, <2>1
<1>7. \A j \in {MDIO_CR, MDIODEVAD_CR, MDIODATALO_CR} : \A x :
          prog.args = <<Control(j), x>> => i = j /\ prog.args[2] = x
  BY <1>1, <1>3, Distinct
<1> QED BY <1>4, <1>5, <1>6, <1>7

LEMMA WhoWritesThen ==
    (UserType /\ StepsOk /\ CallOk /\ prog.pc # "idle" /\ OthersElsewhere =>
        \A i \in MdioRegs : WritesTo(i) =>
            /\ InOp
            /\ \/ Stage = 6 /\ i = MDIODEVAD_CR /\ prog.args[2] = user.op.dev
               \/ Stage = 5 /\ i = MDIODATALO_CR /\ prog.args[2] = user.op.data
               \/ Stage = 4 /\ i = MDIO_CR /\ prog.args[2] = Started
               \/ Stage = 1 /\ i = MDIO_CR /\ prog.args[2] = Ended)'
  BY WhoWrites, PTL

\* What mdio.v is told while run is up.
LEMMA ToldOp ==
    ASSUME MemInv, OpInv, OthersElsewhere, InOp, Stage \in {3, 4},
           Run(Shown(MDIO_CR))
    PROVE  /\ In(ctrl_regs).cop = user.op.cop
           /\ In(ctrl_regs).dev = user.op.dev
           /\ In(ctrl_regs).data = user.op.data
           /\ In(CtrlRegsNext(csr)).cop = user.op.cop
           /\ In(CtrlRegsNext(csr)).dev = user.op.dev
           /\ In(CtrlRegsNext(csr)).data = user.op.data
<1>1. Shown(MDIO_CR) = Started /\ Coming(MDIO_CR) = Started
  BY DEF OpInv, RegsOk, PipeOk, CrOk
<1>2. \A i \in {MDIODEVAD_CR, MDIODATALO_CR} :
          Shown(i) = Kept(i) /\ Coming(i) = Kept(i)
  <2> SUFFICES ASSUME NEW i \in {MDIODEVAD_CR, MDIODATALO_CR}
               PROVE  Shown(i) = Kept(i) /\ Coming(i) = Kept(i)
    OBVIOUS
  <2>1. i \in MdioRegs /\ i # MDIO_CR
    BY Distinct DEF MdioRegs
  <2>2. WritesTo(i) => prog.pc = "idle"
    BY <2>1, WhoWrites, Distinct DEF MemInv, OpInv
  <2> QED BY <2>1, <2>2, RegNow DEF Done
<1>3. Kept(MDIODEVAD_CR) = user.op.dev /\ Kept(MDIODATALO_CR) = user.op.data
  BY DEF OpInv, RegsOk
<1> QED BY <1>1, <1>2, <1>3, OpFacts DEF In, Shown, Coming

\* The master begins a frame when run rises, and at no other time.
LEMMA FrameStep ==
    ASSUME MemInv, OpInv, OthersElsewhere, Hardware
    PROVE  /\ IsMaster(mdio)' /\ IsPhy(phy)'
           /\ Between \/ (InOp /\ Stage = 4 /\ ~Run(Shown(MDIO_CR))) =>
                  /\ mdio'.state = "idle_s" /\ Quiet(phy')
                  /\ phy'.regs = phy.regs
           /\ InOp /\ (Stage = 3 \/ (Stage = 4 /\ Run(Shown(MDIO_CR)))) =>
                  \/ Active(mdio', phy', user.op, user.regs)
                  \/ Finished(mdio', phy', user.op, user.regs)
           /\ InOp /\ Stage \in 0 .. 3
              /\ Finished(mdio, phy, user.op, user.regs) =>
                  Finished(mdio', phy', user.op, user.regs)
<1>1. PICK m, p :
          /\ <<m, p>> = MdioEdge(<<mdio, phy>>, In(ctrl_regs))
          /\ <<mdio', phy'>> = MdioEdge(<<m, p>>, In(CtrlRegsNext(csr)))
          /\ m.run_d2 = mdio.run_d1 /\ m.run_d3 = mdio.run_d2
  BY TwoEdges
<1>2. /\ IsMaster(mdio) /\ IsPhy(phy) /\ user.regs \in PhyRegFiles
      /\ mdio.run_d1 <=> Run(Shown(MDIO_CR))
      /\ mdio.run_d2 <=> mdio.run_d3
      /\ StepsOk /\ PipeOk /\ FrameOk /\ RegsOk
      /\ mdio.run_d1 \in BOOLEAN /\ mdio.run_d2 \in BOOLEAN
      /\ mdio.run_d3 \in BOOLEAN
  BY DEF OpInv, PipeOk
<1>3. ~run_i(mdio)
  BY <1>2 DEF run_i
<1>4. run_i(m) <=> Run(Shown(MDIO_CR)) /\ ~mdio.run_d2
  BY <1>1, <1>2 DEF run_i
<1>5. ASSUME mdio.state = "idle_s", Quiet(phy)
      PROVE  /\ IsMaster(m) /\ IsPhy(p) /\ Quiet(p) /\ m.state = "idle_s"
             /\ p.regs = phy.regs /\ m.rcvdata = mdio.rcvdata
  BY <1>1, <1>2, <1>3, <1>5, QuietEdge
<1>6. ASSUME mdio.state = "idle_s", Quiet(phy),
             Run(Shown(MDIO_CR)) => mdio.run_d2
      PROVE  /\ IsMaster(mdio)' /\ IsPhy(phy)' /\ mdio'.state = "idle_s"
             /\ Quiet(phy') /\ phy'.regs = phy.regs
             /\ mdio'.rcvdata = mdio.rcvdata
  <2>1. ~run_i(m)
    BY <1>4, <1>6
  <2>2. /\ IsMaster(mdio') /\ IsPhy(phy') /\ Quiet(phy')
        /\ mdio'.state = "idle_s" /\ phy'.regs = p.regs
        /\ mdio'.rcvdata = m.rcvdata
    BY <1>1, <1>5, <1>6, <2>1, QuietEdge
  <2> QED BY <1>5, <1>6, <2>2 DEF IsMaster, IsPhy
<1>7. ASSUME mdio.state = "idle_s", Quiet(phy), phy.regs = user.regs,
             Run(Shown(MDIO_CR)), ~mdio.run_d2
      PROVE  /\ IsMaster(mdio)' /\ IsPhy(phy)'
             /\ Active(mdio', phy', user.op, user.regs)
  <2>1. run_i(m)
    BY <1>4, <1>7
  <2>2. /\ IsMaster(mdio') /\ IsPhy(phy')
        /\ Active(mdio', phy', user.op, p.regs)
    BY <1>1, <1>5, <1>7, <2>1, FirstEdge
  <2> QED BY <1>5, <1>7, <2>2 DEF IsMaster, IsPhy
<1>8. ASSUME Finished(mdio, phy, user.op, user.regs),
             Run(Shown(MDIO_CR)) => mdio.run_d2
      PROVE  /\ IsMaster(mdio)' /\ IsPhy(phy)'
             /\ Finished(mdio', phy', user.op, user.regs)
             /\ mdio'.state = "idle_s" /\ Quiet(phy')
             /\ phy'.regs = phy.regs
  BY <1>6, <1>8 DEF Finished
<1>9. ASSUME InOp, Stage \in {3, 4}, Run(Shown(MDIO_CR)), mdio.run_d2,
             Active(mdio, phy, user.op, user.regs)
      PROVE  /\ IsMaster(mdio)' /\ IsPhy(phy)'
             /\ \/ Active(mdio', phy', user.op, user.regs)
                \/ Finished(mdio', phy', user.op, user.regs)
  <2>1. /\ In(ctrl_regs).cop = user.op.cop
        /\ In(ctrl_regs).dev = user.op.dev
        /\ In(ctrl_regs).data = user.op.data
        /\ In(CtrlRegsNext(csr)).cop = user.op.cop
        /\ In(CtrlRegsNext(csr)).dev = user.op.dev
        /\ In(CtrlRegsNext(csr)).data = user.op.data
    BY <1>9, ToldOp
  <2>2. IsOperation(user.op)
    BY <1>9, OpFacts
  <2>3. /\ IsMaster(m) /\ IsPhy(p)
        /\ Active(m, p, user.op, user.regs) \/ Finished(m, p, user.op, user.regs)
    BY <1>1, <1>2, <1>9, <2>1, <2>2, ActiveEdge
  <2>4. CASE Active(m, p, user.op, user.regs)
    <3>1. /\ IsMaster(mdio') /\ IsPhy(phy')
          /\ \/ Active(mdio', phy', user.op, user.regs)
             \/ Finished(mdio', phy', user.op, user.regs)
      BY <1>1, <1>2, <2>1, <2>2, <2>3, <2>4, ActiveEdge
    <3> QED BY <3>1 DEF IsMaster, IsPhy
  <2>5. CASE Finished(m, p, user.op, user.regs)
    <3>1. ~run_i(m)
      BY <1>4, <1>9
    <3>2. /\ IsMaster(mdio') /\ IsPhy(phy') /\ Quiet(phy')
          /\ mdio'.state = "idle_s" /\ phy'.regs = p.regs
          /\ mdio'.rcvdata = m.rcvdata
      BY <1>1, <2>3, <2>5, <3>1, QuietEdge DEF Finished
    <3> QED BY <2>5, <3>2 DEF Finished, IsMaster, IsPhy
  <2> QED BY <2>3, <2>4, <2>5
<1>10. CASE Between
  <2>1. ~Run(Shown(MDIO_CR)) /\ ~mdio.run_d2
    BY <1>2, <1>10 DEF RegsOk, PipeOk, CrOk
  <2>2. mdio.state = "idle_s" /\ Quiet(phy)
    <3>1. CASE InOp /\ Stage = 0
      BY <1>2, <3>1 DEF FrameOk, Finished
    <3>2. CASE ~InOp \/ Stage \in {5, 6}
      BY <1>2, <3>2 DEF FrameOk
    <3> QED BY <1>10, <3>1, <3>2 DEF Between
  <2>3. /\ IsMaster(mdio)' /\ IsPhy(phy)' /\ mdio'.state = "idle_s"
        /\ Quiet(phy') /\ phy'.regs = phy.regs
        /\ mdio'.rcvdata = mdio.rcvdata
    BY <1>6, <2>1, <2>2
  <2>4. ~(InOp /\ (Stage = 3 \/ Stage = 4))
    BY <1>10 DEF Between
  <2>5. Finished(mdio, phy, user.op, user.regs) =>
            Finished(mdio', phy', user.op, user.regs)
    BY <2>3 DEF Finished
  <2> QED BY <2>3, <2>4, <2>5
<1>11. CASE InOp /\ Stage = 4 /\ ~Run(Shown(MDIO_CR))
  <2>1. ~mdio.run_d2 /\ mdio.state = "idle_s" /\ Quiet(phy)
    BY <1>2, <1>11 DEF PipeOk, FrameOk
  <2> QED BY <1>6, <1>11, <2>1
<1>12. CASE InOp /\ Stage = 4 /\ Run(Shown(MDIO_CR))
  <2>1. CASE ~mdio.run_d2
    <3>1. mdio.state = "idle_s" /\ Quiet(phy) /\ phy.regs = user.regs
      BY <1>2, <1>12, <2>1 DEF FrameOk
    <3> QED BY <1>7, <1>12, <2>1, <3>1 DEF Between
  <2>2. CASE mdio.run_d2
    <3>1. \/ Active(mdio, phy, user.op, user.regs)
          \/ Finished(mdio, phy, user.op, user.regs)
      BY <1>2, <1>12, <2>2 DEF FrameOk
    <3> QED BY <1>8, <1>9, <1>12, <2>2, <3>1 DEF Between
  <2> QED BY <2>1, <2>2
<1>13. CASE InOp /\ Stage = 3
  <2>1. mdio.run_d2
    BY <1>2, <1>13 DEF PipeOk
  <2>2. Run(Shown(MDIO_CR))
    BY <1>2, <1>13, OpFacts DEF RegsOk, CrOk
  <2>3. \/ Active(mdio, phy, user.op, user.regs)
        \/ Finished(mdio, phy, user.op, user.regs)
    BY <1>2, <1>13 DEF FrameOk
  <2> QED BY <1>8, <1>9, <1>13, <2>1, <2>2, <2>3 DEF Between
<1>14. CASE InOp /\ Stage \in {1, 2}
  <2>1. Run(Shown(MDIO_CR)) => mdio.run_d2
    BY <1>2, <1>14 DEF PipeOk
  <2>2. Finished(mdio, phy, user.op, user.regs)
    BY <1>2, <1>14 DEF FrameOk
  <2> QED BY <1>8, <1>14, <2>1, <2>2 DEF Between
<1>15. \/ Between
       \/ InOp /\ (Stage = 4 \/ Stage = 3 \/ Stage \in {1, 2})
  <2> HIDE DEF Stage
  <2> QED BY <1>2, OpFacts DEF StepsOk, Between
<1> QED BY <1>10, <1>11, <1>12, <1>13, <1>14, <1>15

-----------------------------------------------------------------------------
(* What a read brings while an operation is under way.                      *)

\* A value that the register can have while it is read is all that comes.
LEMMA ReadStep ==
    ASSUME MemInv, Hardware, Program \/ NoCall, NEW G,
           prog.pc = "bus" => ~Writes(prog) /\ Carried(G),
           Served => prog.data \in G,
           prog.pc = "bus" /\ csr.addr = Named => rd_data(csr.addr, status) \in G
    PROVE  /\ prog'.pc = "bus" => CarriedOn(G)
           /\ Served' => prog'.data \in G
<1>1. CASE prog.pc # "bus"
  <2>1. CarriedOn(G)
    BY <1>1, RestEdge DEF AtRest, InRead, At, CarriedOn
  <2>2. Served' => prog'.data \in G
    BY <1>1, ProgStep
  <2> QED BY <2>1, <2>2
<1>2. CASE prog.pc = "bus"
  <2>1. /\ BusArgs(prog.args) /\ BridgeEdge(Request, rd_data(csr.addr, status))
        /\ BridgeType /\ ~Writes(prog) /\ Carried(G)
        /\ AtRest \/ \E k \in 1 .. 6 : Reading(k)
    BY <1>2, BusEdge DEF MemInv, Places
  <2>2. CASE AtRest
    <3>1. ~Done /\ InRead(1)'
      BY <1>2, <2>1, <2>2, ReadBegins
    <3>2. prog' = prog
      BY <1>2, <3>1 DEF Program, NoCall, SystemCall, Call, CallNext, CallOther,
                        Return, BeginOperation
    <3>3. CarriedOn(G)
      BY <3>1 DEF InRead, At, CarriedOn
    <3> QED BY <1>2, <3>2, <3>3 DEF Served
  <2>3. ASSUME NEW k \in 1 .. 5, Reading(k)
        PROVE  CarriedOn(G) /\ ~Served'
    <3>1. ~Done
      BY <1>2, <2>1, <2>3, ReadGoesOn DEF Reading
    <3>2. prog' = prog
      BY <1>2, <3>1 DEF Program, NoCall, SystemCall, Call, CallNext, CallOther,
                        Return, BeginOperation
    <3>3. csr.addr = Named => rd_data(csr.addr, status) \in G
      BY <1>2
    <3>4. CarriedOn(G)
      BY <1>2, <2>1, <2>3, <3>2, <3>3, CarriedStep
    <3> QED BY <1>2, <3>2, <3>4 DEF Served
  <2>4. CASE Reading(6)
    <3>1. Done
      BY <1>2, <2>1, <2>4, ReadEnds DEF Reading
    <3>2. Answer16
      BY <3>1 DEF Program, NoCall, Done
    <3>3. prog' = [prog EXCEPT !.pc = "MUNMAP",
                               !.data = wide_readdata[reg_idx(prog) % 2]]
      BY <2>1, <3>2 DEF Answer16, Answered
    <3>4. /\ prog'.pc = "MUNMAP"
          /\ prog'.data = wide_readdata[reg_idx(prog) % 2]
      BY <3>3 DEF MemInv, ProgType
    <3>5. prog'.data \in G
      BY <2>1, <2>4, <3>4, CarriedEnds
    <3> QED BY <3>4, <3>5
  <2>5. \A k \in 1 .. 6 : k = 6 \/ k \in 1 .. 5
    OBVIOUS
  <2> QED BY <2>1, <2>2, <2>3, <2>4, <2>5
<1> QED BY <1>1, <1>2

\* What the status registers of the master say of the operation: no busy
\* means that it is finished, and then the value is that of the PHY.
LEMMA ReadValue ==
    ASSUME MemInv, OpInv, InOp, prog.pc = "bus", csr.addr = Named
    PROVE  /\ prog.args = <<StatusOf(MDIO_SR)>> /\ Stage = 3 =>
                  rd_data(csr.addr, status) \in StatusSeen
           /\ prog.args = <<StatusOf(MDIODATALO_SR)>> /\ Stage = 2
              /\ Reads(user.op.cop) =>
                  rd_data(csr.addr, status) = user.regs[user.op.dev]
<1>1. \A r \in {MDIO_SR, MDIODATALO_SR} :
          prog.args = <<StatusOf(r)>> =>
              rd_data(csr.addr, status) = status(PHY, r)
  <2> SUFFICES ASSUME NEW r \in {MDIO_SR, MDIODATALO_SR},
                      prog.args = <<StatusOf(r)>>
               PROVE  rd_data(csr.addr, status) = status(PHY, r)
    OBVIOUS
  <2>1. Named = StatusOf(r) /\ Named \in Addresses
    BY Distinct DEF Named, reg_idx
  <2> QED BY <2>1, ReadOne
<1>2. ASSUME Stage = 3 PROVE status(PHY, MDIO_SR) \in StatusSeen
  <2>1. \/ Active(mdio, phy, user.op, user.regs)
        \/ Finished(mdio, phy, user.op, user.regs)
    BY <1>2 DEF OpInv, FrameOk
  <2>2. ~busy(mdio) => Finished(mdio, phy, user.op, user.regs)
    BY <2>1, OpFacts, ActiveLine DEF OpInv
  <2>3. status(PHY, MDIO_SR) =
            (IF busy(mdio) THEN 1 ELSE 0) + (IF mdio.data_val THEN 2 ELSE 0)
    BY DEF status, MDIO_SR, MDIODATALO_SR
  <2>4. /\ status(PHY, MDIO_SR) \in 0 .. 3
        /\ (status(PHY, MDIO_SR) % 2) = 0 => ~busy(mdio)
    <3> DEFINE a == IF busy(mdio) THEN 1 ELSE 0
               b == IF mdio.data_val THEN 2 ELSE 0
    <3>1. /\ a \in 0 .. 1 /\ b \in {0, 2} /\ (a = 0 => ~busy(mdio))
      OBVIOUS
    <3>2. status(PHY, MDIO_SR) = a + b
      BY <2>3
    <3> HIDE DEF a, b
    <3>3. a + b \in 0 .. 3 /\ (((a + b) % 2) = 0 => a = 0)
      BY <3>1
    <3> QED BY <3>1, <3>2, <3>3
  <2> QED BY <2>2, <2>4 DEF StatusSeen
<1>3. ASSUME Stage = 2, Reads(user.op.cop)
      PROVE  status(PHY, MDIODATALO_SR) = user.regs[user.op.dev]
  <2>1. Finished(mdio, phy, user.op, user.regs)
    BY <1>3 DEF OpInv, FrameOk
  <2>2. status(PHY, MDIODATALO_SR) = data_o(mdio)
    BY DEF status, MDIO_SR, MDIODATALO_SR
  <2> QED BY <1>3, <2>1, <2>2 DEF Finished, data_o
<1> QED BY <1>1, <1>2, <1>3

LEMMA CarriedWider ==
    ASSUME NEW G, NEW H, G \subseteq H, CarriedOn(G)
    PROVE  CarriedOn(H)
  BY DEF CarriedOn

\* What a read has brought stays right in a step that leaves the operation
\* where it is.
LEMMA SameRead ==
    ASSUME MemInv, OpInv, OthersElsewhere, Hardware, Program \/ NoCall,
           user'.steps = user.steps, user'.op = user.op,
           user'.regs = user.regs, user'.result = user.result,
           prog'.pc # "idle" /\ ~user'.other => ~user.other
    PROVE  ReadOk'
<1>1. InOp' = InOp /\ Stage' = Stage
  BY DEF InOp, Stage
<1>2. ASSUME InOp, Stage = 3, ~user'.other, prog'.pc # "idle"
      PROVE  /\ prog'.pc = "bus" => Carried(StatusSeen)'
             /\ Served' => prog'.data \in StatusSeen'
  <2>1. ~user.other
    BY <1>2
  <2>2. prog.pc = "bus" => prog.args = <<StatusOf(MDIO_SR)>>
    BY <1>2, <2>1, CurrentCall DEF MemInv, OpInv
  <2>3. prog.pc = "bus" => ~Writes(prog) /\ Carried(StatusSeen)
    <3>1. \A x : Len(<<x>>) = 1
      OBVIOUS
    <3> QED BY <1>2, <2>1, <2>2, <3>1 DEF Writes, OpInv, ReadOk
  <2>4. Served => prog.data \in StatusSeen
    BY <1>2, <2>1 DEF OpInv, ReadOk
  <2>5. prog.pc = "bus" /\ csr.addr = Named =>
            rd_data(csr.addr, status) \in StatusSeen
    BY <1>2, <2>2, ReadValue
  <2>6. StatusSeen \subseteq StatusSeen'
    <3>1. Finished(mdio, phy, user.op, user.regs) =>
              Finished(mdio', phy', user.op, user.regs)
      BY <1>2, FrameStep
    <3> QED BY <3>1 DEF StatusSeen
  <2> DEFINE G == StatusSeen
  <2> HIDE DEF G
  <2>7. /\ prog'.pc = "bus" => CarriedOn(G)
        /\ Served' => prog'.data \in G
    BY <2>3, <2>4, <2>5, ReadStep DEF G
  <2>8. /\ prog'.pc = "bus" => CarriedOn(StatusSeen')
        /\ Served' => prog'.data \in StatusSeen'
    BY <2>6, <2>7, CarriedWider DEF G
  <2> QED BY <2>8 DEF CarriedOn, Carried
<1>3. ASSUME InOp, Stage = 2, ~user'.other, prog'.pc # "idle",
             Reads(user.op.cop)
      PROVE  /\ prog'.pc = "bus" => Carried({user.regs[user.op.dev]})'
             /\ Served' => prog'.data = user.regs[user.op.dev]
  <2> DEFINE G == {user.regs[user.op.dev]}
  <2>1. ~user.other
    BY <1>3
  <2>2. prog.pc = "bus" => prog.args = <<StatusOf(MDIODATALO_SR)>>
    BY <1>3, <2>1, CurrentCall DEF MemInv, OpInv
  <2>3. prog.pc = "bus" => ~Writes(prog) /\ Carried(G)
    <3>1. \A x : Len(<<x>>) = 1
      OBVIOUS
    <3> QED BY <1>3, <2>1, <2>2, <3>1 DEF Writes, OpInv, ReadOk
  <2>4. Served => prog.data \in G
    BY <1>3, <2>1 DEF OpInv, ReadOk
  <2>5. prog.pc = "bus" /\ csr.addr = Named => rd_data(csr.addr, status) \in G
    BY <1>3, <2>2, ReadValue
  <2>6. G' = G
    OBVIOUS
  <2> HIDE DEF G
  <2>7. /\ prog'.pc = "bus" => CarriedOn(G)
        /\ Served' => prog'.data \in G
    BY <2>3, <2>4, <2>5, ReadStep
  <2>8. /\ prog'.pc = "bus" => Carried(G)'
        /\ Served' => prog'.data \in G
    BY <2>6, <2>7 DEF CarriedOn, Carried
  <2> QED BY <2>8 DEF G
<1>4. InOp /\ Stage \in 0 .. 1 /\ Reads(user.op.cop) =>
          user'.result = user.regs[user.op.dev]
  BY DEF OpInv, ReadOk
<1>5. prog'.pc = "idle" => prog'.pc # "bus" /\ ~Served'
  BY DEF Served
<1> QED BY <1>1, <1>2, <1>3, <1>4, <1>5 DEF ReadOk

-----------------------------------------------------------------------------
(* The steps that leave the operation where it is.                          *)

\* What reg16 is called with does not change under way.
LEMMA SystemCallKeeps ==
    ASSUME ProgType, SystemCall
    PROVE  /\ prog.pc # "idle" /\ prog'.pc # "idle" /\ prog'.args = prog.args
           /\ user' = user
<1>1. PICK ok \in BOOLEAN : Call(ok)
  BY DEF SystemCall
<1> QED
  BY <1>1 DEF SystemCall, Call, Usage, Open, Mmap, Access, Munmap, Close, Exit,
              Goto, ProgType

LEMMA ReturnIs ==
    ASSUME UserType, Return
    PROVE  /\ prog.pc = "exited" /\ prog' = Idle /\ memory' = memory
           /\ user'.op = user.op /\ user'.regs = user.regs
           /\ user'.other = FALSE
           /\ \/ user'.steps = user.steps /\ user'.result = user.result
              \/ /\ ~user.other /\ prog.return_code = "0"
                 /\ ~(prog.args = <<StatusOf(MDIO_SR)>> /\ prog.data % 2 = 1)
                 /\ user'.steps = Tail(user.steps)
                 /\ user'.result = IF prog.args = <<StatusOf(MDIODATALO_SR)>>
                                   THEN prog.data ELSE user.result
<1> DEFINE again == \/ user.other \/ prog.return_code # "0"
                    \/ prog.args = <<StatusOf(MDIO_SR)>> /\ prog.data % 2 = 1
           got   == prog.args = <<StatusOf(MDIODATALO_SR)>>
<1>1. /\ user' = [user EXCEPT
                     !.other = FALSE,
                     !.steps = IF again THEN @ ELSE Tail(@),
                     !.result = IF ~again /\ got THEN prog.data ELSE @]
      /\ prog.pc = "exited" /\ prog' = Idle /\ memory' = memory
  BY DEF Return
<1> HIDE DEF again, got
<1>2. /\ user'.steps = (IF again THEN user.steps ELSE Tail(user.steps))
      /\ user'.result = (IF ~again /\ got THEN prog.data ELSE user.result)
      /\ user'.other = FALSE /\ user'.op = user.op /\ user'.regs = user.regs
  BY <1>1 DEF UserType
<1>3. CASE again
  BY <1>1, <1>2, <1>3
<1>4. CASE ~again
  BY <1>1, <1>2, <1>4 DEF again, got
<1> QED BY <1>3, <1>4

LEMMA SameCall ==
    ASSUME MemInv, OpInv, Program \/ NoCall, ~BeginOperation,
           user'.steps = user.steps
    PROVE  /\ user'.op = user.op /\ user'.regs = user.regs
           /\ prog'.pc # "idle" /\ ~user'.other => ~user.other
           /\ CallOk'
<1>1. ProgType /\ UserType /\ CallOk
  BY DEF MemInv, OpInv
<1>2. CASE Done /\ Answer16
  <2>1. prog'.pc = "MUNMAP" /\ prog'.args = prog.args /\ user' = user
        /\ prog.pc = "bus"
    BY <1>1, <1>2 DEF Answer16, Answered, ProgType, Done
  <2> QED BY <1>1, <2>1 DEF CallOk
<1>3. CASE SystemCall
  BY <1>1, <1>3, SystemCallKeeps DEF CallOk
<1>4. CASE CallNext
  <2>1. /\ prog.pc = "idle" /\ user.steps # <<>> /\ user' = user
        /\ prog'.args = Head(user.steps)
    BY <1>4 DEF CallNext, Called
  <2> QED BY <1>1, <2>1 DEF CallOk
<1>5. CASE CallOther
  <2>1. PICK args \in OTHER_CALLS : prog' = Called(args)
    BY <1>5 DEF CallOther
  <2>2. prog'.pc = "args" /\ prog'.args \in OTHER_CALLS
    BY <2>1 DEF Called
  <2>3. user'.other = TRUE /\ user'.op = user.op /\ user'.regs = user.regs
    BY <1>1, <1>5 DEF CallOther, UserType
  <2> QED BY <2>2, <2>3 DEF CallOk
<1>6. CASE Return
  <2>0. prog' = Idle /\ user'.op = user.op /\ user'.regs = user.regs
        /\ user'.other = FALSE
    BY <1>1, <1>6, ReturnIs
  <2>1. prog'.pc = "idle"
    BY <2>0 DEF Idle
  <2> QED BY <2>0, <2>1 DEF CallOk
<1>7. CASE NoCall
  BY <1>1, <1>7 DEF NoCall, CallOk
<1> QED BY <1>2, <1>3, <1>4, <1>5, <1>6, <1>7 DEF Program

\* A store to a register of the master is that of the stage.
LEMMA SameOp ==
    ASSUME MemInv, MemInv', OpInv, OthersElsewhere, Hardware, Program \/ NoCall,
           ~BeginOperation, user'.steps = user.steps,
           user'.result = user.result
    PROVE  OpInv'
<1>1. /\ user'.op = user.op /\ user'.regs = user.regs /\ CallOk'
      /\ prog'.pc # "idle" /\ ~user'.other => ~user.other
  BY SameCall
<1>2. InOp' = InOp /\ Stage' = Stage /\ Between' = Between
      /\ Started' = Started /\ Ended' = Ended /\ StepsOk'
  <2>1. StepsOk' /\ InOp' = InOp /\ Stage' = Stage
    BY <1>1 DEF OpInv, StepsOk, InOp, Stage
  <2> QED BY <1>1, <2>1 DEF Between, Started, Ended
<1>3. ReadOk'
  BY <1>1, SameRead
<1>4. IsMaster(mdio)' /\ IsPhy(phy)' /\ (user.regs \in PhyRegFiles)'
  BY <1>1, FrameStep DEF OpInv, PhyRegFiles
<1>5. \A i \in MdioRegs :
          /\ Shown(i)' = Coming(i)
          /\ \/ Coming(i)' = Kept(i)'
             \/ /\ InOp
                /\ \/ Stage = 6 /\ i = MDIODEVAD_CR
                   \/ Stage = 5 /\ i = MDIODATALO_CR
                   \/ Stage = 4 /\ i = MDIO_CR /\ Coming(i)' = Started
                   \/ Stage = 1 /\ i = MDIO_CR /\ Coming(i)' = Ended
          /\ \/ Kept(i)' = Kept(i) /\ Coming(i) = Kept(i)
             \/ /\ InOp
                /\ \/ /\ Stage = 6 /\ i = MDIODEVAD_CR
                      /\ Kept(i)' = user.op.dev
                   \/ /\ Stage = 5 /\ i = MDIODATALO_CR
                      /\ Kept(i)' = user.op.data
                   \/ /\ Stage = 4 /\ i = MDIO_CR /\ Kept(i)' = Started
                      /\ Coming(i)' = Started /\ Coming(i) \in {Kept(i), Started}
                   \/ /\ Stage = 1 /\ i = MDIO_CR /\ Kept(i)' = Ended
                      /\ Coming(i)' = Ended /\ Coming(i) \in {Kept(i), Ended}
  <2> SUFFICES ASSUME NEW i \in MdioRegs
               PROVE  /\ Shown(i)' = Coming(i)
                      /\ \/ Coming(i)' = Kept(i)'
                         \/ /\ InOp
                            /\ \/ Stage = 6 /\ i = MDIODEVAD_CR
                               \/ Stage = 5 /\ i = MDIODATALO_CR
                               \/ /\ Stage = 4 /\ i = MDIO_CR
                                  /\ Coming(i)' = Started
                               \/ /\ Stage = 1 /\ i = MDIO_CR
                                  /\ Coming(i)' = Ended
                      /\ \/ Kept(i)' = Kept(i) /\ Coming(i) = Kept(i)
                         \/ /\ InOp
                            /\ \/ /\ Stage = 6 /\ i = MDIODEVAD_CR
                                  /\ Kept(i)' = user.op.dev
                               \/ /\ Stage = 5 /\ i = MDIODATALO_CR
                                  /\ Kept(i)' = user.op.data
                               \/ /\ Stage = 4 /\ i = MDIO_CR
                                  /\ Kept(i)' = Started /\ Coming(i)' = Started
                                  /\ Coming(i) \in {Kept(i), Started}
                               \/ /\ Stage = 1 /\ i = MDIO_CR
                                  /\ Kept(i)' = Ended /\ Coming(i)' = Ended
                                  /\ Coming(i) \in {Kept(i), Ended}
    OBVIOUS
  <2>1. /\ Shown(i)' = Coming(i)
        /\ Coming(i)' # Kept(i)' => /\ WritesTo(i)' /\ Done'
                                    /\ Coming(i)' = prog'.args[2]
        /\ \/ /\ Done /\ WritesTo(i) /\ Kept(i)' = prog.args[2]
              /\ Coming(i)' = prog.args[2]
              /\ Coming(i) \in {Kept(i), prog.args[2]}
           \/ /\ ~(Done /\ WritesTo(i)) /\ Kept(i)' = Kept(i)
              /\ Coming(i) = Kept(i)
    BY RegStep
  <2>2. Done => prog.pc # "idle"
    BY DEF Done
  <2>3. Done' => prog'.pc # "idle"
    BY DEF Done
  <2>4. Done /\ WritesTo(i) =>
            /\ InOp
            /\ \/ Stage = 6 /\ i = MDIODEVAD_CR /\ prog.args[2] = user.op.dev
               \/ Stage = 5 /\ i = MDIODATALO_CR /\ prog.args[2] = user.op.data
               \/ Stage = 4 /\ i = MDIO_CR /\ prog.args[2] = Started
               \/ Stage = 1 /\ i = MDIO_CR /\ prog.args[2] = Ended
    BY <2>2, WhoWrites DEF MemInv, OpInv
  <2>5. Done' /\ WritesTo(i)' =>
            /\ InOp
            /\ \/ Stage = 6 /\ i = MDIODEVAD_CR
               \/ Stage = 5 /\ i = MDIODATALO_CR
               \/ Stage = 4 /\ i = MDIO_CR /\ prog'.args[2] = Started
               \/ Stage = 1 /\ i = MDIO_CR /\ prog'.args[2] = Ended
    <3>1. UserType' /\ OthersElsewhere'
      BY DEF MemInv, OthersElsewhere, Control, Index
    <3>2. Done' /\ WritesTo(i)' =>
              /\ InOp'
              /\ \/ Stage' = 6 /\ i = MDIODEVAD_CR
                 \/ Stage' = 5 /\ i = MDIODATALO_CR
                 \/ Stage' = 4 /\ i = MDIO_CR /\ prog'.args[2] = Started'
                 \/ Stage' = 1 /\ i = MDIO_CR /\ prog'.args[2] = Ended'
      BY <1>1, <1>2, <2>3, <3>1, WhoWritesThen
    <3> QED BY <1>2, <3>2
  <2> HIDE DEF Stage
  <2>6. CASE Done /\ WritesTo(i)
    BY <2>1, <2>4, <2>5, <2>6
  <2>7. CASE ~(Done /\ WritesTo(i))
    BY <2>1, <2>5, <2>7
  <2> QED BY <2>6, <2>7
<1> DEFINE s == Shown(MDIO_CR)
           c == Coming(MDIO_CR)
           k == Kept(MDIO_CR)
           s1 == Shown(MDIO_CR)'
           c1 == Coming(MDIO_CR)'
           k1 == Kept(MDIO_CR)'
<1>6. /\ s1 = c
      /\ \/ c1 = k1
         \/ InOp /\ Stage = 4 /\ c1 = Started
         \/ InOp /\ Stage = 1 /\ c1 = Ended
      /\ \/ k1 = k /\ c = k
         \/ /\ InOp /\ Stage = 4 /\ k1 = Started /\ c1 = Started
            /\ c \in {k, Started}
         \/ /\ InOp /\ Stage = 1 /\ k1 = Ended /\ c1 = Ended
            /\ c \in {k, Ended}
  <2> HIDE DEF Stage
  <2>1. MDIO_CR \in MdioRegs
    BY DEF MdioRegs
  <2> QED BY <1>5, <2>1, Distinct
<1>7. /\ InOp /\ Stage \in 0 .. 5 => Kept(MDIODEVAD_CR)' = user.op.dev
      /\ InOp /\ Stage \in 0 .. 4 => Kept(MDIODATALO_CR)' = user.op.data
  <2> HIDE DEF Stage
  <2>1. MDIODEVAD_CR \in MdioRegs /\ MDIODATALO_CR \in MdioRegs
    BY DEF MdioRegs
  <2> QED BY <1>5, <2>1, Distinct DEF OpInv, RegsOk
<1>8. /\ InOp => Run(Started) /\ ~Run(Ended)
      /\ CrOk(s) /\ CrOk(c) /\ CrOk(k) /\ PipeOk /\ FrameOk
      /\ ~InOp => Between
  BY OpFacts DEF OpInv, RegsOk, Between
<1>9. /\ mdio'.run_d1 = Run(c) /\ mdio'.run_d2 = Run(s)
      /\ (mdio.run_d1 <=> Run(s)) /\ mdio'.run_d3 = mdio.run_d1
      /\ mdio.run_d1 \in BOOLEAN
  BY <1>8, TwoEdges DEF PipeOk
<1> HIDE DEF s, c, k, s1, c1, k1
<1>10. CrOk(s1) /\ CrOk(c1) /\ CrOk(k1)
  <2> HIDE DEF Stage
  <2> QED BY <1>6, <1>8 DEF CrOk, Between
<1>11. RegsOk'
  <2>1. CrOk(Shown(MDIO_CR))' /\ CrOk(Coming(MDIO_CR))' /\ CrOk(Kept(MDIO_CR))'
    BY <1>2, <1>10 DEF CrOk, s1, c1, k1
  <2> QED BY <1>1, <1>2, <1>7, <2>1 DEF RegsOk
<1>12. PipeOk'
  <2>1. /\ Between => ~Run(s)
        /\ InOp /\ Stage = 4 => /\ Run(s) => Run(s1)
                                /\ Run(s1) => Run(c1)
        /\ InOp /\ Stage \in {2, 3} => Run(s)
        /\ InOp /\ Stage = 1 => /\ Run(c1) => Run(s1)
                                /\ Run(s1) => Run(s)
    <3>1. /\ Between => ~Run(s)
          /\ InOp /\ Stage = 4 => /\ Run(s) => Run(c)
                                  /\ Run(c) => c = Started
          /\ InOp /\ Stage \in {2, 3} => s = Started
          /\ InOp /\ Stage = 1 => (Run(c) => Run(s))
      BY <1>8 DEF CrOk, PipeOk, s, c
    <3> HIDE DEF Stage
    <3> QED BY <1>6, <1>8, <3>1
  <2>2. /\ mdio'.run_d1 \in BOOLEAN /\ mdio'.run_d2 \in BOOLEAN
        /\ mdio'.run_d3 \in BOOLEAN /\ (mdio'.run_d1 <=> Run(s1))
        /\ (mdio'.run_d2 <=> mdio'.run_d3)
    BY <1>6, <1>9 DEF Run
  <2>3. /\ Run(Shown(MDIO_CR))' <=> Run(s1)
        /\ Run(Coming(MDIO_CR))' <=> Run(c1)
    BY DEF s1, c1
  <2> HIDE DEF Stage
  <2> QED BY <1>2, <1>9, <2>1, <2>2, <2>3 DEF PipeOk
<1>13. FrameOk'
  <2>1. mdio'.run_d2 <=> Run(Shown(MDIO_CR))
    BY <1>9 DEF s
  <2>2. /\ Between \/ (InOp /\ Stage = 4 /\ ~Run(Shown(MDIO_CR))) =>
               /\ mdio'.state = "idle_s" /\ Quiet(phy')
               /\ phy'.regs = phy.regs
        /\ InOp /\ (Stage = 3 \/ (Stage = 4 /\ Run(Shown(MDIO_CR)))) =>
               \/ Active(mdio', phy', user.op, user.regs)
               \/ Finished(mdio', phy', user.op, user.regs)
        /\ InOp /\ Stage \in 0 .. 3
           /\ Finished(mdio, phy, user.op, user.regs) =>
               Finished(mdio', phy', user.op, user.regs)
    BY FrameStep
  <2>3. ~InOp \/ Stage \in {5, 6} \/ (Stage = 4 /\ ~Run(Shown(MDIO_CR))) =>
            phy.regs = user.regs
    BY <1>8 DEF FrameOk, PipeOk
  <2>4. ~InOp \/ Stage \in {5, 6} \/ (Stage = 4 /\ ~mdio'.run_d2) =>
            mdio'.state = "idle_s" /\ Quiet(phy') /\ phy'.regs = user.regs
    BY <2>1, <2>2, <2>3 DEF Between
  <2>5. InOp /\ Stage \in 0 .. 2 => Finished(mdio', phy', user.op, user.regs)
    BY <1>8, <2>2 DEF FrameOk
  <2>6. InOp /\ (Stage = 3 \/ (Stage = 4 /\ mdio'.run_d2)) =>
           \/ Active(mdio', phy', user.op, user.regs)
           \/ Finished(mdio', phy', user.op, user.regs)
    BY <2>1, <2>2
  <2> QED BY <1>1, <1>2, <2>4, <2>5, <2>6 DEF FrameOk
<1> QED BY <1>1, <1>2, <1>3, <1>4, <1>11, <1>12, <1>13 DEF OpInv

-----------------------------------------------------------------------------
(* The steps that take the operation on: a call that has ended well, and    *)
(* the first of an operation.  At both the registers of the master are      *)
(* settled.                                                                 *)

LEMMA Settled ==
    ASSUME MemInv, MemInv', OpInv, Hardware, Program \/ NoCall,
           prog.pc \notin {"bus", "MUNMAP"}, prog'.pc # "bus"
    PROVE  /\ \A i \in MdioRegs :
                  /\ Shown(i) = Kept(i)
                  /\ Kept(i)' = Kept(i) /\ Shown(i)' = Kept(i)
                  /\ Coming(i)' = Kept(i)
           /\ (mdio'.run_d1 <=> Run(Kept(MDIO_CR)))
           /\ (mdio'.run_d2 <=> Run(Kept(MDIO_CR)))
           /\ (mdio'.run_d3 <=> Run(Kept(MDIO_CR)))
           /\ mdio'.run_d1 \in BOOLEAN /\ mdio'.run_d2 \in BOOLEAN
           /\ mdio'.run_d3 \in BOOLEAN
<1>1. ASSUME NEW i \in MdioRegs
      PROVE  /\ Shown(i) = Kept(i) /\ Coming(i) = Kept(i)
             /\ Kept(i)' = Kept(i) /\ Shown(i)' = Kept(i)
             /\ Coming(i)' = Kept(i)
  <2>1. ~Done /\ ~Done'
    BY DEF Done
  <2>2. Shown(i) = Kept(i)
    BY RegNow
  <2>3. /\ Shown(i)' = Coming(i) /\ (Coming(i)' # Kept(i)' => Done')
        /\ Kept(i)' = Kept(i) /\ Coming(i) = Kept(i)
    BY <2>1, RegStep
  <2> QED BY <2>1, <2>2, <2>3
<1>2. MDIO_CR \in MdioRegs
  BY DEF MdioRegs
<1>3. Shown(MDIO_CR) = Kept(MDIO_CR) /\ Coming(MDIO_CR) = Kept(MDIO_CR)
  BY <1>1, <1>2
<1>4. /\ mdio'.run_d1 = Run(Coming(MDIO_CR))
      /\ mdio'.run_d2 = Run(Shown(MDIO_CR))
      /\ mdio'.run_d3 = mdio.run_d1 /\ (mdio.run_d1 <=> Run(Shown(MDIO_CR)))
      /\ mdio.run_d1 \in BOOLEAN
  BY TwoEdges DEF OpInv, PipeOk
<1>5. \A v : Run(v) \in BOOLEAN
  BY DEF Run
<1> QED BY <1>1, <1>3, <1>4, <1>5

\* With the registers settled only what MDIO_CR holds counts.
LEMMA SettledPipe ==
    ASSUME MemInv, MemInv', OpInv, Hardware, Program \/ NoCall,
           prog.pc \notin {"bus", "MUNMAP"}, prog'.pc # "bus",
           NEW v, v = Kept(MDIO_CR),
           Between' => ~Run(v),
           InOp' /\ Stage' = 4 => ~Run(v) \/ v = Started',
           InOp' /\ Stage' \in {1, 2, 3} => v = Started',
           InOp' /\ Stage' \in 0 .. 5 => Kept(MDIODEVAD_CR) = user'.op.dev,
           InOp' /\ Stage' \in 0 .. 4 => Kept(MDIODATALO_CR) = user'.op.data,
           InOp' /\ Stage' \in {2, 3} => Run(v)
    PROVE  RegsOk' /\ PipeOk'
<1>1. \A i \in MdioRegs : /\ Kept(i)' = Kept(i) /\ Shown(i)' = Kept(i)
                          /\ Coming(i)' = Kept(i)
  BY Settled
<1>2. /\ Kept(MDIO_CR)' = v /\ Shown(MDIO_CR)' = v /\ Coming(MDIO_CR)' = v
      /\ Kept(MDIODEVAD_CR)' = Kept(MDIODEVAD_CR)
      /\ Kept(MDIODATALO_CR)' = Kept(MDIODATALO_CR)
  BY <1>1 DEF MdioRegs
<1>3. /\ (mdio'.run_d1 <=> Run(v)) /\ (mdio'.run_d2 <=> Run(v))
      /\ (mdio'.run_d3 <=> Run(v))
      /\ mdio'.run_d1 \in BOOLEAN /\ mdio'.run_d2 \in BOOLEAN
      /\ mdio'.run_d3 \in BOOLEAN
  BY Settled
<1> HIDE DEF Stage
<1>4. RegsOk'
  <2>1. CrOk(Shown(MDIO_CR))' /\ CrOk(Coming(MDIO_CR))' /\ CrOk(Kept(MDIO_CR))'
    BY <1>2 DEF CrOk, Run
  <2> QED BY <1>2, <2>1 DEF RegsOk
<1>5. PipeOk'
  <2>1. (Run(Shown(MDIO_CR))' <=> Run(v)) /\ (Run(Coming(MDIO_CR))' <=> Run(v))
    BY <1>2 DEF Run
  <2> QED BY <1>3, <2>1 DEF PipeOk
<1> QED BY <1>4, <1>5

\* A call of the operation that has ended well has done what it says.
LEMMA CallHasDone ==
    ASSUME MemInv, OpInv, InOp, ~user.other, prog.pc = "exited",
           prog.return_code = "0"
    PROVE  /\ Stage \in 1 .. 6
           /\ Stage = 6 => Kept(MDIODEVAD_CR) = user.op.dev
           /\ Stage = 5 => Kept(MDIODATALO_CR) = user.op.data
           /\ Stage = 4 => Kept(MDIO_CR) = Started
           /\ Stage = 3 => prog.args = <<StatusOf(MDIO_SR)>>
           /\ Stage = 3 /\ prog.data % 2 # 1 =>
                  Finished(mdio, phy, user.op, user.regs)
           /\ Stage = 2 => prog.args = <<StatusOf(MDIODATALO_SR)>>
           /\ Stage = 2 /\ Reads(user.op.cop) =>
                  prog.data = user.regs[user.op.dev]
           /\ Stage = 1 => Kept(MDIO_CR) = Ended
           /\ Stage # 2 => prog.args # <<StatusOf(MDIODATALO_SR)>>
<1>1. /\ Stage \in 1 .. 6
      /\ Stage = 6 => prog.args = <<Control(MDIODEVAD_CR), user.op.dev>>
      /\ Stage = 5 => prog.args = <<Control(MDIODATALO_CR), user.op.data>>
      /\ Stage = 4 => prog.args = <<Control(MDIO_CR), Started>>
      /\ Stage = 3 => prog.args = <<StatusOf(MDIO_SR)>>
      /\ Stage = 2 => prog.args = <<StatusOf(MDIODATALO_SR)>>
      /\ Stage = 1 => prog.args = <<Control(MDIO_CR), Ended>>
  BY CurrentCall DEF MemInv, OpInv
<1>2. Served /\ (Writes(prog) => memory[Named] = prog.args[2])
  BY DEF MemInv, Served
<1>3. \A i \in MdioRegs : \A x :
          prog.args = <<Control(i), x>> => Kept(i) = x
  <2> SUFFICES ASSUME NEW i \in MdioRegs, NEW x, prog.args = <<Control(i), x>>
               PROVE  Kept(i) = x
    OBVIOUS
  <2>1. Writes(prog) /\ reg_idx(prog) = Control(i) /\ prog.args[2] = x
    BY DEF Writes, reg_idx
  <2>2. Named = Control(i)
    BY <2>1, Distinct DEF Named, MdioRegs
  <2> QED BY <1>2, <2>1, <2>2 DEF Kept
<1>4. /\ MDIO_CR \in MdioRegs /\ MDIODEVAD_CR \in MdioRegs
      /\ MDIODATALO_CR \in MdioRegs
  BY DEF MdioRegs
<1>5. Stage = 3 /\ prog.data % 2 # 1 => Finished(mdio, phy, user.op, user.regs)
  <2> SUFFICES ASSUME Stage = 3, prog.data % 2 # 1
               PROVE  Finished(mdio, phy, user.op, user.regs)
    OBVIOUS
  <2>1. prog.data \in StatusSeen
    BY <1>2 DEF OpInv, ReadOk
  <2>2. prog.data \in 0 .. 3
    BY <2>1 DEF StatusSeen
  <2>3. (prog.data % 2) = 0
    BY <2>2
  <2> QED BY <2>1, <2>3 DEF StatusSeen
<1>6. Stage = 2 /\ Reads(user.op.cop) => prog.data = user.regs[user.op.dev]
  BY <1>2 DEF OpInv, ReadOk
<1>7. Stage # 2 => prog.args # <<StatusOf(MDIODATALO_SR)>>
  <2>1. \A x, y, z : <<x, y>> # <<z>>
    <3> SUFFICES ASSUME NEW x, NEW y, NEW z, <<x, y>> = <<z>> PROVE FALSE
      OBVIOUS
    <3>1. Len(<<x, y>>) = 2 /\ Len(<<z>>) = 1
      OBVIOUS
    <3> QED BY <3>1
  <2>2. \A x, z : <<x>> = <<z>> => x = z
    <3> SUFFICES ASSUME NEW x, NEW z, <<x>> = <<z>> PROVE x = z
      OBVIOUS
    <3>1. <<x>>[1] = x /\ <<z>>[1] = z
      OBVIOUS
    <3> QED BY <3>1
  <2> HIDE DEF Stage
  <2>3. <<StatusOf(MDIO_SR)>> # <<StatusOf(MDIODATALO_SR)>>
    BY <2>2, Distinct
  <2> QED BY <1>1, <2>1, <2>3
<1> HIDE DEF Stage
<1> QED BY <1>1, <1>3, <1>4, <1>5, <1>6, <1>7

\* A step of the user's sequence: what the call has done is what the stage
\* that follows relies on.
LEMMA NextStage ==
    ASSUME MemInv, MemInv', OpInv, OthersElsewhere, Hardware, Return,
           ~user.other, prog.return_code = "0",
           ~(prog.args = <<StatusOf(MDIO_SR)>> /\ prog.data % 2 = 1),
           user'.steps = Tail(user.steps), user'.op = user.op,
           user'.regs = user.regs,
           user'.result = IF prog.args = <<StatusOf(MDIODATALO_SR)>>
                          THEN prog.data ELSE user.result
    PROVE  OpInv'
<1>1. /\ prog.pc = "exited" /\ prog'.pc = "idle" /\ user'.other = FALSE
      /\ Program
  <2>1. ~Done
    BY DEF Return, Done
  <2>2. UserType
    BY DEF MemInv
  <2>3. prog.pc = "exited" /\ prog' = Idle /\ user'.other = FALSE
    BY <2>2, ReturnIs
  <2>4. prog'.pc = "idle"
    BY <2>3 DEF Idle
  <2> QED BY <2>1, <2>3, <2>4 DEF Program
<1>2. CallOk' /\ ~Served'
  BY <1>1 DEF CallOk, Served
<1>3. InOp' = InOp /\ Started' = Started /\ Ended' = Ended
  BY DEF InOp, Started, Ended
<1>4. user.steps # <<>> /\ user.steps \in Seq(Seq(Int))
  BY <1>1 DEF OpInv, CallOk, MemInv, UserType
<1>5. /\ IsMaster(mdio)' /\ IsPhy(phy)' /\ (user.regs \in PhyRegFiles)'
      /\ Between \/ (InOp /\ Stage = 4 /\ ~Run(Shown(MDIO_CR))) =>
             /\ mdio'.state = "idle_s" /\ Quiet(phy')
             /\ phy'.regs = phy.regs
      /\ InOp /\ (Stage = 3 \/ (Stage = 4 /\ Run(Shown(MDIO_CR)))) =>
             \/ Active(mdio', phy', user.op, user.regs)
             \/ Finished(mdio', phy', user.op, user.regs)
      /\ InOp /\ Stage \in 0 .. 3
         /\ Finished(mdio, phy, user.op, user.regs) =>
             Finished(mdio', phy', user.op, user.regs)
  BY FrameStep DEF OpInv, PhyRegFiles
<1>6. StepsOk /\ RegsOk /\ FrameOk /\ PipeOk /\ ReadOk
  BY DEF OpInv
<1> DEFINE v == Kept(MDIO_CR)
<1>7. /\ Shown(MDIO_CR) = v /\ CrOk(v) /\ (mdio'.run_d2 <=> Run(v))
  <2>1. Shown(MDIO_CR) = v /\ (mdio'.run_d2 <=> Run(v))
    BY <1>1, Settled DEF MdioRegs
  <2> QED BY <1>6, <2>1 DEF RegsOk
<1> HIDE DEF v
<1>8. CASE ~InOp
  <2>1. user.op = NoOperation /\ user'.steps = <<>>
    <3>1. /\ user.op = NoOperation
          /\ user.steps = << <<Control(MDIODIV_CR), DIVIDER>> >>
      BY <1>4, <1>6, <1>8 DEF StepsOk
    <3> QED BY <3>1
  <2>2. StepsOk'
    BY <2>1 DEF StepsOk
  <2>3. Between /\ Between' /\ ~Run(v) /\ ~InOp'
    BY <1>3, <1>7, <1>8 DEF Between, CrOk
  <2>4. RegsOk' /\ PipeOk'
    BY <1>1, <2>3, SettledPipe DEF v
  <2>5. FrameOk'
    BY <1>5, <1>6, <1>8, <2>3 DEF FrameOk
  <2>6. ReadOk'
    BY <2>3 DEF ReadOk
  <2> QED BY <1>2, <1>5, <2>2, <2>4, <2>5, <2>6 DEF OpInv
<1>9. CASE InOp
  <2>1. /\ Stage \in 1 .. 6
        /\ Stage = 6 => Kept(MDIODEVAD_CR) = user.op.dev
        /\ Stage = 5 => Kept(MDIODATALO_CR) = user.op.data
        /\ Stage = 4 => v = Started
        /\ Stage = 3 => Finished(mdio, phy, user.op, user.regs)
        /\ Stage = 2 => prog.args = <<StatusOf(MDIODATALO_SR)>>
        /\ Stage = 2 /\ Reads(user.op.cop) =>
               prog.data = user.regs[user.op.dev]
        /\ Stage = 1 => v = Ended
        /\ Stage # 2 => prog.args # <<StatusOf(MDIODATALO_SR)>>
    <3>1. Stage = 3 => prog.args = <<StatusOf(MDIO_SR)>>
      BY <1>1, <1>9, CallHasDone
    <3>2. Stage = 3 => prog.data % 2 # 1
      BY <3>1
    <3> HIDE DEF Stage
    <3> QED BY <1>1, <1>9, <3>2, CallHasDone DEF v
  <2>2. Stage' = Stage - 1 /\ \A i \in 1 .. Stage - 1 : user'.steps[i] = user.steps[i + 1]
    BY <1>4, <2>1 DEF Stage
  <2>3. StepsOk'
    <3>1. \A i \in 1 .. Stage : user.steps[i] = Steps(user.op)[6 - Stage + i]
      BY <1>6, <1>9, OpFacts DEF StepsOk
    <3>2. ASSUME NEW i \in 1 .. Stage'
          PROVE  user'.steps[i] = Steps(user.op)[6 - Stage' + i]
      <4> HIDE DEF Stage
      <4>1. i \in 1 .. Stage - 1 /\ i + 1 \in 1 .. Stage
        BY <2>1, <2>2
      <4>2. 6 - Stage' + i = 6 - Stage + (i + 1)
        BY <2>1, <2>2, <4>1
      <4> QED BY <2>2, <3>1, <4>1, <4>2
    <3>3. Stage' \in 0 .. 6
      BY <2>1, <2>2
    <3>4. \A i \in 1 .. Stage' : user'.steps[i] = Steps(user'.op)[6 - Stage' + i]
      BY <3>2 DEF Steps, Control, StatusOf, Index, Cr
    <3> HIDE DEF Stage
    <3> QED BY <1>3, <1>9, <3>3, <3>4 DEF StepsOk
  <2> HIDE DEF Stage
  <2>4. Between' <=> Stage' \in {0, 5}
    BY <1>3, <1>9, <2>1, <2>2 DEF Between
  <2>5. RegsOk' /\ PipeOk'
    <3>1. Run(Started) /\ ~Run(Ended)
      BY <1>9, OpFacts
    <3>2. Between' => ~Run(v)
      BY <1>7, <2>1, <2>2, <2>4, <3>1 DEF CrOk, Between
    <3>3. InOp' /\ Stage' = 4 => ~Run(v) \/ v = Started'
      BY <1>7, <2>1, <2>2 DEF CrOk, Between
    <3>4. InOp' /\ Stage' \in {1, 2, 3} => v = Started'
      BY <1>3, <1>7, <1>9, <2>1, <2>2 DEF CrOk
    <3>5. /\ InOp' /\ Stage' \in 0 .. 5 => Kept(MDIODEVAD_CR) = user'.op.dev
          /\ InOp' /\ Stage' \in 0 .. 4 => Kept(MDIODATALO_CR) = user'.op.data
      BY <1>6, <1>9, <2>1, <2>2 DEF RegsOk
    <3>6. InOp' /\ Stage' \in {2, 3} => Run(v)
      BY <1>3, <3>1, <3>4
    <3> QED BY <1>1, <3>2, <3>3, <3>4, <3>5, <3>6, SettledPipe DEF v
  <2>6. FrameOk'
    <3>1. Run(Started) /\ ~Run(Ended)
      BY <1>9, OpFacts
    <3>2. Stage' = 5 \/ Stage' = 4 =>
              /\ mdio'.state = "idle_s" /\ Quiet(phy') /\ phy'.regs = user.regs
      BY <1>5, <1>6, <1>9, <2>1, <2>2 DEF FrameOk, Between
    <3>3. Stage' = 4 => ~mdio'.run_d2
      BY <1>7, <1>9, <2>1, <2>2 DEF CrOk, Between
    <3>4. Stage' = 3 => \/ Active(mdio', phy', user.op, user.regs)
                        \/ Finished(mdio', phy', user.op, user.regs)
      BY <1>5, <1>7, <1>9, <2>1, <2>2, <3>1
    <3>5. Stage' \in 0 .. 2 => Finished(mdio', phy', user.op, user.regs)
      <4>1. Stage \in {1, 2} => Finished(mdio, phy, user.op, user.regs)
        BY <1>6, <1>9 DEF FrameOk
      <4> QED BY <1>5, <1>9, <2>1, <2>2, <4>1
    <3> QED BY <1>3, <1>9, <2>1, <2>2, <3>2, <3>3, <3>4, <3>5 DEF FrameOk
  <2>7. ReadOk'
    <3>1. Stage' \in 0 .. 1 /\ Reads(user.op.cop) =>
              user'.result = user.regs[user.op.dev]
      BY <1>6, <1>9, <2>1, <2>2 DEF ReadOk
    <3> QED BY <1>1, <1>2, <1>3, <3>1 DEF ReadOk
  <2> QED BY <1>2, <1>5, <2>3, <2>5, <2>6, <2>7 DEF OpInv
<1> QED BY <1>8, <1>9

\* The first step of an operation, on a line where all is quiet.
LEMMA FirstStage ==
    ASSUME MemInv, MemInv', OpInv, OthersElsewhere, Hardware, BeginOperation
    PROVE  OpInv'
<1>1. /\ prog.pc = "idle" /\ prog' = prog /\ user.steps = <<>> /\ Program
  BY DEF BeginOperation, Program, Done
<1>2. PICK op \in OPERATIONS :
          user' = [user EXCEPT !.steps = Steps(op), !.op = op, !.regs = phy.regs]
  BY DEF BeginOperation
<1>3. /\ user'.steps = Steps(op) /\ user'.op = op /\ user'.regs = phy.regs
      /\ user'.other = user.other /\ ~user.other
  BY <1>1, <1>2 DEF MemInv, UserType, OpInv, CallOk
<1>4. Len(Steps(op)) = 6
  BY StepsAreCalls
<1>5. InOp' /\ Stage' = 6 /\ Between' /\ Between
  BY <1>1, <1>3, <1>4 DEF InOp, Stage, Between
<1>6. StepsOk'
  <2>1. \A i \in 1 .. 6 : 6 - 6 + i = i
    OBVIOUS
  <2>2. \A i \in 1 .. 6 : user'.steps[i] = Steps(user'.op)[6 - 6 + i]
    BY <1>3, <2>1
  <2>3. \A i \in 1 .. Stage' : user'.steps[i] = Steps(user'.op)[6 - Stage' + i]
    BY <1>5, <2>2
  <2> HIDE DEF Stage
  <2> QED BY <1>5, <2>3 DEF StepsOk, Steps, Control, StatusOf, Index, Cr
<1>7. CallOk' /\ ~Served' /\ prog'.pc # "bus"
  BY <1>1, <1>3 DEF CallOk, Served
<1>8. /\ IsMaster(mdio)' /\ IsPhy(phy)' /\ mdio'.state = "idle_s"
      /\ Quiet(phy') /\ phy'.regs = phy.regs
  BY <1>5, FrameStep
<1>9. (user.regs \in PhyRegFiles)'
  BY <1>3 DEF OpInv, IsPhy, PhyRegFiles
<1> DEFINE v == Kept(MDIO_CR)
<1>10. ~Run(v)
  BY <1>5 DEF OpInv, RegsOk, CrOk
<1> HIDE DEF v, Stage
<1>11. RegsOk' /\ PipeOk'
  BY <1>1, <1>3, <1>5, <1>10, SettledPipe DEF v
<1>12. FrameOk'
  BY <1>3, <1>5, <1>8 DEF FrameOk
<1>13. ReadOk'
  BY <1>5 DEF ReadOk
<1> QED BY <1>6, <1>7, <1>8, <1>9, <1>11, <1>12, <1>13 DEF OpInv

LEMMA OpInit == Init => OpInv
<1> SUFFICES ASSUME Init PROVE OpInv
  OBVIOUS
<1> USE DEF Init
<1>1. /\ prog.pc = "idle" /\ user.op = NoOperation /\ user.regs = PHY_REGS
      /\ user.steps = << <<Control(MDIODIV_CR), DIVIDER>> >>
      /\ user.other = FALSE /\ ~csr.wr_en
  BY DEF Idle, BridgeInit
<1>2. ~InOp /\ Between /\ ~Served
  <2>1. ~InOp
    BY <1>1, OpFacts
  <2> QED BY <1>1, <2>1 DEF Between, Served
<1>3. /\ mdio.state = "idle_s" /\ mdio.run_d1 = FALSE /\ mdio.run_d2 = FALSE
      /\ mdio.run_d3 = FALSE /\ mdio.mdc = FALSE /\ mdio.mdc_r = FALSE
      /\ mdio.rcvdata = 0
  BY DEF MdioInit
<1>4. phy = [regs |-> PHY_REGS, bits |-> 0, cop |-> 0, dev |-> 0,
             shift |-> 0, out |-> 2]
  BY DEF MdioInit
<1>5. IsMaster(mdio)
  <2>1. mdio.mdc \in BOOLEAN /\ mdio.mdc_r \in BOOLEAN
    BY <1>3
  <2>2. mdio.rcvdata \in Nat
    BY <1>3
  <2> QED BY <2>1, <2>2 DEF IsMaster
<1>6. PHY_REGS \in PhyRegFiles
  BY MdioAssumption DEF MdioAssumption, PhyRegFiles
<1>7. IsPhy(phy) /\ Quiet(phy) /\ phy.regs = PHY_REGS
  BY <1>4, <1>6, FrameParts DEF IsPhy, Quiet
<1>8. /\ Kept(MDIO_CR) = 0 /\ Shown(MDIO_CR) = 0 /\ Coming(MDIO_CR) = 0
  <2>1. /\ PHY \in Files /\ MDIO_CR \in 0 .. CTRL_CNT[PHY] - 1
        /\ Control(MDIO_CR) \in Addresses
    BY MdioReg DEF MdioRegs
  <2>2. Kept(MDIO_CR) = 0
    BY <2>1 DEF Kept, Addresses
  <2>3. Shown(MDIO_CR) = 0
    BY <2>1 DEF Shown, RegFilesInit
  <2>4. CtrlRegsNext(csr) = ctrl_regs
    BY <1>1 DEF CtrlRegsNext
  <2> QED BY <2>2, <2>3, <2>4 DEF Shown, Coming
<1>9. ~Run(0)
  <2>1. 2^1 = 2
    OBVIOUS
  <2> QED BY <2>1 DEF Run, Bit
<1>10. StepsOk /\ CallOk
  BY <1>1 DEF StepsOk, CallOk
<1>11. RegsOk /\ PipeOk
  BY <1>2, <1>3, <1>8, <1>9 DEF RegsOk, CrOk, PipeOk
<1>12. FrameOk /\ ReadOk
  BY <1>1, <1>2, <1>3, <1>7 DEF FrameOk, ReadOk
<1> QED BY <1>1, <1>5, <1>6, <1>7, <1>10, <1>11, <1>12 DEF OpInv

LEMMA OpStutter == OpInv /\ UNCHANGED vars => OpInv'
<1> SUFFICES ASSUME OpInv, UNCHANGED vars PROVE OpInv'
  OBVIOUS
<1> USE DEF vars, bridgeVars
<1>1. /\ InOp' = InOp /\ Stage' = Stage /\ Between' = Between
      /\ Started' = Started /\ Ended' = Ended /\ Served' = Served
  BY DEF InOp, Stage, Between, Started, Ended, Served
<1>2. \A i : Shown(i)' = Shown(i) /\ Coming(i)' = Coming(i) /\ Kept(i)' = Kept(i)
  BY DEF Shown, Coming, Kept, CtrlRegsNext
<1>3. IsMaster(mdio)' /\ IsPhy(phy)' /\ (user.regs \in PhyRegFiles)'
  BY DEF OpInv
<1>4. StepsOk' /\ CallOk'
  BY <1>1 DEF OpInv, StepsOk, CallOk
<1>5. \A v : CrOk(v)' <=> CrOk(v)
  BY <1>1 DEF CrOk
<1>6. RegsOk' /\ PipeOk'
  BY <1>1, <1>2, <1>5 DEF OpInv, RegsOk, PipeOk, CrOk, Run
<1>7. FrameOk'
  BY <1>1 DEF OpInv, FrameOk
<1>8. ReadOk'
  <2>1. StatusSeen' = StatusSeen
    BY DEF StatusSeen
  <2>2. /\ Carried(StatusSeen)' <=> Carried(StatusSeen)
        /\ Carried({user.regs[user.op.dev]})' <=>
               Carried({user.regs[user.op.dev]})
    BY <2>1 DEF Carried, InRead, At, reg_idx
  <2> QED BY <1>1, <2>1, <2>2 DEF OpInv, ReadOk
<1> QED BY <1>3, <1>4, <1>6, <1>7, <1>8 DEF OpInv

LEMMA OpNext ==
    ASSUME OthersElsewhere
    PROVE  MemInv /\ MemInv' /\ OpInv /\ [Next]_vars => OpInv'
<1> SUFFICES ASSUME MemInv, MemInv', OpInv, [Next]_vars PROVE OpInv'
  OBVIOUS
<1>1. CASE Hardware /\ BeginOperation
  BY <1>1, FirstStage
<1>2. CASE Hardware /\ Return
  <2>1. ~BeginOperation
    BY <1>2 DEF Return, BeginOperation
  <2>2. Program
    BY <1>2 DEF Return, Program, Done
  <2>3. /\ user'.op = user.op /\ user'.regs = user.regs
        /\ \/ user'.steps = user.steps /\ user'.result = user.result
           \/ /\ ~user.other /\ prog.return_code = "0"
              /\ ~(prog.args = <<StatusOf(MDIO_SR)>> /\ prog.data % 2 = 1)
              /\ user'.steps = Tail(user.steps)
              /\ user'.result = IF prog.args = <<StatusOf(MDIODATALO_SR)>>
                                THEN prog.data ELSE user.result
    BY <1>2, ReturnIs DEF MemInv
  <2> QED BY <1>2, <2>1, <2>2, <2>3, SameOp, NextStage
<1>3. CASE Hardware /\ (Program \/ NoCall) /\ ~BeginOperation /\ ~Return
  <2>1. user'.steps = user.steps /\ user'.result = user.result
    BY <1>3 DEF Program, NoCall, Answer16, SystemCall, CallNext, CallOther,
                MemInv, UserType
  <2> QED BY <1>3, <2>1, SameOp
<1>4. CASE UNCHANGED vars
  BY <1>4, OpStutter
<1> QED BY <1>1, <1>2, <1>3, <1>4 DEF Next, Work, Wait

LEMMA OpAlways == Spec => [](MemInv /\ OpInv)
<1>0. OthersElsewhere
  BY OtherCallsAssumption DEF OtherCallsAssumption, OthersElsewhere, MdioRegs
<1>1. Init => MemInv /\ OpInv
  BY MemInit, OpInit
<1>2. MemInv /\ OpInv /\ [Next]_vars => (MemInv /\ OpInv)'
  BY <1>0, MemNext, OpNext
<1> QED BY <1>1, <1>2, PTL DEF Spec

\* Master and PHY never drive the line at the same time: a master that drives
\* it is in a frame, and the PHY answers in the part of one of which the
\* master has let go (mdio.v:100, 141-153).
THEOREM OneDrives == Spec => []OneDrivesTheLine
<1>1. MemInv /\ OpInv => OneDrivesTheLine
  <2> SUFFICES ASSUME MemInv, OpInv PROVE OneDrivesTheLine
    OBVIOUS
  <2>1. \/ mdio.state = "idle_s"
        \/ InOp /\ Active(mdio, phy, user.op, user.regs)
    <3>1. InOp => Stage \in 0 .. 6
      BY OpFacts DEF OpInv, StepsOk
    <3> HIDE DEF Stage
    <3> QED BY <3>1 DEF OpInv, FrameOk, Finished
  <2>2. ASSUME InOp, Active(mdio, phy, user.op, user.regs)
        PROVE  ~(mdoen(mdio) /\ Drives(phy))
    BY <2>2, OpFacts, ActiveLine DEF OpInv
  <2> QED BY <2>1, <2>2 DEF OneDrivesTheLine, mdoen
<1>2. Spec => [](MemInv /\ OpInv)
  BY OpAlways
<1> QED BY <1>1, <1>2, PTL

\* An operation on the PHY that the user has seen through did what it says:
\* a status that shows no busy says that the frame has come to its end, and
\* nothing that failed or was called in between begins another
\* (mdio.v:115-169, mdio_wrapper.sv:91-95, main.c).
THEOREM OperationsDone == Spec => []OperationsAreDone
<1>1. MemInv /\ OpInv => OperationsAreDone
  <2> SUFFICES ASSUME MemInv, OpInv, user.steps = <<>>, user.op # NoOperation
               PROVE  /\ Reads(user.op.cop) =>
                             user.result = user.regs[user.op.dev]
                      /\ phy.regs = After(user.op, user.regs)
    BY DEF OperationsAreDone, After
  <2>1. InOp /\ Stage = 0
    BY DEF OpInv, StepsOk, Stage
  <2> QED BY <2>1 DEF OpInv, FrameOk, Finished, ReadOk
<1>2. Spec => [](MemInv /\ OpInv)
  BY OpAlways
<1> QED BY <1>1, <1>2, PTL
=============================================================================
