------------------------------ MODULE Registers ------------------------------
(***************************************************************************)
(* A user who works the registers with reg16: he reads and writes the      *)
(* registers of the PHY through the MDIO master, and calls reg16 for other *)
(* registers, and wrongly, in between.  A step is an edge of the system    *)
(* clock, with the two edges of the clock of mdio.v (from the same PLL)    *)
(* that fall to it, and at most one system call of reg16, which takes      *)
(* longer than that.                                                       *)
(***************************************************************************)
EXTENDS RegBridge, RegFiles, Reg16, Mdio

CONSTANTS DIVIDER,                  \* what the user sets the divider to
          OPERATIONS,               \* on the PHY: [cop, dev, data]
          OTHER_CALLS,              \* arguments of other calls
          MAX_OPERATIONS, MAX_OTHER, MAX_FAILS      \* bounds

\* The local numbers of the PHY's control and status registers.
MDIO_CR == 0
MDIODEVAD_CR == 1
MDIODATALO_CR == 2
MDIODIV_CR == 3
MDIO_SR == 0
MDIODATALO_SR == 1

ASSUME RegistersAssumption ==
    /\ \A k \in 1 .. Len(BASE_ADDR) - 1 : BASE_ADDR[k] < BASE_ADDR[k + 1]
    /\ Files = {FPGA_ID, PHY, NIC_CTRL} /\ BASE_ADDR[1] = 0
    /\ BASE_ADDR[Len(BASE_ADDR)] <= CSR_WORDS
    /\ 2 * CSR_WORDS <= MAP_SIZE
    /\ CTRL_CNT[FPGA_ID] > FPGA_ID_CR /\ CTRL_CNT[PHY] > MDIODIV_CR
    /\ BASE_ADDR[PHY] + CTRL_CNT[PHY] + MDIODATALO_SR < BASE_ADDR[PHY + 1]
    /\ OTHER_CALLS \subseteq Seq(Int)
    /\ DIVIDER \in 2 .. MDC_MAX - 1
    /\ OPERATIONS \subseteq
           [cop : 1 .. 2, dev : DOMAIN PHY_REGS, data : 0 .. 2^DATA - 1]

VARIABLES
    user,       \* [steps: calls still to be made, op, result]
    memory,     \* history: what was last stored for an index of a register
    left        \* of the bounds

vars == <<bridgeVars, ctrl_regs, rom_addr, prog, mdio, phy, user, memory,
          left>>

Idle == [pc |-> "idle", args |-> <<>>, return_code |-> "0", data |-> 0]

Index(f, r) == BASE_ADDR[f] + r
Control(r) == Index(PHY, r)
StatusOf(r) == Index(PHY, CTRL_CNT[PHY] + r)

\* Between the calls of an operation the user makes none that writes a
\* register the operation is told by: such a call would change the operation.
ASSUME OtherCallsAssumption ==
    \A args \in OTHER_CALLS : Len(args) = 2 =>
        \A r \in {MDIO_CR, MDIODEVAD_CR, MDIODATALO_CR} :
            args[1] % CSR_WORDS # Control(r)

\* MDIO_CR with its fields run and cop.
Cr(run, cop) == 2 * run + 4 * cop

\* External: the calls that do an operation, after the comments of
\* mx_phy_regs.vh, with the one that is repeated while MDIO_SR shows busy.
Steps(op) ==
    << <<Control(MDIODEVAD_CR), op.dev>>,
       <<Control(MDIODATALO_CR), op.data>>,
       <<Control(MDIO_CR), Cr(1, op.cop)>>,
       <<StatusOf(MDIO_SR)>>,
       <<StatusOf(MDIODATALO_SR)>>,
       <<Control(MDIO_CR), Cr(0, op.cop)>> >>

NoOperation == [cop |-> 0, dev |-> 0, data |-> 0]

(***************************************************************************)
(* The hardware.                                                           *)
(***************************************************************************)
In(regs) ==
    LET r == regs[PHY]
    IN  [run |-> Bit(r[MDIO_CR], 1) = 1, cop |-> r[MDIO_CR] \div 4,
         dev |-> r[MDIODEVAD_CR], data |-> r[MDIODATALO_CR],
         divider |-> r[MDIODIV_CR]]

\* The status registers: the MDIO master's; the others read as 0.
status(f, r) ==
    CASE f = PHY /\ r = MDIO_SR ->
             (IF busy(mdio) THEN 1 ELSE 0) + (IF mdio.data_val THEN 2 ELSE 0)
      [] f = PHY /\ r = MDIODATALO_SR -> data_o(mdio)
      [] OTHER -> 0

\* External: how the interconnect puts a 16-bit access on the wide bus.
Request ==
    IF prog.pc # "bus" THEN NoRequest
    ELSE [kind |-> IF Writes(prog) THEN "write" ELSE "read",
          addr |-> 4 * (reg_idx(prog) \div 2),
          data |-> [h \in 0 .. 1 |-> IF Writes(prog) THEN prog.args[2]
                                                     ELSE 0],
          be |-> [h \in 0 .. 1 |-> h = reg_idx(prog) % 2]]

Hardware ==
    /\ BridgeEdge(Request, rd_data(csr.addr, status))
    /\ RegFilesEdge(csr)
    /\ LET pair == MdioEdge(MdioEdge(<<mdio, phy>>, In(ctrl_regs)),
                            In(CtrlRegsNext(csr)))
       IN  mdio' = pair[1] /\ phy' = pair[2]

(***************************************************************************)
(* The program and its user.                                               *)
(***************************************************************************)
\* The access is over on the edge on which the bus does not wait.
Done == prog.pc = "bus" /\ ~wide_waitrequest(Request)

\* The registers behind CSR_WORDS are the same ones again.
Named == reg_idx(prog) % CSR_WORDS

Answer16 ==
    /\ Answered(IF Writes(prog) THEN 0
                ELSE wide_readdata[reg_idx(prog) % 2])
    /\ memory' = IF Writes(prog)
                 THEN [memory EXCEPT ![Named] = prog.args[2]] ELSE memory
    /\ UNCHANGED <<user, left>>

SystemCall ==
    \E ok \in BOOLEAN :
        /\ ~ok => left.fails > 0
        /\ Call(ok)
        /\ left' = IF ok THEN left ELSE [left EXCEPT !.fails = @ - 1]
        /\ UNCHANGED <<user, memory>>

\* reg16 is called for the next step, or for something else.
CallNext ==
    /\ prog.pc = "idle" /\ user.steps # <<>>
    /\ prog' = Called(Head(user.steps))
    /\ UNCHANGED <<user, memory, left>>

CallOther ==
    /\ prog.pc = "idle" /\ left.other > 0
    /\ \E args \in OTHER_CALLS : prog' = Called(args)
    /\ user' = [user EXCEPT !.other = TRUE]
    /\ left' = [left EXCEPT !.other = @ - 1]
    /\ UNCHANGED memory

\* reg16 has ended.  A step that failed is made again, as is a look at
\* MDIO_SR that shows busy; of another call nothing is expected.
Return ==
    /\ prog.pc = "exited"
    /\ prog' = Idle
    /\ LET again == \/ user.other \/ prog.return_code # "0"
                    \/ prog.args = <<StatusOf(MDIO_SR)>> /\ prog.data % 2 = 1
           got   == prog.args = <<StatusOf(MDIODATALO_SR)>>
       IN  user' = [user EXCEPT
                       !.other = FALSE,
                       !.steps = IF again THEN @ ELSE Tail(@),
                       !.result = IF ~again /\ got THEN prog.data ELSE @]
    /\ UNCHANGED <<memory, left>>

BeginOperation ==
    /\ prog.pc = "idle" /\ user.steps = <<>> /\ left.operations > 0
    /\ \E op \in OPERATIONS :
           user' = [user EXCEPT !.steps = Steps(op), !.op = op,
                                !.regs = phy.regs]
    /\ left' = [left EXCEPT !.operations = @ - 1]
    /\ UNCHANGED <<prog, memory>>

Program ==
    IF Done THEN Answer16
    ELSE SystemCall \/ CallNext \/ CallOther \/ Return \/ BeginOperation

\* An edge without a step of the program.  Only the access meets the hardware,
\* so the time that passes before and after it is put at one place.
NoCall ==
    /\ \/ prog.pc = "access"
       \/ prog.pc = "bus" /\ ~Done
       \/ prog.pc = "idle" /\ user.steps = <<>>
    /\ UNCHANGED <<prog, user, memory, left>>

Init ==
    /\ BridgeInit /\ RegFilesInit /\ MdioInit
    /\ prog = Idle
    /\ user = [steps |-> << <<Control(MDIODIV_CR), DIVIDER>> >>,
               other |-> FALSE, op |-> NoOperation, result |-> 0,
               regs |-> PHY_REGS]
    /\ memory = [i \in 0 .. CSR_WORDS - 1 |-> 0]
    /\ left = [operations |-> MAX_OPERATIONS, other |-> MAX_OTHER,
               fails |-> MAX_FAILS]

Work == Hardware /\ Program
Wait == Hardware /\ NoCall
Next == Work \/ Wait
Spec == Init /\ [][Next]_vars

CanWork ==
    CASE prog.pc = "bus" -> Done
      [] prog.pc = "idle" -> \/ user.steps # <<>>
                             \/ left.operations > 0 \/ left.other > 0
      [] OTHER -> TRUE

\* The clock does not stop, and reg16 does not stay for ever where it can go
\* on: weak fairness of Work, with its ENABLED written out.
FairSpec == /\ Spec /\ []<><<Next>>_vars
            /\ []<>~CanWork \/ []<><<Work>>_vars

(***************************************************************************)
(* Properties.                                                             *)
(***************************************************************************)
\* The index of a control register that can be reached.
IsControl(i) ==
    \E f \in Files : /\ i \in BASE_ADDR[f] .. BASE_ADDR[f + 1] - 1
                    /\ i - BASE_ADDR[f] < CTRL_CNT[f]

\* The registers are a memory of 16-bit words: when reg16 is not at one of
\* them every control register holds what was last stored for its index, with
\* its neighbour in the 32-bit word left alone, and what reg16 reads there is
\* that; the first register of the FPGA's identity is the word of the ROM at
\* the address stored last, and behind the last file all is 0
\* (avalon_width_adapter.sv:144, avalon_mm_to_csr_if.sv:113,
\* csr_addr_decoder.sv:80, regfile_with_be.sv:74, main.c:65-83).
RegistersAreMemory ==
    /\ prog.pc # "bus" /\ ~csr.wr_en =>
           \A f \in Files, r \in 0 .. CSR_WORDS - 1 :
               r < CTRL_CNT[f] => ctrl_regs[f][r] = memory[Index(f, r)]
    /\ prog.pc = "MUNMAP" /\ prog.return_code = "0" /\ ~Writes(prog) =>
           /\ Named = FPGA_ID_RD_DATA =>
                  prog.data = ROM[memory[Index(FPGA_ID, FPGA_ID_CR)]]
           /\ Named >= BASE_ADDR[Len(BASE_ADDR)] => prog.data = 0
           /\ IsControl(Named) /\ Named # FPGA_ID_RD_DATA =>
                  prog.data = memory[Named]

\* An operation on the PHY that the user has seen through did what it says: a
\* read returned the register of the PHY, a write changed that register and no
\* other, whatever failed and was called again in between, although run is
\* seen by mdio.v three edges late and busy says nothing until then
\* (mdio.v:115-169, mdio_wrapper.sv:91-95, main.c).
OperationsAreDone ==
    user.steps = <<>> /\ user.op # NoOperation =>
        /\ Reads(user.op.cop) => user.result = user.regs[user.op.dev]
        /\ phy.regs = IF Reads(user.op.cop) THEN user.regs
                      ELSE [user.regs EXCEPT ![user.op.dev] = user.op.data]

\* Master and PHY never drive the line at the same time: the master gives it
\* up for the turn-around of a read and has it again only when the PHY has
\* seen its frame to the end (mdio.v:100, 141-153).
OneDrivesTheLine == ~(mdoen(mdio) /\ Drives(phy))

\* Every operation comes to its end: no call of reg16 is left waiting by the
\* bridge, and busy falls (mdio.v:115-169, avalon_mm_to_csr_if.sv:113-125).
OperationsEnd == (user.steps # <<>>) ~> (user.steps = <<>>)
=============================================================================
