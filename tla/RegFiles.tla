------------------------------- MODULE RegFiles -------------------------------
(***************************************************************************)
(* The register files behind csr_if: csr_addr_decoder.sv chooses a file by *)
(* the bases of mx_anlz_csr_to_if.sv, regfile_with_be.sv keeps the control *)
(* registers of a file and passes its status registers on.  The file of    *)
(* the FPGA's identity answers for its first register with a word of the   *)
(* version ROM.                                                            *)
(***************************************************************************)
EXTENDS Naturals, Sequences, FiniteSetsExt

CONSTANTS BASE_ADDR,      \* of each file, and the end of the last
          CTRL_CNT,       \* how many control registers each has
          ROM             \* the words of the version ROM

FPGA_ID == 1
PHY == 2
NIC_CTRL == 3
Files == 1 .. Len(BASE_ADDR) - 1

\* The control registers of a file end before the next file.
ASSUME RegFilesAssumption ==
    /\ BASE_ADDR \in Seq(Nat) /\ CTRL_CNT \in Seq(Nat)
    /\ Len(CTRL_CNT) = Len(BASE_ADDR) - 1
    /\ \A f \in Files : BASE_ADDR[f] + CTRL_CNT[f] <= BASE_ADDR[f + 1]

FPGA_ID_RD_DATA == 0
FPGA_ID_CR == 1

VARIABLES
    ctrl_regs,            \* of each file
    rom_addr              \* the address the ROM has taken

\* The file of an address, 0 behind the last one.
selected(addr) ==
    LET mask == {f \in Files : addr < BASE_ADDR[f + 1]}
    IN  IF mask = {} THEN 0 ELSE Min(mask)

LocalAddr(addr) == addr - BASE_ADDR[selected(addr)]

status_is_sel(addr) == LocalAddr(addr) >= CTRL_CNT[selected(addr)]

\* status is the status register the file shows for a number.
rd_data(addr, status(_, _)) ==
    LET f == selected(addr)
    IN  IF f = 0 THEN 0
        ELSE IF f = FPGA_ID /\ LocalAddr(addr) = FPGA_ID_RD_DATA
        THEN ROM[rom_addr]
        ELSE IF status_is_sel(addr)
        THEN status(f, LocalAddr(addr) - CTRL_CNT[f])
        ELSE ctrl_regs[f][LocalAddr(addr)]

CtrlRegsNext(csr) ==
    IF /\ csr.wr_en /\ csr.be
       /\ selected(csr.addr) # 0 /\ ~status_is_sel(csr.addr)
    THEN [ctrl_regs EXCEPT
              ![selected(csr.addr)][LocalAddr(csr.addr)] = csr.wr_data]
    ELSE ctrl_regs

RegFilesEdge(csr) ==
    /\ ctrl_regs' = CtrlRegsNext(csr)
    /\ rom_addr' = ctrl_regs[FPGA_ID][FPGA_ID_CR]

\* rst_i of every file is tied low: the power-up value is all there is.
RegFilesInit ==
    /\ ctrl_regs = [f \in Files |-> [r \in 0 .. CTRL_CNT[f] - 1 |-> 0]]
    /\ rom_addr = 0
=============================================================================
