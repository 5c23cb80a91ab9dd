------------------------------ MODULE RegBridge ------------------------------
(***************************************************************************)
(* avalon_width_adapter.sv and avalon_mm_to_csr_if.sv: an access of the    *)
(* processor's bus, 32 bits wide, becomes two accesses to registers of 16  *)
(* bits, one after the other.  What the two halves of a word are enabled   *)
(* for is kept whole: no access is narrower than a register.               *)
(***************************************************************************)
EXTENDS Naturals

CONSTANT CSR_WORDS         \* 2^A_WIDTH of csr_if: the registers it can name

ASSUME RegBridgeAssumption == CSR_WORDS \in Nat \ {0}

VARIABLES
    state,                 \* of the adapter
    saved,                 \* wide_*_d1
    takt_cnt, rd_takt_cnt,
    read_is_finished,      \* read_is_finished[1]
    wide_readdata,
    csr_waitreq_cnt,
    csr,                   \* main_reg_csr_if
    regs_rdata

bridgeVars == <<state, saved, takt_cnt, rd_takt_cnt, read_is_finished,
                wide_readdata, csr_waitreq_cnt, csr, regs_rdata>>

WIDTH_RATIO == 2
CSR_READ_CYCLES == 2

\* A request on the bus: addr counts bytes, and is that of a 32-bit word;
\* data and be are of its two halves.
NoRequest == [kind |-> "none", addr |-> 0,
              data |-> [h \in 0 .. 1 |-> 0], be |-> [h \in 0 .. 1 |-> FALSE]]

next_state(req) ==
    CASE state = "IDLE_S" -> CASE req.kind = "read" -> "READ_S"
                               [] req.kind = "write" -> "WRITE_S"
                               [] OTHER -> "IDLE_S"
      [] state = "READ_S" -> IF read_is_finished THEN "IDLE_S" ELSE state
      [] state = "WRITE_S" ->
             IF takt_cnt = WIDTH_RATIO - 1 THEN "IDLE_S" ELSE state

wide_waitrequest(req) == next_state(req) # "IDLE_S"

Begins(req) == state = "IDLE_S" /\ wide_waitrequest(req)
Held(req) == IF Begins(req) THEN req ELSE saved

narrow_write(req) == "WRITE_S" \in {state, next_state(req)}
narrow_read(req) ==
    "READ_S" \in {state, next_state(req)} /\ takt_cnt < WIDTH_RATIO
narrow_address(req) == Held(req).addr \div 2 + takt_cnt

regs_dv == csr_waitreq_cnt = CSR_READ_CYCLES
regs_wait_req(req) == narrow_read(req) /\ ~regs_dv

\* The half that is under way; past the last one nothing is asked for.
Half == takt_cnt % WIDTH_RATIO

\* Mutant: every half of a word is written.
csrAllBytes(req) ==
    [addr |-> narrow_address(req) % CSR_WORDS, be |-> TRUE,
     wr_data |-> Held(req).data[Half], wr_en |-> narrow_write(req)]

CsrNext(req) ==
    [addr |-> narrow_address(req) % CSR_WORDS, be |-> Held(req).be[Half],
     wr_data |-> Held(req).data[Half], wr_en |-> narrow_write(req)]

\* rd_data is what the registers answer to csr.
BridgeEdge(req, rd_data) ==
    /\ state' = next_state(req)
    /\ saved' = Held(req)
    /\ takt_cnt' = IF ~wide_waitrequest(req) THEN 0
                   ELSE IF regs_wait_req(req) \/ takt_cnt = WIDTH_RATIO
                   THEN takt_cnt ELSE takt_cnt + 1
    /\ rd_takt_cnt' = IF next_state(req) # "READ_S" THEN 0
                      ELSE IF regs_dv THEN (rd_takt_cnt + 1) % WIDTH_RATIO
                      ELSE rd_takt_cnt
    /\ read_is_finished' = (/\ regs_dv /\ rd_takt_cnt = WIDTH_RATIO - 1
                            /\ state = "READ_S")
    /\ wide_readdata' = [wide_readdata EXCEPT ![rd_takt_cnt] = regs_rdata]
    /\ csr_waitreq_cnt' =
           IF regs_wait_req(req) THEN csr_waitreq_cnt + 1 ELSE 0
    /\ csr' = CsrNext(req)
    /\ regs_rdata' = rd_data

\* What the registers of the bridge hold when the FPGA comes up.
BridgeInit ==
    /\ state = "IDLE_S" /\ saved = NoRequest
    /\ takt_cnt = 0 /\ rd_takt_cnt = 0 /\ read_is_finished = FALSE
    /\ wide_readdata = [h \in 0 .. 1 |-> 0]
    /\ csr_waitreq_cnt = 0 /\ regs_rdata = 0
    /\ csr = [addr |-> 0, be |-> FALSE, wr_data |-> 0, wr_en |-> FALSE]
=============================================================================
