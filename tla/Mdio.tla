--------------------------------- MODULE Mdio ---------------------------------
(***************************************************************************)
(* mdio.v with the edge selector of mdio_wrapper.sv: the serial master of  *)
(* the PHY's management registers.  A frame is a preamble, a head (start,  *)
(* operation, addresses), a turn-around and the data; what its bits are is *)
(* told for those of the data only.                                        *)
(*                                                                         *)
(* The PHY at the other end of the two wires is external.  It takes a bit  *)
(* on a rising edge of MDC and changes the line later than the master      *)
(* looks at it.                                                            *)
(***************************************************************************)
EXTENDS Naturals

CONSTANTS PREAMBLE, HEAD, TURN, DATA,    \* bits of the parts of a frame
          MDC_MAX,                       \* the divider's values end here
          PHY_REGS                       \* the registers of the PHY

ASSUME MdioAssumption ==
    /\ PREAMBLE \in Nat \ {0} /\ HEAD \in Nat \ {0} /\ TURN \in Nat \ {0}
    /\ DATA \in Nat \ {0} /\ MDC_MAX \in Nat \ {0}
    /\ DOMAIN PHY_REGS \subseteq Nat
    /\ PHY_REGS \in [DOMAIN PHY_REGS -> 0 .. 2^DATA - 1]

FRAME == PREAMBLE + HEAD + TURN + DATA

VARIABLES mdio,        \* the registers of mdio.v, and those of the selector
          phy          \* the PHY: its registers, and the frame it is in

Bit(v, k) == (v \div 2^k) % 2

\* cop: 1 writes, 2 reads.
Reads(cop) == cop >= 2

run_i(m) == m.run_d2 /\ ~m.run_d3
startofbit(m) == m.mdc_r /\ ~m.mdc
midofbit(m) == ~m.mdc_r /\ m.mdc
busy(m) == m.state # "idle_s"
mdoen(m) == m.state = "send_s"

\* The bit on the line while the master drives it.
md_o(m) ==
    LET k == m.bitscntr
    IN  CASE k < PREAMBLE -> [part |-> "preamble"]
          [] k \in PREAMBLE .. PREAMBLE + HEAD - 1 ->
                 [part |-> "head", cop |-> m.frame.cop, dev |-> m.frame.dev]
          [] k \in PREAMBLE + HEAD .. PREAMBLE + HEAD + TURN - 1 ->
                 [part |-> "turn"]
          [] OTHER -> [part |-> "data",
                       bit |-> Bit(m.frame.data, FRAME - 1 - k)]

\* Mutant: the line is given up a bit late.
nextStateLate(m, in) ==
    IF m.state = "idle_s" THEN IF run_i(m) THEN "mdcalign_s" ELSE m.state
    ELSE IF ~startofbit(m) THEN m.state
    ELSE IF m.state = "mdcalign_s" THEN "send_s"
    ELSE IF m.bitscntr = FRAME - 1 THEN "idle_s"
    ELSE IF Reads(in.cop) /\ m.bitscntr = PREAMBLE + HEAD + TURN THEN "rcv_s"
    ELSE m.state

\* Mutant: the head is taken to be a bit shorter.
nextStateEarly(m, in) ==
    IF m.state = "idle_s" THEN IF run_i(m) THEN "mdcalign_s" ELSE m.state
    ELSE IF ~startofbit(m) THEN m.state
    ELSE IF m.state = "mdcalign_s" THEN "send_s"
    ELSE IF m.state = "send_s" /\ Reads(in.cop)
    THEN IF m.bitscntr = PREAMBLE + HEAD - 2 THEN "rcv_s" ELSE m.state
    ELSE IF m.bitscntr = FRAME - 1 THEN "idle_s" ELSE m.state

\* Mutant: the counter is awaited to reach what it never holds.
nextStateNoEnd(m, in) ==
    IF m.state = "idle_s" THEN IF run_i(m) THEN "mdcalign_s" ELSE m.state
    ELSE IF ~startofbit(m) THEN m.state
    ELSE IF m.state = "mdcalign_s" THEN "send_s"
    ELSE IF m.state = "send_s" /\ Reads(in.cop)
    THEN IF m.bitscntr = PREAMBLE + HEAD - 1 THEN "rcv_s" ELSE m.state
    ELSE IF m.bitscntr = FRAME THEN "idle_s" ELSE m.state

next_state_mdio(m, in) ==
    IF m.state = "idle_s" THEN IF run_i(m) THEN "mdcalign_s" ELSE m.state
    ELSE IF ~startofbit(m) THEN m.state
    ELSE IF m.state = "mdcalign_s" THEN "send_s"
    ELSE IF m.state = "send_s" /\ Reads(in.cop)
    THEN IF m.bitscntr = PREAMBLE + HEAD - 1 THEN "rcv_s" ELSE m.state
    ELSE IF m.bitscntr = FRAME - 1 THEN "idle_s" ELSE m.state

BitsNext(m) ==
    IF m.state \in {"idle_s", "mdcalign_s"} THEN 0
    ELSE IF startofbit(m) THEN (m.bitscntr + 1) % FRAME
    ELSE m.bitscntr

\* The bits in the order they came, of which the register keeps the last.
Shifted(r, b) == (2 * r + b) % 2^(TURN + DATA)

\* in: run, cop, dev, data, divider, of the control registers; line: the bit
\* on the wire.
MdioNext(m, in, line) ==
    [run_d1 |-> in.run, run_d2 |-> m.run_d1, run_d3 |-> m.run_d2,
     state |-> next_state_mdio(m, in),
     bitscntr |-> BitsNext(m),
     mdc_cnt |-> IF m.mdc_cnt = (in.divider + MDC_MAX - 1) % MDC_MAX
                 THEN 0 ELSE (m.mdc_cnt + 1) % MDC_MAX,
     mdc |-> /\ m.mdc_cnt # 0
             /\ m.mdc \/ m.mdc_cnt = in.divider \div 2,
     mdc_r |-> m.mdc,
     frame |-> IF m.state = "mdcalign_s" /\ startofbit(m)
               THEN [cop |-> in.cop, dev |-> in.dev, data |-> in.data]
               ELSE m.frame,
     rcvdata |-> IF m.state = "rcv_s" /\ midofbit(m)
                 THEN Shifted(m.rcvdata, line) ELSE m.rcvdata,
     data_val |-> \/ busy(m) /\ next_state_mdio(m, in) = "idle_s"
                  \/ m.data_val /\ ~run_i(m)]

data_o(m) == m.rcvdata % 2^DATA

(***************************************************************************)
(* External: the PHY.  bits is how much of a frame it has seen, out the    *)
(* bit it drives, 2 when it drives none; a line nobody drives is pulled up.*)
(***************************************************************************)
Drives(p) == p.out # 2
Line(p) == IF Drives(p) THEN p.out ELSE 1

\* The bit the PHY drives when it has seen this many.
Answer(p, bits) ==
    LET k == bits - PREAMBLE - HEAD
    IN  IF Reads(p.cop) /\ k \in TURN .. TURN + DATA - 1
        THEN Bit(p.regs[p.dev], DATA - 1 - (k - TURN)) ELSE 2

PhyTakes(p, m) ==
    LET bits == IF p.bits = FRAME - 1 THEN 0 ELSE p.bits + 1
        in == IF mdoen(m) THEN md_o(m) ELSE [part |-> "none"]
    IN  IF p.bits < PREAMBLE      \* ones, of a preamble or an idle line
        THEN [p EXCEPT !.bits = bits]
        ELSE IF p.bits = PREAMBLE /\ in.part # "head" THEN p
        ELSE IF p.bits < PREAMBLE + HEAD
        THEN \* of a head that is cut short it takes nothing
             IF in.part # "head" THEN [p EXCEPT !.bits = 0]
             ELSE LET q == [p EXCEPT !.bits = bits, !.cop = in.cop,
                                     !.dev = in.dev]
                  IN  [q EXCEPT !.out = Answer(q, bits)]
        ELSE IF in.part = "data" /\ ~Reads(p.cop)
        THEN LET shift == (2 * p.shift + in.bit) % 2^DATA
             IN  [p EXCEPT !.bits = bits, !.shift = shift,
                           !.regs[p.dev] = IF bits = 0 THEN shift ELSE @]
        ELSE [p EXCEPT !.bits = bits, !.out = Answer(p, bits)]

PhyNext(p, m) == IF midofbit(m) THEN PhyTakes(p, m) ELSE p

\* One edge of the clock of mdio.v, for both ends of the wires.
MdioEdge(pair, in) ==
    <<MdioNext(pair[1], in, Line(pair[2])), PhyNext(pair[2], pair[1])>>

MdioInit ==
    /\ mdio = [run_d1 |-> FALSE, run_d2 |-> FALSE, run_d3 |-> FALSE,
               state |-> "idle_s", bitscntr |-> 0, mdc_cnt |-> 0,
               mdc |-> FALSE, mdc_r |-> FALSE,
               frame |-> [cop |-> 0, dev |-> 0, data |-> 0],
               rcvdata |-> 0, data_val |-> FALSE]
    /\ phy = [regs |-> PHY_REGS, bits |-> 0, cop |-> 0, dev |-> 0,
              shift |-> 0, out |-> 2]
=============================================================================
