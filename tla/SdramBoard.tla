----------------------------- MODULE SdramBoard -----------------------------
(***************************************************************************)
(* What the calibration works on and the repository has no code of: the     *)
(* memory, and the PHY between it and the sequencer.  It is modelled by what *)
(* sequencer.pre.c expects of it.  A board has a write and a read latency,  *)
(* wl and rl, and for every group it fixes                                  *)
(*   en     the times of the DQS enable, round the VFIFO, with which reads   *)
(*          return data, and for how long, at both ends, a read may go       *)
(*          either way (blur);                                              *)
(*   phases the enable phases with which the guaranteed read works;          *)
(*   read   for each DQ, the delays relative to DQS at which it is read;     *)
(*   write, dm   the same for what is written, and for its mask;            *)
(*   dqss   the delays of DQS at which the memory takes a write at all;      *)
(*   lat    the least setting of PHY_RLAT with which reads return data.      *)
(* It is a field of the state of the hardware, h.                           *)
(***************************************************************************)
EXTENDS SccMgr

CONSTANTS
    VFIFO_SIZE,
    IO_DELAY_PER_OPA_TAP,             \* the time of a phase tap
    IO_DELAY_PER_DQS_EN_DCHAIN_TAP    \* the time of a tap of the delay chain

ASSUME SdramBoardAssumption ==
    /\ VFIFO_SIZE \in Nat \ {0}
    /\ IO_DELAY_PER_OPA_TAP \in Nat \ {0}
    /\ IO_DELAY_PER_DQS_EN_DCHAIN_TAP \in Nat \ {0}

PHASES == IO_DQS_EN_PHASE_MAX + 1
\* The time of a clock, and of all the clocks the VFIFO can delay by.
CLOCK == PHASES * IO_DELAY_PER_OPA_TAP
ROUND == VFIFO_SIZE * CLOCK

InWindow(w, x) == w[1] <= x /\ x <= w[2]

\* When the reads of group g are enabled, from the beginning of its window.
EnablePosition(h, g) ==
    LET cell == h.io.dqs[g]
    IN  (h.vfifo[g] * CLOCK + cell.en_phase * IO_DELAY_PER_OPA_TAP
         + cell.en_delay * IO_DELAY_PER_DQS_EN_DCHAIN_TAP
         - h.board.group[g].en.first + ROUND) % ROUND

\* The answers a read gives to the question whether it was enabled in time.
Enabled(h, g) ==
    LET en == h.board.group[g].en
        x == EnablePosition(h, g)
    IN  IF x >= en.size THEN {FALSE}
        ELSE IF x < en.blur \/ x >= en.size - en.blur THEN BOOLEAN ELSE {TRUE}

Ready(h) == h.stable /\ h.open /\ h.mux = 3 /\ h.hhp_extras

ReadEye(h, g, dq) ==
    InWindow(h.board.group[g].read[dq], h.io.pin[g][dq].in - h.io.dqs[g].in)

DqssMet(h, g) == InWindow(h.board.group[g].dqss, h.io.pin[g][DqsPin].out1)

WriteEye(h, g, pin, window) ==
    InWindow(window, h.io.pin[g][pin].out1 - h.io.pin[g][DqsPin].out1)

LatencyMet(h, g) == h.rlat >= h.board.group[g].lat

\* The bits that come back right from a read of what was stored, given
\* whether the read was enabled in time.
ReadsBack(h, g, enabled) ==
    {dq \in Dqs : enabled /\ Ready(h) /\ LatencyMet(h, g) /\ ReadEye(h, g, dq)}

\* The bits that are stored by a write whose data come nops clocks after the
\* command, with its mask in use or not.
Stores(h, g, nops, use_dm) ==
    {dq \in Dqs : /\ Ready(h) /\ h.odt = [read |-> 0, write |-> 1]
                  /\ nops = h.board.wl - 1
                  /\ DqssMet(h, g) /\ WriteEye(h, g, dq, h.board.group[g].write[dq])
                  /\ use_dm => WriteEye(h, g, DmPin, h.board.group[g].dm)}

-----------------------------------------------------------------------------
(* Commands to the memory.  One that comes with the rows the wrong way,     *)
(* before the four mode registers are loaded, within the recovery time of a *)
(* reset or of the ZQ calibration, or while the sequencer has not got the   *)
(* memory is a misuse.                                                      *)
(*                                                                          *)
(* The recovery times of a few clocks are not modelled, above all those of  *)
(* a mode register, tMRD (4 clocks, emif.pre.xml:166) and tMOD (12): the     *)
(* sequencer leaves them to the processor, some five memory clocks to one of *)
(* its own (sequencer_defines.pre.h:44, 48), as its comments say            *)
(* (sequencer.pre.c:2667 to 2673, 3186 and 3187).  The time of the processor *)
(* is not in the model, so its waits of 4 clocks do nothing here, and that   *)
(* MR1 is loaded without one (2491) is no misuse.                           *)

Command(h, legal, after) ==
    [after EXCEPT !.misuse = @ \/ ~(legal /\ h.stable /\ h.mux = 3 /\ h.due = 0)]

\* due is the number of clocks for which no command may be given.
AfterReset(h, due) ==
    [h EXCEPT !.modes = {}, !.open = FALSE, !.due = due,
              !.patterns = [g \in Groups |-> FALSE]]

\* Sets no due: see above.
LoadMode(h, mr) == Command(h, ~h.open, [h EXCEPT !.modes = @ \cup {mr}])

CalibrateZq(h, due) == Command(h, ~h.open, [h EXCEPT !.due = due])

PrechargeAll(h) == Command(h, TRUE, [h EXCEPT !.open = FALSE])

Activate(h) ==
    Command(h, ~h.open /\ {"MR0", "MR1", "MR2", "MR3"} \subseteq h.modes,
            [h EXCEPT !.open = TRUE])

\* The reads and the writes of a test.
Access(h) == Command(h, h.open, h)

Wait(h, clocks) == [h EXCEPT !.due = IF clocks >= @ THEN 0 ELSE @ - clocks]
=============================================================================
