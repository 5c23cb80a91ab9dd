---------------------------- MODULE VfifoCenter ----------------------------
(***************************************************************************)
(* rw_mgr_mem_calibrate_vfifo_center of sequencer.pre.c: the delays of the   *)
(* DQ inputs and of DQS with which DQS comes in the middle of every bit.     *)
(* The edges of a bit are found by delaying the DQ (left) and DQS (right)    *)
(* until it is read wrong.  write_group is the read group as well.           *)
(***************************************************************************)
EXTENDS CalibState

\* Sweeping an edge.  none is the value of an edge that has not been found.
LeftSwept(e, d, bits, none) ==
    [e EXCEPT !.d = d + 1,
              !.sticky = @ \cup bits,
              !.left = [i \in Dqs |-> IF i \in bits THEN d ELSE @[i]],
              !.right = [i \in Dqs |-> IF i \notin bits /\ e.left[i] = none
                                       THEN -(d + 1) ELSE @[i]]]

RightSwept(e, d, bits, none) ==
    LET lost(i) == i \notin bits /\ e.right[i] = none
    IN  [e EXCEPT !.d = d + 1,
                  !.sticky = @ \cup bits,
                  !.left = [i \in Dqs |-> IF lost(i) /\ (d # 0 \/ @[i] = none)
                                          THEN -(d + 1) ELSE @[i]],
                  !.right = [i \in Dqs |-> IF i \in bits THEN d
                                           ELSE IF d = 0 /\ lost(i) /\ e.left[i] # none
                                           THEN -1 ELSE @[i]]]

\* A bit with no left edge has no right edge; the right sweep starts at once.
LeftOnly(e, none) ==
    [e EXCEPT !.d = 0,
              !.right = [i \in Dqs |-> IF e.left[i] = none THEN none ELSE @[i]]]

AllSeen(e, bits) == bits = {} /\ e.sticky = Dqs

MissingEdge(e, none) == {i \in Dqs : e.left[i] = none \/ e.right[i] = none}

\* Twice how much too early DQS comes for bit i; the bit for which it is least.
Difference(e, i) == e.left[i] - e.right[i]
MinDifference(e) == Min({Difference(e, i) : i \in Dqs})

\* mid_min, rounded up.
MidMin(e) ==
    LET m == MinDifference(e) IN Div(IF m > 0 THEN m + 1 ELSE m, 2)

\* Mutant: what DQS could not be moved is forgotten.
shiftSpread(e, mid_min, max, i) ==
    Clamp(Div(Difference(e, i) - MinDifference(e), 2), 0, max)

\* shift_dq, when DQS has been moved by mid_min: the DQ have a delay of 0 and
\* one of max at most.
ShiftDq(e, mid_min, max, i) ==
    Clamp(Div(Difference(e, i) - MinDifference(e), 2) + MidMin(e) - mid_min, 0, max)

\* Both margins, of the worst bit.
MarginsMet(e, mid_min, max) ==
    \A i \in Dqs : LET shift == ShiftDq(e, mid_min, max, i)
                   IN  /\ e.left[i] - shift - mid_min >= 0
                       /\ e.right[i] + shift + mid_min >= 0

-----------------------------------------------------------------------------
ReadNone == IO_IO_IN_DELAY_MAX + 1

\* To the first test: the reads of the search, or writes that are read back.
CenterBegins(h, use_read_test) ==
    /\ Goto("read_left", h)
    /\ eye' = [NoEye EXCEPT !.left = [i \in Dqs |-> ReadNone],
                            !.right = [i \in Dqs |-> ReadNone],
                            !.start_dqs = h.dqs[write_group].in,
                            !.use_read_test = use_read_test]

EyeTest(h) ==
    IF eye.use_read_test THEN rw_mgr_mem_calibrate_read_test(h, {write_group})
    ELSE rw_mgr_mem_calibrate_write_test(h, write_group, gbl.rw_wl_nop_cycles, FALSE)

EyeStep(l, h, e) ==
    /\ Goto(l, h) /\ eye' = e
    /\ UNCHANGED <<gbl, regs, write_group, fn, en>>

ReadLeftDone(h, e) ==
    LET one == LeftOnly(e, ReadNone)
    IN  EyeStep("read_right", scc_mgr_apply_group_dq_in_delay(h, 0),
                [one EXCEPT !.sticky = Dqs \ MissingEdge(one, ReadNone)])

ReadLeft ==
    /\ pc = "read_left"
    /\ \E t \in EyeTest(Upd(scc_mgr_apply_group_dq_in_delay(hw, eye.d))) :
           LET swept == LeftSwept(eye, eye.d, t.bits, ReadNone)
           IN  IF AllSeen(swept, t.bits) THEN ReadLeftDone(t.hw, eye)
               ELSE IF eye.d = IO_IO_IN_DELAY_MAX THEN ReadLeftDone(t.hw, swept)
               ELSE EyeStep("read_left", t.hw, swept)

\* DQS with its delay, in register and i/o cell.
BusIn(h, delay) ==
    Upd(scc_mgr_load_dqs(scc_mgr_set_dqs_bus_in_delay(h, write_group, delay), write_group))

\* The function returns to its caller, VfifoCentered or VfifoEnd.
CenterReturns(h, b, margins) ==
    /\ Goto(IF eye.use_read_test THEN "vfifo_centered" ELSE "vfifo_end", h)
    /\ gbl' = b
    /\ eye' = [NoEye EXCEPT !.margins = margins]
    /\ UNCHANGED <<regs, write_group, fn, en>>

CenterFails(h, e) ==
    LET i == Min(MissingEdge(e, ReadNone))
        stage == IF e.use_read_test THEN "VFIFO" ELSE "VFIFO_AFTER_WRITES"
    IN  CenterReturns(BusIn(h, e.start_dqs),
                      set_failing_group_stage(gbl, write_group * DQ_PER_DQS + i,
                                              stage, "VFIFO_CENTER"),
                      FALSE)

CenterSet(h, e) ==
    LET new_dqs == Clamp(e.start_dqs - MidMin(e), 0, IO_DQS_IN_DELAY_MAX)
        mid_min == e.start_dqs - new_dqs
        shift == [dq \in Dqs |-> ShiftDq(e, mid_min, IO_IO_IN_DELAY_MAX, dq)]
    IN  CenterReturns(BusIn(scc_mgr_load_dq(scc_mgr_set_dq_in_delay(h, shift)), new_dqs),
                      gbl, MarginsMet(e, mid_min, IO_IO_IN_DELAY_MAX))

ReadRightDone(h, e) ==
    IF MissingEdge(e, ReadNone) # {} THEN CenterFails(h, e) ELSE CenterSet(h, e)

ReadRight ==
    /\ pc = "read_right"
    /\ \E t \in EyeTest(BusIn(hw, eye.d + eye.start_dqs)) :
           LET swept == RightSwept(eye, eye.d, t.bits, ReadNone)
           IN  IF AllSeen(swept, t.bits) THEN ReadRightDone(t.hw, eye)
               ELSE IF eye.d = IO_DQS_IN_DELAY_MAX - eye.start_dqs THEN ReadRightDone(t.hw, swept)
               ELSE EyeStep("read_right", t.hw, swept)

ReadCenter == ReadLeft \/ ReadRight
=============================================================================
