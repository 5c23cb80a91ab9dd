---------------------------- MODULE WritesCenter ----------------------------
(***************************************************************************)
(* rw_mgr_mem_calibrate_writes of sequencer.pre.c, with ..._writes_center:   *)
(* the delays of the DQ outputs, for the DQS output as it is, and of DM.     *)
(***************************************************************************)
EXTENDS VfifoCenter

WriteNone == IO_IO_OUT1_DELAY_MAX + 1

WriteTest(h, use_dm) ==
    rw_mgr_mem_calibrate_write_test(h, write_group, gbl.rw_wl_nop_cycles, use_dm)

WritesBegins(h) ==
    /\ Goto("write_left", h)
    /\ regs' = reg_file_set_group(
                   reg_file_set_sub_stage(reg_file_set_stage(regs, "WRITES"),
                                          "WRITES_CENTER"), write_group)
    /\ eye' = [NoEye EXCEPT !.left = [i \in Dqs |-> WriteNone],
                            !.right = [i \in Dqs |-> WriteNone],
                            !.start_dqs = h.pin[DqsPin].out1]

\* Both functions have failed, the first for DQ i of the group if it is known.
WritesFail(h, missing) ==
    LET center == IF missing = {} THEN gbl
                  ELSE set_failing_group_stage(gbl, write_group * DQ_PER_DQS + Min(missing),
                                               "WRITES", "WRITES_CENTER")
    IN  /\ MemCalibrateReturns(h, FALSE)
        /\ gbl' = set_failing_group_stage(center, write_group, "WRITES", "WRITES_CENTER")
        /\ eye' = NoEye
        /\ UNCHANGED <<regs, write_group, en>>

-----------------------------------------------------------------------------
WriteLeftDone(h, e) ==
    LET one == LeftOnly(e, WriteNone)
    IN  EyeStep("write_right", scc_mgr_apply_group_dq_out1_delay(h, 0),
                [one EXCEPT !.sticky = {i \in Dqs : one.left[i] # WriteNone}])

WriteLeft ==
    /\ pc = "write_left"
    /\ \E t \in WriteTest(Upd(scc_mgr_apply_group_dq_out1_delay(hw, eye.d)), FALSE) :
           LET swept == LeftSwept(eye, eye.d, t.bits, WriteNone)
           IN  IF AllSeen(swept, t.bits) THEN WriteLeftDone(t.hw, eye)
               ELSE IF eye.d = IO_IO_OUT1_DELAY_MAX THEN WriteLeftDone(t.hw, swept)
               ELSE EyeStep("write_left", t.hw, swept)

-----------------------------------------------------------------------------
\* Mutant: DQS stays as the right sweep left it.
setDqOnly(h, e) ==
    LET shift == [dq \in Dqs |-> ShiftDq(e, 0, IO_IO_OUT1_DELAY_MAX, dq)]
    IN  Upd(scc_mgr_load_dq(scc_mgr_set_dq_out1_delay(h, shift)))

SetDq(h, e) ==
    LET shift == [dq \in Dqs |-> ShiftDq(e, 0, IO_IO_OUT1_DELAY_MAX, dq)]
        dqs == scc_mgr_load_dq(scc_mgr_set_dq_out1_delay(h, shift))
    IN  Upd(scc_mgr_apply_group_dqs_io_and_oct_out1(dqs, write_group, e.start_dqs))

WriteRightDone(h, e) ==
    IF MissingEdge(e, WriteNone) # {} THEN WritesFail(h, MissingEdge(e, WriteNone))
    ELSE EyeStep("dm_left", SetDq(h, e),
                 [NoEye EXCEPT !.start_dqs = e.start_dqs,
                               !.margins = MarginsMet(e, 0, IO_IO_OUT1_DELAY_MAX),
                               !.d = IO_IO_OUT1_DELAY_MAX,
                               !.bgn_curr = WriteNone, !.end_curr = WriteNone,
                               !.bgn_best = WriteNone, !.end_best = WriteNone])

\* If no bit is written to begin with, this ends the right edge of all of them.
StopsAt(e) ==
    IF e.d # 0 THEN e
    ELSE [e EXCEPT !.right = [i \in Dqs |-> IF @[i] = WriteNone /\ e.left[i] # WriteNone
                                            THEN -1 ELSE @[i]]]

WriteRight ==
    /\ pc = "write_right"
    /\ LET h == Upd(scc_mgr_apply_group_dqs_io_and_oct_out1(hw, write_group,
                                                            eye.d + eye.start_dqs))
       IN  \E t \in WriteTest(h, FALSE) :
               LET swept == RightSwept(eye, eye.d, t.bits, WriteNone)
               IN  IF AllSeen(swept, t.bits) THEN WriteRightDone(t.hw, StopsAt(eye))
                   ELSE IF eye.d = IO_IO_OUT1_DELAY_MAX - eye.start_dqs
                   THEN WriteRightDone(t.hw, swept)
                   ELSE EyeStep("write_right", t.hw, swept)

-----------------------------------------------------------------------------
(* DM.  Its delay is counted down to 0 from the largest, as -d, then DQS is *)
(* delayed: the longest run of delays that work is the window.              *)

Window(e, x, works) ==
    LET bgn == IF e.bgn_curr = WriteNone THEN x ELSE e.bgn_curr
        size == x - bgn + 1
    IN  IF ~works THEN [e EXCEPT !.bgn_curr = WriteNone, !.end_curr = WriteNone]
        ELSE IF size > e.win_best
        THEN [e EXCEPT !.bgn_curr = bgn, !.end_curr = x, !.win_best = size,
                       !.bgn_best = bgn, !.end_best = x]
        ELSE [e EXCEPT !.bgn_curr = bgn, !.end_curr = x]

\* A run that does not reach 0 is over.
DmTurns(e) ==
    IF e.end_curr = 0 THEN [e EXCEPT !.d = 0]
    ELSE [e EXCEPT !.d = 0, !.bgn_curr = WriteNone, !.end_curr = WriteNone]

DmLeft ==
    /\ pc = "dm_left"
    /\ \E t \in WriteTest(Upd(scc_mgr_apply_group_dm_out1_delay(hw, eye.d)), TRUE) :
           LET e == Window(eye, -eye.d, t.bits = Dqs)
           IN  IF eye.d = 0
               THEN EyeStep("dm_right", scc_mgr_apply_group_dm_out1_delay(t.hw, 0), DmTurns(e))
               ELSE EyeStep("dm_left", t.hw, [e EXCEPT !.d = @ - 1])

DmDone(h, e) ==
    LET left == -e.bgn_best
        mid == Div(left - e.end_best, 2)
        delay == IF mid < 0 THEN 0 ELSE mid
        dqs == scc_mgr_apply_group_dqs_io_and_oct_out1(h, write_group, e.start_dqs)
        set == Upd(scc_mgr_apply_group_dm_out1_delay(dqs, delay))
    IN  IF e.margins /\ e.win_best > 0 /\ left - delay >= 0
        THEN /\ CenterBegins(set, FALSE)
             /\ regs' = reg_file_set_group(
                            reg_file_set_sub_stage(
                                reg_file_set_stage(regs, "VFIFO_AFTER_WRITES"),
                                "VFIFO_CENTER"), write_group)
             /\ UNCHANGED <<gbl, write_group, fn, en>>
        ELSE WritesFail(set, {})

DmRight ==
    /\ pc = "dm_right"
    /\ LET h == Upd(scc_mgr_apply_group_dqs_io_and_oct_out1(hw, write_group,
                                                            eye.d + eye.start_dqs))
       IN  \E t \in WriteTest(h, TRUE) :
               LET e == Window(eye, eye.d, t.bits = Dqs)
                   rest == IO_IO_OUT1_DELAY_MAX - eye.start_dqs - eye.d
               IN  IF rest = 0 \/ (t.bits # Dqs /\ e.win_best - 1 > rest)
                   THEN DmDone(t.hw, e)
                   ELSE EyeStep("dm_right", t.hw, [e EXCEPT !.d = @ + 1])

WriteCenter == WriteLeft \/ WriteRight \/ DmLeft \/ DmRight
=============================================================================
