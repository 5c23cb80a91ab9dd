----------------------------- MODULE DqsEnable -----------------------------
(***************************************************************************)
(* rw_mgr_mem_calibrate_vfifo_find_dqs_en_phase of sequencer.pre.c: the      *)
(* search for the time at which a read has to be enabled.  VFIFO, phase and  *)
(* delay chain move it by clocks, phase taps and taps of the chain.              *)
(***************************************************************************)
EXTENDS CalibState

OPA == IO_DELAY_PER_OPA_TAP
DCHAIN == IO_DELAY_PER_DQS_EN_DCHAIN_TAP

EnableTest(h) == rw_mgr_mem_calibrate_read_test(h, {write_group})
SetPhase(h, p) == scc_mgr_set_dqs_en_phase_all_ranks(h, write_group, p)
SetDelay(h, d) == scc_mgr_set_dqs_en_delay_all_ranks(h, write_group, d)

EnableStep(l, h, e) ==
    /\ Goto(l, h) /\ en' = e
    /\ UNCHANGED <<gbl, regs, write_group, fn, eye>>

\* The phase tap after, and before, phase p; with it the VFIFO moves.
PhaseAfter(h, p) ==
    IF p = IO_DQS_EN_PHASE_MAX THEN [hw |-> rw_mgr_incr_vfifo(h, write_group), p |-> 0]
    ELSE [hw |-> h, p |-> p + 1]

PhaseBefore(h, p) ==
    IF p = 0 THEN [hw |-> rw_mgr_decr_vfifo(h, write_group), p |-> IO_DQS_EN_PHASE_MAX]
    ELSE [hw |-> h, p |-> p - 1]

-----------------------------------------------------------------------------
(* Around the search: while it goes on the delays of the DQ are spread over *)
(* their range, so that some bit is likely to be read.                      *)

\* Mutant: the range is divided by one less.
sweepTooFar(h) ==
    LET delay_step == IO_IO_IN_DELAY_MAX \div (DQ_PER_DQS - 2)
    IN  Upd(scc_mgr_load_dq(scc_mgr_set_dq_in_delay(h, [dq \in Dqs |-> dq * delay_step])))

SweepBegin(h) ==
    LET delay_step == IO_IO_IN_DELAY_MAX \div (DQ_PER_DQS - 1)
    IN  Upd(scc_mgr_load_dq(scc_mgr_set_dq_in_delay(h, [dq \in Dqs |-> dq * delay_step])))

rw_mgr_mem_calibrate_vfifo_find_dqs_en_phase_sweep_dq_in_delay(h, found) ==
    /\ Goto(IF found THEN "vfifo_center" ELSE "vfifo_retry",
            Upd(scc_mgr_apply_group_dq_in_delay(h, 0)))
    /\ fn' = IF found THEN fn ELSE [fn EXCEPT !.failed_substage = "DQS_EN_PHASE"]
    /\ en' = NoEn
    /\ UNCHANGED <<gbl, write_group, eye>>

FindReturns(h, found) ==
    /\ rw_mgr_mem_calibrate_vfifo_find_dqs_en_phase_sweep_dq_in_delay(h, found)
    /\ UNCHANGED regs

\* Registers and locals as the function sets them before its first test.
FindBegins(h) == SetPhase(SetDelay(h, 0), 0)

-----------------------------------------------------------------------------
(* A position of the VFIFO is looked for at which reads fail. *)

FindFail ==
    /\ pc = "find_fail"
    /\ \E t \in EnableTest(hw) :
           LET fails == en.fail_cnt + (IF t.bits = {} THEN 1 ELSE 0)
               next == rw_mgr_incr_vfifo(t.hw, write_group)
           IN  \/ fails = 2 /\ EnableStep("find_begin", t.hw, NoEn)
               \/ /\ fails < 2 /\ en.v + 1 < VFIFO_SIZE
                  /\ EnableStep("find_fail", next, [en EXCEPT !.v = @ + 1, !.fail_cnt = fails])
               \/ fails < 2 /\ en.v + 1 = VFIFO_SIZE /\ FindReturns(next, FALSE)

-----------------------------------------------------------------------------
(* The first phase at which a read works: all of them are tried, in every   *)
(* position of the VFIFO, and again with a tap of the chain more.           *)

BeginFound(h) ==
    LET before == PhaseBefore(h, en.p)
    IN  IF en.d = 0
        THEN EnableStep("find_left", SetPhase(before.hw, before.p),
                        [en EXCEPT !.p = before.p, !.work_end = en.work_bgn,
                                   !.tmp_delay = Sub(en.work_bgn, OPA)])
        ELSE EnableStep("find_right", h, [en EXCEPT !.work_end = en.work_bgn])

BeginNotFound(h) ==
    LET next == rw_mgr_incr_vfifo(h, write_group)
        tmp == Add(en.tmp_delay, DCHAIN)
    IN  IF en.p < IO_DQS_EN_PHASE_MAX
        THEN EnableStep("find_begin", h, [en EXCEPT !.p = @ + 1, !.work_bgn = Add(@, OPA)])
        ELSE IF en.i + 1 < VFIFO_SIZE
        THEN EnableStep("find_begin", next, [en EXCEPT !.i = @ + 1, !.p = 0,
                                                       !.work_bgn = Add(@, OPA)])
        ELSE IF en.d < dtaps_per_ptap
        THEN EnableStep("find_begin", next, [NoEn EXCEPT !.d = en.d + 1, !.tmp_delay = tmp,
                                                         !.work_bgn = tmp])
        ELSE FindReturns(next, FALSE)

FindBegin ==
    /\ pc = "find_begin"
    /\ LET first == en.i = 0 /\ en.p = 0
       IN  \E t \in EnableTest(SetPhase(IF first THEN SetDelay(hw, en.d) ELSE hw, en.p)) :
               IF t.bits # {} THEN BeginFound(t.hw) ELSE BeginNotFound(t.hw)

-----------------------------------------------------------------------------
(* From the phase before it, the tap of the chain at which reads begin to   *)
(* work.  Then a phase tap past the working one.                            *)

LeftFound(h, work_bgn) ==
    LET working == PhaseAfter(h, en.p)
        next == PhaseAfter(SetDelay(working.hw, 0), working.p)
    IN  EnableStep("find_end", next.hw,
                   [en EXCEPT !.work_bgn = work_bgn, !.p = next.p,
                              !.work_end = Add(@, OPA), !.d = 0, !.tmp_delay = 0])

FindLeft ==
    /\ pc = "find_left"
    /\ IF en.d <= IO_DQS_EN_DELAY_MAX /\ en.tmp_delay < en.work_bgn
       THEN \E t \in EnableTest(SetDelay(hw, en.d)) :
                IF t.bits # {} THEN LeftFound(t.hw, en.tmp_delay)
                ELSE EnableStep("find_left", t.hw, [en EXCEPT !.d = @ + 1,
                                                              !.tmp_delay = Add(@, DCHAIN)])
       ELSE LeftFound(hw, en.work_bgn)

-----------------------------------------------------------------------------
(* The last phase at which a read works, then the tap of the chain. *)

EndFound(h) ==
    LET before == PhaseBefore(h, en.p)
    IN  EnableStep("find_right", SetPhase(before.hw, before.p),
                   [en EXCEPT !.p = before.p, !.work_end = Sub(@, OPA), !.d = 0])

FindEnd ==
    /\ pc = "find_end"
    /\ \E t \in EnableTest(SetPhase(hw, en.p)) :
           LET next == PhaseAfter(t.hw, en.p)
               turns == en.i + (IF next.p = 0 THEN 1 ELSE 0)
           IN  \/ t.bits = {} /\ EndFound(t.hw)
               \/ /\ t.bits # {} /\ turns < VFIFO_SIZE + 1
                  /\ EnableStep("find_end", next.hw, [en EXCEPT !.p = next.p, !.i = turns,
                                                                !.work_end = Add(@, OPA)])
               \/ t.bits # {} /\ turns = VFIFO_SIZE + 1 /\ FindReturns(next.hw, FALSE)

RightFound(h) ==
    LET work_end == IF en.d # 0 THEN Sub(en.work_end, DCHAIN) ELSE en.work_end
        before == PhaseBefore(h, en.p)
    IN  IF work_end < en.work_bgn THEN FindReturns(h, FALSE)
        ELSE EnableStep("measure_pass", SetPhase(before.hw, before.p),
                        [en EXCEPT !.work_end = work_end, !.p = before.p, !.initial = en.d])

FindRight ==
    /\ pc = "find_right"
    /\ IF en.d <= IO_DQS_EN_DELAY_MAX
       THEN \E t \in EnableTest(SetDelay(hw, en.d)) :
                IF t.bits = {} THEN RightFound(t.hw)
                ELSE EnableStep("find_right", t.hw, [en EXCEPT !.d = @ + 1,
                                                               !.work_end = Add(@, DCHAIN)])
       ELSE RightFound(hw)

-----------------------------------------------------------------------------
(* The middle of the window, less whole clocks, as a phase and a delay. *)

\* Mutant: only the end is looked at.
workMidEnd(bgn, end) == IF end = 0 THEN 0 ELSE ((end - 1) % CLOCK) + 1

WorkMid(bgn, end) ==
    LET mid == Add(bgn, end) \div 2
    IN  IF mid = 0 THEN 0 ELSE ((mid - 1) % CLOCK) + 1

\* The first phase that is not before the middle; one less is set, which
\* with a middle of 0 is no phase.
MidPhase(mid) == CHOOSE p \in 0 .. PHASES : /\ p * OPA >= mid
                                            /\ \A q \in 0 .. p - 1 : q * OPA < mid

MidDelay(mid) ==
    LET from == Sub(MidPhase(mid) * OPA, OPA)
        done(d) == d = IO_DQS_EN_DELAY_MAX + 1 \/ Add(from, d * DCHAIN) >= mid
    IN  CHOOSE d \in 0 .. IO_DQS_EN_DELAY_MAX + 1 : done(d) /\ \A c \in 0 .. d - 1 : ~done(c)

SetMiddle(h, dtaps) ==
    LET mid == WorkMid(en.work_bgn, en.work_end)
    IN  /\ Goto("find_v", SetDelay(SetPhase(h, Sub(MidPhase(mid), 1)), MidDelay(mid)))
        /\ regs' = [regs EXCEPT !.dtaps_per_ptap = dtaps]
        /\ en' = NoEn
        /\ UNCHANGED <<gbl, write_group, fn, eye>>

-----------------------------------------------------------------------------
(* How many taps of the chain a phase tap is, measured from the last        *)
(* working tap in the phase before to the same tap in this one.             *)

MeasurePass ==
    /\ pc = "measure_pass"
    /\ IF en.d <= IO_DQS_EN_DELAY_MAX
       THEN \E t \in EnableTest(SetDelay(hw, en.d)) :
                EnableStep(IF t.bits # {} THEN "measure_fail" ELSE "measure_pass", t.hw,
                           [en EXCEPT !.d = @ + 1])
       ELSE SetMiddle(hw, dtaps_per_ptap)

MeasureFail ==
    /\ pc = "measure_fail"
    /\ IF en.d <= IO_DQS_EN_DELAY_MAX
       THEN \E t \in EnableTest(SetDelay(hw, en.d)) :
                IF t.bits = {} THEN SetMiddle(t.hw, en.d - en.initial)
                ELSE EnableStep("measure_fail", t.hw, [en EXCEPT !.d = @ + 1])
       ELSE SetMiddle(hw, dtaps_per_ptap)

-----------------------------------------------------------------------------
(* The position of the VFIFO that goes with the middle. *)

FindV ==
    /\ pc = "find_v"
    /\ \E t \in EnableTest(hw) :
           LET next == rw_mgr_incr_vfifo(t.hw, write_group)
           IN  \/ t.bits # {} /\ FindReturns(t.hw, TRUE)
               \/ /\ t.bits = {} /\ en.i + 1 < VFIFO_SIZE
                  /\ EnableStep("find_v", next, [en EXCEPT !.i = @ + 1])
               \/ t.bits = {} /\ en.i + 1 = VFIFO_SIZE /\ FindReturns(next, FALSE)

FindDqsEnPhase ==
    \/ FindFail \/ FindBegin \/ FindLeft \/ FindEnd \/ FindRight
    \/ MeasurePass \/ MeasureFail \/ FindV
=============================================================================
