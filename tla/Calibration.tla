----------------------------- MODULE Calibration -----------------------------
(***************************************************************************)
(* sequencer.pre.c: the calibration of the SDRAM interface, which the        *)
(* preloader runs once after power up, from sdram_calibration to its return. *)
(* The modules it extends have the delay registers (SccMgr), the memory and  *)
(* the PHY (SdramBoard), the tests (RwMgr), and the three searches.          *)
(***************************************************************************)
EXTENDS DqsEnable, WritesCenter

CONSTANTS
    Boards,            \* the boards the program may find
    ChainAtPowerUp     \* what the chains and the i/o cells hold

ASSUME CalibrationAssumption ==
    /\ ChainAtPowerUp \in Cells
    /\ \A b \in Boards :
        /\ b.wl \in Nat \ {0} /\ b.rl \in Nat
        /\ \A g \in Groups : /\ b.group[g].en.first \in 0 .. ROUND - 1
                             /\ b.group[g].en.size \in Nat
                             /\ b.group[g].lat \in Nat
                             /\ b.group[g].dm \in Int \X Int

-----------------------------------------------------------------------------
PowerUp(board) ==
    [board |-> board, group_counter |-> 0, hhp_extras |-> FALSE,
     dqs |-> [g \in Groups |-> ZeroDqs], pin |-> [p \in Pins |-> ZeroPin],
     chain |-> ChainAtPowerUp, io |-> ChainAtPowerUp, vfifo |-> [g \in Groups |-> 0],
     rlat |-> 0, mux |-> 2, stable |-> FALSE, odt |-> [read |-> 0, write |-> 0],
     modes |-> {}, open |-> FALSE, patterns |-> [g \in Groups |-> FALSE],
     due |-> 0, misuse |-> FALSE]

Init ==
    /\ \E board \in Boards : hw = PowerUp(board)
    /\ gbl = [error_stage |-> "NIL", error_substage |-> "NIL", error_group |-> NoGroup,
              curr_read_lat |-> 0, rw_wl_nop_cycles |-> 0]
    /\ regs = [cal_status |-> "RESET", cur_stage |->
                  [stage |-> "NIL", substage |-> "NIL", group |-> 0],
               failing_stage |-> <<"NIL", "NIL", 0>>, dtaps_per_ptap |-> 0,
               tracking |-> TRUE]
    /\ pc = "sdram_calibration"
    /\ write_group = 0
    /\ fn = NoFn /\ en = NoEn /\ eye = NoEye

\* PHY_RLAT has MAX_LATENCY_COUNT_WIDTH bits.
SetRlat(h, lat) == [h EXCEPT !.rlat = lat % (MAX_LATENCY + 1)]

-----------------------------------------------------------------------------
\* The registers are put in their first state and the memory is started: the
\* program up to mem_calibrate.
SdramCalibration ==
    /\ pc = "sdram_calibration"
    /\ Goto("mem_calibrate", rw_mgr_mem_initialize(initialize(scc_mgr_initialize(hw))))
    /\ regs' = [reg_file_set_group(reg_file_set_stage(regs, "NIL"), 0) EXCEPT
                   !.cal_status = "RESET", !.failing_stage = <<"NIL", "NIL", 0>>,
                   !.dtaps_per_ptap = dtaps_per_ptap, !.tracking = FALSE]
    /\ UNCHANGED <<gbl, write_group, fn, en, eye>>

\* mem_config: of b, the latencies; the rows of the memory are opened.
MemConfigLatency(b, board) ==
    [b EXCEPT !.rw_wl_nop_cycles = board.wl + 1 - 2,
              !.curr_read_lat = Least(board.rl + 16, MAX_LATENCY)]

mem_config(h, b) == mem_precharge_and_activate(SetRlat(h, b.curr_read_lat))

\* A group is begun: its delays are zeroed and its guaranteed read is tried.
\* r is what the registers say.
GroupBegins(h, g, r) ==
    /\ Goto("guaranteed", scc_mgr_zero_group([h EXCEPT !.group_counter = g], g, FALSE))
    /\ regs' = reg_file_set_sub_stage(
                   reg_file_set_group(reg_file_set_stage(r, "VFIFO"), g),
                   "GUARANTEED_READ")
    /\ fn' = [NoFn EXCEPT !.failed_substage = "GUARANTEED_READ"]
    /\ write_group' = g

\* The loop ends with the counter at the last group.
Bypassed(h) == [scc_set_bypass_mode(h) EXCEPT !.group_counter = DQS_WIDTH - 1]

MemCalibrate ==
    /\ pc = "mem_calibrate"
    /\ LET b == MemConfigLatency([gbl EXCEPT !.error_stage = "NIL", !.error_substage = "NIL",
                                             !.error_group = NoGroup], hw.board)
       IN  /\ gbl' = b
           /\ GroupBegins(scc_mgr_zero_all(Bypassed(mem_config(hw, b))), 0, regs)
    /\ UNCHANGED <<en, eye>>

-----------------------------------------------------------------------------
(* rw_mgr_mem_calibrate_vfifo.  Its loop tries delay fn.d of all outputs.   *)

GuaranteedRead ==
    /\ pc = "guaranteed"
    /\ LET g == write_group
           added == IF fn.d > 0 THEN scc_mgr_apply_group_all_out_delay_add_all_ranks(hw, g, fn.d)
                    ELSE hw
           loaded == rw_mgr_mem_calibrate_read_load_patterns(
                         scc_mgr_set_dqdqs_output_phase_all_ranks(added, g, 0))
           t == rw_mgr_mem_calibrate_read_test_patterns_all_ranks(loaded, g)
       IN  IF t.passed
           THEN /\ Goto("find_fail", FindBegins(SweepBegin(t.hw)))
                /\ regs' = reg_file_set_sub_stage(regs, "VFIFO_CENTER")
           ELSE Goto("vfifo_retry", t.hw) /\ UNCHANGED regs
    /\ UNCHANGED <<gbl, write_group, fn, en, eye>>

\* Mutant: the loop is not counted.
retryAgain ==
    /\ pc = "vfifo_retry"
    /\ Goto("guaranteed", hw)
    /\ UNCHANGED <<gbl, regs, write_group, fn, en, eye>>

\* The search has ended well.
VfifoCenterBegins ==
    /\ pc = "vfifo_center"
    /\ CenterBegins(hw, TRUE)
    /\ UNCHANGED <<gbl, regs, write_group, fn, en>>

VfifoRetry ==
    /\ pc = "vfifo_retry"
    /\ IF fn.d + 2 <= dtaps_per_ptap
       THEN /\ Goto("guaranteed", hw)
            /\ fn' = [fn EXCEPT !.d = @ + 2]
            /\ UNCHANGED gbl
       ELSE /\ MemCalibrateReturns(hw, FALSE)
            /\ gbl' = set_failing_group_stage(gbl, write_group, "VFIFO", fn.failed_substage)
    /\ UNCHANGED <<regs, write_group, en, eye>>

\* rw_mgr_mem_calibrate_vfifo_center has returned; if well, the delays that
\* were added to the outputs are taken back and the writes are next.
VfifoCentered ==
    /\ pc = "vfifo_centered"
    /\ IF eye.margins
       THEN /\ WritesBegins(IF fn.d + 2 > 2 THEN scc_mgr_zero_group(hw, write_group, TRUE)
                            ELSE hw)
            /\ UNCHANGED fn
       ELSE /\ Goto("vfifo_retry", hw)
            /\ fn' = [fn EXCEPT !.failed_substage = "VFIFO_CENTER"]
            /\ eye' = NoEye
            /\ UNCHANGED regs
    /\ UNCHANGED <<gbl, write_group, en>>

-----------------------------------------------------------------------------
\* rw_mgr_mem_calibrate_vfifo_end has its result.  Then the next group, or,
\* after the last, the latency of the reads.
VfifoEnd ==
    /\ pc = "vfifo_end"
    /\ eye' = NoEye
    /\ \/ /\ ~eye.margins
          /\ MemCalibrateReturns(hw, FALSE)
          /\ gbl' = set_failing_group_stage(gbl, write_group, "VFIFO_AFTER_WRITES",
                                            "VFIFO_CENTER")
          /\ UNCHANGED <<regs, write_group>>
       \/ /\ eye.margins /\ write_group + 1 < DQS_WIDTH
          /\ GroupBegins(hw, write_group + 1, regs)
          /\ UNCHANGED gbl
       \/ /\ eye.margins /\ write_group + 1 = DQS_WIDTH
          /\ Goto("lfifo", rw_mgr_mem_calibrate_read_load_patterns(hw))
          /\ regs' = reg_file_set_sub_stage(reg_file_set_stage(regs, "LFIFO"),
                                            "READ_LATENCY")
          /\ fn' = NoFn
          /\ UNCHANGED <<gbl, write_group>>
    /\ UNCHANGED en

\* rw_mgr_mem_calibrate_lfifo: the latency is lowered until a read fails.
\* mem_calibrate then loads the i/o cells once more and returns.
Lfifo ==
    /\ pc = "lfifo"
    /\ \E t \in rw_mgr_mem_calibrate_read_test(SetRlat(hw, gbl.curr_read_lat), Groups) :
           LET works == t.bits = Dqs
               lat == IF works THEN gbl.curr_read_lat - 1 ELSE gbl.curr_read_lat
           IN  \/ /\ works /\ lat > 0
                  /\ Goto("lfifo", t.hw)
                  /\ gbl' = [gbl EXCEPT !.curr_read_lat = lat]
                  /\ fn' = [fn EXCEPT !.found_one = TRUE]
               \/ /\ (works \/ fn.found_one) /\ (works => lat = 0)
                  /\ gbl' = [gbl EXCEPT !.curr_read_lat = lat + 2]
                  /\ MemCalibrateReturns(Upd(SetRlat(t.hw, lat + 2)), TRUE)
               \/ /\ ~works /\ ~fn.found_one
                  /\ gbl' = set_failing_group_stage(gbl, NoGroup, "LFIFO", "READ_LATENCY")
                  /\ MemCalibrateReturns(t.hw, FALSE)
    /\ UNCHANGED <<regs, write_group, en, eye>>

\* run_mem_calibrate, after mem_calibrate: the memory is given to the
\* controller, and the outcome is told, to the end of the program.
RunMemCalibrate ==
    /\ pc = "finish"
    /\ Goto("done", [rw_mgr_mem_handoff(mem_precharge_and_activate(hw)) EXCEPT !.mux = 2])
    /\ regs' = [regs EXCEPT
                   !.tracking = TRUE,
                   !.cal_status = IF fn.pass THEN "SUCCESS" ELSE "FAIL",
                   !.failing_stage = IF fn.pass THEN @
                                     ELSE <<gbl.error_stage, gbl.error_substage,
                                            gbl.error_group>>]
    /\ UNCHANGED <<gbl, write_group, fn, en, eye>>

\* The program has returned.
Returned == pc = "done" /\ UNCHANGED vars

-----------------------------------------------------------------------------
Next ==
    \/ SdramCalibration \/ MemCalibrate
    \/ GuaranteedRead \/ FindDqsEnPhase \/ VfifoCenterBegins \/ ReadCenter
    \/ VfifoCentered \/ VfifoRetry \/ WriteCenter \/ VfifoEnd
    \/ Lfifo \/ RunMemCalibrate \/ Returned

Spec == Init /\ [][Next]_vars

\* The processor goes on executing until the program returns: weak fairness of
\* the other steps, one of which is enabled until then.
FairSpec == Spec /\ ([]<><<TRUE>>_vars \/ <>[](pc = "done"))

-----------------------------------------------------------------------------
\* The state has its types: a delay is never more than its register holds.
TypeOK ==
    /\ hw.dqs \in [Groups -> DqsSetting] /\ hw.pin \in [Pins -> PinSetting]
    /\ hw.chain \in Cells /\ hw.io \in Cells
    /\ hw.vfifo \in [Groups -> 0 .. VFIFO_SIZE - 1]
    /\ hw.rlat \in 0 .. MAX_LATENCY /\ hw.group_counter \in Groups
    /\ gbl.error_stage \in Stages /\ gbl.error_substage \in Substages
    /\ gbl.curr_read_lat \in 0 .. MAX_LATENCY
    /\ write_group \in Groups
    /\ en.d \in 0 .. IO_DQS_EN_DELAY_MAX + 1 /\ en.p \in 0 .. IO_DQS_EN_PHASE_MAX

\* With what the i/o cells hold a group is read and written, a clock of the
\* latency to spare, and OCT is in step with DQS.
GroupWorks(h, g) ==
    LET board == h.board.group[g]
    IN  /\ TRUE \in Enabled(h, g) /\ h.rlat > board.lat
        /\ \A dq \in Dqs : ReadEye(h, g, dq) /\ WriteEye(h, g, dq, board.write[dq])
        /\ WriteEye(h, g, DmPin, board.dm) /\ DqssMet(h, g)
        /\ h.io.dqs[g].oct_out1 = h.io.pin[g][DqsPin].out1

\* The controller has the memory: its rows are closed, its modes and the
\* tracking are as they were configured, and the termination is off.
HandedOver == hw.mux = 2 /\ ~hw.open /\ "user" \in hw.modes /\ regs.tracking
              /\ hw.odt.write = 0

\* The preloader goes on, and the memory is used, when it reads SUCCESS
\* (sequencer.pre.c:9366): then every group works, at the delays that are in
\* the i/o cells and not those that were tried last.
SuccessWorks ==
    regs.cal_status = "SUCCESS" => HandedOver /\ \A g \in Groups : GroupWorks(hw, g)

\* Eyes of three delays that the sweeps reach, of DQ at their delays in the
\* search one that is read, DQS taken as it is, and a window of the enable
\* that two positions of the VFIFO miss.
Wide(w, top) == w[2] >= w[1] + 2 /\ w[1] <= top /\ w[2] >= 0
Calibratable(group, rl) ==
    LET step == IO_IO_IN_DELAY_MAX \div (DQ_PER_DQS - 1)
        read(w) == <<w[1] + IO_DQS_IN_RESERVE, w[2] + IO_DQS_IN_RESERVE>>
        written(w) == <<w[1] + IO_DQS_OUT_RESERVE, w[2] + IO_DQS_OUT_RESERVE>>
    IN  /\ group.en.size \in IO_DELAY_PER_DQS_EN_DCHAIN_TAP .. ROUND - 2 * CLOCK
        /\ group.en.blur = 0 /\ group.phases # {} /\ group.lat <= rl + 16
        /\ InWindow(group.dqss, IO_DQS_OUT_RESERVE)
        /\ \A dq \in Dqs : /\ Wide(read(group.read[dq]), IO_IO_IN_DELAY_MAX)
                            /\ Wide(written(group.write[dq]), IO_IO_OUT1_DELAY_MAX)
        /\ Wide(written(group.dm), IO_IO_OUT1_DELAY_MAX)
        /\ \E dq \in Dqs : InWindow(read(group.read[dq]), dq * step)

\* No board is given up that the searches can calibrate, wherever in the round
\* of the VFIFO its enable is and whatever the skew of its bits.
CalibratablePasses ==
    regs.cal_status = "FAIL" =>
        \E g \in Groups : ~Calibratable(hw.board.group[g], hw.board.rl)

\* When the search for the enable (sequencer.pre.c:3968) returns, the enable
\* is in the middle of its window, give or take a tap of the chain and the
\* rounding, if the window is not longer than a clock.
EnableCentred ==
    pc = "vfifo_center" =>
        LET size == hw.board.group[write_group].en.size
            before == EnablePosition(hw, write_group)
            after == size - 1 - before
        IN  size \in IO_DELAY_PER_OPA_TAP .. CLOCK =>
                before - after \in -(IO_DELAY_PER_DQS_EN_DCHAIN_TAP + 1)
                                     .. IO_DELAY_PER_DQS_EN_DCHAIN_TAP + 1

\* The memory gets its commands in an order it can follow: modes are loaded and
\* ZQ calibrated with the rows closed, rows are opened after all four modes are
\* loaded, tests read and write open rows (sequencer.pre.c:8302, 3082), none
\* comes within the 250 and 512 clocks after a reset and ZQCL (the loops of
\* 2009), and none while the controller has the memory.  The few clocks that a
\* mode register takes to settle are not checked (see SdramBoard).
MemoryRules == ~hw.misuse

\* The calibration of a group does not move what another group has been set
\* to, though all pins share their registers and SCC_MGR_UPD loads every i/o
\* cell.
GroupsApart ==
    [][pc \notin {"sdram_calibration", "mem_calibrate"} =>
           \A g \in Groups \ {write_group'} :
               /\ hw'.io.dqs[g] = hw.io.dqs[g] /\ hw'.io.pin[g] = hw.io.pin[g]
               /\ hw'.vfifo[g] = hw.vfifo[g]]_vars

\* The processor that waits for the outcome gets one.
Ends == <>(regs.cal_status \in {"SUCCESS", "FAIL"})
=============================================================================
