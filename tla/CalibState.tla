----------------------------- MODULE CalibState -----------------------------
(***************************************************************************)
(* What the functions of sequencer.pre.c share: the state of the hardware,   *)
(* gbl, the registers the processor reads the outcome from, the place the    *)
(* program is at and the locals of the functions that are being executed.    *)
(* The program is sequential.  It is cut into steps at its tests: a step is  *)
(* a test with the code around it, up to the next test.                      *)
(***************************************************************************)
EXTENDS RwMgr, FiniteSetsExt

CONSTANTS
    WORD,              \* the alt_u32 are counted modulo this
    MAX_LATENCY        \* (1 << MAX_LATENCY_COUNT_WIDTH) - 1

ASSUME CalibStateAssumption ==
    WORD \in Nat /\ WORD > ROUND /\ WORD % PHASES = 0 /\ MAX_LATENCY \in Nat \ {0}

VARIABLES
    hw,           \* the hardware: SccMgr, SdramBoard, RwMgr
    gbl,          \* error_stage, ..., curr_read_lat, rw_wl_nop_cycles
    regs,         \* REG_FILE_*, PHY_MGR_CAL_STATUS, CTRL_CONFIG_REG
    pc,           \* the test or the function that comes next
    write_group,  \* mem_calibrate
    fn,           \* mem_calibrate, ..._vfifo, ..._lfifo
    en,           \* ..._vfifo_find_dqs_en_phase
    eye           \* ..._vfifo_center, ..._writes_center

vars == <<hw, gbl, regs, pc, write_group, fn, en, eye>>

Add(a, b) == (a + b) % WORD
Sub(a, b) == (a + WORD - b) % WORD

\* Division of C, which rounds towards 0.
Div(a, b) == IF a >= 0 THEN a \div b ELSE -((-a) \div b)

Least(a, b) == IF a <= b THEN a ELSE b
Clamp(x, lo, hi) == IF x < lo THEN lo ELSE IF x > hi THEN hi ELSE x

\* One less than the taps of the chain that make at least a phase tap.
dtaps_per_ptap == (IO_DELAY_PER_OPA_TAP - 1) \div IO_DELAY_PER_DQS_EN_DCHAIN_TAP

\* The delay chain is longer than a phase tap, as it is in the generated
\* constants (sequencer_defines.pre.h), and the times are far from 2^32.
ASSUME DelaysFit ==
    /\ dtaps_per_ptap <= IO_IO_OUT1_DELAY_MAX
    /\ IO_DELAY_PER_OPA_TAP <= IO_DELAY_PER_DQS_EN_DCHAIN_TAP * IO_DQS_EN_DELAY_MAX
    /\ CLOCK + IO_DELAY_PER_DQS_EN_DCHAIN_TAP * IO_DQS_EN_DELAY_MAX <= WORD

-----------------------------------------------------------------------------
NoGroup == 255

Stages == {"NIL", "VFIFO", "WRITES", "VFIFO_AFTER_WRITES", "LFIFO"}

Substages == {"NIL", "GUARANTEED_READ", "DQS_EN_PHASE", "VFIFO_CENTER",
              "WRITES_CENTER", "READ_LATENCY"}

\* The first failure is kept.  group is what the caller calls a group.
set_failing_group_stage(b, group, stage, substage) ==
    IF b.error_stage # "NIL" THEN b
    ELSE [b EXCEPT !.error_group = group, !.error_stage = stage,
                   !.error_substage = substage]

reg_file_set_group(r, g) == [r EXCEPT !.cur_stage.group = g]

reg_file_set_stage(r, stage) ==
    [r EXCEPT !.cur_stage.stage = stage, !.cur_stage.substage = "NIL"]

reg_file_set_sub_stage(r, substage) == [r EXCEPT !.cur_stage.substage = substage]

-----------------------------------------------------------------------------
\* The locals of a function that is not being executed.
NoFn == [d |-> 0, failed_substage |-> "NIL", found_one |-> FALSE, pass |-> FALSE]

NoEn == [v |-> 0, fail_cnt |-> 0, d |-> 0, i |-> 0, p |-> 0, work_bgn |-> 0,
         work_end |-> 0, tmp_delay |-> 0, initial |-> 0]

NoEye == [d |-> 0, left |-> <<>>, right |-> <<>>, sticky |-> {}, start_dqs |-> 0,
          use_read_test |-> FALSE, margins |-> FALSE, bgn_curr |-> 0, end_curr |-> 0,
          bgn_best |-> 0, end_best |-> 0, win_best |-> 0]

\* To label l with state h of the hardware.
Goto(l, h) == pc' = l /\ hw' = h

\* mem_calibrate returns.
MemCalibrateReturns(h, pass) ==
    /\ Goto("finish", h)
    /\ fn' = [NoFn EXCEPT !.pass = pass]
=============================================================================
