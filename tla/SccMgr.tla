------------------------------- MODULE SccMgr -------------------------------
(***************************************************************************)
(* The scan chain manager, as sequencer.pre.c uses it.  A delay passes      *)
(* three places on its way: the register it is written to, the scan chain   *)
(* an *_ENA write shifts it into, and the i/o cell that SCC_MGR_UPD loads    *)
(* from the chain.  The registers of the pins are those of one group; the   *)
(* chain they go to is that of SCC_MGR_GROUP_COUNTER.  There is a group of   *)
(* pins for every DQS, one rank, one shadow register and one virtual group,  *)
(* as sequencer_defines.pre.h says, so a write group is a read group.       *)
(***************************************************************************)
EXTENDS Integers, FiniteSets

CONSTANTS
    DQS_WIDTH,            \* RW_MGR_MEM_IF_READ_DQS_WIDTH, ..._WRITE_...
    DQ_PER_DQS,           \* RW_MGR_MEM_DQ_PER_READ_DQS, ..._WRITE_...
    IO_DQS_EN_PHASE_MAX, IO_DQS_EN_DELAY_MAX, IO_DQS_IN_DELAY_MAX,
    IO_IO_IN_DELAY_MAX, IO_IO_OUT1_DELAY_MAX,
    IO_DQS_IN_RESERVE, IO_DQS_OUT_RESERVE

ASSUME SccMgrAssumption ==
    /\ DQS_WIDTH \in Nat \ {0} /\ DQ_PER_DQS \in Nat \ {0, 1}
    /\ IO_DQS_EN_PHASE_MAX \in Nat /\ IO_DQS_EN_DELAY_MAX \in Nat
    /\ IO_DQS_IN_DELAY_MAX \in Nat
    /\ IO_IO_IN_DELAY_MAX \in Nat /\ IO_IO_OUT1_DELAY_MAX \in Nat
    /\ IO_DQS_IN_RESERVE \in 0 .. IO_DQS_IN_DELAY_MAX
    /\ IO_DQS_OUT_RESERVE \in 0 .. IO_IO_OUT1_DELAY_MAX

Groups == 0 .. DQS_WIDTH - 1
Dqs == 0 .. DQ_PER_DQS - 1
DqsPin == DQ_PER_DQS
DmPin == DQ_PER_DQS + 1
Pins == 0 .. DmPin

\* What WRITE_SCC_DQS_*, WRITE_SCC_OCT_OUT1_DELAY write for a group.
DqsSetting == [in : 0 .. IO_DQS_IN_DELAY_MAX, en_phase : 0 .. IO_DQS_EN_PHASE_MAX,
               en_delay : 0 .. IO_DQS_EN_DELAY_MAX, out_phase : {0},
               oct_out1 : 0 .. IO_IO_OUT1_DELAY_MAX]

\* What WRITE_SCC_DQ_*, WRITE_SCC_DQS_IO_* and WRITE_SCC_DM_IO_* write for a
\* pin.  For OUT2 and the bypasses there are no registers with HHP_HPS: they
\* are not written, and read as 0.
PinSetting == [in : 0 .. IO_IO_IN_DELAY_MAX, out1 : 0 .. IO_IO_OUT1_DELAY_MAX]

Cells == [dqs : [Groups -> DqsSetting], pin : [Groups -> [Pins -> PinSetting]]]

ZeroDqs == [in |-> 0, en_phase |-> 0, en_delay |-> 0, out_phase |-> 0,
            oct_out1 |-> 0]
ZeroPin == [in |-> 0, out1 |-> 0]

-----------------------------------------------------------------------------
(* The registers.  h is the state of the hardware. *)

scc_mgr_initialize(h) ==
    [h EXCEPT !.dqs = [g \in Groups |-> ZeroDqs], !.pin = [p \in Pins |-> ZeroPin]]

scc_mgr_set_dqs_bus_in_delay(h, g, delay) == [h EXCEPT !.dqs[g].in = delay]

scc_mgr_set_dqs_io_in_delay(h, delay) == [h EXCEPT !.pin[DqsPin].in = delay]

\* The register is as wide as the largest phase.
scc_mgr_set_dqs_en_phase(h, g, phase) ==
    [h EXCEPT !.dqs[g].en_phase = phase % (IO_DQS_EN_PHASE_MAX + 1)]

scc_mgr_set_dqdqs_output_phase(h, g, phase) == [h EXCEPT !.dqs[g].out_phase = phase]

scc_mgr_set_dqs_en_delay(h, g, delay) == [h EXCEPT !.dqs[g].en_delay = delay]

scc_mgr_set_oct_out1_delay(h, g, delay) == [h EXCEPT !.dqs[g].oct_out1 = delay]

\* Of all DQ of the group, one after the other: delay[dq] of DQ dq.
scc_mgr_set_dq_out1_delay(h, delay) ==
    [h EXCEPT !.pin = [p \in Pins |-> IF p \in Dqs THEN [@[p] EXCEPT !.out1 = delay[p]]
                                      ELSE @[p]]]

scc_mgr_set_dq_in_delay(h, delay) ==
    [h EXCEPT !.pin = [p \in Pins |-> IF p \in Dqs THEN [@[p] EXCEPT !.in = delay[p]]
                                      ELSE @[p]]]

scc_mgr_set_hhp_extras(h) == [h EXCEPT !.hhp_extras = TRUE]

scc_mgr_set_dqs_out1_delay(h, delay) == [h EXCEPT !.pin[DqsPin].out1 = delay]

scc_mgr_set_dm_out1_delay(h, delay) == [h EXCEPT !.pin[DmPin].out1 = delay]

scc_mgr_set_dm_in_delay(h, delay) == [h EXCEPT !.pin[DmPin].in = delay]

-----------------------------------------------------------------------------
(* The chains and the i/o cells. *)

\* SCC_MGR_DQS_ENA: of one group, or of all (0xff).
DqsEna(h, gs) ==
    [h EXCEPT !.chain.dqs = [g \in Groups |-> IF g \in gs THEN h.dqs[g] ELSE @[g]]]

\* Mutant: SCC_MGR_GROUP_COUNTER is not looked at.
pinEnaFirst(h, ps) ==
    [h EXCEPT !.chain.pin[0] = [p \in Pins |-> IF p \in ps THEN h.pin[p] ELSE @[p]]]

\* SCC_MGR_DQ_ENA, SCC_MGR_DM_ENA and SCC_MGR_DQS_IO_ENA.
PinEna(h, ps) ==
    [h EXCEPT !.chain.pin[h.group_counter] =
        [p \in Pins |-> IF p \in ps THEN h.pin[p] ELSE @[p]]]

\* SCC_MGR_UPD.
Upd(h) == [h EXCEPT !.io = h.chain]

scc_mgr_load_dqs(h, g) == DqsEna(h, {g})
scc_mgr_load_dqs_io(h) == PinEna(h, {DqsPin})
scc_mgr_load_dq(h) == PinEna(h, Dqs)
scc_mgr_load_dm(h) == PinEna(h, {DmPin})
scc_mgr_load_dqs_for_write_group(h, g) == DqsEna(h, {g})

scc_mgr_set_dqs_en_phase_all_ranks(h, g, phase) ==
    Upd(DqsEna(scc_mgr_set_dqs_en_phase(h, g, phase), {g}))

scc_mgr_set_dqdqs_output_phase_all_ranks(h, g, phase) ==
    Upd(DqsEna(scc_mgr_set_dqdqs_output_phase(h, g, phase), {g}))

scc_mgr_set_dqs_en_delay_all_ranks(h, g, delay) ==
    Upd(DqsEna(scc_mgr_set_dqs_en_delay(h, g, delay), {g}))

scc_mgr_zero_all(h) ==
    Upd(DqsEna([h EXCEPT !.dqs = [g \in Groups |->
                    [ZeroDqs EXCEPT !.in = IO_DQS_IN_RESERVE,
                                    !.oct_out1 = IO_DQS_OUT_RESERVE]]], Groups))

\* For all groups, one after the other: with HHP_HPS the mode is set once, and
\* for each group all pins and DQS are loaded.
scc_set_bypass_mode(h) ==
    Upd([scc_mgr_set_hhp_extras(h) EXCEPT
             !.chain = [dqs |-> h.dqs, pin |-> [g \in Groups |-> h.pin]]])

scc_mgr_zero_group(h, g, out_only) ==
    LET zero == [dq \in Dqs |-> 0]
        in == IF out_only THEN h
              ELSE scc_mgr_set_dqs_io_in_delay(
                       scc_mgr_set_dm_in_delay(scc_mgr_set_dq_in_delay(h, zero), 0), 0)
        out == scc_mgr_set_dm_out1_delay(scc_mgr_set_dq_out1_delay(in, zero), 0)
        dqs == scc_mgr_set_dqs_out1_delay(out, IO_DQS_OUT_RESERVE)
        oct == scc_mgr_set_oct_out1_delay(dqs, g, IO_DQS_OUT_RESERVE)
    IN  Upd(PinEna(scc_mgr_load_dqs_for_write_group(oct, g), Pins))

scc_mgr_apply_group_dq_in_delay(h, delay) ==
    scc_mgr_load_dq(scc_mgr_set_dq_in_delay(h, [dq \in Dqs |-> delay]))

scc_mgr_apply_group_dq_out1_delay(h, delay) ==
    scc_mgr_load_dq(scc_mgr_set_dq_out1_delay(h, [dq \in Dqs |-> delay]))

scc_mgr_apply_group_dm_out1_delay(h, delay) ==
    scc_mgr_load_dm(scc_mgr_set_dm_out1_delay(h, delay))

scc_mgr_apply_group_dqs_io_and_oct_out1(h, g, delay) ==
    LET io == scc_mgr_load_dqs_io(scc_mgr_set_dqs_out1_delay(h, delay))
    IN  scc_mgr_load_dqs_for_write_group(scc_mgr_set_oct_out1_delay(io, g, delay), g)

\* new_delay is the OUT2 delay, which reads as 0, plus delay.  Its largest
\* value is 0: of the DQ and DM pins nothing is changed, of DQS and OCT the
\* excess, the whole of delay, becomes the OUT1 delay.
scc_mgr_apply_group_all_out_delay_add(h, g, delay) ==
    LET pins == PinEna(h, Dqs \cup {DmPin})
        dqs == scc_mgr_load_dqs_io(IF delay > 0 THEN scc_mgr_set_dqs_out1_delay(pins, delay)
                                   ELSE pins)
    IN  scc_mgr_load_dqs_for_write_group(
            IF delay > 0 THEN scc_mgr_set_oct_out1_delay(dqs, g, delay) ELSE dqs, g)

scc_mgr_apply_group_all_out_delay_add_all_ranks(h, g, delay) ==
    Upd(scc_mgr_apply_group_all_out_delay_add(h, g, delay))
=============================================================================
