------------------------------- MODULE RwMgr -------------------------------
(***************************************************************************)
(* The read/write manager as sequencer.pre.c drives it: the start of the    *)
(* memory, the tests, and the hand over to the controller.  A test stands    *)
(* for the program it runs in the manager; its result is a set of records,  *)
(* one for each answer the board may give, with the state of the hardware    *)
(* after the test and the bits that were right.                             *)
(***************************************************************************)
EXTENDS SdramBoard

CONSTANT LOOP           \* what a loop counter of the manager counts: 0x100

ASSUME RwMgrAssumption == LOOP \in Nat \ {0}

-----------------------------------------------------------------------------
(* Waiting.  A loop is done once more than its counter says. *)

\* The counters of delay_for_n_mem_clocks, each as wide as its variable
\* (c_loop is 16 bits wide, which no wait comes near).
DelayLoops(clocks) ==
    IF clocks <= LOOP
    THEN [inner |-> IF clocks = 0 THEN 0 ELSE clocks - 1, outer |-> 0, c_loop |-> 0]
    ELSE IF clocks <= LOOP * LOOP
    THEN [inner |-> LOOP - 1, outer |-> (clocks - 1) \div LOOP, c_loop |-> 0]
    ELSE [inner |-> LOOP - 1, outer |-> LOOP - 1,
          c_loop |-> (clocks - 1) \div (LOOP * LOOP)]

\* The clocks these loops take at the least.
DelayClocks(clocks) ==
    LET loops == DelayLoops(clocks)
    IN  (loops.inner + 1) * (loops.outer + 1) * (loops.c_loop + 1)

delay_for_n_mem_clocks(h, clocks) == Wait(h, DelayClocks(clocks))

-----------------------------------------------------------------------------
(* The memory. *)

\* RW_MGR_MEM_NUMBER_OF_RANKS is 1.
set_rank_and_odt_mask(h, odt_mode) ==
    [h EXCEPT !.odt = [read |-> 0,
                       write |-> IF odt_mode = "READ_WRITE" THEN 1 ELSE 0]]

initialize(h) == [h EXCEPT !.mux = 3, !.stable = FALSE]

rw_mgr_mem_initialize(h) ==
    LET stable == AfterReset([h EXCEPT !.stable = TRUE], 250)
        rank == set_rank_and_odt_mask(delay_for_n_mem_clocks(stable, 250), "OFF")
        mrs2 == delay_for_n_mem_clocks(LoadMode(rank, "MR2"), 4)
        mrs3 == delay_for_n_mem_clocks(LoadMode(mrs2, "MR3"), 4)
        mrs0 == LoadMode(LoadMode(mrs3, "MR1"), "MR0")
    IN  delay_for_n_mem_clocks(CalibrateZq(mrs0, 512), 512)

mem_precharge_and_activate(h) ==
    Activate(PrechargeAll(set_rank_and_odt_mask(h, "OFF")))

\* Mutant: the rows are left open.
handoffOpen(h) ==
    LET mrs2 == delay_for_n_mem_clocks(LoadMode(h, "MR2"), 4)
        mrs3 == delay_for_n_mem_clocks(LoadMode(mrs2, "MR3"), 4)
    IN  LoadMode(LoadMode(mrs3, "MR1"), "user")

\* MR0 is loaded with what the user configured.
rw_mgr_mem_handoff(h) ==
    LET closed == PrechargeAll(set_rank_and_odt_mask(h, "OFF"))
        mrs2 == delay_for_n_mem_clocks(LoadMode(closed, "MR2"), 4)
        mrs3 == delay_for_n_mem_clocks(LoadMode(mrs2, "MR3"), 4)
        mrs1 == delay_for_n_mem_clocks(LoadMode(mrs3, "MR1"), 4)
    IN  LoadMode(mrs1, "user")

-----------------------------------------------------------------------------
(* The VFIFO delays the enable of a group by clocks; it can only be moved   *)
(* forward.                                                                 *)

rw_mgr_incr_vfifo(h, g) == [h EXCEPT !.vfifo[g] = (@ + 1) % VFIFO_SIZE]

rw_mgr_decr_vfifo(h, g) == [h EXCEPT !.vfifo[g] = (@ + VFIFO_SIZE - 1) % VFIFO_SIZE]

-----------------------------------------------------------------------------
(* The tests. *)

TestBegin(h) == Access(set_rank_and_odt_mask(h, "READ_WRITE"))
TestEnd(h) == set_rank_and_odt_mask(h, "OFF")

\* All groups are written; what the tests of writes left is overwritten.
rw_mgr_mem_calibrate_read_load_patterns(h) ==
    LET a == TestBegin(h)
    IN  TestEnd([a EXCEPT !.patterns = [g \in Groups |->
            Ready(a) /\ a.odt.write = 1 /\ DqssMet(a, g)]])

rw_mgr_mem_calibrate_read_test_patterns(h, g) ==
    LET a == TestBegin(h)
    IN  [hw |-> TestEnd(a),
         passed |-> /\ Ready(a) /\ a.patterns[g] /\ LatencyMet(a, g)
                    /\ a.io.dqs[g].en_phase \in a.board.group[g].phases]

\* gs has one group, or all of them (all_groups).
rw_mgr_mem_calibrate_read_test(h, gs) ==
    LET a == TestBegin(h)
        answers == {e \in [gs -> BOOLEAN] : \A g \in gs : e[g] \in Enabled(a, g)}
        right(e) == {dq \in Dqs : \A g \in gs :
                         a.patterns[g] /\ dq \in ReadsBack(a, g, e[g])}
    IN  {[hw |-> TestEnd(a), bits |-> right(e)] : e \in answers}

\* The NOPs between a write command and its data: with -1 and 0 the program
\* is left for its data or DQS instruction at once, otherwise counter 3 keeps
\* it at its NOP.
rw_mgr_mem_calibrate_write_test_issue(nops) ==
    LET cntr_3 == nops - 1 IN IF nops \in {-1, 0} THEN nops ELSE cntr_3 + 1

rw_mgr_mem_calibrate_write_test(h, g, nops, use_dm) ==
    LET a == TestBegin(h)
        stored == Stores(a, g, rw_mgr_mem_calibrate_write_test_issue(nops), use_dm)
    IN  {[hw |-> TestEnd([a EXCEPT !.patterns[g] = FALSE]),
          bits |-> stored \cap ReadsBack(a, g, e)] : e \in Enabled(a, g)}

\* If the read of the patterns fails, it is tried with every phase, and the
\* phase of the first that works is kept.
rw_mgr_mem_calibrate_read_test_patterns_all_ranks(h, g) ==
    LET first == rw_mgr_mem_calibrate_read_test_patterns(h, g)
        at(p) == rw_mgr_mem_calibrate_read_test_patterns(
                     scc_mgr_set_dqs_en_phase_all_ranks(first.hw, g, p), g)
        good == {p \in 0 .. IO_DQS_EN_PHASE_MAX : at(p).passed}
    IN  IF first.passed THEN first
        ELSE IF good = {} THEN at(IO_DQS_EN_PHASE_MAX)
        ELSE at(CHOOSE p \in good : \A q \in good : p <= q)
=============================================================================
