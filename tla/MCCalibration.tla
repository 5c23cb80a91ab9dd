---------------------------- MODULE MCCalibration ----------------------------
(***************************************************************************)
(* Boards for Calibration: two groups of three DQ, of which the second one  *)
(* is as it should be and the first is not always.                         *)
(***************************************************************************)
EXTENDS Calibration

\* Before the first SCC_MGR_UPD: anything, here the largest delays.
MCChain ==
    [dqs |-> [g \in Groups |->
                 [in |-> IO_DQS_IN_DELAY_MAX, en_phase |-> IO_DQS_EN_PHASE_MAX,
                  en_delay |-> IO_DQS_EN_DELAY_MAX, out_phase |-> 0,
                  oct_out1 |-> IO_IO_OUT1_DELAY_MAX]],
     pin |-> [g \in Groups |->
                 [p \in Pins |-> [in |-> IO_IO_IN_DELAY_MAX, out1 |-> IO_IO_OUT1_DELAY_MAX]]]]

Good ==
    [en |-> [first |-> 33, size |-> 13, blur |-> 0],
     phases |-> 0 .. IO_DQS_EN_PHASE_MAX,
     read |-> [dq \in Dqs |-> <<-2, 2>>], write |-> [dq \in Dqs |-> <<-1, 2>>],
     dm |-> <<-1, 2>>, dqss |-> <<0, 5>>, lat |-> 20]

Board(first) == [wl |-> 5, rl |-> 5, group |-> [g \in Groups |-> IF g = 0 THEN first ELSE Good]]

\* Wherever in a clock the window of the enable begins, and of any length.
EnableBoards ==
    {[Good EXCEPT !.en = [first |-> first, size |-> size, blur |-> 0]] :
         first \in 0 .. CLOCK - 1, size \in {1, 2, 3, 5, 6, 9, 14, 19, 23, 33, 41, 59, 61, 80}}

\* The edges of the window are not sharp.
BlurredBoards ==
    {[Good EXCEPT !.en = [first |-> first, size |-> 14, blur |-> 1]] : first \in 24 .. 28}

ReadEyes == {<<-4, 1>>, <<-2, 2>>, <<0, 3>>, <<-7, -5>>, <<2, 2>>, <<-3, 7>>, <<1, 0>>}

ReadBoards == {[Good EXCEPT !.read = eyes] : eyes \in [Dqs -> ReadEyes]}

WriteEyes == {<<-4, 1>>, <<-1, 2>>, <<1, 4>>, <<-7, -3>>, <<3, 3>>, <<1, 0>>}

WriteBoards ==
    {[Good EXCEPT !.write = eyes] : eyes \in [Dqs -> WriteEyes]}
        \cup {[Good EXCEPT !.write[0] = first, !.dm = dm, !.dqss = dqss] :
                 first \in WriteEyes, dm \in WriteEyes, dqss \in {<<0, 5>>, <<1, 2>>}}

OtherBoards ==
    {[Good EXCEPT !.phases = ps] : ps \in SUBSET (0 .. IO_DQS_EN_PHASE_MAX)} \cup
    {[Good EXCEPT !.dqss = w] : w \in {<<0, 0>>, <<0, 1>>, <<1, 2>>, <<2, 4>>, <<3, 3>>, <<1, 0>>}} \cup
    {[Good EXCEPT !.lat = lat] : lat \in {0, 1, 2, 19, 21, 22}}

\* Two groups that differ.
Pairs ==
    [Groups -> {[Good EXCEPT !.en.first = 7, !.read[1] = <<-4, 1>>],
                [Good EXCEPT !.write = [dq \in Dqs |-> <<dq, dq + 3>>], !.lat = 22],
                [Good EXCEPT !.en.size = 30, !.phases = {2}, !.dm = <<2, 4>>],
                [Good EXCEPT !.read[2] = <<1, 6>>, !.dqss = <<1, 3>>],
                [Good EXCEPT !.phases = {}]}]

MCBoards ==
    {Board(first) : first \in EnableBoards \cup BlurredBoards \cup ReadBoards
                              \cup WriteBoards \cup OtherBoards}
        \cup {[wl |-> 6, rl |-> 7, group |-> pair] : pair \in Pairs}
=============================================================================
