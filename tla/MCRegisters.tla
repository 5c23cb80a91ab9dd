----------------------------- MODULE MCRegisters -----------------------------
(* Three files as in the FPGA, the last with one address too few for its     *)
(* status register; a divider of 4; frames of 3 + 2 + 1 + 3 bits.            *)
EXTENDS Registers, TLC

MCBaseAddr == <<0, 2, 8, 9>>
MCCtrlCnt == <<2, 4, 1>>
MCRom == [a \in 0 .. 7 |-> 7 - a]
MCPhyRegs == 0 :> 5 @@ 1 :> 2

MCOperations == {[cop |-> 2, dev |-> 0, data |-> 0],
                 [cop |-> 2, dev |-> 1, data |-> 0],
                 [cop |-> 1, dev |-> 1, data |-> 6]}

\* A word of the ROM and its address, a register of the last file, by its
\* index and by the next one that names it, the register behind it; then what
\* reg16 refuses or dies of.
MCOther == {<<0>>, <<1, 3>>, <<8, 9>>, <<16 + 8>>, <<9>>,
            <<64>>, <<40>>, <<8, 16>>, <<NotANumber>>, <<>>}
=============================================================================
