------------------------------ MODULE MCGmiiTx ------------------------------
EXTENDS GmiiTx
MCNoWord == [n |-> 0, eop |-> FALSE, mod |-> 0]
MCPackets == {[words |-> 1, mod |-> 3], [words |-> 2, mod |-> 3], [words |-> 3, mod |-> 0]}
=============================================================================
