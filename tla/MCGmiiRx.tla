------------------------------ MODULE MCGmiiRx ------------------------------
(* Instances of GmiiRx for TLC.  With the limits 13 and 22, the frames are  *)
(* too short, just long enough, longer, too long, and cut by rx_err.  The   *)
(* short one is ended before a data unit is full; MCFragments has one that  *)
(* ends just after.                                                         *)
EXTENDS GmiiRx
MCFrames == {<<5, 0>>, <<13, 0>>, <<20, 0>>, <<23, 0>>, <<16, 7>>}
MCFragments == {<<10, 0>>, <<20, 0>>}
=============================================================================
