---------------------------- MODULE MCTrafEngine ----------------------------
(* Instances of TrafEngine for TLC.  Six words, the longest packet, are as   *)
(* many as the cycles between two statuses, so that a short one can follow   *)
(* it without a pause while the room is still counted without its last words.*)
EXTENDS TrafEngine
MCPackets == {[macd |-> "alt", len |-> 45], [macd |-> "multicast", len |-> 31],
              [macd |-> "other", len |-> 20], [macd |-> "host", len |-> 15]}
=============================================================================
