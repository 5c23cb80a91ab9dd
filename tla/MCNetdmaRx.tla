----------------------------- MODULE MCNetdmaRx -----------------------------
(* Instances of NetdmaRx for TLC. *)
EXTENDS NetdmaRx

=============================================================================
