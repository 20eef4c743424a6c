---------------------------- MODULE MCMpDispatch ----------------------------
(* Instances of MpDispatch for TLC. *)
EXTENDS MpDispatch

CONSTANTS a1, a2, a3, a4

TwoAPs == {a1, a2}
ThreeAPs == {a1, a2, a3}
=============================================================================
