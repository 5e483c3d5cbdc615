---------------------------- MODULE MCWDRRShare ----------------------------
(* WDRRShare for TLC: two flows with packets of different sizes.            *)
EXTENDS WDRRShare, TLC

Flows == Permutations(Flow)
=============================================================================
