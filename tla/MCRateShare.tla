---------------------------- MODULE MCRateShare ----------------------------
(* RateShare for TLC: a node with one neighbour and two next hops.          *)
EXTENDS RateShare

MCTwoHops == <<3, 4>>

ASSUME HopsAssumption == TwoHops
=============================================================================
