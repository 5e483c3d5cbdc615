---------------------------- MODULE MCForwarder ----------------------------
(* QSCCPForwarder for TLC: one of two next hops is also a downstream.       *)
EXTENDS QSCCPForwarder

MCNextHops == <<2, 3>>
=============================================================================
