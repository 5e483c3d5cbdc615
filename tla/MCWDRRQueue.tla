---------------------------- MODULE MCWDRRQueue ----------------------------
(* WDRRQueue for TLC, whose flows are interchangeable where only safety is at stake. *)
EXTENDS WDRRQueue, TLC

FlowSymmetry == Permutations(Flow)

=============================================================================
