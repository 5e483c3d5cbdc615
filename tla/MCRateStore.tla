---------------------------- MODULE MCRateStore ----------------------------
(* RateStore for TLC: faces are small numbers, as in NFD.                  *)
EXTENDS RateStore

MCTwoHops == <<3, 4>>
=============================================================================
