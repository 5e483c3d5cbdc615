----------------------------- MODULE MCConsumer -----------------------------
(* ConsumerQSCCP for TLC.                                                  *)
EXTENDS ConsumerQSCCP

MCNone == None
=============================================================================
