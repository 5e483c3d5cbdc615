-------------------------- MODULE MCLinkScheduler --------------------------
(* LinkScheduler for TLC: two rate-limited and two weighted classes.        *)
EXTENDS LinkScheduler

MCSPOrder == <<"CS7", "EF">>
MCWFQOrder == <<"AF4", "BE">>
MCEachStep == [c \in {"CS7", "EF"} |-> IF c = "CS7" THEN 2 ELSE 3]
MCWeight == [c \in {"AF4", "BE"} |-> IF c = "AF4" THEN 2 ELSE 1]
=============================================================================
