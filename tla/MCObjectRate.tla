---------------------------- MODULE MCObjectRate ----------------------------
(* ObjectRate for TLC: a rate-limited class that re-marks its packets as     *)
(* those of the next, and two weighted classes.                             *)
EXTENDS ObjectRate

MCWFQOrder == <<1, 2>>
MCWeight == [c \in {1, 2} |-> IF c = 1 THEN 2 ELSE 1]
MCLimit == [c \in {0} |-> 20]
MCTos == [c \in {0, 1, 2} |-> IF c = 0 THEN 1 ELSE c]
MCDiscount == [n \in 0 .. 2 |-> IF n = 0 THEN 999 ELSE IF n = 1 THEN 557 ELSE 116]
CONSTANTS f1, f2
I(c, f, d, m) == [class |-> c, flow |-> f, dsz |-> d, marked |-> m]
MCOffer ==
    {I(0, f1, 4, FALSE), I(0, f2, 1, FALSE), I(1, f1, 1, FALSE), I(1, f2, 4, FALSE),
     I(2, f1, 4, FALSE), I(2, f2, 1, TRUE)}
MCJunk == {-3, -2, 0, 6}
=============================================================================
