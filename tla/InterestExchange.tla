-------------------------- MODULE InterestExchange --------------------------
(***************************************************************************)
(* What a forwarder promises the faces that ask for one name.  A face that  *)
(* has asked is owed an answer.  Data answers every face whose Interest has *)
(* not expired, but for the face it came from; no other face gets it.  The  *)
(* exchange is given up only when the time of all Interests is over, when   *)
(* Data has come, or when someone has refused.                             *)
(***************************************************************************)
CONSTANT Face

VARIABLES
    owed,    \* faces that have asked and were not answered
    late,    \* those of them whose Interests have expired
    closing, \* whether the exchange may be given up now
    data,    \* faces the last step sent Data to
    nacks    \* faces the last step sent a Nack to

vars == <<owed, late, closing, data, nacks>>

Init == owed = {} /\ late = {} /\ ~closing /\ data = {} /\ nacks = {}

(* A new Interest keeps the exchange open, unless it is refused.            *)
Ask(f) ==
    /\ owed' = owed \cup {f}
    /\ late' = late \ {f}
    /\ ~closing'
    /\ data' = {} /\ nacks' = {}

AskInVain(f) ==
    /\ owed' = owed \ {f}
    /\ late' = late \ {f}
    /\ closing'
    /\ data' = {} /\ nacks' = {f}

(* An Interest that loops is refused, whatever its face is owed.            *)
Loop(f) ==
    /\ nacks' = {f} /\ data' = {}
    /\ UNCHANGED <<owed, late, closing>>

Satisfy(from) ==
    /\ data' = owed \ (late \cup {from})
    /\ nacks' = {}
    /\ owed' = owed \ data'
    /\ late' = late
    /\ closing'

(* Data that nobody waits for goes nowhere; a refusal that settles nothing  *)
(* is noted.                                                               *)
Ignore == data' = {} /\ nacks' = {} /\ UNCHANGED <<owed, late, closing>>

(* Upstream refuses: the refusal is passed on to some that are owed, and    *)
(* the exchange may, but need not, be over.                                *)
Refuse(S) ==
    /\ S \subseteq owed
    /\ nacks' = S /\ data' = {}
    /\ owed' = owed \ S
    /\ late' = late \ S
    /\ closing => closing'

Expire ==
    /\ late \subseteq late' /\ late' \subseteq owed
    /\ closing' => owed \subseteq late'
    /\ data' = {} /\ nacks' = {}
    /\ UNCHANGED owed

GiveUp ==
    /\ closing
    /\ owed' = {} /\ late' = {} /\ ~closing'
    /\ data' = {} /\ nacks' = {}

Next ==
    \/ \E f \in Face : Ask(f) \/ AskInVain(f) \/ Loop(f) \/ Satisfy(f)
    \/ \E S \in SUBSET Face : Refuse(S)
    \/ Ignore \/ Expire \/ GiveUp

Spec == Init /\ [][Next]_vars
=============================================================================
