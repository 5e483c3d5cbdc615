----------------------------- MODULE RateShare -----------------------------
(***************************************************************************)
(* RateStore with a history variable: how two upstream faces share the      *)
(* Interests while what they recommend does not change.                    *)
(***************************************************************************)
EXTENDS RateStore

VARIABLE lead  \* bits asked of the first hop times the growth of the second,
               \* less bits asked of the second times the growth of the first

First == NextHops[1]
Second == NextHops[2]

(* Two next hops Interests do not come from, and rates whose sum is not     *)
(* wrapped around.                                                         *)
TwoHops ==
    /\ Len(NextHops) = 2 /\ First # Second /\ Up \cap Down = {}
    /\ LargestRate * Cardinality(Up) < Wrap

Ready == Faces(rrt) = Up

LeadInit == Init /\ lead = 0

Lead(f, size) ==
    CASE f = First  -> lead + size * Growth(rrt, Second)
      [] f = Second -> lead - size * Growth(rrt, First)
      [] OTHER      -> lead

LeadNext ==
    \/ \E f \in Down, r \in Rate, s \in Dsz :
          /\ AfterReceiveInterest(f, r, s)
          /\ lead' = IF Ready THEN Lead(SelectFaceByRatio(f, s).face, s) ELSE 0
    \/ /\ \/ \E f \in Up \ Local, r \in Rate : BeforeSatisfyInterest(f, r)
          \/ PeriodicCleaning
       /\ lead' = IF rrt'.rate = rrt.rate THEN lead ELSE 0

LeadSpec == LeadInit /\ [][LeadNext]_<<vars, lead>> /\ WF_vars(PeriodicCleaning)

(* While rates stay as they are, two upstream faces are asked for Data in   *)
(* proportion to the rates they recommend: neither is ever ahead by more    *)
(* than the balances that a refill and a packet can leave.                  *)
Debt(u, v) == (Max(Dsz) + Quantum) * Growth(rrt, u)

ProportionalSplit ==
    Ready => /\ lead <= Debt(First, Second) + Debt(Second, First)
             /\ -lead <= Debt(First, Second) + Debt(Second, First)
=============================================================================
