----------------------------- MODULE WDRRShare -----------------------------
(***************************************************************************)
(* WDRRQueue with a history variable: how the flows of a class share its    *)
(* service while all of them have packets and none is penalised.            *)
(***************************************************************************)
EXTENDS WDRRQueue, FiniteSetsExt

VARIABLE lead   \* lead[f]: bits f was served beyond the flow served least,
                \* since the flows last were not all contending

Contended == \A f \in Flow : ~Idle(f) /\ ~penalised[f]

Served(w, p) == [f \in Flow |-> IF f = p.flow THEN w[f] + p.size ELSE w[f]]
Normal(w) == [f \in Flow |-> w[f] - Min({w[g] : g \in Flow})]

ShareInit == Init /\ lead = [f \in Flow |-> 0]

ShareNext ==
    /\ Next
    /\ lead' = IF ~(Contended /\ Contended') THEN [f \in Flow |-> 0]
               ELSE IF packetNum' < packetNum THEN Normal(Served(lead, out'))
               ELSE lead

ShareSpec == ShareInit /\ [][ShareNext]_<<vars, lead>>

(* However long the flows compete and whatever sizes they send, none is     *)
(* served more than twice a flow's credit (CreditBounded) beyond another:   *)
(* what the one had when they met, and what the other has saved since.      *)
FairShare == \A f \in Flow : lead[f] < 2 * (MaxSize + Quantum * (1 + cleanups))
=============================================================================
