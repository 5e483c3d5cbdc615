--------------------------- MODULE QSCCPForwarder ---------------------------
(***************************************************************************)
(* One PIT entry of a node: the forwarding pipelines of NFD's Forwarder     *)
(* with QSCCPStrategy, for the Interests of one name.  The face an Interest *)
(* of a neighbour is sent to is the one RateStore selects, any next hop but *)
(* the ingress, or none.                                                   *)
(*                                                                         *)
(* Time advances in ticks, and only when no event is due: the timer of the  *)
(* entry, once it is 0, runs before time goes on, but packets of the same   *)
(* time may come before it.  Records count the ticks until they expire.     *)
(*                                                                         *)
(* The content store has size 0 and never hits.  Interests do not demand    *)
(* fresh Data, so satisfied ones leave nothing in the dead nonce list.      *)
(***************************************************************************)
EXTENDS Integers, Sequences, FiniteSets

CONSTANTS
    Downstream,     \* faces Interests come from
    NextHops,       \* the FIB's next hops, in order
    LocalConsumer,  \* those of Downstream that lead to an application
    Lifetime,       \* lifetimes of Interests, in ticks
    MinRetxInterval,\* RetxSuppressionFixed::m_minRetxInterval, in ticks
    MaxNonce,       \* bound: nonces 1 .. MaxNonce
    MaxArrivals     \* bound: Interests that arrive

Upstream == {NextHops[i] : i \in DOMAIN NextHops}
Face == Downstream \cup Upstream
Nonce == 1 .. MaxNonce
NoTimer == -1
NoFace == 0

ASSUME FaceAssumption == /\ NextHops \in Seq(Upstream)
                         /\ NoFace \notin Face
                         /\ LocalConsumer \subseteq Downstream \ Upstream
ASSUME TimeAssumption == /\ Lifetime \subseteq Nat \ {0}
                         /\ \E t \in Lifetime : \A l \in Lifetime : l <= t
                         /\ MinRetxInterval \in Nat \ {0}
ASSUME BoundAssumption == MaxNonce \in Nat /\ MaxArrivals \in Nat

VARIABLES
    exists,    \* the name has a PIT entry
    inR,       \* in-records: the nonce of the last Interest, ticks it has left
    outR,      \* out-records: the same, whether nacked, ticks since the last
    timer,     \* ticks until expiryTimer fires
    satisfied, \* isSatisfied
    dnl,       \* nonces of the name in the dead nonce list
    sent,      \* what the last handler sent
    wire,      \* the network: how often an Interest sent may still be answered
    nonces,    \* nonces seen so far
    arrivals   \* Interests so far (bounded by MaxArrivals)

entry == <<exists, inR, outR, timer, satisfied>>
vars == <<entry, dnl, sent, wire, nonces, arrivals>>

MostTicks == CHOOSE t \in Lifetime : \A l \in Lifetime : l <= t

InRecord == [nonce : Nonce, left : -1 .. MostTicks]
OutRecord == [nonce : Nonce, left : -1 .. MostTicks, age : 0 .. MinRetxInterval, nacked : BOOLEAN]

Packet == [kind : {"Interest", "Data", "Nack"}, to : Face, nonce : Nonce]

TypeOK ==
    /\ {exists, satisfied} \subseteq BOOLEAN
    /\ DOMAIN inR \subseteq Downstream /\ inR \in [DOMAIN inR -> InRecord]
    /\ DOMAIN outR \subseteq Upstream /\ outR \in [DOMAIN outR -> OutRecord]
    /\ timer \in NoTimer .. MostTicks
    /\ dnl \subseteq Nonce
    /\ sent \subseteq Packet
    /\ wire \in [Upstream \X Nonce -> 0 .. MaxArrivals]
    /\ nonces \in 0 .. MaxNonce
    /\ arrivals \in 0 .. MaxArrivals

Nothing == [f \in {} |-> 0]

Init ==
    /\ exists = FALSE /\ inR = Nothing /\ outR = Nothing
    /\ timer = NoTimer /\ satisfied = FALSE
    /\ dnl = {} /\ sent = {} /\ wire = [x \in Upstream \X Nonce |-> 0] /\ nonces = 0 /\ arrivals = 0

-----------------------------------------------------------------------------
(* Records.                                                                *)

With(r, f, rec) == [g \in DOMAIN r \cup {f} |-> IF g = f THEN rec ELSE r[g]]
Less(r, S) == [g \in DOMAIN r \ S |-> r[g]]

Waits(r, f) == f \in DOMAIN r /\ r[f].left > 0

(* hasPendingOutRecords.                                                   *)
Pending(out, u) == u \in DOMAIN out /\ out[u].left >= 0 /\ ~out[u].nacked
HasPending(out) == \E u \in Upstream : Pending(out, u)

(* insertOrUpdateOutRecord; a Nack that the record holds stays.             *)
OutRecordFor(out, u, n, life) ==
    [nonce |-> n, left |-> life, age |-> 0,
     nacked |-> u \in DOMAIN out /\ out[u].nacked]

(* The network owes an answer to Interest n sent to u.                     *)
Unanswered(u, n) == wire[<<u, n>>] > 0

Answer(kind, r, S) == {[kind |-> kind, to |-> f, nonce |-> r[f].nonce] : f \in S}

-----------------------------------------------------------------------------
(* Incoming Interest.                                                      *)

(* A nonce another face's record holds; the ingress itself may send it      *)
(* again, on a point-to-point link.                                        *)
Duplicate(f, n) ==
    /\ ~(f \in DOMAIN inR /\ inR[f].nonce = n)
    /\ \/ \E g \in DOMAIN inR : inR[g].nonce = n
       \/ \E u \in DOMAIN outR : outR[u].nonce = n

OnInterestLoop(f, n) ==
    /\ n \in dnl \/ Duplicate(f, n)
    /\ sent' = {[kind |-> "Nack", to |-> f, nonce |-> n]}
    /\ UNCHANGED <<entry, dnl, wire>>

(* The time the last in-record expires.                                    *)
TimerOfLast(r) ==
    \E f \in DOMAIN r : timer' = r[f].left /\ \A g \in DOMAIN r : r[g].left <= r[f].left

(* RetxSuppressionFixed: the entry waits for an upstream, and the last      *)
(* Interest went out a moment ago.                                         *)
Suppressed(out) ==
    HasPending(out) /\ \E u \in DOMAIN out : out[u].age < MinRetxInterval

(* The next hop for an Interest of f: the first that is eligible for an     *)
(* application, the selected one for a neighbour.                          *)
Eligible(f) == {i \in DOMAIN NextHops : NextHops[i] # f}

Choices(f) ==
    IF f \in LocalConsumer
      THEN IF Eligible(f) = {} THEN {NoFace}
           ELSE {NextHops[i] : i \in {j \in Eligible(f) : \A k \in Eligible(f) : j <= k}}
      ELSE {NextHops[i] : i \in Eligible(f)} \cup {NoFace}

Suppress(r) ==
    /\ Suppressed(outR)
    /\ inR' = r /\ TimerOfLast(r)
    /\ sent' = {}
    /\ UNCHANGED <<outR, wire>>

(* Fault: nobody checks that a next hop was found.                         *)
SendUnchecked(r, f, u, n, life) ==
    /\ ~Suppressed(outR)
    /\ inR' = r /\ TimerOfLast(r)
    /\ outR' = With(outR, u, OutRecordFor(outR, u, n, life))
    /\ sent' = {[kind |-> "Interest", to |-> u, nonce |-> n]}
    /\ wire' = [wire EXCEPT ![<<u, n>>] = @ + 1]

SendInterest(r, f, u, n, life) ==
    /\ ~Suppressed(outR) /\ u # NoFace
    /\ inR' = r /\ TimerOfLast(r)
    /\ outR' = With(outR, u, OutRecordFor(outR, u, n, life))
    /\ sent' = {[kind |-> "Interest", to |-> u, nonce |-> n]}
    /\ wire' = [wire EXCEPT ![<<u, n>>] = @ + 1]

(* Fault: the entry is not rejected.                                       *)
RejectWaiting(r) == TimerOfLast(r)

RejectPendingInterest(r) == timer' = 0

NackNoRoute(r, f) ==
    /\ ~Suppressed(outR)
    /\ sent' = Answer("Nack", r, {f})
    /\ inR' = Less(r, {f})
    /\ RejectPendingInterest(r)
    /\ UNCHANGED <<outR, wire>>

OnContentStoreMiss(f, n, life) ==
    LET r == With(inR, f, [nonce |-> n, left |-> life]) IN
    /\ n \notin dnl /\ ~Duplicate(f, n)
    /\ exists' = TRUE
    /\ \/ Suppress(r)
       \/ \E u \in Choices(f) : SendInterest(r, f, u, n, life)
       \/ NoFace \in Choices(f) /\ NackNoRoute(r, f)
    /\ UNCHANGED <<satisfied, dnl>>

OnIncomingInterest(f, n, life) ==
    /\ arrivals < MaxArrivals /\ n <= nonces + 1
    /\ arrivals' = arrivals + 1
    /\ nonces' = IF n > nonces THEN n ELSE nonces
    /\ OnInterestLoop(f, n) \/ OnContentStoreMiss(f, n, life)

-----------------------------------------------------------------------------
(* Incoming Data.                                                          *)

(* Fault: Data goes to faces whose Interests have expired, too.             *)
DownstreamsLate(u) == {f \in DOMAIN inR : f # u}

Downstreams(u) == {f \in DOMAIN inR : Waits(inR, f) /\ f # u}

(* Fault: the record of the upstream stays.                                *)
OutAfterDataKept(u) == outR

OutAfterData(u) == Less(outR, {u})

OnIncomingData(u, n) ==
    /\ Unanswered(u, n)
    /\ wire' = [wire EXCEPT ![<<u, n>>] = @ - 1]
    /\ IF exists
         THEN /\ timer' = 0
              /\ sent' = Answer("Data", inR, Downstreams(u))
              /\ inR' = Less(inR, Downstreams(u))
              /\ satisfied' = TRUE
              /\ outR' = OutAfterData(u)
         ELSE sent' = {} /\ UNCHANGED <<timer, inR, satisfied, outR>>
    /\ UNCHANGED <<exists, dnl, nonces, arrivals>>

-----------------------------------------------------------------------------
(* Incoming Nack.                                                          *)

(* Fault: the Nack is recorded only after the strategy has seen it.         *)
NotNackedBefore(out) == {v \in DOMAIN outR : ~outR[v].nacked}

NotNacked(out) == {v \in DOMAIN out : ~out[v].nacked}

(* processNack: who is told.                                               *)
ToBeNacked(out) ==
    LET waiting == NotNacked(out) IN
    IF waiting = {} THEN DOMAIN inR
    ELSE IF Cardinality(waiting) = 1 THEN waiting \cap DOMAIN inR
    ELSE {}

(* Fault: the timer is cancelled and not scheduled again.                   *)
TimerCancelled(out) == IF HasPending(out) THEN timer ELSE NoTimer

TimerAfterNack(out) == IF HasPending(out) THEN timer ELSE 0

OnIncomingNack(u, n) ==
    /\ Unanswered(u, n)
    /\ wire' = [wire EXCEPT ![<<u, n>>] = @ - 1]
    /\ IF u \in DOMAIN outR /\ outR[u].nonce = n
         THEN LET out == [outR EXCEPT ![u].nacked = TRUE]
              IN /\ outR' = out
                 /\ timer' = TimerAfterNack(out)
                 /\ sent' = Answer("Nack", inR, ToBeNacked(out))
                 /\ inR' = Less(inR, ToBeNacked(out))
         ELSE sent' = {} /\ UNCHANGED <<outR, timer, inR>>
    /\ UNCHANGED <<exists, satisfied, dnl, nonces, arrivals>>

-----------------------------------------------------------------------------
(* The entry's end, and time.                                              *)

DeadNonces == IF satisfied THEN {} ELSE {outR[u].nonce : u \in DOMAIN outR}

OnInterestFinalize ==
    /\ exists /\ timer = 0
    /\ exists' = FALSE
    /\ inR' = Nothing /\ outR' = Nothing
    /\ timer' = NoTimer
    /\ satisfied' = FALSE
    /\ dnl' = dnl \cup DeadNonces
    /\ sent' = {}
    /\ UNCHANGED <<wire, nonces, arrivals>>

Tick ==
    /\ exists /\ timer > 0
    /\ timer' = timer - 1
    /\ inR' = [f \in DOMAIN inR |-> [inR[f] EXCEPT !.left = IF @ < 0 THEN @ ELSE @ - 1]]
    /\ outR' = [u \in DOMAIN outR |->
                  [outR[u] EXCEPT !.left = IF @ < 0 THEN @ ELSE @ - 1,
                                  !.age = IF @ < MinRetxInterval THEN @ + 1 ELSE @]]
    /\ sent' = {}
    /\ UNCHANGED <<exists, satisfied, dnl, wire, nonces, arrivals>>

Next ==
    \/ \E f \in Downstream, n \in Nonce, life \in Lifetime : OnIncomingInterest(f, n, life)
    \/ \E u \in Upstream, n \in Nonce : OnIncomingData(u, n) \/ OnIncomingNack(u, n)
    \/ OnInterestFinalize
    \/ Tick

Spec == Init /\ [][Next]_vars

(* Time passes, and timers that are due fire.                              *)
FairSpec == Spec /\ WF_vars(Tick) /\ WF_vars(OnInterestFinalize)

-----------------------------------------------------------------------------
(* The entry waits only for upstreams that have not answered: an out-record *)
(* that counts as pending stands for an Interest that is still out.         *)
AwaitsOnlyUnanswered ==
    \A u \in Upstream : Pending(outR, u) => Unanswered(u, outR[u].nonce)

(* While an entry goes on waiting, there is somebody who may answer: a       *)
(* downstream is never left to time out over an Interest nobody was asked.  *)
WaitsForSomebody ==
    exists /\ timer > 0 => \E u \in DOMAIN outR : Unanswered(u, outR[u].nonce)

(* Once every upstream has refused, everyone who asked was told.            *)
RefusalReachesAll ==
    exists /\ ~satisfied /\ outR # Nothing
      /\ (\A u \in DOMAIN outR : outR[u].nacked /\ ~Unanswered(u, outR[u].nonce))
    => inR = Nothing

(* An entry does not stay: each is finalized, whatever happens to its       *)
(* Interests.                                                              *)
EntryEnds == exists ~> ~exists

(* The entry keeps what a forwarder promises the faces that ask.            *)
Sent(kind) == {p.to : p \in {q \in sent : q.kind = kind}}

Exchange == INSTANCE InterestExchange WITH
                owed <- DOMAIN inR,
                late <- {f \in DOMAIN inR : ~Waits(inR, f)},
                closing <- timer = 0,
                data <- Sent("Data"),
                nacks <- Sent("Nack")
ImplementsExchange == Exchange!Spec

(* "A non-null return value means the last outgoing Interest has been       *)
(* NACKed" (pit-out-record.hpp:44): an out-record that holds a Nack does    *)
(* not stand for an Interest that is still out.                            *)
NackIsOfLast ==
    \A u \in DOMAIN outR : outR[u].nacked => ~Unanswered(u, outR[u].nonce)
=============================================================================
