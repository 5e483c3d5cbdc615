---------------------------- MODULE LinkScheduler ----------------------------
(***************************************************************************)
(* The Interest scheduler of one face: GenericLinkService's pump           *)
(* (doSendInterest and sendPacketCallback) over GlobalSP, which serves the  *)
(* rate-limited classes of DelaySensitiveServiceSP in strict order and, if  *)
(* none of them can send, the classes of WFQQueue by virtual time.         *)
(*                                                                         *)
(* A class is seen through what ClassQueue promises: a FIFO per flow, and  *)
(* on request the head of some backlogged flow (WDRRQueue says of which).  *)
(***************************************************************************)
EXTENDS Integers, Sequences, FiniteSets

CONSTANTS
    SPOrder,      \* the rate-limited classes, first served first: CS7, CS6, EF
    WFQOrder,     \* the weighted classes, in the order of WFQQueue::queues
    Weight,       \* Weight[c]: weight of a weighted class
    Flow,         \* flow keys
    MaxSize,      \* the largest packet
    Size,         \* packet sizes (Dsz)
    VqSize,       \* packets a flow may have waiting
    Cdt,          \* packets a weighted class may have waiting
    EachStep,     \* EachStep[c]: tokens one tick adds
    BucketSize,   \* capacity of a token bucket
    HalfRange,    \* 2^31: tags are C++ int
    MaxArrivals,  \* bound: Interests offered to the face
    Null          \* no packet

SP == {SPOrder[i] : i \in DOMAIN SPOrder}
WFQ == {WFQOrder[i] : i \in DOMAIN WFQOrder}
Class == SP \cup WFQ

ASSUME ClassAssumption == /\ SPOrder \in Seq(SP)
                          /\ WFQOrder \in Seq(WFQ)
                          /\ SP \cap WFQ = {}
ASSUME WeightAssumption == Weight \in [WFQ -> Nat \ {0}]
ASSUME SizeAssumption == MaxSize \in Nat /\ Size \subseteq 1 .. MaxSize
ASSUME LimitAssumption == VqSize \in Nat /\ Cdt \in Nat
ASSUME TokenAssumption == EachStep \in [SP -> Nat] /\ BucketSize \in Nat
ASSUME RangeAssumption == HalfRange \in Nat \ {0}
ASSUME BoundAssumption == MaxArrivals \in Nat
ASSUME NullAssumption == Null \notin Flow \cup [flow : Flow, size : Size, seq : Int]
                                         \cup [class : Class, flow : Flow, size : Size]

VARIABLES
    queue,        \* queue[c][f]: packets of flow f waiting in class c
    tokens,       \* tokens[c]: currentTokenSize of a rate-limited class
    cache,        \* cache[c]: cachePacketForWFQ of a weighted class
    lastSeq,      \* lastSeq[c]: WDRRQueue::lastSeq, NoSeq after the last packet
    virtualTime,  \* WFQQueue::lastSeq, a uint32
    pending,      \* the packets whose send timers run
    canScheduler, \* GenericLinkService::canScheduler
    arrivals,     \* Interests offered so far (bounded by MaxArrivals)
    wrapped       \* history: some tag has left the range of int

wfqVars == <<cache, lastSeq, virtualTime, wrapped>>
vars == <<queue, tokens, wfqVars, pending, canScheduler, arrivals>>

NoSeq == -1
UintMax == 2 * HalfRange - 1

Cached == [flow : Flow, size : Size, seq : -HalfRange .. HalfRange - 1]
Packet == [class : Class, flow : Flow, size : Size]

TypeOK ==
    /\ queue \in [Class -> [Flow -> Seq(Size)]]
    /\ tokens \in [SP -> 0 .. BucketSize]
    /\ cache \in [WFQ -> Cached \cup {Null}]
    /\ lastSeq \in [WFQ -> -HalfRange .. HalfRange - 1]
    /\ virtualTime \in 0 .. UintMax
    /\ pending \in Seq(Packet)
    /\ canScheduler \in BOOLEAN
    /\ arrivals \in 0 .. MaxArrivals
    /\ wrapped \in BOOLEAN

Init ==
    /\ queue = [c \in Class |-> [f \in Flow |-> << >>]]
    /\ tokens = [c \in SP |-> 0]
    /\ cache = [c \in WFQ |-> Null]
    /\ lastSeq = [c \in WFQ |-> NoSeq]
    /\ virtualTime = 0
    /\ pending = << >>
    /\ canScheduler = TRUE
    /\ arrivals = 0
    /\ wrapped = FALSE

-----------------------------------------------------------------------------
(* Class queues.  A request to class c yields the head of flow pick[c]; q   *)
(* is the queues after the append the same handler may have made.          *)

Backlog(q, c) == {f \in Flow : q[c][f] # << >>}

Picks(q) == {pick \in [Class -> Flow \cup {Null}] :
                \A c \in Class : IF Backlog(q, c) = {} THEN pick[c] = Null
                                 ELSE pick[c] \in Backlog(q, c)}

FirstSize(q, c, pick) == Head(q[c][pick[c]])

-----------------------------------------------------------------------------
(* The pump.  q is what waits, timers the timers still running.            *)

(* Fault: the flag is not cleared.                                         *)
LaunchKeepingFlag(timers, c, f, s) ==
    /\ pending' = Append(timers, [class |-> c, flow |-> f, size |-> s])
    /\ UNCHANGED canScheduler

Launch(timers, c, f, s) ==
    /\ pending' = Append(timers, [class |-> c, flow |-> f, size |-> s])
    /\ canScheduler' = FALSE

(* DelaySensitiveServiceSP::scheduleNext: the first class that holds a      *)
(* packet and more tokens than its size.                                   *)
Pays(q, pick, c) == pick[c] # Null /\ tokens[c] > FirstSize(q, c, pick)

(* Fault: the order of the classes is lost.                                *)
AheadNone(i) == {}

Ahead(i) == 1 .. i - 1

SendSP(q, timers, pick) ==
    \E i \in DOMAIN SPOrder :
        LET c == SPOrder[i] IN
        /\ Pays(q, pick, c)
        /\ \A j \in Ahead(i) : ~Pays(q, pick, SPOrder[j])
        /\ queue' = [q EXCEPT ![c][pick[c]] = Tail(@)]
        /\ tokens' = [tokens EXCEPT ![c] = @ - FirstSize(q, c, pick)]
        /\ Launch(timers, c, pick[c], FirstSize(q, c, pick))
        /\ UNCHANGED wfqVars

(* scheduleOnePacketForWFQ: a class without a cached packet takes its next  *)
(* one out of its queue and tags it.                                       *)
(* Fault: the class looks at the queues before the append.                 *)
RefillsStale(q, c) == cache[c] = Null /\ Backlog(queue, c) # {}

Refills(q, c) == cache[c] = Null /\ Backlog(q, c) # {}


(* Fault: an idle class restarts from 0.                                   *)
BaseFromZero(c) == IF lastSeq[c] = NoSeq THEN 0 ELSE lastSeq[c]

Base(c) == IF lastSeq[c] = NoSeq THEN virtualTime ELSE lastSeq[c]

(* lastSeq + 1.0 * dataSize / weight, truncated towards 0.                  *)
(* Fault: multiplied by the weight.                                        *)
ExactSeqTimesWeight(q, pick, c) == Base(c) + FirstSize(q, c, pick) * Weight[c]

ExactSeq(q, pick, c) ==
    LET size == FirstSize(q, c, pick)
    IN  IF Base(c) * Weight[c] + size >= 0
          THEN Base(c) + size \div Weight[c]
          ELSE Base(c) + (size + Weight[c] - 1) \div Weight[c]

(* The conversion of that double to int: out of range it gives INT_MIN.     *)
(* Fault: the range of int is forgotten.                                   *)
ToIntUnbounded(x) == x

ToInt(x) == IF x < HalfRange THEN x ELSE -HalfRange
ToUint(x) == IF x < 0 THEN x + 2 * HalfRange ELSE x

Refilled(q, pick) ==
    [c \in WFQ |-> IF Refills(q, c)
                     THEN [flow |-> pick[c], size |-> FirstSize(q, c, pick),
                           seq |-> ToInt(ExactSeq(q, pick, c))]
                     ELSE cache[c]]

(* Fault: the cached packet stays in the queue.                            *)
DrainedNot(q, pick) == q

Drained(q, pick) ==
    [c \in Class |-> IF c \in WFQ /\ Refills(q, c)
                       THEN [q[c] EXCEPT ![pick[c]] = Tail(@)]
                       ELSE q[c]]

(* Tag the class reports to WFQQueue: UINT32_MAX when it has no packet.     *)
Tag(filled, c) == IF filled[c] = Null THEN UintMax ELSE ToUint(filled[c].seq)

Refill(q, pick) ==
    /\ queue' = Drained(q, pick)
    /\ lastSeq' = [c \in WFQ |->
                    IF ~Refills(q, c) THEN lastSeq[c]
                    ELSE IF Backlog(Drained(q, pick), c) = {} THEN NoSeq
                    ELSE Refilled(q, pick)[c].seq]
    /\ wrapped' = (wrapped \/ \E c \in WFQ :
                        Refills(q, c) /\ ExactSeq(q, pick, c) >= HalfRange)
    /\ UNCHANGED tokens

(* WFQQueue::scheduleNext: the smallest tag, the first class on a tie.      *)
SendWFQ(q, timers, pick) ==
    LET filled == Refilled(q, pick) IN
    /\ \A c \in SP : ~Pays(q, pick, c)
    /\ Refill(q, pick)
    /\ \E i \in DOMAIN WFQOrder :
        LET c == WFQOrder[i] IN
        /\ Tag(filled, c) < UintMax
        /\ \A j \in 1 .. i - 1 : Tag(filled, c) < Tag(filled, WFQOrder[j])
        /\ \A j \in DOMAIN WFQOrder : Tag(filled, c) <= Tag(filled, WFQOrder[j])
        /\ virtualTime' = Tag(filled, c)
        /\ cache' = [filled EXCEPT ![c] = Null]
        /\ Launch(timers, c, filled[c].flow, filled[c].size)

(* GlobalSP::scheduleNext returned nothing.                                *)
Rest(q, timers, pick) ==
    /\ \A c \in SP : ~Pays(q, pick, c)
    /\ Refill(q, pick)
    /\ \A c \in WFQ : Tag(Refilled(q, pick), c) = UintMax
    /\ cache' = Refilled(q, pick)
    /\ pending' = timers
    /\ canScheduler' = TRUE
    /\ UNCHANGED virtualTime

Pump(q, timers) ==
    \E pick \in Picks(q) :
        SendSP(q, timers, pick) \/ SendWFQ(q, timers, pick) \/ Rest(q, timers, pick)

-----------------------------------------------------------------------------
(* Handlers.                                                               *)

Accepts(c, f) ==
    /\ Len(queue[c][f]) < VqSize
    /\ c \in WFQ /\ Cdt > 0 =>
         Cardinality({slot \in Flow \X (1 .. VqSize) : slot[2] <= Len(queue[c][slot[1]])}) < Cdt

(* doSendInterest of an Interest outside /localhost.                       *)
DoSendInterest(c, f, s) ==
    LET q == IF Accepts(c, f) THEN [queue EXCEPT ![c][f] = Append(@, s)] ELSE queue
    IN  /\ arrivals < MaxArrivals
        /\ arrivals' = arrivals + 1
        /\ IF canScheduler THEN Pump(q, pending)
           ELSE queue' = q /\ UNCHANGED <<tokens, wfqVars, pending, canScheduler>>

Without(seq, i) == SubSeq(seq, 1, i - 1) \o SubSeq(seq, i + 1, Len(seq))

(* sendPacketCallback, when timer i fires.                                 *)
SendPacketCallback(i) ==
    /\ Pump(queue, Without(pending, i))
    /\ UNCHANGED arrivals

(* TokenBucket::generateToken.                                             *)
GenerateToken(c) ==
    /\ tokens' = [tokens EXCEPT ![c] =
                    IF @ + EachStep[c] > BucketSize THEN BucketSize ELSE @ + EachStep[c]]
    /\ UNCHANGED <<queue, wfqVars, pending, canScheduler, arrivals>>

Next == \/ \E c \in Class, f \in Flow, s \in Size : DoSendInterest(c, f, s)
        \/ \E i \in DOMAIN pending : SendPacketCallback(i)
        \/ \E c \in SP : GenerateToken(c)

Spec == Init /\ [][Next]_vars

(* Timers fire and buckets tick; nothing obliges an application to ask.     *)
FairSpec == /\ Spec
            /\ WF_vars(\E i \in DOMAIN pending : SendPacketCallback(i))
            /\ \A c \in SP : WF_vars(GenerateToken(c))

-----------------------------------------------------------------------------
(* Correctness.                                                            *)

(* One timer runs, or the pump rests and the next Interest restarts it: two *)
(* timers would send at twice the rate of the link, none and a FALSE flag   *)
(* would stop the face for good.                                           *)
OneTimer == /\ Len(pending) <= 1
            /\ canScheduler <=> pending = << >>

(* When the pump rests, a weighted class holds nothing, or its cached tag   *)
(* is the value that also says "no packet".                                *)
RestsOnlyWhenEmpty ==
    canScheduler => \A c \in WFQ :
        /\ Backlog(queue, c) # {} => cache[c] # Null
        /\ cache[c] # Null => ToUint(cache[c].seq) = UintMax

(* Until a tag leaves the range of int, the tag of a cached packet is never *)
(* behind virtual time and at most one packet ahead of it: no class is      *)
(* served early for the time it was idle, and none waits longer than the    *)
(* others need for one packet each, scaled by weight.                      *)
LagBounded ==
    ~wrapped => \A c \in WFQ : cache[c] # Null =>
        /\ virtualTime <= cache[c].seq
        /\ (cache[c].seq - virtualTime) * Weight[c] <= cache[c].size

(* The range is not left before that many bits were offered.               *)
RangeSuffices == arrivals * MaxSize < HalfRange => ~wrapped

(* A step that hands a packet to a timer, be it equal to the one before.    *)
Sends == /\ pending' # << >>
         /\ \/ pending = << >>
            \/ arrivals' = arrivals /\ <<queue, cache>>' # <<queue, cache>>

(* A packet enters the wire only if no class of higher priority could pay   *)
(* for a packet of each of its backlogged flows.                           *)
PriorityRespected ==
    [][Sends => \A i \in DOMAIN SPOrder :
         LET c == SPOrder[i] IN
         /\ pending'[1].class \notin {SPOrder[j] : j \in 1 .. i}
         /\ Backlog(queue', c) # {}
         => \E f \in Backlog(queue', c) : tokens[c] <= Head(queue'[c][f])]_vars

(* The weighted classes whose cached tag, if any, is not the value that     *)
(* also says "no packet": the others do not take part while it stays so.    *)
Telling == {c \in WFQ : cache[c] # Null => ToUint(cache[c].seq) # UintMax}

(* The face is a port that keeps the order of each flow and loses nothing,  *)
(* and that idles only when every class whose tag tells is empty.           *)
Port == INSTANCE LinkPort WITH
            Unlimited <- WFQ,
            waiting <- [c \in Class |-> [f \in Flow |->
                          IF c \in WFQ /\ cache[c] # Null /\ cache[c].flow = f
                            THEN <<cache[c].size>> \o queue[c][f]
                            ELSE queue[c][f]]],
            wire <- IF pending = << >> THEN Null ELSE pending[1]
ImplementsPort == Port!Init /\ [][Port!Next(Telling')]_(Port!vars)

(* Once Interests stop coming, every weighted class drains, or waits behind  *)
(* a tag that reads as "no packet": the chain of callbacks does not break   *)
(* while it holds another packet.                                          *)
WFQDrains == <>[](\A c \in Telling : Backlog(queue, c) = {} /\ cache[c] = Null)

(* "If no packet can be scheduled, schedule again after 1 ms": a face that  *)
(* rests with packets in a rate-limited class tries again.                 *)
RetriesWhenIdle ==
    \A c \in SP : Backlog(queue, c) # {} ~> (~canScheduler \/ Backlog(queue, c) = {})
=============================================================================
