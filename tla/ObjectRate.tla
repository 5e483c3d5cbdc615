------------------------------ MODULE ObjectRate ------------------------------
(***************************************************************************)
(* The rates of one face: what GlobalSP, WFQQueue and WDRRQueue allot to    *)
(* the classes and, in each, to the flows (calObjectRate, every interval),  *)
(* and write on the Interests they serve and on the Data that answer them   *)
(* (assignObjectRate).  Which packet is served is LinkScheduler's and       *)
(* WDRRQueue's matter: here it is any that waits.                          *)
(*                                                                         *)
(* Rates are uint32_t; the doubles between them are exact quotients here.   *)
(* Flows have weight 1; weights of flows and penalty factors are counted in *)
(* halves, discounts in thousandths.  A class is named by the number its    *)
(* Interests carry.                                                        *)
(***************************************************************************)
EXTENDS Integers, FiniteSets, SequencesExt

CONSTANTS
    SP,              \* the rate-limited classes
    WFQOrder,        \* the weighted classes, in the order of WFQQueue::queues
    Weight,          \* Weight[c]: weight of a weighted class
    Limit,           \* Limit[c]: bandwidth of a rate-limited class
    Tos,             \* Tos[c]: the number class c re-marks packets with
    Link,            \* GlobalSP::availableBandwidth
    Flow,            \* flow keys
    Offer,           \* Interests that come: class, flow, dsz, marked as greedy
    InterestSize,    \* size of an Interest that comes in
    Asked,           \* rates that packets carry
    VqSize,          \* packets a flow may have waiting
    Cdt,             \* packets a weighted class may have waiting
    PenalisedSize,   \* 20: the same, of a flow found greedy
    GreedyThreshold, \* gredyThreshold
    Discount,        \* Discount[n]: calDiscountFactor when n packets wait
    Margin,          \* 500000
    Junk,            \* values of totalWeight before it is set, in halves
    Second, Interval,\* 1000, calObjectRateInterval: milliseconds
    HalfRange,       \* 2^31: rates are uint32_t, some sums int
    MaxArrivals,     \* bound: Interests offered to the face
    MaxReceived      \* bound: Interests received in an interval

WFQ == Range(WFQOrder)
Class == SP \cup WFQ
Wrap == 2 * HalfRange

ASSUME ClassAssumption ==
    /\ WFQOrder \in Seq(WFQ) /\ IsInjective(WFQOrder)
    /\ IsFiniteSet(SP) /\ SP \cap WFQ = {} /\ Class \subseteq Nat
ASSUME NumberAssumption == Tos \in [Class -> Class]
ASSUME WeightAssumption == Weight \in [WFQ -> Nat \ {0}] /\ Limit \in [SP -> 0 .. Wrap - 1]
ASSUME RangeAssumption == HalfRange \in Nat /\ Link \in 1 .. HalfRange - 1
ASSUME OfferAssumption == Offer \subseteq [class : Class, flow : Flow, dsz : Nat \ {0}, marked : BOOLEAN]
ASSUME SizeAssumption == InterestSize \in Nat /\ Asked \subseteq Nat
ASSUME LimitAssumption == {VqSize, PenalisedSize, Cdt, GreedyThreshold, Margin} \subseteq Nat \ {0}
ASSUME DiscountAssumption == Discount \in [0 .. VqSize -> 0 .. 1000]
ASSUME JunkAssumption == Junk \subseteq Int
ASSUME TimeAssumption == {Second, Interval} \subseteq Nat \ {0}
ASSUME BoundAssumption == {MaxArrivals, MaxReceived} \subseteq Nat

VARIABLES
    known,       \* known[c]: the keys of virtualQueues
    rate,        \* rate[c, f]: objectRate
    penalised,   \* penalised[c, f]: penaltyFactor is 0.5, not 1.0
    greedyTimes, \* greedyTimes[c, f]
    recv,        \* recv[c, f]: recvBits
    size,        \* size[c, f]: packets the queue takes
    waiting,     \* waiting[c, f]: packets in the queue
    avail,       \* avail[c]: availableBandwidth of the class
    weight,      \* weight[c]: totalWeight, in halves
    received,    \* interestBytes, counted in Interests
    served,      \* Interests served, which Data may answer any time later
    settled,     \* history: settled[c]: no flow is new since the last interval
    quiet,       \* history: quiet[c, f]: calObjectRates since the flow's last Interest, 2 at most
    arrivals     \* Interests so far (bounded by MaxArrivals)

flowVars == <<known, rate, penalised, greedyTimes, recv, size, waiting>>
linkVars == <<avail, weight, received>>
vars == <<flowVars, linkVars, served, settled, quiet, arrivals>>

Lesser(a, b) == IF a < b THEN a ELSE b
Larger(a, b) == IF a < b THEN b ELSE a

Slot == Class \X Flow
Out == [class : Class, flow : Flow, number : Class]
Longest == Larger(VqSize, PenalisedSize)

TypeOK ==
    /\ known \in [Class -> SUBSET Flow]
    /\ rate \in [Slot -> 0 .. Wrap - 1]
    /\ penalised \in [Slot -> BOOLEAN]
    /\ greedyTimes \in [Slot -> 0 .. GreedyThreshold]
    /\ recv \in [Slot -> 0 .. Wrap - 1]
    /\ size \in [Slot -> {VqSize, PenalisedSize}]
    /\ waiting \in [Slot -> 0 .. Longest]
    /\ avail \in [Class -> 0 .. Wrap - 1]
    /\ weight \in [Class -> Int] /\ \A c \in Class : weight[c] - 2 * Cardinality(known[c]) \in Junk
    /\ received \in 0 .. MaxReceived
    /\ served \subseteq Out
    /\ settled \in [Class -> BOOLEAN]
    /\ quiet \in [Slot -> 0 .. 2]
    /\ arrivals \in 0 .. MaxArrivals

TotalWeight == SumFunction(Weight)

Init ==
    /\ known = [c \in Class |-> {}]
    /\ rate = [x \in Slot |-> 0] /\ penalised = [x \in Slot |-> FALSE]
    /\ greedyTimes = [x \in Slot |-> 0]
    /\ recv = [x \in Slot |-> 0] /\ size = [x \in Slot |-> VqSize] /\ waiting = [x \in Slot |-> 0]
    /\ avail = [c \in Class |-> IF c \in SP THEN Limit[c] ELSE (Link * Weight[c]) \div TotalWeight]
    /\ weight \in {[c \in Class |-> j] : j \in Junk}
    /\ received = 0 /\ served = {}
    /\ settled = [c \in Class |-> TRUE] /\ quiet = [x \in Slot |-> 2] /\ arrivals = 0

-----------------------------------------------------------------------------
(* Packets.                                                                *)

(* A double as uint32_t: whole, modulo the word.  The quotient is out of all *)
(* range, or no number, when w is 0, and the machine then makes 0 of it.     *)
Quotient(a, w) == IF w > 0 THEN a \div w ELSE IF w < 0 THEN -(a \div (-w)) ELSE 0

(* A new flow divides the class's bandwidth anew, by a totalWeight that      *)
(* counts from whatever it was: it may be negative, or 0.                   *)
FirstRate(c, f, w) ==
    LET share == Quotient(avail[c] * 2, w) % Wrap
    IN IF penalised[<<c, f>>] THEN share \div 2 ELSE share

(* WDRRQueue::appendInterest.                                              *)
Accepts(c, f) ==
    /\ waiting[<<c, f>>] < size[<<c, f>>]
    /\ c \in WFQ => SumFunction([g \in Flow |-> waiting[<<c, g>>]]) < Cdt

AppendInterest(c, f, dsz, marked) ==
    /\ arrivals < MaxArrivals
    /\ arrivals' = arrivals + 1
    /\ recv' = [recv EXCEPT ![<<c, f>>] = (@ + dsz) % Wrap]
    /\ IF f \in known[c] THEN UNCHANGED <<known, weight, rate, settled>>
       ELSE /\ known' = [known EXCEPT ![c] = @ \cup {f}]
            /\ weight' = [weight EXCEPT ![c] = @ + 2]
            /\ rate' = [x \in Slot |->
                  IF x[1] = c /\ x[2] \in known'[c] THEN FirstRate(c, x[2], weight'[c]) ELSE rate[x]]
            /\ settled' = [settled EXCEPT ![c] = FALSE]
    /\ IF Accepts(c, f)
         THEN /\ waiting' = [waiting EXCEPT ![<<c, f>>] = @ + 1]
              /\ penalised' = [penalised EXCEPT ![<<c, f>>] = @ \/ marked]
         ELSE UNCHANGED <<waiting, penalised>>
    /\ quiet' = [quiet EXCEPT ![<<c, f>>] = 0]
    /\ UNCHANGED <<greedyTimes, size, avail, received, served>>

(* The number a packet leaves with: a penalised flow's is written anew.     *)
Number(c, f) == IF penalised[<<c, f>>] THEN Tos[c] ELSE c

(* scheduleNext: the Interest goes on with DR' = min(DR, OR).               *)
DownstreamRate(c, f, asked) == Lesser(asked, rate[<<c, f>>])

ScheduleNext(c, f) ==
    /\ waiting[<<c, f>>] > 0
    /\ waiting' = [waiting EXCEPT ![<<c, f>>] = @ - 1]
    /\ served' = served \cup {[class |-> c, flow |-> f, number |-> Number(c, f)]}
    /\ UNCHANGED <<known, rate, penalised, greedyTimes, recv, size, linkVars, settled, quiet, arrivals>>

(* getObjectRateByFlowKey; a flow that is not known has rate 0.             *)
ObjectRate(c, f) == IF f \in known[c] THEN rate[<<c, f>>] ELSE 0

(* assignObjectRate: Data is looked up under the number that it carries, and *)
(* goes on with TR' = min(TR, OR).                                         *)
TargetRate(n, f, asked) == Lesser(asked, ObjectRate(n, f))

(* The numbers that Data may carry to answer an Interest that left as n: the *)
(* producer's, who repeats what he saw, and any hop on the way to him may    *)
(* have written the number of its own queue.                               *)
Carried(n) ==
    {m \in Class : \A S \in SUBSET Class : n \in S /\ (\A k \in S : Tos[k] \in S) => m \in S}

ReceiveInterest ==
    /\ received < MaxReceived
    /\ received' = received + 1
    /\ UNCHANGED <<flowVars, avail, weight, served, settled, quiet, arrivals>>

-----------------------------------------------------------------------------
(* calObjectRate of the classes: bits of an interval as a rate.             *)

(* uint32_t * 1000 / 100: the product may wrap around.                      *)
AsRate(bits) == ((bits * Second) % Wrap) \div Interval

Flowing(c, f) == AsRate(recv[<<c, f>>])
ClassFlowing(c) == AsRate(SumFunction([f \in known[c] |-> recv[<<c, f>>]]) % Wrap)

InterestRate == (received * InterestSize * Second) \div Interval

(* GlobalSP::calObjectRate: what is left for the weighted classes.          *)
LimitedRate == SumFunction([c \in SP |-> ClassFlowing(c)])
Remain == (Link - InterestRate - LimitedRate) % Wrap

(* WFQQueue::calObjectRate.  A class is busy if it leaves less than 20% of   *)
(* its share, and used if it leaves less than 95%.                         *)
Busy(c) == 10 * ClassFlowing(c) * TotalWeight > 8 * Weight[c] * Remain
Used(c) == 100 * ClassFlowing(c) * TotalWeight > 5 * Weight[c] * Remain

(* Conversions to int: a double out of range gives INT_MIN, an unsigned one *)
(* wraps around.                                                           *)
DoubleToInt(x) == IF x < HalfRange THEN x ELSE -HalfRange
UnsignedToInt(x) == ((x + HalfRange) % Wrap) - HalfRange

Share(c) == (Weight[c] * Remain) \div TotalWeight
AddRate(t, c) == IF Busy(c) THEN DoubleToInt(t + Share(c)) ELSE UnsignedToInt(t + ClassFlowing(c))
TotalRate == FoldLeft(AddRate, 0, WFQOrder)

(* Fault: every class that is used is lent to while others are busy.        *)
BorrowersUsed == {c \in WFQ : Used(c)}

Borrowers == IF \E c \in WFQ : Busy(c) THEN {c \in WFQ : Busy(c)} ELSE {c \in WFQ : Used(c)}

Truncated(a, b) == IF a >= 0 THEN a \div b ELSE -((-a) \div b)

WFQShare(c) ==
    LET lent == UnsignedToInt(Remain - TotalRate)
        of == SumFunctionOnSet(Weight, Borrowers)
    IN IF c \in Borrowers
         THEN Truncated(Weight[c] * (lent * TotalWeight + Remain * of), of * TotalWeight) % Wrap
         ELSE Share(c)

-----------------------------------------------------------------------------
(* WDRRQueue::calObjectRate: the flows K of class c share bandwidth A.      *)

Halves(c, f) == IF penalised[<<c, f>>] THEN 1 ELSE 2
Base(c, f, K, A) == (A * Halves(c, f)) \div SumFunction([g \in K |-> Halves(c, g)])

(* Fast: ratio > (objectRate - 500000) / objectRate, in uint32_t.           *)
Fast(c, f, K, A) ==
    LET base == Base(c, f, K, A) IN base > 0 /\ Flowing(c, f) > (base - Margin) % Wrap

(* Fault: what the fast flows may use is lent, too.                         *)
ConsumedMeasured(c, K, A) == SumFunction([f \in K |-> Flowing(c, f)]) % Wrap

Consumed(c, K, A) ==
    SumFunction([f \in K |-> IF Fast(c, f, K, A) THEN Base(c, f, K, A) ELSE Flowing(c, f)]) % Wrap

FastFlows(c, K, A) == {f \in K : ~penalised[<<c, f>>] /\ Fast(c, f, K, A)}

Lent(c, K, A) ==
    IF Consumed(c, K, A) < A /\ FastFlows(c, K, A) # {}
      THEN (A - Consumed(c, K, A)) \div Cardinality(FastFlows(c, K, A))
      ELSE 0

(* Who is lent to is decided by another ratio than who is fast.             *)
Receives(c, f, K, A) == ~penalised[<<c, f>>] /\ 10 * Flowing(c, f) > 8 * Base(c, f, K, A)

Boosted(c, f, K, A) ==
    (Base(c, f, K, A) + IF Receives(c, f, K, A) THEN Lent(c, K, A) ELSE 0) % Wrap

Greedy(c, f, K, A) == 10 * Flowing(c, f) > 12 * Boosted(c, f, K, A)

GreedyTimes(c, f, K, A) ==
    IF Greedy(c, f, K, A)
      THEN IF greedyTimes[<<c, f>>] < GreedyThreshold THEN greedyTimes[<<c, f>>] + 1 ELSE greedyTimes[<<c, f>>]
      ELSE IF greedyTimes[<<c, f>>] > 0 THEN greedyTimes[<<c, f>>] - 1 ELSE 0

Caught(c, f, K, A) == Greedy(c, f, K, A) /\ GreedyTimes(c, f, K, A) = GreedyThreshold

(* The longer the queue of a flow, the less it is told.                     *)
Discounted(c, f, K, A) ==
    IF penalised[<<c, f>>] \/ Caught(c, f, K, A) THEN Boosted(c, f, K, A)
    ELSE (Boosted(c, f, K, A) * Discount[waiting[<<c, f>>]]) \div 1000

(* Fault: a flow is gone as soon as its queue is empty.                     *)
GoneEmpty(c) == {f \in known[c] : waiting[<<c, f>>] = 0}

Gone(c) == {f \in known[c] : recv[<<c, f>>] = 0 /\ waiting[<<c, f>>] = 0}

(* Fault: the weight of a flow outlives it.                                 *)
WeightLeftAll(c) == weight[c]

WeightLeft(c) == weight[c] - 2 * Cardinality(Gone(c))
Kept(c) == known[c] \ Gone(c)
IsKept(x) == x[2] \in Kept(x[1])

CalObjectRate ==
    /\ avail' = [c \in Class |-> IF c \in SP THEN avail[c] ELSE WFQShare(c)]
    /\ known' = [c \in Class |-> Kept(c)]
    /\ weight' = [c \in Class |-> WeightLeft(c)]
    /\ rate' = [x \in Slot |->
          IF IsKept(x) THEN Discounted(x[1], x[2], Kept(x[1]), avail'[x[1]]) ELSE 0]
    /\ penalised' = [x \in Slot |->
          IsKept(x) /\ (penalised[x] \/ Caught(x[1], x[2], Kept(x[1]), avail'[x[1]]))]
    /\ greedyTimes' = [x \in Slot |->
          IF IsKept(x) THEN GreedyTimes(x[1], x[2], Kept(x[1]), avail'[x[1]]) ELSE 0]
    /\ size' = [x \in Slot |->
          IF ~IsKept(x) THEN VqSize
          ELSE IF Caught(x[1], x[2], Kept(x[1]), avail'[x[1]]) THEN PenalisedSize ELSE size[x]]
    /\ recv' = [x \in Slot |-> 0]
    /\ received' = 0
    /\ settled' = [c \in Class |-> TRUE]
    /\ quiet' = [x \in Slot |-> Lesser(quiet[x] + 1, 2)]
    /\ UNCHANGED <<waiting, served, arrivals>>

-----------------------------------------------------------------------------
Next ==
    \/ \E i \in Offer : AppendInterest(i.class, i.flow, i.dsz, i.marked)
    \/ \E c \in Class, f \in Flow : ScheduleNext(c, f)
    \/ ReceiveInterest
    \/ CalObjectRate

Spec == Init /\ [][Next]_vars

-----------------------------------------------------------------------------
(* Few enough flows that what the flows of a class consume together is not  *)
(* wrapped around: 98 at the code's interval and margin.                    *)
FewFlows ==
    IsFiniteSet(Flow) /\ ((Wrap - 1) \div Interval + Margin) * Cardinality(Flow) < Wrap

(* Once an interval has passed since the last flow came, no flow is told    *)
(* more than its class has, whatever totalWeight was and whoever was lent   *)
(* to: a flow that receives is not always one of those that were counted.   *)
RatesWithinClass ==
    \A c \in Class : settled[c] =>
        \A f \in known[c], r \in Asked : DownstreamRate(c, f, r) <= avail[c]

(* The weighted classes fit the link: while the traffic of the interval fits *)
(* it, those that borrow and the traffic of the others take what is left,   *)
(* but for a unit of rounding a class.                                      *)
TrafficFits == InterestRate + LimitedRate <= Link
ClassesFit ==
    [][CalObjectRate /\ TrafficFits /\ (\E c \in WFQ : Busy(c)) =>
         SumFunction([c \in WFQ |-> IF c \in Borrowers THEN avail'[c] ELSE ClassFlowing(c)])
           <= Remain + Cardinality(WFQ)]_vars

(* The bits that come in an interval are counted in a word.                *)
BitsFit == \A i \in Offer : MaxArrivals * i.dsz < Wrap

(* Data finds the flow that its Interest was served from and is told that    *)
(* flow's rate, by whatever hops the Interest went on and however late it    *)
(* comes back, until two intervals have ended since an Interest of the flow  *)
(* came and none waits.  It is promised to the classes that write their own  *)
(* number on packets: all but two.                                         *)
AnswersKnown ==
    \A x \in served :
        LET s == <<x.class, x.flow>>
        IN BitsFit /\ Tos[x.class] = x.class /\ (quiet[s] < 2 \/ waiting[s] > 0) =>
             \A n \in Carried(x.number), r \in Asked :
                 /\ x.flow \in known[n]
                 /\ TargetRate(n, x.flow, r) = DownstreamRate(x.class, x.flow, r)

=============================================================================
