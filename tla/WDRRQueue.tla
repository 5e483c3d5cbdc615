------------------------------ MODULE WDRRQueue ------------------------------
(***************************************************************************)
(* One service class of the link scheduler, queues.cpp's WDRRQueue: deficit *)
(* round robin over the flows of the class, each flow a VirtualQueue.      *)
(*                                                                         *)
(* The recursion of scheduleNext is given in closed form.  Scan 0 is the   *)
(* rest of the current round, scan k the k-th complete round after it; a   *)
(* request selects the first position of the first scan whose flow can pay *)
(* for its head packet.  The C++ indexes flows from 0, this module from 1.  *)
(***************************************************************************)
EXTENDS Integers, Sequences, FiniteSets

CONSTANTS
    Flow,             \* flow keys
    MaxSize,          \* the largest packet
    Size,             \* packet sizes (Dsz)
    Marks,            \* penalty marks (service class > 7) Interests arrive with
    Quantum,          \* MTU_QUANTA
    VqSize,           \* VirtualQueue::size
    Cdt,              \* limit on the packets of the class; none unless positive
    RateLimited,      \* needRateLimit
    EachStep,         \* tokens one tick adds
    BucketSize,       \* capacity of the token bucket
    GreedyThreshold,  \* gredyThreshold
    MaxCleanups,      \* bound: cleanings that erase a flow
    Null              \* no packet

ASSUME SizeAssumption == MaxSize \in Nat /\ Size \subseteq 1 .. MaxSize
ASSUME FlowAssumption == IsFiniteSet(Flow)
ASSUME MarksAssumption == Marks \subseteq BOOLEAN
ASSUME QuantumAssumption == Quantum \in Nat /\ Quantum \div 2 > 0
ASSUME LimitAssumption == VqSize \in Nat /\ Cdt \in Int
ASSUME TokenAssumption == /\ RateLimited \in BOOLEAN
                          /\ EachStep \in Nat
                          /\ BucketSize \in Nat
ASSUME GreedyAssumption == GreedyThreshold \in Nat \ {0}
ASSUME BoundAssumption == MaxCleanups \in Nat

VARIABLES
    keys,         \* the keys of virtualQueues
    flows,        \* the vector of keys that scheduleNext walks
    next,         \* nextScheduleQueue
    queue,        \* queue[f]: innerQueue
    balance,      \* balance[f]
    penalised,    \* penalised[f]: penaltyFactor is 0.5, not 1.0
    greedyTimes,  \* greedyTimes[f]
    received,     \* received[f]: recvBits is not 0
    packetNum,    \* currentPacketNum
    tokens,       \* currentTokenSize
    out,          \* what the last scheduleNext returned
    cleanups      \* cleanings so far that erased a flow (bounded by MaxCleanups)

vqVars == <<balance, penalised, greedyTimes, received>>
vars == <<keys, flows, next, queue, vqVars, packetNum, tokens, out, cleanups>>

Packet == [size : Size, marked : BOOLEAN]

TypeOK ==
    /\ keys \subseteq Flow
    /\ flows \in Seq(Flow)
    /\ next \in Nat \ {0}
    /\ queue \in [Flow -> Seq(Packet)]
    /\ balance \in [Flow -> Nat]
    /\ penalised \in [Flow -> BOOLEAN]
    /\ greedyTimes \in [Flow -> 0 .. GreedyThreshold]
    /\ received \in [Flow -> BOOLEAN]
    /\ packetNum \in Nat
    /\ tokens \in 0 .. BucketSize
    /\ out \in [flow : Flow, size : Size, marked : BOOLEAN] \cup {Null}
    /\ cleanups \in 0 .. MaxCleanups

Init ==
    /\ keys = {}
    /\ flows = << >>
    /\ next = 1
    /\ queue = [f \in Flow |-> << >>]
    /\ balance = [f \in Flow |-> 0]
    /\ penalised = [f \in Flow |-> FALSE]
    /\ greedyTimes = [f \in Flow |-> 0]
    /\ received = [f \in Flow |-> FALSE]
    /\ packetNum = 0
    /\ tokens = 0
    /\ out = Null
    /\ cleanups = 0

-----------------------------------------------------------------------------
(* appendInterest and VirtualQueue::push.                                  *)

(* Fault: the size check is off by one.                                    *)
AcceptsOneMore(f) == ~(Cdt > 0 /\ packetNum >= Cdt) /\ Len(queue[f]) <= VqSize

Accepts(f) == /\ ~(Cdt > 0 /\ packetNum >= Cdt)
              /\ Len(queue[f]) < VqSize

(* Fault: a dropped packet is counted.                                     *)
CountsDropped(f) == packetNum + 1

PacketNumAfter(f) == IF Accepts(f) THEN packetNum + 1 ELSE packetNum

(* push penalises a flow for a marked packet, and never lifts the penalty.  *)
PenaltyAfter(f, p) == penalised[f] \/ p.marked

AppendInterest(f, p) ==
    /\ keys' = keys \cup {f}
    /\ flows' = IF f \in keys THEN flows ELSE Append(flows, f)
    /\ received' = [received EXCEPT ![f] = TRUE]
    /\ IF Accepts(f)
         THEN /\ queue' = [queue EXCEPT ![f] = Append(@, p)]
              /\ penalised' = [penalised EXCEPT ![f] = PenaltyAfter(f, p)]
         ELSE UNCHANGED <<queue, penalised>>
    /\ packetNum' = PacketNumAfter(f)
    /\ UNCHANGED <<next, balance, greedyTimes, tokens, out, cleanups>>

-----------------------------------------------------------------------------
(* scheduleNext.                                                           *)

Idle(f) == queue[f] = << >>

(* Fault: the penalty is computed in integers.                             *)
GrantInteger(f) == IF penalised[f] THEN 0 ELSE Quantum

Grant(f) == IF penalised[f] THEN Quantum \div 2 ELSE Quantum

(* Scan k visits position i; the balance it finds there.                   *)
Visits(k, i) == k > 0 \/ i >= next

BalanceAt(k, i) ==
    LET f == flows[i] IN
    IF k = 0 THEN balance[f]
    ELSE IF ~Idle(f) THEN balance[f] + k * Grant(f)
    ELSE IF k = 1 /\ i < next THEN balance[f] + Grant(f)
    ELSE Grant(f)

(* Fault: the deficit is not compared.                                     *)
ReadyUnpaid(k, i) == Visits(k, i) /\ ~Idle(flows[i])

Ready(k, i) == /\ Visits(k, i)
               /\ ~Idle(flows[i])
               /\ Head(queue[flows[i]]).size < BalanceAt(k, i)

(* The scans one call makes: it recurses only while packetNum > 0.  Every   *)
(* scan grants at least one unit, so scan MaxSize + 1 can pay any head.     *)
FirstScan == IF next > Len(flows) THEN 1 ELSE 0
Scans == IF packetNum > 0 THEN 0 .. MaxSize + 1 ELSE {FirstScan}

(* Fault: the scan goes on after the first flow that can pay.              *)
SelectsAny(k, i) == Ready(k, i)

Selects(k, i) == /\ Ready(k, i)
                 /\ \A j \in 1 .. i - 1 : ~Ready(k, j)
                 /\ \A h \in 0 .. k - 1, j \in 1 .. Len(flows) : ~Ready(h, j)

(* Fault: an idle flow keeps its balance.                                  *)
SweptHoarding(k, i) ==
    [f \in Flow |->
        IF f \notin keys THEN balance[f]
        ELSE balance[f] + (IF k = 0 THEN 0 ELSE k * Grant(f))]

(* The balances when scan k stops at position i: it has emptied the        *)
(* balance of every idle flow it passed.                                   *)
Swept(k, i) ==
    [f \in Flow |->
        IF f \notin keys THEN balance[f]
        ELSE LET j == CHOOSE j \in 1 .. Len(flows) : flows[j] = f
             IN IF Idle(f) /\ j < i /\ Visits(k, j) THEN 0 ELSE BalanceAt(k, j)]

(* The packet leaves the class; a penalised flow's packet is re-marked.     *)
Serve(k, i) ==
    LET f == flows[i]
        p == Head(queue[f])
    IN  /\ Selects(k, i)
        /\ RateLimited => tokens > p.size
        /\ tokens' = IF RateLimited THEN tokens - p.size ELSE tokens
        /\ balance' = [Swept(k, i) EXCEPT ![f] = @ - p.size]
        /\ next' = i
        /\ queue' = [queue EXCEPT ![f] = Tail(@)]
        /\ packetNum' = packetNum - 1
        /\ out' = [flow |-> f, size |-> p.size, marked |-> p.marked \/ penalised[f]]
        /\ UNCHANGED <<keys, flows, penalised, greedyTimes, received, cleanups>>

(* The bucket is short: the call returns nothing, the grants it made stay.  *)
Refuse(k, i) ==
    /\ Selects(k, i)
    /\ RateLimited /\ tokens <= Head(queue[flows[i]]).size
    /\ balance' = Swept(k, i)
    /\ next' = i
    /\ out' = Null
    /\ UNCHANGED <<keys, flows, queue, penalised, greedyTimes, received,
                   packetNum, tokens, cleanups>>

(* No packet: one scan to the end.                                          *)
FindNothing ==
    /\ packetNum = 0
    /\ \A i \in 1 .. Len(flows) : ~Ready(FirstScan, i)
    /\ balance' = Swept(FirstScan, Len(flows) + 1)
    /\ next' = Len(flows) + 1
    /\ out' = Null
    /\ UNCHANGED <<keys, flows, queue, penalised, greedyTimes, received,
                   packetNum, tokens, cleanups>>

ScheduleNext == \/ \E k \in Scans, i \in 1 .. Len(flows) : Serve(k, i) \/ Refuse(k, i)
                \/ FindNothing

-----------------------------------------------------------------------------
(* TokenBucket::generateToken, every 4 ms.                                 *)
GenerateToken ==
    /\ RateLimited
    /\ tokens' = IF tokens + EachStep > BucketSize THEN BucketSize
                 ELSE tokens + EachStep
    /\ UNCHANGED <<keys, flows, next, queue, vqVars, packetNum, out, cleanups>>

-----------------------------------------------------------------------------
(* calObjectRate, every 100 ms: erase the flows that are idle and received  *)
(* nothing, list the others again in the map's order if any was erased, and *)
(* count the flows found greedy.  The rates themselves are left out: any    *)
(* set of flows that received something may exceed its share.              *)

(* Fault: flows is not rebuilt.                                            *)
OrderingsStale(S) == {flows}

Orderings(S) == {s \in [1 .. Cardinality(S) -> S] : \A x \in S : \E i \in DOMAIN s : s[i] = x}

(* Fault: a flow that sent nothing lately is erased with its packets.       *)
GoneWithPackets == {f \in keys : ~received[f]}

Gone == {f \in keys : ~received[f] /\ Idle(f)}

Restart(fun, default) == [f \in Flow |-> IF f \in Gone THEN default ELSE fun[f]]

CalObjectRate(greedy) ==
    LET times == [f \in Flow |->
                    IF f \in greedy
                      THEN IF greedyTimes[f] < GreedyThreshold THEN greedyTimes[f] + 1
                           ELSE greedyTimes[f]
                      ELSE IF greedyTimes[f] > 0 THEN greedyTimes[f] - 1 ELSE 0]
    IN  /\ Gone # {} => cleanups < MaxCleanups
        /\ keys' = keys \ Gone
        /\ IF Gone = {} THEN UNCHANGED <<flows, cleanups>>
           ELSE /\ flows' \in Orderings(keys \ Gone)
                /\ cleanups' = cleanups + 1
        /\ balance' = Restart(balance, 0)
        /\ greedyTimes' = Restart(times, 0)
        /\ penalised' = Restart([f \in Flow |->
                            \/ penalised[f]
                            \/ f \in greedy /\ times[f] = GreedyThreshold], FALSE)
        /\ received' = [f \in Flow |-> FALSE]
        /\ UNCHANGED <<next, queue, packetNum, tokens, out>>

-----------------------------------------------------------------------------
Next == \/ \E f \in Flow, s \in Size, m \in Marks :
              AppendInterest(f, [size |-> s, marked |-> m])
        \/ ScheduleNext
        \/ GenerateToken
        \/ \E greedy \in SUBSET {f \in keys : received[f]} : CalObjectRate(greedy)

Spec == Init /\ [][Next]_vars

-----------------------------------------------------------------------------
(* Correctness.                                                            *)

(* The slots of the class that hold a packet.                              *)
Waiting == {slot \in Flow \X (1 .. VqSize) : slot[2] <= Len(queue[slot[1]])}

(* flows lists each key of virtualQueues once: scheduleNext dereferences   *)
(* virtualQueues[flows[i]], which is null for a key the map has lost, and   *)
(* serves only what flows lists.                                           *)
FlowsListKeys ==
    /\ \A f \in keys : \E i \in 1 .. Len(flows) : flows[i] = f
    /\ \A i \in 1 .. Len(flows) : flows[i] \in keys
    /\ \A i, j \in 1 .. Len(flows) : flows[i] = flows[j] => i = j

(* currentPacketNum counts the packets of every flow.                      *)
CountExact == packetNum = Cardinality(Waiting)

(* The recursion of scheduleNext ends: while the counter says that packets *)
(* wait, some scan finds a flow that can pay for its head.                 *)
RecursionEnds ==
    packetNum > 0 => \E k \in Scans, i \in 1 .. Len(flows) : Selects(k, i)

(* A packet that arrived with a penalty mark leaves with one, although the *)
(* mark is re-derived from the flow's penaltyFactor: the penalty outlives  *)
(* every marked packet of the flow.                                        *)
MarkNeverLost ==
    \A f \in Flow, i \in 1 .. VqSize :
        i <= Len(queue[f]) /\ queue[f][i].marked => penalised[f]

(* Credit is bounded: what a packet left over, plus one quantum, plus one   *)
(* more for every cleaning, which may reorder flows and let the round       *)
(* pass over a flow it has not served.                                     *)
CreditBounded ==
    \A f \in Flow : balance[f] <= MaxSize + Quantum * (1 + cleanups)

(* While no flow was erased, the round has passed over no flow that could   *)
(* still pay for its head packet.                                          *)
NothingPassedOver ==
    cleanups = 0 => \A i \in 1 .. Len(flows) :
        i < next /\ ~Idle(flows[i]) => Head(queue[flows[i]]).size >= balance[flows[i]]

(* What the scheduler above expects: a FIFO per flow that refuses only for  *)
(* lack of tokens.                                                          *)
Class == INSTANCE ClassQueue
=============================================================================
