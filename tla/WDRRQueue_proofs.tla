-------------------------- MODULE WDRRQueue_proofs --------------------------
(***************************************************************************)
(* Theorems about WDRRQueue, for any flows, packet sizes, quantum, limits   *)
(* and token bucket.                                                       *)
(***************************************************************************)
EXTENDS WDRRShare, FoldTheorems, SequenceTheorems

-----------------------------------------------------------------------------
(* Numbers.                                                                *)

LEMMA GrantType == \A f : Grant(f) \in Nat /\ Grant(f) > 0 /\ Grant(f) <= Quantum
  BY QuantumAssumption DEF Grant

LEMMA ProductType == \A a, b \in Nat : a * b \in Nat
  OBVIOUS

LEMMA OneMoreTime ==
  ASSUME NEW a \in Nat, NEW k \in Nat
  PROVE  (k + 1) * a = k * a + a /\ a * (1 + k) = a * k + a /\ 0 * a = 0 /\ 1 * a = a
  OBVIOUS

LEMMA AtLeastOnce ==
  ASSUME NEW a \in Nat, NEW k \in Nat, a > 0
  PROVE  k * a >= k
  OBVIOUS

(* Every set of naturals that is not empty has a least element.             *)
LEMMA LeastOf ==
  ASSUME NEW S, S \subseteq Nat, S # {}
  PROVE  \E x \in S : \A y \in S : x <= y
  <1> DEFINE R == {ss \in Nat \X Nat : ss[1] < ss[2]}
  <1>1. IsWellFoundedOn(R, Nat)
    BY NatLessThanWellFounded DEF OpToRel
  <1>2. \A x, y \in Nat : y < x => <<y, x>> \in R
    OBVIOUS
  <1> HIDE DEF R
  <1>3. PICK x \in S : \A y \in S : ~(<<y, x>> \in R)
    BY <1>1, WFMin
  <1>4. ASSUME NEW y \in S
        PROVE  x <= y
    <2>1. ~(y < x)
      BY <1>2, <1>3
    <2> QED
      BY <2>1
  <1> QED
    BY <1>4

LEMMA ScansType == Scans \subseteq Nat /\ FirstScan \in Scans /\ FirstScan \in {0, 1}
  BY SizeAssumption DEF Scans, FirstScan

-----------------------------------------------------------------------------
(* The state the other facts rest on.                                      *)

QueuesFit == \A f \in Flow : Len(queue[f]) <= VqSize

(* A flow that the map has no queue for holds nothing, owes nothing and is  *)
(* owed nothing.                                                           *)
Unlisted == \A f \in Flow : f \notin keys => queue[f] = << >> /\ balance[f] = 0

Basic == TypeOK /\ QueuesFit /\ FlowsListKeys /\ Unlisted /\ CountExact

LEMMA HeadType ==
  ASSUME TypeOK, NEW f \in Flow, ~Idle(f)
  PROVE  /\ Head(queue[f]) \in Packet
         /\ Head(queue[f]).size \in Nat
         /\ Head(queue[f]).size > 0
         /\ Head(queue[f]).size <= MaxSize
         /\ Head(queue[f]).marked \in BOOLEAN
  <1>1. queue[f] \in Seq(Packet) /\ queue[f] # << >>
    BY DEF TypeOK, Idle
  <1>2. Head(queue[f]) \in Packet
    BY <1>1, HeadTailProperties
  <1>3. Head(queue[f]).size \in Size /\ Head(queue[f]).marked \in BOOLEAN
    BY <1>2 DEF Packet
  <1>4. Head(queue[f]).size \in 1 .. MaxSize
    BY <1>3, SizeAssumption
  <1> QED
    BY <1>2, <1>3, <1>4, SizeAssumption

LEMMA FlowAt ==
  ASSUME TypeOK, FlowsListKeys, NEW i \in 1 .. Len(flows)
  PROVE  flows[i] \in Flow /\ flows[i] \in keys
  BY DEF TypeOK, FlowsListKeys

LEMMA LenFlows ==
  ASSUME TypeOK
  PROVE  Len(flows) \in Nat
  BY DEF TypeOK

LEMMA BalanceAtType ==
  ASSUME TypeOK, FlowsListKeys, NEW k \in Nat, NEW i \in 1 .. Len(flows)
  PROVE  BalanceAt(k, i) \in Nat
  <1>1. balance[flows[i]] \in Nat /\ Grant(flows[i]) \in Nat
    BY FlowAt, GrantType DEF TypeOK
  <1>2. k * Grant(flows[i]) \in Nat
    BY <1>1, ProductType
  <1> QED
    BY <1>1, <1>2 DEF BalanceAt

(* Swept goes by the one position of each flow.                             *)
LEMMA SweptAt ==
  ASSUME TypeOK, FlowsListKeys, NEW k \in Nat, NEW i \in Nat
  PROVE  /\ \A f \in Flow : f \notin keys => Swept(k, i)[f] = balance[f]
         /\ \A j \in 1 .. Len(flows) :
               Swept(k, i)[flows[j]] =
                  IF Idle(flows[j]) /\ j < i /\ Visits(k, j) THEN 0 ELSE BalanceAt(k, j)
  <1>1. ASSUME NEW f \in Flow, f \notin keys
        PROVE  Swept(k, i)[f] = balance[f]
    BY <1>1 DEF Swept
  <1>2. ASSUME NEW j \in 1 .. Len(flows)
        PROVE  Swept(k, i)[flows[j]] =
                  IF Idle(flows[j]) /\ j < i /\ Visits(k, j) THEN 0 ELSE BalanceAt(k, j)
    <2>1. flows[j] \in Flow /\ flows[j] \in keys
      BY FlowAt
    <2>2. (CHOOSE h \in 1 .. Len(flows) : flows[h] = flows[j]) = j
      BY DEF FlowsListKeys
    <2> QED
      BY <2>1, <2>2 DEF Swept
  <1> QED
    BY <1>1, <1>2

LEMMA SweptType ==
  ASSUME TypeOK, FlowsListKeys, NEW k \in Nat, NEW i \in Nat
  PROVE  Swept(k, i) \in [Flow -> Nat]
  <1>1. ASSUME NEW f \in Flow
        PROVE  Swept(k, i)[f] \in Nat
    <2>1. CASE f \notin keys
      BY <2>1, SweptAt DEF TypeOK
    <2>2. CASE f \in keys
      <3>1. PICK j \in 1 .. Len(flows) : flows[j] = f
        BY <2>2 DEF FlowsListKeys
      <3>2. Swept(k, i)[flows[j]] \in {0, BalanceAt(k, j)}
        BY SweptAt
      <3> QED
        BY <3>1, <3>2, BalanceAtType
    <2> QED
      BY <2>1, <2>2
  <1>2. Swept(k, i) = [f \in Flow |-> Swept(k, i)[f]]
    BY DEF Swept
  <1> QED
    BY <1>1, <1>2

-----------------------------------------------------------------------------
(* What Append, Tail and a new order do to flows and queues.                *)

LEMMA FlowsAfterAppend ==
  ASSUME TypeOK, FlowsListKeys, NEW f \in Flow,
         keys' = keys \cup {f},
         flows' = IF f \in keys THEN flows ELSE Append(flows, f)
  PROVE  /\ flows' \in Seq(Flow)
         /\ FlowsListKeys'
         /\ Len(flows) <= Len(flows')
         /\ \A i \in 1 .. Len(flows) : flows'[i] = flows[i]
         /\ \A i \in 1 .. Len(flows') : i > Len(flows) => f \notin keys /\ flows'[i] = f
  <1>0. flows \in Seq(Flow) /\ Len(flows) \in Nat
    BY DEF TypeOK
  <1>1. CASE f \in keys
    <2>1. keys' = keys /\ flows' = flows
      BY <1>1
    <2> QED
      BY <1>0, <2>1 DEF FlowsListKeys
  <1>2. CASE f \notin keys
    <2>1. flows' = Append(flows, f)
      BY <1>2
    <2>2. /\ flows' \in Seq(Flow)
          /\ Len(flows') = Len(flows) + 1
          /\ \A i \in 1 .. Len(flows) : flows'[i] = flows[i]
          /\ flows'[Len(flows) + 1] = f
      BY <1>0, <2>1, AppendProperties
    <2> HIDE <2>1
    <2>3. \A i \in 1 .. Len(flows') : i \in 1 .. Len(flows) \/ i = Len(flows) + 1
      BY <1>0, <2>2
    <2>4. \A i \in 1 .. Len(flows) : flows[i] \in keys
      BY DEF FlowsListKeys
    <2>5. \A g \in keys' : \E i \in 1 .. Len(flows') : flows'[i] = g
      <3> SUFFICES ASSUME NEW g \in keys'
                   PROVE  \E i \in 1 .. Len(flows') : flows'[i] = g
        OBVIOUS
      <3>1. CASE g = f
        <4>1. Len(flows) + 1 \in 1 .. Len(flows')
          BY <1>0, <2>2
        <4> QED
          BY <2>2, <3>1, <4>1
      <3>2. CASE g \in keys
        <4>1. PICK i \in 1 .. Len(flows) : flows[i] = g
          BY <3>2 DEF FlowsListKeys
        <4>2. i \in 1 .. Len(flows')
          BY <1>0, <2>2
        <4> QED
          BY <2>2, <4>1, <4>2
      <3> QED
        BY <3>1, <3>2
    <2>6. \A i \in 1 .. Len(flows') : flows'[i] \in keys'
      BY <2>2, <2>3, <2>4
    <2>7. \A i, j \in 1 .. Len(flows') : flows'[i] = flows'[j] => i = j
      <3> SUFFICES ASSUME NEW i \in 1 .. Len(flows'), NEW j \in 1 .. Len(flows'),
                          flows'[i] = flows'[j]
                   PROVE  i = j
        OBVIOUS
      <3>1. CASE i \in 1 .. Len(flows) /\ j \in 1 .. Len(flows)
        BY <2>2, <3>1 DEF FlowsListKeys
      <3>2. CASE i = Len(flows) + 1 /\ j \in 1 .. Len(flows)
        BY <1>2, <2>2, <2>4, <3>2
      <3>3. CASE j = Len(flows) + 1 /\ i \in 1 .. Len(flows)
        BY <1>2, <2>2, <2>4, <3>3
      <3> QED
        BY <2>3, <3>1, <3>2, <3>3
    <2>8. FlowsListKeys'
      BY <2>5, <2>6, <2>7 DEF FlowsListKeys
    <2>9. Len(flows) <= Len(flows')
      BY <1>0, <2>2
    <2>10. \A i \in 1 .. Len(flows') : i > Len(flows) => i = Len(flows) + 1
      BY <1>0, <2>3
    <2> QED
      BY <1>2, <2>2, <2>8, <2>9, <2>10
  <1> QED
    BY <1>1, <1>2

LEMMA FlowsAfterCleaning ==
  ASSUME NEW S \in SUBSET Flow, NEW s \in Orderings(S)
  PROVE  /\ s \in Seq(Flow)
         /\ \A f \in S : \E i \in 1 .. Len(s) : s[i] = f
         /\ \A i \in 1 .. Len(s) : s[i] \in S
         /\ \A i, j \in 1 .. Len(s) : s[i] = s[j] => i = j
  <1>1. IsFiniteSet(S) /\ Cardinality(S) \in Nat
    BY FlowAssumption, FS_Subset, FS_CardinalityType
  <1> DEFINE n == Cardinality(S)
  <1>2. s \in [1 .. n -> S] /\ \A f \in S : \E i \in DOMAIN s : s[i] = f
    BY DEF Orderings
  <1>3. s \in Surjection(1 .. n, S)
    BY <1>2 DEF Surjection
  <1>4. IsFiniteSet(1 .. n) /\ Cardinality(1 .. n) = n
    <2>1. 1 \in Int /\ n \in Int
      BY <1>1
    <2>2. IsFiniteSet(1 .. n) /\ Cardinality(1 .. n) = IF 1 > n THEN 0 ELSE n - 1 + 1
      BY ONLY <2>1, FS_Interval
    <2> QED
      BY <1>1, <2>2
  <1>5. s \in Injection(1 .. n, S)
    BY <1>3, <1>4, FS_Surjection
  <1>6. s \in Seq(S) /\ Len(s) = n
    BY <1>1, <1>2
  <1>7. s \in Seq(Flow)
    BY <1>6, SeqMonotonic
  <1>8. \A i, j \in DOMAIN s : s[i] = s[j] => i = j
    BY <1>5 DEF Injection, IsInjective
  <1> QED
    BY <1>2, <1>6, <1>7, <1>8

-----------------------------------------------------------------------------
(* The counter.                                                            *)

LEMMA WaitingFinite == IsFiniteSet(Flow \X (1 .. VqSize)) /\ IsFiniteSet(Waiting)
  <1>1. IsFiniteSet(1 .. VqSize)
    BY LimitAssumption, FS_Interval
  <1>2. IsFiniteSet(Flow \X (1 .. VqSize))
    BY <1>1, FlowAssumption, FS_Product
  <1>3. Waiting \subseteq Flow \X (1 .. VqSize)
    BY DEF Waiting
  <1> QED
    BY <1>2, <1>3, FS_Subset

(* A packet more or less at the end of one queue.                           *)
LEMMA WaitingGrows ==
  ASSUME TypeOK, NEW f \in Flow, Len(queue[f]) < VqSize,
         Len(queue'[f]) = Len(queue[f]) + 1,
         \A g \in Flow : g # f => queue'[g] = queue[g]
  PROVE  Cardinality(Waiting') = Cardinality(Waiting) + 1
  <1> DEFINE slot == <<f, Len(queue[f]) + 1>>
  <1>0. \A g \in Flow : Len(queue[g]) \in Nat
    BY DEF TypeOK
  <1>1. Waiting' = Waiting \cup {slot}
    <2>1. ASSUME NEW g \in Flow, NEW i \in 1 .. VqSize
          PROVE  i <= Len(queue'[g]) <=> i <= Len(queue[g]) \/ (g = f /\ i = Len(queue[f]) + 1)
      BY <1>0
    <2>2. slot \in Flow \X (1 .. VqSize)
      BY <1>0, LimitAssumption
    <2> QED
      BY <2>1, <2>2 DEF Waiting
  <1>2. slot \notin Waiting
    BY <1>0 DEF Waiting
  <1> QED
    BY <1>1, <1>2, WaitingFinite, FS_AddElement

LEMMA WaitingShrinks ==
  ASSUME TypeOK, NEW f \in Flow, Len(queue[f]) > 0, Len(queue[f]) <= VqSize,
         Len(queue'[f]) = Len(queue[f]) - 1,
         \A g \in Flow : g # f => queue'[g] = queue[g]
  PROVE  /\ Cardinality(Waiting') = Cardinality(Waiting) - 1
         /\ Cardinality(Waiting) \in Nat
         /\ Cardinality(Waiting) > 0
  <1> DEFINE slot == <<f, Len(queue[f])>>
  <1>0. \A g \in Flow : Len(queue[g]) \in Nat
    BY DEF TypeOK
  <1>1. Waiting' = Waiting \ {slot}
    <2>1. ASSUME NEW g \in Flow, NEW i \in 1 .. VqSize
          PROVE  i <= Len(queue'[g]) <=> i <= Len(queue[g]) /\ ~(g = f /\ i = Len(queue[f]))
      BY <1>0
    <2> QED
      BY <2>1 DEF Waiting
  <1>2. slot \in Waiting
    BY <1>0, LimitAssumption DEF Waiting
  <1>3. Cardinality(Waiting) \in Nat /\ (Cardinality(Waiting) = 0 <=> Waiting = {})
    BY WaitingFinite, FS_CardinalityType, FS_EmptySet
  <1> HIDE DEF slot
  <1>4. Cardinality(Waiting') = Cardinality(Waiting) - 1
    BY <1>1, <1>2, WaitingFinite, FS_RemoveElement
  <1>5. Cardinality(Waiting) # 0
    BY <1>2, <1>3
  <1>6. Cardinality(Waiting) > 0
    BY <1>3, <1>5
  <1> QED
    BY <1>3, <1>4, <1>6

(* The counter is not zero exactly while some flow holds a packet.          *)
LEMMA SomethingWaits ==
  ASSUME Basic
  PROVE  packetNum > 0 <=> \E f \in Flow : ~Idle(f)
  <1>1. Cardinality(Waiting) \in Nat /\ (Cardinality(Waiting) = 0 <=> Waiting = {})
    BY WaitingFinite, FS_CardinalityType, FS_EmptySet
  <1>2. packetNum > 0 <=> Waiting # {}
    BY <1>1 DEF Basic, CountExact
  <1>3. ASSUME NEW f \in Flow, ~Idle(f)
        PROVE  <<f, 1>> \in Waiting
    <2>1. Len(queue[f]) \in Nat /\ Len(queue[f]) > 0 /\ Len(queue[f]) <= VqSize
      BY <1>3 DEF Basic, TypeOK, QueuesFit, Idle
    <2> QED
      BY <2>1, LimitAssumption DEF Waiting
  <1>4. ASSUME NEW slot \in Waiting
        PROVE  slot[1] \in Flow /\ ~Idle(slot[1])
    BY DEF Waiting, Idle, Basic, TypeOK
  <1> QED
    BY <1>2, <1>3, <1>4

-----------------------------------------------------------------------------
(* Where a call stops.  Every outcome of scheduleNext leaves the balances   *)
(* of a scan stopped at a position no earlier visit of which could pay.     *)

Stops(k, i) ==
    /\ k \in Nat /\ i \in 1 .. Len(flows) + 1
    /\ \A j \in 1 .. i - 1 : ~Ready(k, j)
    /\ \A h \in 0 .. k - 1, j \in 1 .. Len(flows) : ~Ready(h, j)

LEMMA SelectsStops ==
  ASSUME TypeOK, NEW k \in Scans, NEW i \in 1 .. Len(flows), Selects(k, i)
  PROVE  Stops(k, i) /\ i \in 1 .. Len(flows) /\ Ready(k, i)
  BY ScansType, LenFlows DEF Stops, Selects

LEMMA FindNothingStops ==
  ASSUME TypeOK, FindNothing
  PROVE  Stops(FirstScan, Len(flows) + 1)
  <1>1. FirstScan \in Nat /\ Len(flows) + 1 \in 1 .. Len(flows) + 1
    BY ScansType, LenFlows
  <1>2. \A j \in 1 .. Len(flows) + 1 - 1 : ~Ready(FirstScan, j)
    BY LenFlows DEF FindNothing
  <1>3. ASSUME NEW h \in 0 .. FirstScan - 1, NEW j \in 1 .. Len(flows)
        PROVE  ~Ready(h, j)
    <2>1. h = 0 /\ FirstScan = 1
      BY <1>3, ScansType
    <2>2. next > Len(flows) /\ next \in Nat
      BY <2>1 DEF FirstScan, TypeOK
    <2>3. ~(j >= next)
      BY <2>2, LenFlows
    <2> QED
      BY <2>1, <2>3 DEF Ready, Visits
  <1> QED
    BY <1>1, <1>2, <1>3 DEF Stops

(* What one packet that leaves does to the state.                           *)
LEMMA ServeMoves ==
  ASSUME Basic, NEW k \in Scans, NEW i \in 1 .. Len(flows), Serve(k, i)
  PROVE  /\ flows[i] \in Flow /\ flows[i] \in keys /\ ~Idle(flows[i])
         /\ Swept(k, i)[flows[i]] = BalanceAt(k, i)
         /\ Head(queue[flows[i]]).size < BalanceAt(k, i)
         /\ balance' \in [Flow -> Nat]
         /\ balance'[flows[i]] = BalanceAt(k, i) - Head(queue[flows[i]]).size
         /\ \A g \in Flow : g # flows[i] => balance'[g] = Swept(k, i)[g] /\ queue'[g] = queue[g]
         /\ queue' \in [Flow -> Seq(Packet)]
         /\ queue'[flows[i]] = Tail(queue[flows[i]])
         /\ Len(queue[flows[i]]) > 0
         /\ Len(queue'[flows[i]]) = Len(queue[flows[i]]) - 1
  <1> DEFINE f == flows[i]
             p == Head(queue[f])
  <1>0. TypeOK /\ FlowsListKeys /\ k \in Nat /\ i \in Nat
    BY ScansType, LenFlows DEF Basic
  <1>1. f \in Flow /\ f \in keys
    BY <1>0, FlowAt
  <1>2. Ready(k, i)
    BY DEF Serve, Selects
  <1>3. ~Idle(f) /\ p.size < BalanceAt(k, i)
    BY <1>2 DEF Ready
  <1>4. Swept(k, i)[f] = BalanceAt(k, i) /\ BalanceAt(k, i) \in Nat
    BY <1>0, <1>3, SweptAt, BalanceAtType
  <1>5. p \in Packet /\ p.size \in Nat
    BY <1>0, <1>1, <1>3, HeadType
  <1>6. Swept(k, i) \in [Flow -> Nat]
    BY <1>0, SweptType
  <1>7. balance' = [Swept(k, i) EXCEPT ![f] = @ - p.size]
    BY DEF Serve
  <1>8. queue' = [queue EXCEPT ![f] = Tail(@)]
    BY DEF Serve
  <1>9. queue \in [Flow -> Seq(Packet)] /\ queue[f] \in Seq(Packet) /\ queue[f] # << >>
    BY <1>0, <1>1, <1>3 DEF TypeOK, Idle
  <1>10. Tail(queue[f]) \in Seq(Packet) /\ Len(Tail(queue[f])) = Len(queue[f]) - 1
    BY <1>9, HeadTailProperties
  <1>11. Len(queue[f]) > 0
    BY <1>9
  <1>12. BalanceAt(k, i) - p.size \in Nat
    BY ONLY <1>3, <1>4, <1>5
  <1> HIDE DEF f, p
  <1>13. /\ balance' \in [Flow -> Nat]
         /\ balance'[f] = BalanceAt(k, i) - p.size
         /\ \A g \in Flow : g # f => balance'[g] = Swept(k, i)[g]
    BY <1>1, <1>4, <1>6, <1>7, <1>12
  <1>14. /\ queue' \in [Flow -> Seq(Packet)]
         /\ queue'[f] = Tail(queue[f])
         /\ \A g \in Flow : g # f => queue'[g] = queue[g]
    BY <1>1, <1>8, <1>9, <1>10
  <1> QED
    BY <1>1, <1>3, <1>4, <1>10, <1>11, <1>13, <1>14 DEF f, p

-----------------------------------------------------------------------------
(* Types, the counter and the lists, of one step.                           *)

LEMMA BasicInit == Init => Basic
  <1> SUFFICES ASSUME Init PROVE Basic
    OBVIOUS
  <1>1. TypeOK
    BY GreedyAssumption, TokenAssumption, BoundAssumption, EmptySeq DEF Init, TypeOK
  <1>2. QueuesFit /\ Unlisted
    BY LimitAssumption DEF Init, QueuesFit, Unlisted
  <1>3. FlowsListKeys
    BY DEF Init, FlowsListKeys
  <1>4. Waiting = {}
    BY DEF Init, Waiting
  <1>5. CountExact
    BY <1>4, FS_EmptySet DEF Init, CountExact
  <1> QED
    BY <1>1, <1>2, <1>3, <1>5 DEF Basic

LEMMA AppendBasic ==
  ASSUME Basic, NEW f \in Flow, NEW p \in Packet, AppendInterest(f, p)
  PROVE  Basic'
  <1>0. TypeOK /\ FlowsListKeys /\ QueuesFit /\ Unlisted /\ CountExact
    BY DEF Basic
  <1>1. flows' \in Seq(Flow) /\ FlowsListKeys'
    BY <1>0, FlowsAfterAppend DEF AppendInterest
  <1>2. queue \in [Flow -> Seq(Packet)] /\ Len(queue[f]) \in Nat
    BY <1>0 DEF TypeOK
  <1>3. /\ UNCHANGED <<next, balance, greedyTimes, tokens, out, cleanups>>
        /\ keys' = keys \cup {f}
        /\ received' = [received EXCEPT ![f] = TRUE]
    BY DEF AppendInterest
  <1>4. CASE Accepts(f)
    <2>1. /\ queue' = [queue EXCEPT ![f] = Append(@, p)]
          /\ penalised' = [penalised EXCEPT ![f] = PenaltyAfter(f, p)]
          /\ packetNum' = packetNum + 1
      BY <1>4 DEF AppendInterest, PacketNumAfter
    <2>2. Len(queue[f]) < VqSize
      BY <1>4 DEF Accepts
    <2>3. Append(queue[f], p) \in Seq(Packet) /\ Len(Append(queue[f], p)) = Len(queue[f]) + 1
      BY <1>2, AppendProperties
    <2>4. /\ queue' \in [Flow -> Seq(Packet)]
          /\ Len(queue'[f]) = Len(queue[f]) + 1
          /\ \A g \in Flow : g # f => queue'[g] = queue[g]
      BY <1>2, <2>1, <2>3
    <2>5. QueuesFit'
      <3>1. VqSize \in Nat /\ Len(queue'[f]) <= VqSize
        BY <1>2, <2>2, <2>4, LimitAssumption
      <3> QED
        BY <1>0, <2>4, <3>1 DEF QueuesFit
    <2>6. packetNum \in Nat /\ Cardinality(Waiting') = Cardinality(Waiting) + 1
      BY <1>0, <2>2, <2>4, WaitingGrows DEF TypeOK
    <2>7. CountExact'
      BY <1>0, <2>1, <2>6 DEF CountExact
    <2>8. PenaltyAfter(f, p) \in BOOLEAN
      BY <1>0 DEF PenaltyAfter, Packet, TypeOK
    <2>9. penalised' \in [Flow -> BOOLEAN] /\ received' \in [Flow -> BOOLEAN]
      BY <1>0, <1>3, <2>1, <2>8 DEF TypeOK
    <2>10. TypeOK'
      BY <1>0, <1>1, <1>3, <2>1, <2>4, <2>6, <2>9 DEF TypeOK
    <2>11. Unlisted'
      BY <1>0, <1>3, <2>4 DEF Unlisted
    <2> QED
      BY <1>1, <2>5, <2>7, <2>10, <2>11 DEF Basic
  <1>5. CASE ~Accepts(f)
    <2>1. UNCHANGED <<queue, penalised, packetNum>>
      BY <1>5 DEF AppendInterest, PacketNumAfter
    <2>2. received' \in [Flow -> BOOLEAN]
      BY <1>0, <1>3 DEF TypeOK
    <2>3. TypeOK'
      BY <1>0, <1>1, <1>3, <2>1, <2>2 DEF TypeOK
    <2>4. QueuesFit' /\ Unlisted' /\ CountExact'
      BY <1>0, <1>3, <2>1 DEF QueuesFit, Unlisted, CountExact, Waiting
    <2> QED
      BY <1>1, <2>3, <2>4 DEF Basic
  <1> QED
    BY <1>4, <1>5

LEMMA ServeBasic ==
  ASSUME Basic, NEW k \in Scans, NEW i \in 1 .. Len(flows), Serve(k, i)
  PROVE  Basic'
  <1> DEFINE f == flows[i]
             p == Head(queue[f])
  <1>0. TypeOK /\ FlowsListKeys /\ QueuesFit /\ Unlisted /\ CountExact
    BY DEF Basic
  <1>1. /\ f \in Flow /\ f \in keys /\ ~Idle(f)
        /\ balance' \in [Flow -> Nat]
        /\ \A g \in Flow : g # f => balance'[g] = Swept(k, i)[g] /\ queue'[g] = queue[g]
        /\ queue' \in [Flow -> Seq(Packet)]
        /\ Len(queue[f]) > 0
        /\ Len(queue'[f]) = Len(queue[f]) - 1
    BY ServeMoves
  <1>2. p.size \in Nat /\ p.marked \in BOOLEAN /\ p.size \in Size
    BY <1>0, <1>1, HeadType DEF Packet
  <1>3. /\ RateLimited => tokens > p.size
        /\ tokens' = IF RateLimited THEN tokens - p.size ELSE tokens
        /\ next' = i
        /\ packetNum' = packetNum - 1
        /\ out' = [flow |-> f, size |-> p.size, marked |-> p.marked \/ penalised[f]]
        /\ UNCHANGED <<keys, flows, penalised, greedyTimes, received, cleanups>>
    BY DEF Serve
  <1>4. \A g \in Flow : Len(queue[g]) <= VqSize /\ Len(queue[g]) \in Nat
    BY <1>0 DEF QueuesFit, TypeOK
  <1>5. QueuesFit'
    <2> SUFFICES ASSUME NEW g \in Flow PROVE Len(queue'[g]) <= VqSize
      BY DEF QueuesFit
    <2>1. VqSize \in Nat /\ Len(queue[g]) \in Nat /\ Len(queue[g]) <= VqSize
      BY <1>4, LimitAssumption
    <2>2. CASE g = f
      BY <1>1, <1>4, <2>1, <2>2
    <2>3. CASE g # f
      BY <1>1, <2>1, <2>3
    <2> QED
      BY <2>2, <2>3
  <1>6. /\ Cardinality(Waiting') = Cardinality(Waiting) - 1
        /\ Cardinality(Waiting) \in Nat
        /\ Cardinality(Waiting) > 0
    BY <1>0, <1>1, <1>4, WaitingShrinks
  <1>7. CountExact' /\ packetNum' \in Nat
    BY <1>0, <1>3, <1>6 DEF CountExact
  <1>8. tokens' \in 0 .. BucketSize
    <2>1. tokens \in 0 .. BucketSize /\ BucketSize \in Nat
      BY <1>0, TokenAssumption DEF TypeOK
    <2>2. CASE RateLimited
      <3>1. tokens > p.size /\ tokens' = tokens - p.size
        BY <1>3, <2>2
      <3> QED
        BY ONLY <1>2, <2>1, <3>1
    <2>3. CASE ~RateLimited
      BY <1>3, <2>1, <2>3
    <2> QED
      BY <2>2, <2>3
  <1>9. (p.marked \/ penalised[f]) \in BOOLEAN
    BY <1>0, <1>1, <1>2 DEF TypeOK
  <1>10. out' \in [flow : Flow, size : Size, marked : BOOLEAN] \cup {Null}
    BY <1>1, <1>2, <1>3, <1>9
  <1>11. next' \in Nat \ {0}
    BY <1>0, <1>3, LenFlows
  <1> HIDE DEF f, p
  <1>12. TypeOK'
    BY <1>0, <1>1, <1>3, <1>7, <1>8, <1>10, <1>11 DEF TypeOK
  <1>13. Unlisted'
    <2>1. k \in Nat /\ i \in Nat
      BY <1>0, ScansType, LenFlows
    <2>2. \A g \in Flow : g \notin keys => Swept(k, i)[g] = balance[g]
      BY <1>0, <2>1, SweptAt
    <2> QED
      BY <1>0, <1>1, <1>3, <2>2 DEF Unlisted
  <1>14. FlowsListKeys'
    BY <1>0, <1>3 DEF FlowsListKeys
  <1> QED
    BY <1>5, <1>7, <1>12, <1>13, <1>14 DEF Basic

(* A call that returns nothing: the grants it made stay.                    *)
NothingFound(k, i) ==
    /\ Stops(k, i)
    /\ balance' = Swept(k, i)
    /\ next' = i
    /\ out' = Null
    /\ UNCHANGED <<keys, flows, queue, penalised, greedyTimes, received,
                   packetNum, tokens, cleanups>>

LEMMA RefuseFindsNothing ==
  ASSUME TypeOK, NEW k \in Scans, NEW i \in 1 .. Len(flows), Refuse(k, i)
  PROVE  NothingFound(k, i)
  BY SelectsStops DEF Refuse, NothingFound

LEMMA EmptyFindsNothing ==
  ASSUME TypeOK, FindNothing
  PROVE  NothingFound(FirstScan, Len(flows) + 1)
  BY FindNothingStops DEF FindNothing, NothingFound

LEMMA NothingFoundBasic ==
  ASSUME Basic, NEW k, NEW i, NothingFound(k, i)
  PROVE  Basic'
  <1>0. TypeOK /\ FlowsListKeys /\ QueuesFit /\ Unlisted /\ CountExact
    BY DEF Basic
  <1>1. k \in Nat /\ i \in Nat /\ i > 0
    BY <1>0, LenFlows DEF NothingFound, Stops
  <1>2. balance' \in [Flow -> Nat]
    BY <1>0, <1>1, SweptType DEF NothingFound
  <1>3. \A g \in Flow : g \notin keys => Swept(k, i)[g] = balance[g]
    BY <1>0, <1>1, SweptAt
  <1>4. TypeOK'
    <2>1. next' \in Nat \ {0}
      BY <1>1 DEF NothingFound
    <2> QED
      BY <1>0, <1>2, <2>1 DEF NothingFound, TypeOK
  <1>5. QueuesFit' /\ FlowsListKeys' /\ CountExact'
    BY <1>0 DEF NothingFound, QueuesFit, FlowsListKeys, CountExact, Waiting
  <1>6. Unlisted'
    BY <1>0, <1>3 DEF NothingFound, Unlisted
  <1> QED
    BY <1>4, <1>5, <1>6 DEF Basic

LEMMA GenerateTokenBasic ==
  ASSUME Basic, GenerateToken
  PROVE  Basic'
  <1>0. TypeOK /\ FlowsListKeys /\ QueuesFit /\ Unlisted /\ CountExact
    BY DEF Basic
  <1>1. UNCHANGED <<keys, flows, next, queue, balance, penalised, greedyTimes, received,
                    packetNum, out, cleanups>>
    BY DEF GenerateToken, vqVars
  <1>2. tokens' \in 0 .. BucketSize
    <2>1. tokens \in 0 .. BucketSize /\ BucketSize \in Nat /\ EachStep \in Nat
      BY <1>0, TokenAssumption DEF TypeOK
    <2>2. tokens' = IF tokens + EachStep > BucketSize THEN BucketSize ELSE tokens + EachStep
      BY DEF GenerateToken
    <2> QED
      BY ONLY <2>1, <2>2
  <1>3. TypeOK'
    BY <1>0, <1>1, <1>2 DEF TypeOK
  <1> QED
    BY <1>0, <1>1, <1>3 DEF Basic, QueuesFit, Unlisted, CountExact, FlowsListKeys, Waiting

(* What a cleaning does to the state.                                       *)
LEMMA CleaningMoves ==
  ASSUME Basic, NEW greedy, CalObjectRate(greedy)
  PROVE  /\ keys' = keys \ Gone /\ Gone \subseteq keys
         /\ \A f \in Gone : Idle(f)
         /\ UNCHANGED <<next, queue, packetNum, tokens, out>>
         /\ \A f \in Flow : balance'[f] = IF f \in Gone THEN 0 ELSE balance[f]
         /\ balance' \in [Flow -> Nat]
         /\ Gone = {} => flows' = flows /\ cleanups' = cleanups
         /\ Gone # {} => cleanups' = cleanups + 1
         /\ flows' \in Seq(Flow) /\ FlowsListKeys'
         /\ cleanups' \in 0 .. MaxCleanups
         /\ \A f \in Flow : penalised[f] /\ f \notin Gone => penalised'[f]
         /\ penalised' \in [Flow -> BOOLEAN]
         /\ greedyTimes' \in [Flow -> 0 .. GreedyThreshold]
         /\ received' \in [Flow -> BOOLEAN]
  <1>0. TypeOK /\ FlowsListKeys
    BY DEF Basic
  <1>1. /\ keys' = keys \ Gone /\ Gone \subseteq keys /\ Gone \subseteq Flow
        /\ \A f \in Gone : Idle(f)
        /\ UNCHANGED <<next, queue, packetNum, tokens, out>>
    BY <1>0 DEF CalObjectRate, Gone, TypeOK
  <1>2. /\ balance' = [f \in Flow |-> IF f \in Gone THEN 0 ELSE balance[f]]
        /\ received' = [f \in Flow |-> FALSE]
    BY DEF CalObjectRate, Restart
  <1>3. /\ \A f \in Flow : balance'[f] = IF f \in Gone THEN 0 ELSE balance[f]
        /\ balance' \in [Flow -> Nat]
        /\ received' \in [Flow -> BOOLEAN]
    BY <1>0, <1>2 DEF TypeOK
  <1> DEFINE times(f) == IF f \in greedy
                           THEN IF greedyTimes[f] < GreedyThreshold THEN greedyTimes[f] + 1
                                ELSE greedyTimes[f]
                           ELSE IF greedyTimes[f] > 0 THEN greedyTimes[f] - 1 ELSE 0
  <1>4. /\ greedyTimes' = [f \in Flow |-> IF f \in Gone THEN 0 ELSE times(f)]
        /\ penalised' = [f \in Flow |->
                           IF f \in Gone THEN FALSE
                           ELSE \/ penalised[f]
                                \/ f \in greedy /\ times(f) = GreedyThreshold]
    BY DEF CalObjectRate, Restart
  <1>5. ASSUME NEW f \in Flow
        PROVE  times(f) \in 0 .. GreedyThreshold
    <2>1. greedyTimes[f] \in 0 .. GreedyThreshold /\ GreedyThreshold \in Nat
      BY <1>0, GreedyAssumption DEF TypeOK
    <2> QED
      BY <2>1
  <1> HIDE DEF times
  <1>6. greedyTimes' \in [Flow -> 0 .. GreedyThreshold]
    <2>1. 0 \in 0 .. GreedyThreshold
      BY GreedyAssumption
    <2> QED
      BY <1>4, <1>5, <2>1
  <1>7. /\ penalised' \in [Flow -> BOOLEAN]
        /\ \A f \in Flow : penalised[f] /\ f \notin Gone => penalised'[f]
    BY <1>0, <1>4 DEF TypeOK
  <1>8. CASE Gone = {}
    <2>1. flows' = flows /\ cleanups' = cleanups /\ keys' = keys
      BY <1>1, <1>8 DEF CalObjectRate
    <2> QED
      BY <1>0, <1>1, <1>3, <1>6, <1>7, <1>8, <2>1 DEF TypeOK, FlowsListKeys
  <1>9. CASE Gone # {}
    <2>1. flows' \in Orderings(keys') /\ cleanups' = cleanups + 1 /\ cleanups < MaxCleanups
      BY <1>1, <1>9 DEF CalObjectRate
    <2>2. keys' \in SUBSET Flow
      BY <1>0, <1>1 DEF TypeOK
    <2>3. flows' \in Seq(Flow) /\ FlowsListKeys'
      BY <2>1, <2>2, FlowsAfterCleaning DEF FlowsListKeys
    <2>4. cleanups' \in 0 .. MaxCleanups
      BY <1>0, <2>1, BoundAssumption DEF TypeOK
    <2> QED
      BY <1>1, <1>3, <1>6, <1>7, <1>9, <2>1, <2>3, <2>4
  <1> QED
    BY <1>8, <1>9

LEMMA CleaningBasic ==
  ASSUME Basic, NEW greedy, CalObjectRate(greedy)
  PROVE  Basic'
  <1>0. TypeOK /\ FlowsListKeys /\ QueuesFit /\ Unlisted /\ CountExact
    BY DEF Basic
  <1>1. TypeOK'
    BY <1>0, CleaningMoves DEF TypeOK
  <1>2. QueuesFit' /\ CountExact'
    BY <1>0, CleaningMoves DEF QueuesFit, CountExact, Waiting
  <1>3. Unlisted'
    BY <1>0, CleaningMoves DEF Unlisted, Idle
  <1> QED
    BY <1>1, <1>2, <1>3, CleaningMoves DEF Basic

LEMMA PacketType ==
  ASSUME NEW s \in Size, NEW m \in Marks
  PROVE  [size |-> s, marked |-> m] \in Packet
  BY MarksAssumption DEF Packet

LEMMA BasicUnchanged == Basic /\ UNCHANGED vars => Basic'
  BY DEF vars, vqVars, Basic, TypeOK, QueuesFit, FlowsListKeys, Unlisted, CountExact, Waiting

LEMMA BasicStep == Basic /\ [Next]_vars => Basic'
  <1> SUFFICES ASSUME Basic, [Next]_vars PROVE Basic'
    OBVIOUS
  <1>0. TypeOK
    BY DEF Basic
  <1>1. ASSUME NEW f \in Flow, NEW s \in Size, NEW m \in Marks,
               AppendInterest(f, [size |-> s, marked |-> m])
        PROVE  Basic'
    BY <1>1, PacketType, AppendBasic
  <1>2. ASSUME NEW k \in Scans, NEW i \in 1 .. Len(flows), Serve(k, i)
        PROVE  Basic'
    BY <1>2, ServeBasic
  <1>3. ASSUME NEW k \in Scans, NEW i \in 1 .. Len(flows), Refuse(k, i)
        PROVE  Basic'
    BY <1>0, <1>3, RefuseFindsNothing, NothingFoundBasic
  <1>4. CASE FindNothing
    BY <1>0, <1>4, EmptyFindsNothing, NothingFoundBasic
  <1>5. CASE GenerateToken
    BY <1>5, GenerateTokenBasic
  <1>6. ASSUME NEW greedy, CalObjectRate(greedy)
        PROVE  Basic'
    BY <1>6, CleaningBasic
  <1>7. CASE UNCHANGED vars
    BY <1>7, BasicUnchanged
  <1> QED
    BY <1>1, <1>2, <1>3, <1>4, <1>5, <1>6, <1>7 DEF Next, ScheduleNext

(* Every variable has its type.                                            *)
THEOREM TypeCorrect == Spec => []TypeOK
  <1>1. Basic => TypeOK
    BY DEF Basic
  <1> QED
    BY BasicInit, BasicStep, <1>1, PTL DEF Spec

(* The vector scheduleNext walks lists each key of the map once, through    *)
(* every arrival and every cleaning: no null queue is dereferenced and no   *)
(* flow is left out.                                                       *)
THEOREM EachFlowListedOnce == Spec => []FlowsListKeys
  <1>1. Basic => FlowsListKeys
    BY DEF Basic
  <1> QED
    BY BasicInit, BasicStep, <1>1, PTL DEF Spec

(* The packet counter, which decides whether scheduleNext recurses, is the  *)
(* number of packets in the queues.                                        *)
THEOREM CounterExact == Spec => []CountExact
  <1>1. Basic => CountExact
    BY DEF Basic
  <1> QED
    BY BasicInit, BasicStep, <1>1, PTL DEF Spec

-----------------------------------------------------------------------------
(* The recursion of scheduleNext.                                          *)

(* Scan MaxSize + 1 can pay any head.                                       *)
LEMMA LastScanPays ==
  ASSUME TypeOK, FlowsListKeys, NEW i \in 1 .. Len(flows), ~Idle(flows[i])
  PROVE  Ready(MaxSize + 1, i)
  <1> DEFINE f == flows[i]
  <1>1. f \in Flow
    BY FlowAt
  <1>2. Head(queue[f]).size \in Nat /\ Head(queue[f]).size <= MaxSize
    BY <1>1, HeadType
  <1>3. balance[f] \in Nat /\ Grant(f) \in Nat /\ Grant(f) > 0
    BY <1>1, GrantType DEF TypeOK
  <1>4. MaxSize \in Nat /\ MaxSize + 1 \in Nat /\ MaxSize + 1 > 0
    BY SizeAssumption
  <1>5. (MaxSize + 1) * Grant(f) >= MaxSize + 1 /\ (MaxSize + 1) * Grant(f) \in Nat
    BY <1>3, <1>4, AtLeastOnce, ProductType
  <1>6. BalanceAt(MaxSize + 1, i) = balance[f] + (MaxSize + 1) * Grant(f)
    BY <1>4 DEF BalanceAt
  <1> DEFINE owed == (MaxSize + 1) * Grant(f)
  <1> HIDE DEF f, owed
  <1>7. Head(queue[f]).size < balance[f] + owed
    <2>1. owed >= MaxSize + 1 /\ owed \in Nat
      BY <1>5 DEF owed
    <2> QED
      BY ONLY <1>2, <1>3, <1>4, <2>1
  <1> QED
    BY <1>4, <1>6, <1>7 DEF Ready, Visits, f, owed

LEMMA SomeScanSelects ==
  ASSUME Basic, packetNum > 0
  PROVE  \E k \in Scans, i \in 1 .. Len(flows) : Selects(k, i)
  <1>0. TypeOK /\ FlowsListKeys /\ Unlisted /\ Len(flows) \in Nat
    BY LenFlows DEF Basic
  <1>1. PICK f \in Flow : ~Idle(f)
    BY SomethingWaits
  <1>2. f \in keys
    BY <1>0, <1>1 DEF Unlisted, Idle
  <1>3. PICK at \in 1 .. Len(flows) : flows[at] = f
    BY <1>0, <1>2 DEF FlowsListKeys
  <1>4. Ready(MaxSize + 1, at)
    BY <1>0, <1>1, <1>3, LastScanPays
  <1> DEFINE Paying == {k \in Nat : \E i \in 1 .. Len(flows) : Ready(k, i)}
  <1>5. MaxSize + 1 \in Paying
    BY <1>4, SizeAssumption
  <1>6. PICK k \in Paying : \A h \in Paying : k <= h
    BY <1>5, LeastOf
  <1>7. k \in Nat /\ k <= MaxSize + 1 /\ k \in Scans
    BY <1>5, <1>6, SizeAssumption DEF Scans
  <1> DEFINE Able == {i \in 1 .. Len(flows) : Ready(k, i)}
  <1>8. Able # {} /\ Able \subseteq Nat
    BY <1>0, <1>6
  <1>9. PICK i \in Able : \A j \in Able : i <= j
    BY <1>8, LeastOf
  <1>10. i \in 1 .. Len(flows) /\ Ready(k, i)
    BY <1>9
  <1>11. ASSUME NEW j \in 1 .. i - 1
         PROVE  ~Ready(k, j)
    <2>1. j \in 1 .. Len(flows) /\ ~(i <= j)
      BY <1>0, <1>10
    <2> QED
      BY <1>9, <2>1
  <1>12. ASSUME NEW h \in 0 .. k - 1, NEW j \in 1 .. Len(flows)
         PROVE  ~Ready(h, j)
    <2>1. h \in Nat /\ ~(k <= h)
      BY <1>7
    <2> QED
      BY <1>6, <2>1
  <1>13. Selects(k, i)
    BY <1>10, <1>11, <1>12 DEF Selects
  <1> QED
    BY <1>7, <1>10, <1>13

(* While packets wait, some scan of scheduleNext finds a flow that can pay,  *)
(* whatever was cleaned or penalised: the recursion does not go on forever. *)
THEOREM RecursionTerminates == Spec => []RecursionEnds
  <1>1. Basic => RecursionEnds
    BY SomeScanSelects DEF RecursionEnds
  <1> QED
    BY BasicInit, BasicStep, <1>1, PTL DEF Spec

-----------------------------------------------------------------------------
(* Marks.                                                                  *)

MarkKept == Basic /\ MarkNeverLost

LEMMA MarkInit == Init => MarkNeverLost
  <1> SUFFICES ASSUME Init, NEW f \in Flow, NEW i \in 1 .. VqSize, i <= Len(queue[f])
               PROVE  FALSE
    BY DEF MarkNeverLost
  <1>1. Len(queue[f]) = 0
    BY DEF Init
  <1> QED
    BY <1>1

LEMMA MarkStep == Basic /\ MarkNeverLost /\ [Next]_vars => MarkNeverLost'
  <1> SUFFICES ASSUME Basic, MarkNeverLost, [Next]_vars PROVE MarkNeverLost'
    OBVIOUS
  <1>0. TypeOK /\ QueuesFit
    BY DEF Basic
  <1>a. queue \in [Flow -> Seq(Packet)]
    BY <1>0 DEF TypeOK
  <1>1. ASSUME NEW f \in Flow, NEW s \in Size, NEW m \in Marks,
               AppendInterest(f, [size |-> s, marked |-> m])
        PROVE  MarkNeverLost'
    <2> DEFINE p == [size |-> s, marked |-> m]
    <2>0. p \in Packet
      BY PacketType
    <2> HIDE DEF p
    <2>1. CASE Accepts(f)
      <3>1. /\ queue' = [queue EXCEPT ![f] = Append(@, p)]
            /\ penalised' = [penalised EXCEPT ![f] = PenaltyAfter(f, p)]
        BY <1>1, <2>1 DEF AppendInterest, p
      <3>2. /\ queue'[f] = Append(queue[f], p)
            /\ penalised'[f] = PenaltyAfter(f, p)
            /\ \A g \in Flow : g # f => queue'[g] = queue[g] /\ penalised'[g] = penalised[g]
        BY <1>0, <1>a, <3>1 DEF TypeOK
      <3>3. /\ Len(queue'[f]) = Len(queue[f]) + 1 /\ Len(queue[f]) \in Nat
            /\ \A i \in 1 .. Len(queue[f]) : queue'[f][i] = queue[f][i]
            /\ queue'[f][Len(queue[f]) + 1] = p
        BY <1>a, <2>0, <3>2, AppendProperties
      <3>4. ASSUME NEW g \in Flow, NEW i \in 1 .. VqSize, i <= Len(queue'[g]), queue'[g][i].marked
            PROVE  penalised'[g]
        <4>1. CASE g # f
          BY <3>2, <3>4, <4>1 DEF MarkNeverLost
        <4>2. CASE g = f /\ i <= Len(queue[f])
          <5>1. queue[f][i].marked
            BY <3>3, <3>4, <4>2
          <5>2. penalised[f]
            BY <4>2, <5>1 DEF MarkNeverLost
          <5> QED
            BY <3>2, <4>2, <5>2 DEF PenaltyAfter
        <4>3. CASE g = f /\ i = Len(queue[f]) + 1
          <5>1. p.marked
            BY <3>3, <3>4, <4>3
          <5> QED
            BY <3>2, <4>3, <5>1 DEF PenaltyAfter
        <4>4. g = f => i <= Len(queue[f]) \/ i = Len(queue[f]) + 1
          BY <3>3, <3>4
        <4> QED
          BY <4>1, <4>2, <4>3, <4>4
      <3> QED
        BY <3>4 DEF MarkNeverLost
    <2>2. CASE ~Accepts(f)
      BY <1>1, <2>2 DEF AppendInterest, MarkNeverLost
    <2> QED
      BY <2>1, <2>2
  <1>2. ASSUME NEW k \in Scans, NEW at \in 1 .. Len(flows), Serve(k, at)
        PROVE  MarkNeverLost'
    <2> DEFINE f == flows[at]
    <2>1. /\ f \in Flow /\ ~Idle(f)
          /\ queue'[f] = Tail(queue[f])
          /\ \A g \in Flow : g # f => queue'[g] = queue[g]
      BY <1>2, ServeMoves
    <2>2. penalised' = penalised
      BY <1>2 DEF Serve
    <2> HIDE DEF f
    <2>3. /\ Len(queue'[f]) = Len(queue[f]) - 1 /\ Len(queue[f]) \in Nat
          /\ \A i \in 1 .. Len(queue'[f]) : queue'[f][i] = queue[f][i + 1]
      BY <1>a, <2>1, HeadTailProperties DEF Idle
    <2>4. ASSUME NEW g \in Flow, NEW i \in 1 .. VqSize, i <= Len(queue'[g]), queue'[g][i].marked
          PROVE  penalised[g]
      <3>1. CASE g # f
        BY <2>1, <2>4, <3>1 DEF MarkNeverLost
      <3>2. CASE g = f
        <4>1. i \in 1 .. Len(queue'[f])
          BY <2>3, <2>4, <3>2
        <4>2. queue[f][i + 1].marked
          BY <2>3, <2>4, <3>2, <4>1
        <4>3. i + 1 \in 1 .. VqSize /\ i + 1 <= Len(queue[f])
          BY <1>0, <2>1, <2>3, <4>1, LimitAssumption DEF QueuesFit
        <4> QED
          BY <2>1, <3>2, <4>2, <4>3 DEF MarkNeverLost
      <3> QED
        BY <3>1, <3>2
    <2> QED
      BY <2>2, <2>4 DEF MarkNeverLost
  <1>3. CASE UNCHANGED <<queue, penalised>>
    BY <1>3 DEF MarkNeverLost
  <1>4. ASSUME NEW greedy, CalObjectRate(greedy)
        PROVE  MarkNeverLost'
    <2>1. /\ queue' = queue
          /\ \A f \in Gone : queue[f] = << >>
          /\ \A f \in Flow : penalised[f] /\ f \notin Gone => penalised'[f]
      BY <1>4, CleaningMoves DEF Idle
    <2>2. \A f \in Gone, i \in 1 .. VqSize : ~(i <= Len(queue[f]))
      BY <2>1
    <2> QED
      BY <2>1, <2>2 DEF MarkNeverLost
  <1> QED
    BY <1>1, <1>2, <1>3, <1>4
    DEF Next, ScheduleNext, Refuse, FindNothing, GenerateToken, vars, vqVars

(* A packet that came with a penalty mark leaves with one: its flow stays    *)
(* penalised as long as it waits.                                          *)
THEOREM MarkSurvives == Spec => []MarkNeverLost
  <1>1. Init => MarkKept
    BY BasicInit, MarkInit DEF MarkKept
  <1>2. MarkKept /\ [Next]_vars => MarkKept'
    BY BasicStep, MarkStep DEF MarkKept
  <1>3. MarkKept => MarkNeverLost
    BY DEF MarkKept
  <1> QED
    BY <1>1, <1>2, <1>3, PTL DEF Spec

-----------------------------------------------------------------------------
(* Credit.  Behind the round, a flow has at most what is left of a head it   *)
(* could not pay for, and a quantum for every cleaning that put it there     *)
(* out of turn; ahead of the round it may have one quantum more.            *)

Behind == \A i \in 1 .. Len(flows) :
            i < next => balance[flows[i]] <= MaxSize + Quantum * cleanups

(* Where no cleaning has moved it, a flow behind the round cannot pay.      *)
CannotPay(f) == IF Idle(f) THEN balance[f] = 0 ELSE Head(queue[f]).size >= balance[f]
Passed == cleanups = 0 => \A i \in 1 .. Len(flows) : i < next => CannotPay(flows[i])

Credit == Behind /\ CreditBounded /\ Passed

LEMMA CreditInit == Init => Credit
  <1> SUFFICES ASSUME Init PROVE Credit
    OBVIOUS
  <1>1. Len(flows) = 0
    BY DEF Init
  <1>2. Behind /\ Passed
    BY <1>1 DEF Behind, Passed
  <1>3. CreditBounded
    <2>1. Quantum * (1 + cleanups) \in Nat
      BY QuantumAssumption DEF Init
    <2>2. \A f \in Flow : balance[f] = 0
      BY DEF Init
    <2> QED
      BY <2>1, <2>2, SizeAssumption DEF CreditBounded
  <1> QED
    BY <1>2, <1>3 DEF Credit

(* The bounds as two numbers a quantum apart.                               *)
LEMMA Bounds ==
  ASSUME TypeOK
  PROVE  /\ Quantum * cleanups \in Nat /\ cleanups \in Nat
         /\ Quantum * (1 + cleanups) = Quantum * cleanups + Quantum
  <1>1. cleanups \in Nat /\ Quantum \in Nat
    BY QuantumAssumption DEF TypeOK
  <1> QED
    BY <1>1, OneMoreTime, ProductType

(* How a scan that stops at i leaves the flow at position j.                *)
LEMMA SweptBounds ==
  ASSUME Basic, Credit, NEW k, NEW i, Stops(k, i), NEW j \in 1 .. Len(flows)
  PROVE  /\ Swept(k, i)[flows[j]] <= MaxSize + Quantum * (1 + cleanups)
         /\ j < i => Swept(k, i)[flows[j]] <= MaxSize + Quantum * cleanups
         /\ j < i /\ cleanups = 0 =>
               IF Idle(flows[j]) THEN Swept(k, i)[flows[j]] = 0
               ELSE Head(queue[flows[j]]).size >= Swept(k, i)[flows[j]]
  <1> DEFINE f == flows[j]
             b == balance[f]
             g == Grant(f)
             head == Head(queue[f]).size
             x == Quantum * cleanups
             s == Swept(k, i)[f]
  <1>0. TypeOK /\ FlowsListKeys
    BY DEF Basic
  <1>1. k \in Nat /\ i \in Nat /\ j \in Nat /\ next \in Nat
    BY <1>0, LenFlows DEF Stops, TypeOK
  <1>2. f \in Flow /\ b \in Nat /\ g \in Nat /\ g <= Quantum
    BY <1>0, FlowAt, GrantType DEF TypeOK
  <1>3. x \in Nat /\ Quantum * (1 + cleanups) = x + Quantum /\ Quantum \in Nat /\ MaxSize \in Nat
    BY <1>0, Bounds, QuantumAssumption, SizeAssumption
  <1>4. s = IF Idle(f) /\ j < i /\ Visits(k, j) THEN 0 ELSE BalanceAt(k, j)
    BY <1>0, <1>1, SweptAt
  <1>5. ~Idle(f) => head \in Nat /\ head <= MaxSize
    BY <1>0, <1>2, HeadType
  <1>6. b <= MaxSize + x + Quantum
    BY <1>2, <1>3 DEF Credit, CreditBounded
  <1>7. j < next => b <= MaxSize + x
    BY DEF Credit, Behind
  <1>8. j < next /\ cleanups = 0 => IF Idle(f) THEN b = 0 ELSE head >= b
    BY DEF Credit, Passed, CannotPay
  <1>9. BalanceAt(0, j) = b
    BY DEF BalanceAt
  <1>10. BalanceAt(k, j) \in Nat
    BY <1>0, <1>1, BalanceAtType
  <1> HIDE DEF f, b, g, head, x, s
  <1>11. CASE j < i /\ Visits(k, j)
    <2>1. CASE Idle(f)
      <3>1. s = 0
        BY <1>4, <1>11, <2>1
      <3>2. s <= MaxSize + x /\ s <= MaxSize + (x + Quantum)
        BY ONLY <1>3, <3>1
      <3> QED
        BY <1>3, <2>1, <3>1, <3>2 DEF f, s, x
    <2>2. CASE ~Idle(f)
      <3>1. ~Ready(k, j)
        <4>1. j \in 1 .. i - 1
          BY <1>1, <1>11
        <4> QED
          BY <4>1 DEF Stops
      <3>2. ~(head < BalanceAt(k, j))
        BY <1>11, <2>2, <3>1 DEF Ready, f, head
      <3>3. s = BalanceAt(k, j)
        BY <1>4, <2>2
      <3>4. s <= head /\ s \in Nat
        BY <1>5, <1>10, <2>2, <3>2, <3>3
      <3>5. s <= MaxSize + x /\ s <= MaxSize + (x + Quantum)
        BY ONLY <1>3, <1>5, <2>2, <3>4
      <3> QED
        BY <1>3, <1>5, <2>2, <3>4, <3>5 DEF f, s, x, head
    <2> QED
      BY <2>1, <2>2
  <1>12. CASE j < i /\ ~Visits(k, j)
    <2>1. k = 0 /\ j < next
      BY <1>1, <1>12 DEF Visits
    <2>2. s = b
      BY <1>4, <1>9, <1>12, <2>1
    <2>3. s <= MaxSize + x /\ s <= MaxSize + (x + Quantum)
      BY <1>2, <1>3, <1>7, <2>1, <2>2
    <2> QED
      BY <1>3, <1>8, <2>1, <2>2, <2>3 DEF f, s, x, head
  <1>13. CASE ~(j < i)
    <2>0. s = BalanceAt(k, j)
      BY <1>4, <1>13
    <2>1. CASE k = 0
      <3>1. s <= MaxSize + (x + Quantum)
        BY <1>2, <1>3, <1>6, <1>9, <2>0, <2>1
      <3> QED
        BY <1>3, <1>13, <3>1 DEF s, f, x
    <2>2. CASE k > 0 /\ Idle(f)
      <3>1. (s = b + g /\ j < next) \/ s = g
        BY <1>1, <2>0, <2>2 DEF BalanceAt, f, b, g
      <3>2. s <= MaxSize + (x + Quantum)
        BY <1>2, <1>3, <1>7, <3>1
      <3> QED
        BY <1>3, <1>13, <3>2 DEF s, f, x
    <2>3. CASE k > 0 /\ ~Idle(f)
      <3>1. k - 1 \in Nat /\ (k - 1) + 1 = k
        BY <1>1, <2>3
      <3>2. k * g = (k - 1) * g + g /\ 0 * g = 0 /\ (k - 1) * g \in Nat
        BY <1>2, <3>1, OneMoreTime, ProductType
      <3> DEFINE c == (k - 1) * g
      <3>3. s = b + (c + g)
        BY <1>1, <2>0, <2>3, <3>2 DEF BalanceAt, f, b, g
      <3>4. BalanceAt(k - 1, j) = b + c
        <4>1. CASE k - 1 = 0
          <5>1. c = 0
            BY <3>2, <4>1
          <5> HIDE DEF c
          <5> QED
            BY <1>2, <1>9, <4>1, <5>1
        <4>2. CASE k - 1 # 0
          BY <2>3, <4>2 DEF BalanceAt, f, b, g
        <4> QED
          BY <4>1, <4>2
      <3>5. c \in Nat
        BY <3>2
      <3> HIDE DEF c
      <3>6. CASE Visits(k - 1, j)
        <4>1. ~Ready(k - 1, j)
          <5>1. k - 1 \in 0 .. k - 1
            BY <3>1
          <5> QED
            BY <5>1 DEF Stops
        <4>2. ~(head < b + c)
          BY <2>3, <3>4, <3>6, <4>1 DEF Ready, f, head
        <4>3. s <= MaxSize + (x + Quantum)
          BY ONLY <1>2, <1>3, <1>5, <2>3, <3>3, <3>5, <4>2
        <4> QED
          BY <1>3, <1>13, <4>3 DEF s, f, x
      <3>7. CASE ~Visits(k - 1, j)
        <4>1. k - 1 = 0 /\ j < next
          BY <1>1, <3>1, <3>7 DEF Visits
        <4>2. c = 0
          BY <3>2, <4>1 DEF c
        <4>3. s <= MaxSize + (x + Quantum)
          BY <1>2, <1>3, <1>7, <3>3, <4>1, <4>2
        <4> QED
          BY <1>3, <1>13, <4>3 DEF s, f, x
      <3> QED
        BY <3>6, <3>7
    <2> QED
      BY <1>1, <2>1, <2>2, <2>3
  <1> QED
    BY <1>11, <1>12, <1>13

(* A call that returns nothing.                                             *)
LEMMA NothingFoundCredit ==
  ASSUME Basic, Credit, NEW k, NEW i, NothingFound(k, i)
  PROVE  Credit'
  <1>0. TypeOK /\ FlowsListKeys /\ Unlisted /\ Stops(k, i) /\ k \in Nat /\ i \in Nat
    BY LenFlows DEF Basic, NothingFound, Stops
  <1>1. balance' = Swept(k, i) /\ next' = i /\ UNCHANGED <<keys, flows, queue, cleanups>>
    BY DEF NothingFound
  <1>2. Behind'
    BY <1>0, <1>1, SweptBounds DEF Behind
  <1>3. Passed'
    BY <1>0, <1>1, SweptBounds DEF Passed, CannotPay, Idle
  <1>4. ASSUME NEW f \in Flow
        PROVE  balance'[f] <= MaxSize + Quantum * (1 + cleanups)
    <2>1. CASE f \in keys
      <3>1. PICK j \in 1 .. Len(flows) : flows[j] = f
        BY <1>0, <2>1 DEF FlowsListKeys
      <3> QED
        BY <1>0, <1>1, <3>1, SweptBounds
    <2>2. CASE f \notin keys
      BY <1>0, <1>1, <2>2, SweptAt DEF Credit, CreditBounded
    <2> QED
      BY <2>1, <2>2
  <1>5. CreditBounded'
    BY <1>1, <1>4 DEF CreditBounded
  <1> QED
    BY <1>2, <1>3, <1>5 DEF Credit

LEMMA ServeCredit ==
  ASSUME Basic, Credit, NEW k \in Scans, NEW i \in 1 .. Len(flows), Serve(k, i)
  PROVE  Credit'
  <1>0. TypeOK /\ FlowsListKeys /\ Stops(k, i) /\ k \in Nat /\ i \in Nat
    BY ScansType, LenFlows, SelectsStops DEF Basic, Serve
  <1>1. next' = i /\ UNCHANGED <<keys, flows, cleanups>>
    BY DEF Serve
  <1> DEFINE f == flows[i]
  <1>2. /\ f \in Flow /\ f \in keys
        /\ balance'[f] = Swept(k, i)[f] - Head(queue[f]).size
        /\ \A g \in Flow : g # f => balance'[g] = Swept(k, i)[g] /\ queue'[g] = queue[g]
    BY ServeMoves
  <1>3. Head(queue[f]).size \in Nat /\ Swept(k, i)[f] \in Nat
    BY <1>0, <1>2, HeadType, ServeMoves, SweptType
  <1>4. ASSUME NEW j \in 1 .. Len(flows), j < i
        PROVE  flows[j] # f /\ flows[j] \in Flow
    <2>1. j # i
      BY <1>0, <1>4
    <2> QED
      BY <1>0, <2>1, FlowAt DEF FlowsListKeys
  <1>5. Behind'
    <2> SUFFICES ASSUME NEW j \in 1 .. Len(flows), j < i
                 PROVE  balance'[flows[j]] <= MaxSize + Quantum * cleanups
      BY <1>1 DEF Behind
    <2>1. balance'[flows[j]] = Swept(k, i)[flows[j]]
      BY <1>2, <1>4
    <2> QED
      BY <1>0, <2>1, SweptBounds
  <1>6. Passed'
    <2> SUFFICES ASSUME cleanups = 0, NEW j \in 1 .. Len(flows), j < i
                 PROVE  CannotPay(flows[j])'
      BY <1>1 DEF Passed, CannotPay, Idle
    <2>1. balance'[flows[j]] = Swept(k, i)[flows[j]] /\ queue'[flows[j]] = queue[flows[j]]
      BY <1>2, <1>4
    <2>2. IF Idle(flows[j]) THEN Swept(k, i)[flows[j]] = 0
          ELSE Head(queue[flows[j]]).size >= Swept(k, i)[flows[j]]
      BY <1>0, SweptBounds
    <2> QED
      BY <1>1, <2>1, <2>2 DEF CannotPay, Idle
  <1>7. ASSUME NEW g \in Flow
        PROVE  balance'[g] <= MaxSize + Quantum * (1 + cleanups)
    <2>1. CASE g = f
      <3>1. Swept(k, i)[f] <= MaxSize + Quantum * (1 + cleanups)
        BY <1>0, SweptBounds
      <3>2. Quantum * (1 + cleanups) \in Nat /\ MaxSize \in Nat
        BY <1>0, Bounds, QuantumAssumption, SizeAssumption
      <3> DEFINE bound == Quantum * (1 + cleanups)
      <3> HIDE DEF f, bound
      <3>3. Swept(k, i)[f] - Head(queue[f]).size <= MaxSize + bound
        BY <1>3, <3>1, <3>2 DEF bound
      <3> QED
        BY <1>2, <2>1, <3>3 DEF bound
    <2>2. CASE g # f /\ g \in keys
      <3>1. PICK j \in 1 .. Len(flows) : flows[j] = g
        BY <1>0, <2>2 DEF FlowsListKeys
      <3> QED
        BY <1>0, <1>2, <2>2, <3>1, SweptBounds
    <2>3. CASE g # f /\ g \notin keys
      BY <1>0, <1>2, <2>3, SweptAt DEF Credit, CreditBounded
    <2> QED
      BY <2>1, <2>2, <2>3
  <1>8. CreditBounded'
    BY <1>1, <1>7 DEF CreditBounded
  <1> QED
    BY <1>5, <1>6, <1>8 DEF Credit

LEMMA AppendCredit ==
  ASSUME Basic, Credit, NEW f \in Flow, NEW p \in Packet, AppendInterest(f, p)
  PROVE  Credit'
  <1>0. TypeOK /\ FlowsListKeys /\ Unlisted /\ Len(flows) \in Nat
    BY LenFlows DEF Basic
  <1>1. UNCHANGED <<next, balance, cleanups>>
    BY DEF AppendInterest
  <1>2. /\ Len(flows) <= Len(flows') /\ Len(flows') \in Nat
        /\ \A i \in 1 .. Len(flows) : flows'[i] = flows[i]
        /\ \A i \in 1 .. Len(flows') : i > Len(flows) => f \notin keys /\ flows'[i] = f
    BY <1>0, FlowsAfterAppend DEF AppendInterest
  <1>3. ASSUME NEW i \in 1 .. Len(flows'), ~(i \in 1 .. Len(flows))
        PROVE  flows'[i] = f /\ balance[f] = 0 /\ f \notin keys
    <2>1. i > Len(flows)
      BY <1>0, <1>2, <1>3
    <2> QED
      BY <1>0, <1>2, <2>1 DEF Unlisted
  <1>4. Behind'
    <2> SUFFICES ASSUME NEW i \in 1 .. Len(flows'), i < next
                 PROVE  balance[flows'[i]] <= MaxSize + Quantum * cleanups
      BY <1>1 DEF Behind
    <2>1. CASE i \in 1 .. Len(flows)
      BY <1>2, <2>1 DEF Credit, Behind
    <2>2. CASE ~(i \in 1 .. Len(flows))
      <3>1. balance[flows'[i]] = 0
        BY <1>3, <2>2
      <3>2. MaxSize \in Nat /\ Quantum * cleanups \in Nat
        BY <1>0, Bounds, SizeAssumption
      <3> QED
        BY <3>1, <3>2
    <2> QED
      BY <2>1, <2>2
  <1>5. CreditBounded'
    BY <1>1 DEF Credit, CreditBounded
  <1>6. ASSUME NEW g \in Flow, CannotPay(g)
        PROVE  CannotPay(g)'
    <2>1. queue \in [Flow -> Seq(Packet)]
      BY <1>0 DEF TypeOK
    <2>2. CASE queue' = queue
      BY <1>1, <1>6, <2>2 DEF CannotPay, Idle
    <2>3. CASE queue' = [queue EXCEPT ![f] = Append(@, p)]
      <3>1. CASE g # f
        <4>1. queue'[g] = queue[g]
          BY <2>1, <2>3, <3>1
        <4> QED
          BY <1>1, <1>6, <4>1 DEF CannotPay, Idle
      <3>2. CASE g = f /\ Idle(f)
        <4>1. queue'[f] = Append(queue[f], p)
          BY <2>1, <2>3
        <4>2. queue'[f] # << >> /\ Head(queue'[f]) = p
          BY <2>1, <3>2, <4>1, AppendProperties, HeadTailAppend DEF Idle
        <4>3. p.size \in Nat /\ balance'[f] = 0
          <5>1. p.size \in 1 .. MaxSize
            BY SizeAssumption DEF Packet
          <5>2. balance'[f] = 0
            BY <1>1, <1>6, <3>2 DEF CannotPay
          <5> QED
            BY <5>1, <5>2
        <4> QED
          BY <3>2, <4>2, <4>3 DEF CannotPay, Idle
      <3>3. CASE g = f /\ ~Idle(f)
        <4>1. queue'[f] = Append(queue[f], p)
          BY <2>1, <2>3
        <4>2. queue'[f] # << >> /\ Head(queue'[f]) = Head(queue[f])
          BY <2>1, <3>3, <4>1, AppendProperties, HeadTailAppend DEF Idle
        <4> QED
          BY <1>1, <1>6, <3>3, <4>2 DEF CannotPay, Idle
      <3> QED
        BY <3>1, <3>2, <3>3
    <2> QED
      BY <2>2, <2>3 DEF AppendInterest
  <1>7. Passed'
    <2>1. ASSUME cleanups = 0, NEW i \in 1 .. Len(flows'), i < next
          PROVE  flows'[i] \in Flow /\ CannotPay(flows'[i])
      <3>1. CASE i \in 1 .. Len(flows)
        <4>1. flows'[i] = flows[i] /\ flows[i] \in Flow
          BY <1>0, <1>2, <3>1, FlowAt
        <4> QED
          BY <2>1, <3>1, <4>1 DEF Credit, Passed
      <3>2. CASE ~(i \in 1 .. Len(flows))
        <4>1. flows'[i] = f /\ balance[f] = 0 /\ queue[f] = << >>
          BY <1>0, <1>3, <3>2 DEF Unlisted
        <4> QED
          BY <4>1 DEF CannotPay, Idle
      <3> QED
        BY <3>1, <3>2
    <2>2. \A g \in Flow : CannotPay(g) =>
             IF queue'[g] = << >> THEN balance'[g] = 0 ELSE Head(queue'[g]).size >= balance'[g]
      BY <1>6 DEF CannotPay, Idle
    <2> QED
      BY <1>1, <2>1, <2>2 DEF Passed, CannotPay, Idle
  <1> QED
    BY <1>4, <1>5, <1>7 DEF Credit

LEMMA CleaningCredit ==
  ASSUME Basic, Credit, NEW greedy, CalObjectRate(greedy)
  PROVE  Credit'
  <1>0. TypeOK /\ FlowsListKeys
    BY DEF Basic
  <1>1. UNCHANGED <<next, queue>>
        /\ \A f \in Flow : balance'[f] = IF f \in Gone THEN 0 ELSE balance[f]
    BY CleaningMoves
  <1>2. MaxSize \in Nat /\ Quantum \in Nat /\ cleanups \in Nat /\ Quantum * cleanups \in Nat
        /\ Quantum * (1 + cleanups) = Quantum * cleanups + Quantum
    BY <1>0, Bounds, QuantumAssumption, SizeAssumption
  <1>3. CASE Gone = {}
    <2>1. UNCHANGED <<flows, cleanups>> /\ \A f \in Flow : balance'[f] = balance[f]
      BY <1>1, <1>3, CleaningMoves
    <2>2. \A i \in 1 .. Len(flows) : flows[i] \in Flow
      BY <1>0, FlowAt
    <2> QED
      BY <1>1, <2>1, <2>2 DEF Credit, Behind, CreditBounded, Passed, CannotPay, Idle
  <1>4. CASE Gone # {}
    <2>1. cleanups' = cleanups + 1
      BY <1>4, CleaningMoves
    <2>2. /\ Quantum * cleanups' = Quantum * (1 + cleanups)
          /\ Quantum * (1 + cleanups') = Quantum * (1 + cleanups) + Quantum
      <3>1. cleanups + 1 \in Nat /\ cleanups + 1 = 1 + cleanups
        BY <1>2
      <3> QED
        BY <1>2, <2>1, <3>1, OneMoreTime
    <2>3. ASSUME NEW f \in Flow
          PROVE  balance'[f] <= MaxSize + Quantum * (1 + cleanups)
      <3>1. balance[f] <= MaxSize + Quantum * (1 + cleanups)
        BY DEF Credit, CreditBounded
      <3>2. 0 <= MaxSize + Quantum * (1 + cleanups)
        BY <1>2
      <3> QED
        BY <1>1, <3>1, <3>2
    <2>4. \A i \in 1 .. Len(flows') : flows'[i] \in Flow
      BY CleaningMoves
    <2>5. Behind'
      BY <2>2, <2>3, <2>4 DEF Behind
    <2>6. CreditBounded'
      <3> SUFFICES ASSUME NEW f \in Flow
                   PROVE  balance'[f] <= MaxSize + (Quantum * (1 + cleanups) + Quantum)
        BY <2>2 DEF CreditBounded
      <3> DEFINE bound == Quantum * (1 + cleanups)
      <3>1. bound \in Nat /\ balance'[f] <= MaxSize + bound /\ balance'[f] \in Nat
        BY <1>2, <2>3, CleaningMoves
      <3> HIDE DEF bound
      <3>2. balance'[f] <= MaxSize + (bound + Quantum)
        BY <1>2, <3>1
      <3> QED
        BY <3>2 DEF bound
    <2>7. Passed'
      <3>1. cleanups' # 0
        BY <1>2, <2>1
      <3> QED
        BY <3>1 DEF Passed
    <2> QED
      BY <2>5, <2>6, <2>7 DEF Credit
  <1> QED
    BY <1>3, <1>4

LEMMA CreditStep == Basic /\ Credit /\ [Next]_vars => Credit'
  <1> SUFFICES ASSUME Basic, Credit, [Next]_vars PROVE Credit'
    OBVIOUS
  <1>0. TypeOK
    BY DEF Basic
  <1>1. ASSUME NEW f \in Flow, NEW s \in Size, NEW m \in Marks,
               AppendInterest(f, [size |-> s, marked |-> m])
        PROVE  Credit'
    BY <1>1, PacketType, AppendCredit
  <1>2. ASSUME NEW k \in Scans, NEW i \in 1 .. Len(flows), Serve(k, i)
        PROVE  Credit'
    BY <1>2, ServeCredit
  <1>3. ASSUME NEW k \in Scans, NEW i \in 1 .. Len(flows), Refuse(k, i)
        PROVE  Credit'
    BY <1>0, <1>3, RefuseFindsNothing, NothingFoundCredit
  <1>4. CASE FindNothing
    BY <1>0, <1>4, EmptyFindsNothing, NothingFoundCredit
  <1>5. CASE UNCHANGED <<flows, next, queue, balance, cleanups>>
    BY <1>5 DEF Credit, Behind, CreditBounded, Passed, CannotPay, Idle
  <1>6. ASSUME NEW greedy, CalObjectRate(greedy)
        PROVE  Credit'
    BY <1>6, CleaningCredit
  <1> QED
    BY <1>1, <1>2, <1>3, <1>4, <1>5, <1>6
    DEF Next, ScheduleNext, GenerateToken, vars, vqVars

Accounted == Basic /\ Credit

LEMMA AccountedInit == Init => Accounted
  BY BasicInit, CreditInit DEF Accounted

LEMMA AccountedStep == Accounted /\ [Next]_vars => Accounted'
  BY BasicStep, CreditStep DEF Accounted

(* No flow hoards credit: it has at most what a head leaves over, a quantum, *)
(* and one more for every cleaning.                                        *)
THEOREM CreditIsBounded == Spec => []CreditBounded
  <1>1. Accounted => CreditBounded
    BY DEF Accounted, Credit
  <1> QED
    BY AccountedInit, AccountedStep, <1>1, PTL DEF Spec

(* While no flow was erased, the round passes over nobody who can pay.       *)
THEOREM RoundPassesNobody == Spec => []NothingPassedOver
  <1>1. Accounted => NothingPassedOver
    BY DEF Accounted, Credit, Passed, CannotPay, NothingPassedOver
  <1> QED
    BY AccountedInit, AccountedStep, <1>1, PTL DEF Spec

-----------------------------------------------------------------------------
(* The class as LinkScheduler sees it.                                     *)

LEMMA ServeIsClassServe ==
  ASSUME Basic, NEW k \in Scans, NEW i \in 1 .. Len(flows), Serve(k, i)
  PROVE  Class!Serve(flows[i])
  <1> DEFINE f == flows[i]
             p == Head(queue[f])
  <1>1. f \in Flow /\ queue[f] # << >>
    BY ServeMoves DEF Idle
  <1>2. queue' = [queue EXCEPT ![f] = Tail(@)]
    BY DEF Serve
  <1>3. out' = [flow |-> f, size |-> p.size, marked |-> p.marked \/ penalised[f]]
    BY DEF Serve
  <1>4. p.marked \in BOOLEAN /\ penalised[f] \in BOOLEAN
    BY <1>1, HeadType DEF Basic, TypeOK, Idle
  <1> HIDE DEF f, p
  <1>5. (p.marked \/ penalised[f]) \in {b \in BOOLEAN : p.marked => b}
    BY <1>4
  <1>6. out' \in Class!Leaving(f, p)
    BY <1>3, <1>5 DEF Class!Leaving
  <1> QED
    BY <1>1, <1>2, <1>6 DEF Class!Serve, f, p

LEMMA ClassStep == Basic /\ [Next]_vars => [Class!Next]_(Class!vars)
  <1> SUFFICES ASSUME Basic, [Next]_vars PROVE [Class!Next]_(Class!vars)
    OBVIOUS
  <1> USE DEF Class!Next, Class!vars
  <1>0. TypeOK
    BY DEF Basic
  <1>1. ASSUME NEW f \in Flow, NEW s \in Size, NEW m \in Marks,
               AppendInterest(f, [size |-> s, marked |-> m])
        PROVE  [Class!Next]_(Class!vars)
    <2> DEFINE p == [size |-> s, marked |-> m]
    <2>1. p \in Class!Packet
      BY PacketType DEF Packet, Class!Packet
    <2>2. CASE Accepts(f)
      <3>1. Class!Enqueue(f, p)
        BY <1>1, <2>2 DEF Class!Enqueue, AppendInterest, Accepts
      <3> QED
        BY <2>1, <3>1
    <2>3. CASE ~Accepts(f)
      BY <1>1, <2>3 DEF AppendInterest
    <2> QED
      BY <2>2, <2>3
  <1>2. ASSUME NEW k \in Scans, NEW i \in 1 .. Len(flows), Serve(k, i)
        PROVE  Class!Next
    <2>1. flows[i] \in Flow
      BY <1>2, ServeMoves
    <2> QED
      BY <1>2, <2>1, ServeIsClassServe
  <1>3. ASSUME NEW k \in Scans, NEW i \in 1 .. Len(flows), Refuse(k, i)
        PROVE  Class!Refuse
    BY <1>3 DEF Refuse, Class!Refuse
  <1>4. CASE FindNothing
    <2>1. ~(packetNum > 0)
      BY <1>4 DEF FindNothing
    <2>2. \A f \in Flow : queue[f] = << >>
      BY <2>1, SomethingWaits DEF Idle
    <2>3. Class!Refuse
      BY <1>4, <2>2 DEF FindNothing, Class!Refuse
    <2> QED
      BY <2>3
  <1>5. CASE UNCHANGED <<queue, out>>
    BY <1>5
  <1> QED
    BY <1>1, <1>2, <1>3, <1>4, <1>5
    DEF Next, ScheduleNext, GenerateToken, CalObjectRate, vars, vqVars

(* The class is a FIFO per flow that answers every request with the head of  *)
(* some flow, and refuses only if it is empty or short of tokens: what       *)
(* LinkScheduler takes for granted of it.                                  *)
THEOREM ClassKept == Spec => Class!Spec
  <1>1. Init => Class!Init
    BY DEF Init, Class!Init
  <1> QED
    BY BasicInit, BasicStep, ClassStep, <1>1, PTL DEF Spec, Class!Spec

-----------------------------------------------------------------------------
(* How flows that contend share the service.                               *)

Credits == MaxSize + Quantum * (1 + cleanups)

(* What f was served beyond g, and has to spend beyond g: while both contend *)
(* this is what f had beyond g when they met.                              *)
Ahead(f, g) == (lead[f] - lead[g]) + (balance[f] - balance[g])

Evened ==
    /\ lead \in [Flow -> Nat]
    /\ ~Contended => \A f \in Flow : lead[f] = 0
    /\ \A f \in Flow : lead[f] > 0 => balance[f] > 0
    /\ \A f \in Flow : \E g \in Flow : lead[g] = 0
    /\ Contended => \A f, g \in Flow : Ahead(f, g) <= Credits

LEMMA CreditsAre ==
  ASSUME Accounted
  PROVE  /\ Credits \in Nat /\ Credits > 0
         /\ balance \in [Flow -> Nat] /\ \A f \in Flow : balance[f] <= Credits
  <1>1. Quantum * cleanups \in Nat /\ Quantum * (1 + cleanups) = Quantum * cleanups + Quantum
    BY Bounds DEF Accounted, Basic
  <1>2. MaxSize \in Nat /\ Quantum \in Nat /\ Quantum > 0
    BY SizeAssumption, QuantumAssumption
  <1>3. Credits \in Nat /\ Credits > 0
    BY <1>1, <1>2 DEF Credits
  <1> QED
    BY <1>3 DEF Credits, Accounted, Basic, TypeOK, Credit, CreditBounded

LEMMA EvenedInit == ShareInit /\ Accounted => Evened
  <1> SUFFICES ASSUME ShareInit, Accounted PROVE Evened
    OBVIOUS
  <1>1. lead = [f \in Flow |-> 0] /\ \A f \in Flow : balance[f] = 0
    BY DEF ShareInit, Init
  <1>2. \A f, g \in Flow : Ahead(f, g) = 0
    BY <1>1 DEF Ahead
  <1> QED
    BY <1>1, <1>2, CreditsAre DEF Evened

(* Flows that meet anew have no more than their credit.                    *)
LEMMA EvenedMeets ==
  ASSUME Accounted', lead' = [f \in Flow |-> 0]
  PROVE  Evened'
  <1>1. /\ Credits' \in Nat
        /\ balance' \in [Flow -> Nat] /\ \A f \in Flow : balance'[f] <= Credits'
    <2>1. TypeOK' /\ CreditBounded'
      BY DEF Accounted, Basic, Credit
    <2>2. cleanups' \in Nat /\ balance' \in [Flow -> Nat] /\ Quantum \in Nat /\ MaxSize \in Nat
      BY <2>1, QuantumAssumption, SizeAssumption DEF TypeOK
    <2> DEFINE c == cleanups'
               n == 1 + c
               q == Quantum * n
    <2>c. c \in Nat
      BY <2>2
    <2> HIDE DEF c
    <2>3. n \in Nat
      BY <2>c
    <2>4. Credits' = MaxSize + q /\ \A f \in Flow : balance'[f] <= MaxSize + q
      BY <2>1 DEF Credits, CreditBounded, c
    <2> HIDE DEF n
    <2>5. q \in Nat
      BY <2>2, <2>3, ProductType
    <2> HIDE DEF q
    <2> QED
      BY <2>2, <2>4, <2>5
  <1> QED
    BY <1>1 DEF Evened, Ahead

(* A grant that all of them get changes nothing between them.               *)
LEMMA EvenedGrants ==
  ASSUME Accounted, Evened, Contended, Contended', UNCHANGED <<lead, cleanups>>, NEW d \in Nat,
         balance' = [f \in Flow |-> balance[f] + d]
  PROVE  Evened'
  <1>1. lead' \in [Flow -> Nat] /\ Credits' = Credits
    BY DEF Evened, Credits
  <1>2. balance \in [Flow -> Nat]
    BY CreditsAre
  <1>3. \A f \in Flow : balance'[f] = balance[f] + d /\ balance[f] \in Nat /\ lead'[f] = lead[f] /\ lead[f] \in Nat
    BY <1>2 DEF Evened
  <1>4. \A f, g \in Flow : Ahead(f, g)' = Ahead(f, g)
    BY <1>3 DEF Ahead
  <1>5. \A f \in Flow : lead'[f] > 0 => balance'[f] > 0
    BY <1>3 DEF Evened
  <1>6. \A f, g \in Flow : Ahead(f, g)' <= Credits'
    BY <1>1, <1>4 DEF Evened
  <1>7. \A f \in Flow : \E g \in Flow : lead'[g] = 0
    BY <1>3 DEF Evened
  <1> QED
    BY <1>1, <1>5, <1>6, <1>7 DEF Evened

(* So is what a flow is served: it pays for it.                            *)
LEMMA EvenedServes ==
  ASSUME Accounted, Evened, Contended, Contended', UNCHANGED cleanups,
         NEW d \in Nat, NEW p, p.flow \in Flow, p.size \in Nat,
         balance' \in [Flow -> Nat], balance'[p.flow] > 0,
         \A f \in Flow : balance'[f] = (balance[f] + d) - (IF f = p.flow THEN p.size ELSE 0),
         lead' = Normal(Served(lead, p))
  PROVE  Evened'
  <1> DEFINE w == Served(lead, p)
             W == {w[f] : f \in Flow}
             m == Min(W)
  <1>1. balance \in [Flow -> Nat] /\ lead \in [Flow -> Nat] /\ Credits' = Credits
    BY CreditsAre DEF Evened, Credits
  <1>2. \A f \in Flow : w[f] = lead[f] + (IF f = p.flow THEN p.size ELSE 0) /\ w[f] \in Nat
    BY <1>1 DEF Served
  <1>3. \A f \in Flow : lead'[f] = w[f] - m
    BY DEF Normal
  <1> HIDE DEF w
  <1>4. m \in W /\ m \in Nat /\ \A f \in Flow : m <= w[f]
    <2>1. W \subseteq Nat /\ W # {} /\ \A f \in Flow : w[f] \in W
      BY <1>2
    <2> HIDE DEF W
    <2> QED
      BY <2>1, MinIsLeast
  <1>5. PICK least \in Flow : w[least] = m
    BY <1>4
  <1> HIDE DEF m, W
  <1>6. lead' \in [Flow -> Nat]
    <2>1. \A f \in Flow : w[f] - m \in Nat
      BY <1>2, <1>4
    <2>2. lead' = [f \in Flow |-> lead'[f]]
      BY DEF Normal
    <2> QED
      BY <1>3, <2>1, <2>2
  <1>7. lead'[least] = 0
    BY <1>2, <1>3, <1>5
  <1>8. ASSUME NEW f \in Flow, lead'[f] > 0 PROVE balance'[f] > 0
    <2>1. CASE f = p.flow
      BY <2>1
    <2>2. CASE f # p.flow
      <3>1. lead[f] > 0
        BY <1>1, <1>2, <1>3, <1>4, <1>8, <2>2
      <3>2. balance[f] > 0 /\ balance'[f] = balance[f] + d /\ balance[f] \in Nat
        BY <1>1, <2>2, <3>1 DEF Evened
      <3> QED
        BY <3>2
    <2> QED
      BY <2>1, <2>2
  <1>9. ASSUME NEW f \in Flow, NEW g \in Flow PROVE Ahead(f, g)' = Ahead(f, g)
    <2> DEFINE s(h) == IF h = p.flow THEN p.size ELSE 0
    <2>1. ASSUME NEW h \in Flow
          PROVE  s(h) \in Nat /\ lead'[h] = (lead[h] + s(h)) - m /\ balance'[h] = (balance[h] + d) - s(h)
      <3>1. s(h) \in Nat
        OBVIOUS
      <3>2. balance'[h] = (balance[h] + d) - s(h)
        OBVIOUS
      <3>3. w[h] = lead[h] + s(h)
        BY <1>2
      <3> QED
        BY <1>3, <3>1, <3>2, <3>3
    <2>2. lead[f] \in Nat /\ lead[g] \in Nat /\ balance[f] \in Nat /\ balance[g] \in Nat /\ m \in Nat
      BY <1>1, <1>4
    <2> DEFINE a == s(f)
               b == s(g)
    <2>3. /\ a \in Nat /\ lead'[f] = (lead[f] + a) - m /\ balance'[f] = (balance[f] + d) - a
          /\ b \in Nat /\ lead'[g] = (lead[g] + b) - m /\ balance'[g] = (balance[g] + d) - b
      BY <2>1
    <2> HIDE DEF a, b
    <2>4. lead'[f] - lead'[g] = (lead[f] - lead[g]) + (a - b)
      BY <2>2, <2>3
    <2>5. balance'[f] - balance'[g] = (balance[f] - balance[g]) - (a - b)
      BY <2>2, <2>3
    <2> QED
      BY <2>2, <2>3, <2>4, <2>5 DEF Ahead
  <1>10. \A f, g \in Flow : Ahead(f, g)' <= Credits'
    BY <1>1, <1>9 DEF Evened
  <1> QED
    BY <1>6, <1>7, <1>8, <1>10 DEF Evened

(* Every scan grants the same to all that contend.                         *)
LEMMA GrantedAlike ==
  ASSUME Basic, Contended, NEW k \in Nat, NEW i \in Nat
  PROVE  /\ Swept(k, i) = [f \in Flow |-> balance[f] + k * Quantum]
         /\ k * Quantum \in Nat
  <1>0. TypeOK /\ FlowsListKeys /\ Unlisted
    BY DEF Basic
  <1>1. k * Quantum \in Nat /\ 0 * Quantum = 0
    BY QuantumAssumption, ProductType, OneMoreTime
  <1>2. ASSUME NEW f \in Flow PROVE Swept(k, i)[f] = balance[f] + k * Quantum
    <2>1. ~Idle(f) /\ Grant(f) = Quantum /\ balance[f] \in Nat
      BY <1>0 DEF Contended, Grant, TypeOK
    <2>2. f \in keys
      BY <1>0, <2>1 DEF Unlisted, Idle
    <2>3. PICK j \in 1 .. Len(flows) : flows[j] = f
      BY <1>0, <2>2 DEF FlowsListKeys
    <2>4. Swept(k, i)[f] = BalanceAt(k, j)
      BY <1>0, <2>1, <2>3, SweptAt
    <2>5. BalanceAt(k, j) = IF k = 0 THEN balance[f] ELSE balance[f] + k * Quantum
      BY <2>1, <2>3 DEF BalanceAt
    <2> QED
      BY <1>1, <2>1, <2>4, <2>5
  <1>3. Swept(k, i) = [f \in Flow |-> Swept(k, i)[f]]
    BY DEF Swept
  <1>4. [f \in Flow |-> Swept(k, i)[f]] = [f \in Flow |-> balance[f] + k * Quantum]
    BY <1>2
  <1> QED
    BY <1>1, <1>3, <1>4

LEMMA EvenedStep ==
  ASSUME Accounted, Accounted', Evened, [ShareNext]_<<vars, lead>>
  PROVE  Evened'
  <1>0. Basic /\ TypeOK /\ Unlisted
    BY DEF Accounted, Basic
  <1>1. CASE UNCHANGED <<vars, lead>>
    BY <1>1 DEF vars, vqVars, Evened, Contended, Idle, Ahead, Credits
  <1>2. CASE ShareNext /\ ~(Contended /\ Contended')
    <2>1. lead' = [f \in Flow |-> 0]
      BY <1>2 DEF ShareNext
    <2> QED
      BY <2>1, EvenedMeets
  <1>3. CASE ShareNext /\ Contended /\ Contended'
    <2>0. /\ lead' = IF packetNum' < packetNum THEN Normal(Served(lead, out')) ELSE lead
          /\ Next /\ Contended /\ Contended'
      BY <1>3 DEF ShareNext
    <2>1. ASSUME balance' = balance, UNCHANGED cleanups, packetNum' \in {packetNum, packetNum + 1}
          PROVE  Evened'
      <3>1. lead' = lead
        BY <1>0, <2>0, <2>1 DEF TypeOK
      <3>2. balance' = [f \in Flow |-> balance[f] + 0]
        <4>1. balance = [f \in Flow |-> balance[f]] /\ \A f \in Flow : balance[f] + 0 = balance[f]
          BY <1>0 DEF TypeOK
        <4> QED
          BY <2>1, <4>1
      <3>3. 0 \in Nat
        OBVIOUS
      <3> QED
        BY <2>0, <2>1, <3>1, <3>2, <3>3, EvenedGrants
    <2>2. ASSUME NEW k, NEW i, NothingFound(k, i)
          PROVE  Evened'
      <3>1. k \in Nat /\ i \in Nat /\ UNCHANGED <<packetNum, cleanups>> /\ balance' = Swept(k, i)
        BY <1>0, <2>2, LenFlows DEF NothingFound, Stops
      <3>2. lead' = lead
        BY <1>0, <2>0, <3>1 DEF TypeOK
      <3>3. balance' = [f \in Flow |-> balance[f] + k * Quantum] /\ k * Quantum \in Nat
        BY <1>0, <2>0, <3>1, GrantedAlike
      <3> DEFINE d == k * Quantum
      <3>4. d \in Nat /\ balance' = [f \in Flow |-> balance[f] + d]
        BY <3>3
      <3> HIDE DEF d
      <3> QED
        BY <2>0, <3>1, <3>2, <3>4, EvenedGrants
    <2>3. ASSUME NEW k \in Scans, NEW i \in 1 .. Len(flows), Serve(k, i)
          PROVE  Evened'
      <3> DEFINE f == flows[i]
                 p == [flow |-> f, size |-> Head(queue[f]).size,
                       marked |-> Head(queue[f]).marked \/ penalised[f]]
                 d == k * Quantum
      <3>1. k \in Nat /\ i \in Nat
        BY <1>0, ScansType, LenFlows
      <3>2. out' = p /\ packetNum' = packetNum - 1 /\ cleanups' = cleanups
        BY <2>3 DEF Serve
      <3>3. lead' = Normal(Served(lead, p))
        <4>1. packetNum' < packetNum
          BY <1>0, <3>2 DEF TypeOK
        <4> QED
          BY <2>0, <3>2, <4>1
      <3>4. /\ f \in Flow /\ ~Idle(f)
            /\ Swept(k, i)[f] = BalanceAt(k, i) /\ Head(queue[f]).size < BalanceAt(k, i)
            /\ balance' \in [Flow -> Nat] /\ balance'[f] = BalanceAt(k, i) - Head(queue[f]).size
            /\ \A g \in Flow : g # f => balance'[g] = Swept(k, i)[g]
        BY <1>0, <2>3, ServeMoves
      <3>5. Head(queue[f]).size \in Nat
        BY <1>0, <3>4, HeadType
      <3>6. d \in Nat /\ Swept(k, i) = [g \in Flow |-> balance[g] + d]
        BY <1>0, <2>0, <3>1, GrantedAlike
      <3>7. p.flow = f /\ p.size = Head(queue[f]).size
        OBVIOUS
      <3> HIDE DEF f, p, d
      <3>8. ASSUME NEW g \in Flow
            PROVE  balance'[g] = (balance[g] + d) - (IF g = p.flow THEN p.size ELSE 0)
        <4>1. Swept(k, i)[g] = balance[g] + d /\ balance[g] \in Nat
          BY <1>0, <3>6 DEF TypeOK
        <4>2. CASE g = f
          BY <3>4, <3>7, <4>1, <4>2
        <4>3. CASE g # f
          BY <3>4, <3>6, <3>7, <4>1, <4>3
        <4> QED
          BY <4>2, <4>3
      <3>9. balance'[f] > 0
        <4> DEFINE b == BalanceAt(k, i)
                   z == Head(queue[f]).size
                   y == balance'[f]
        <4>1. b = balance[f] + d /\ balance[f] \in Nat
          BY <1>0, <3>4, <3>6 DEF TypeOK
        <4>2. b \in Int /\ z \in Int /\ z < b /\ y = b - z
          BY <3>4, <3>5, <3>6, <4>1
        <4> HIDE DEF b, z, y
        <4>3. y > 0
          BY <4>2
        <4> QED
          BY <4>3 DEF y
      <3>10. /\ p.flow \in Flow /\ p.size \in Nat
             /\ balance'[p.flow] > 0 /\ UNCHANGED cleanups
        BY <3>2, <3>4, <3>5, <3>7, <3>9
      <3>11. d \in Nat /\ balance' \in [Flow -> Nat]
        BY <3>4, <3>6
      <3>12. Accounted /\ Evened /\ Contended /\ Contended'
        BY <2>0
      <3> QED
        BY ONLY <3>3, <3>8, <3>10, <3>11, <3>12, EvenedServes
    <2>4. ASSUME NEW f \in Flow, NEW p, AppendInterest(f, p)
          PROVE  Evened'
      <3>1. UNCHANGED <<balance, cleanups>> /\ packetNum' \in {packetNum, packetNum + 1}
        BY <2>4 DEF AppendInterest, PacketNumAfter
      <3> QED
        BY <2>1, <3>1
    <2>5. CASE GenerateToken
      <3>1. UNCHANGED <<balance, cleanups, packetNum>>
        BY <2>5 DEF GenerateToken, vqVars
      <3> QED
        BY <2>1, <3>1
    <2>6. ASSUME NEW greedy, CalObjectRate(greedy)
          PROVE  Evened'
      <3>1. Gone = {}
        BY <1>0, <2>0 DEF Gone, Contended, TypeOK
      <3>2. UNCHANGED <<cleanups, packetNum>> /\ balance' = Restart(balance, 0)
        BY <2>6, <3>1 DEF CalObjectRate
      <3>3. balance' = balance
        BY <1>0, <3>1, <3>2 DEF Restart, TypeOK
      <3> QED
        BY <2>1, <3>2, <3>3
    <2>7. ASSUME NEW k \in Scans, NEW i \in 1 .. Len(flows), Refuse(k, i)
          PROVE  Evened'
      BY <1>0, <2>2, <2>7, RefuseFindsNothing
    <2>8. CASE FindNothing
      BY <1>0, <2>2, <2>8, EmptyFindsNothing
    <2> QED
      BY <2>0, <2>3, <2>4, <2>5, <2>6, <2>7, <2>8 DEF Next, ScheduleNext
  <1> QED
    BY <1>1, <1>2, <1>3

(* However long flows compete, none is served more than twice the credit of  *)
(* a flow beyond another: one credit it may have had when they met, one the  *)
(* other may have saved.  Each scan grants the same to all, so the sum of    *)
(* what a flow was served and has left moves alike for all of them.          *)
THEOREM SharesAreFair == ShareSpec => []FairShare
  <1>1. Accounted /\ Evened => FairShare
    <2> SUFFICES ASSUME Accounted, Evened, NEW f \in Flow
                 PROVE  lead[f] < 2 * Credits
      BY DEF FairShare, Credits
    <2>1. /\ Credits \in Nat /\ Credits > 0
          /\ \A g \in Flow : balance[g] \in Nat /\ balance[g] <= Credits /\ lead[g] \in Nat
      BY CreditsAre DEF Evened
    <2>2. CASE lead[f] = 0
      BY <2>1, <2>2
    <2>3. CASE lead[f] # 0
      <3>1. Contended /\ lead[f] > 0 /\ balance[f] > 0
        BY <2>1, <2>3 DEF Evened
      <3>2. PICK g \in Flow : lead[g] = 0
        BY DEF Evened
      <3>3. Ahead(f, g) <= Credits
        BY <3>1 DEF Evened
      <3> DEFINE c == Credits
                 bf == balance[f]
                 bg == balance[g]
                 l == lead[f]
      <3>4. c \in Nat /\ bf \in Nat /\ bg \in Nat /\ l \in Nat /\ bf > 0 /\ bg <= c
            /\ (l - 0) + (bf - bg) <= c
        BY <2>1, <3>1, <3>2, <3>3 DEF Ahead
      <3> HIDE DEF c, bf, bg, l
      <3>5. l < 2 * c
        BY <3>4
      <3> QED
        BY <3>5 DEF l, c
    <2> QED
      BY <2>2, <2>3
  <1>2. ShareInit => Init
    BY DEF ShareInit
  <1>3. [ShareNext]_<<vars, lead>> => [Next]_vars
    BY DEF ShareNext
  <1>4. ShareInit => Accounted /\ Evened
    BY <1>2, AccountedInit, EvenedInit
  <1>5. Accounted /\ Evened /\ [ShareNext]_<<vars, lead>> => Accounted' /\ Evened'
    <2> SUFFICES ASSUME Accounted, Evened, [ShareNext]_<<vars, lead>> PROVE Accounted' /\ Evened'
      OBVIOUS
    <2>1. Accounted'
      BY <1>3, AccountedStep
    <2> QED
      BY <2>1, EvenedStep
  <1> QED
    BY <1>1, <1>4, <1>5, PTL DEF ShareSpec
=============================================================================
