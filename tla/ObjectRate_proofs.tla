-------------------------- MODULE ObjectRate_proofs --------------------------
(***************************************************************************)
(* Theorems about ObjectRate, for any classes, flows, weights and traffic.  *)
(***************************************************************************)
EXTENDS ObjectRate, FoldTheorems

-----------------------------------------------------------------------------
(* Which flows the maps know.                                              *)

SlotsTyped == known \in [Class -> SUBSET Flow] /\ waiting \in [Slot -> Nat]

(* A packet waits in a queue that the map still has.                        *)
WaitsKnown == \A c \in Class, f \in Flow : waiting[<<c, f>>] > 0 => f \in known[c]

Memory == SlotsTyped /\ WaitsKnown

LEMMA MemoryInit == Init => Memory
  <1> SUFFICES ASSUME Init PROVE Memory
    OBVIOUS
  <1>1. known = [c \in Class |-> {}] /\ waiting = [x \in Slot |-> 0]
    BY DEF Init
  <1> QED
    BY <1>1 DEF Memory, SlotsTyped, WaitsKnown, Slot

LEMMA AppendMemory ==
  ASSUME Memory, NEW c \in Class, NEW f \in Flow, NEW dsz, NEW marked \in BOOLEAN,
         AppendInterest(c, f, dsz, marked)
  PROVE  Memory'
  <1>0. SlotsTyped /\ WaitsKnown
    BY DEF Memory
  <1>1. <<c, f>> \in Slot
    BY DEF Slot
  <1>2. /\ known' \in [Class -> SUBSET Flow]
        /\ f \in known'[c]
        /\ \A d \in Class : known[d] \subseteq known'[d]
    BY <1>0 DEF AppendInterest, SlotsTyped
  <1>4. waiting' = [waiting EXCEPT ![<<c, f>>] = @ + 1] \/ UNCHANGED waiting
    BY DEF AppendInterest
  <1>5. /\ waiting' \in [Slot -> Nat]
        /\ \A y \in Slot : y # <<c, f>> => waiting'[y] = waiting[y]
    BY <1>0, <1>1, <1>4 DEF SlotsTyped
  <1>7. WaitsKnown'
    <2> SUFFICES ASSUME NEW d \in Class, NEW g \in Flow, waiting'[<<d, g>>] > 0
                 PROVE  g \in known'[d]
      BY DEF WaitsKnown
    <2>1. CASE <<d, g>> = <<c, f>>
      BY <1>2, <2>1
    <2>2. CASE <<d, g>> # <<c, f>>
      <3>1. waiting[<<d, g>>] > 0
        BY <1>5, <2>2 DEF Slot
      <3> QED
        BY <1>0, <1>2, <3>1 DEF WaitsKnown
    <2> QED
      BY <2>1, <2>2
  <1> QED
    BY <1>2, <1>5, <1>7 DEF Memory, SlotsTyped

LEMMA ScheduleMemory ==
  ASSUME Memory, NEW c \in Class, NEW f \in Flow, ScheduleNext(c, f)
  PROVE  Memory'
  <1>0. SlotsTyped /\ WaitsKnown
    BY DEF Memory
  <1>1. <<c, f>> \in Slot
    BY DEF Slot
  <1>2. /\ waiting[<<c, f>>] > 0
        /\ waiting' = [waiting EXCEPT ![<<c, f>>] = @ - 1]
        /\ UNCHANGED known
    BY DEF ScheduleNext
  <1>3. /\ waiting' \in [Slot -> Nat]
        /\ \A y \in Slot : waiting'[y] > 0 => waiting[y] > 0
    BY <1>0, <1>1, <1>2 DEF SlotsTyped
  <1> QED
    BY <1>0, <1>2, <1>3 DEF Memory, SlotsTyped, WaitsKnown, Slot

LEMMA CalObjectRateMemory ==
  ASSUME Memory, CalObjectRate
  PROVE  Memory'
  <1>0. SlotsTyped /\ WaitsKnown
    BY DEF Memory
  <1>1. known' = [c \in Class |-> Kept(c)] /\ UNCHANGED waiting
    BY DEF CalObjectRate
  <1>2. known' \in [Class -> SUBSET Flow]
    BY <1>0, <1>1 DEF Kept, SlotsTyped
  <1>3. WaitsKnown'
    <2> SUFFICES ASSUME NEW c \in Class, NEW f \in Flow, waiting[<<c, f>>] > 0
                 PROVE  f \in known'[c]
      BY <1>1 DEF WaitsKnown
    <2>1. f \in known[c]
      BY <1>0 DEF WaitsKnown
    <2>2. f \notin Gone(c)
      BY DEF Gone
    <2> QED
      BY <1>1, <2>1, <2>2 DEF Kept
  <1> QED
    BY <1>0, <1>1, <1>2, <1>3 DEF Memory, SlotsTyped

LEMMA MemoryStep == Memory /\ [Next]_vars => Memory'
  <1> SUFFICES ASSUME Memory, [Next]_vars PROVE Memory'
    OBVIOUS
  <1>1. ASSUME NEW i \in Offer, AppendInterest(i.class, i.flow, i.dsz, i.marked)
        PROVE  Memory'
    <2>1. i.class \in Class /\ i.flow \in Flow /\ i.marked \in BOOLEAN
      BY OfferAssumption
    <2> QED
      BY <1>1, <2>1, AppendMemory
  <1>2. ASSUME NEW c \in Class, NEW f \in Flow, ScheduleNext(c, f)
        PROVE  Memory'
    BY <1>2, ScheduleMemory
  <1>3. CASE CalObjectRate
    BY <1>3, CalObjectRateMemory
  <1>4. CASE UNCHANGED flowVars
    BY <1>4 DEF flowVars, Memory, SlotsTyped, WaitsKnown
  <1> QED
    BY <1>1, <1>2, <1>3, <1>4 DEF Next, ReceiveInterest, vars, linkVars

LEMMA MemoryAlways == Spec => []Memory
  BY MemoryInit, MemoryStep, PTL DEF Spec

-----------------------------------------------------------------------------
(* Numbers.                                                                *)

LEMMA WrapIs == HalfRange \in Nat /\ Wrap \in Nat \ {0} /\ Wrap = 2 * HalfRange /\ Link \in Nat \ {0} /\ Link < HalfRange
  BY RangeAssumption DEF Wrap

LEMMA WrapsInto == ASSUME NEW x \in Int PROVE x % Wrap \in 0 .. Wrap - 1
  BY WrapIs, QuotientOf

LEMMA WrapsDown == ASSUME NEW x \in Nat PROVE x % Wrap <= x
  <1>1. Wrap \in Nat \ {0}
    BY WrapIs
  <1> HIDE DEF Wrap
  <1>2. x \div Wrap \in Nat /\ x % Wrap \in Nat /\ x = Wrap * (x \div Wrap) + (x % Wrap)
    <2>1. x <= Wrap * x
      <3>1. x * 1 <= x * Wrap /\ x * 1 = x /\ x * Wrap = Wrap * x
        BY <1>1, ProductsOrdered, Distributes
      <3> QED
        BY <3>1
    <2>2. x \div Wrap \in Nat
      BY <1>1, <2>1, QuotientAtMost
    <2> QED
      BY <1>1, <2>2, QuotientOf
  <1>3. Wrap * (x \div Wrap) \in Nat
    BY <1>1, <1>2
  <1> QED
    BY <1>2, <1>3

(* A quotient of naturals.                                                 *)
LEMMA QuotientIs ==
    ASSUME NEW w \in Nat \ {0}, NEW x \in Nat
    PROVE  x \div w \in Nat /\ x \div w <= x /\ w * (x \div w) <= x /\ x < w * (x \div w) + w
  <1>1. x <= w * x
    <2>1. x * 1 <= x * w /\ x * 1 = x /\ x * w = w * x
      BY ProductsOrdered, Distributes
    <2> QED
      BY <2>1
  <1>2. x \div w \in Nat /\ x \div w <= x
    BY <1>1, QuotientAtMost
  <1> DEFINE q == x \div w
  <1>3. q \in Nat /\ x % w \in 0 .. w - 1 /\ x = w * q + (x % w)
    BY <1>2, QuotientOf
  <1>4. w * q \in Int
    BY <1>3
  <1> HIDE DEF q
  <1> QED
    BY <1>2, <1>3, <1>4 DEF q

-----------------------------------------------------------------------------
(* What TypeOK rests on.                                                   *)

Typed ==
    /\ TypeOK
    /\ \A c \in Class : IsFiniteSet(known[c])
    /\ \A x \in Slot : ~penalised[x] => size[x] = VqSize /\ waiting[x] <= VqSize

LEMMA WFQFinite == IsFiniteSet(WFQ) /\ \A i \in DOMAIN WFQOrder : WFQOrder[i] \in WFQ
  <1>1. WFQOrder \in Seq(WFQ)
    BY ClassAssumption
  <1>2. DOMAIN WFQOrder = 1 .. Len(WFQOrder) /\ Len(WFQOrder) \in Nat
    BY <1>1
  <1>3. IsFiniteSet(DOMAIN WFQOrder)
    BY <1>2, FS_Interval
  <1>4. WFQOrder \in Surjection(DOMAIN WFQOrder, WFQ)
    BY <1>1 DEF WFQ, Range, Surjection
  <1> QED
    BY <1>1, <1>3, <1>4, FS_Surjection

LEMMA WeightsOf ==
    ASSUME NEW B \in SUBSET WFQ
    PROVE  /\ SumFunctionOnSet(Weight, B) \in Nat
           /\ SumFunctionOnSet(Weight, B) <= TotalWeight
           /\ \A c \in B : Weight[c] <= SumFunctionOnSet(Weight, B)
           /\ B # {} => SumFunctionOnSet(Weight, B) \in Nat \ {0}
  <1>1. IsFiniteSet(WFQ) /\ IsFiniteSet(B) /\ IsFiniteSet(WFQ \ B)
    BY WFQFinite, FS_Subset
  <1>2. \A c \in WFQ : Weight[c] \in Nat /\ Weight[c] > 0
    BY WeightAssumption
  <1>3. SumFunctionOnSet(Weight, B) \in Nat /\ SumFunctionOnSet(Weight, WFQ \ B) \in Nat
    BY <1>1, <1>2, SumNat
  <1>4. TotalWeight = SumFunctionOnSet(Weight, B) + SumFunctionOnSet(Weight, WFQ \ B)
    <2>1. TotalWeight = SumFunctionOnSet(Weight, WFQ)
      BY WeightAssumption DEF TotalWeight, SumFunction
    <2>2. \A c \in WFQ : Weight[c] \in Int
      BY <1>2
    <2> QED
      BY <1>1, <2>1, <2>2, SumSplit
  <1>5. \A c \in B : Weight[c] <= SumFunctionOnSet(Weight, B)
    BY <1>1, <1>2, SumTerm
  <1> QED
    BY <1>2, <1>3, <1>4, <1>5

LEMMA WeightIs ==
    ASSUME NEW c \in WFQ
    PROVE  Weight[c] \in Nat \ {0} /\ TotalWeight \in Nat \ {0} /\ Weight[c] <= TotalWeight
  <1>1. Weight[c] \in Nat \ {0}
    BY WeightAssumption
  <1>2. TotalWeight = SumFunctionOnSet(Weight, WFQ)
    BY WeightAssumption DEF TotalWeight, SumFunction
  <1> HIDE DEF TotalWeight
  <1>3. SumFunctionOnSet(Weight, WFQ) \in Nat /\ Weight[c] <= SumFunctionOnSet(Weight, WFQ)
    BY WeightsOf
  <1> QED
    BY <1>1, <1>2, <1>3

(* A part of an amount is not more.                                        *)
LEMMA PartOf ==
    ASSUME NEW a \in Nat, NEW p \in Nat, NEW w \in Nat \ {0}, p <= w
    PROVE  (p * a) \div w \in Nat /\ (p * a) \div w <= a
  <1>1. a * p <= a * w /\ a * p = p * a /\ a * w = w * a /\ p * a \in Nat
    BY ProductsOrdered, Distributes
  <1> DEFINE x == p * a
  <1>2. x \in Nat /\ x <= w * a
    BY <1>1
  <1> HIDE DEF x
  <1>3. x \div w \in Nat /\ x \div w <= a
    BY <1>2, QuotientAtMost
  <1> QED
    BY <1>3 DEF x

LEMMA RateOf ==
    ASSUME NEW bits \in Nat
    PROVE  AsRate(bits) \in Nat /\ AsRate(bits) <= (Wrap - 1) \div Interval
  <1>1. Second \in Nat /\ Interval \in Nat \ {0} /\ Wrap \in Nat \ {0}
    BY TimeAssumption, WrapIs
  <1> DEFINE x == (bits * Second) % Wrap
             y == Wrap - 1
  <1>2. x \in Nat /\ x <= y /\ y \in Nat
    <2>1. bits * Second \in Int
      BY <1>1
    <2> QED
      BY <1>1, <2>1, WrapsInto
  <1>3. AsRate(bits) = x \div Interval
    BY DEF AsRate
  <1> HIDE DEF x, y
  <1>4. x \div Interval \in Nat /\ x \div Interval <= y \div Interval
    <2>1. y \div Interval \in Nat /\ y < Interval * (y \div Interval) + Interval
      BY <1>1, <1>2, QuotientIs
    <2>2. x \div Interval \in Nat /\ Interval * (x \div Interval) <= x
      BY <1>1, <1>2, QuotientIs
    <2> DEFINE p == x \div Interval
               q == y \div Interval
    <2>3. p <= q
      <3>1. p \in Nat /\ q \in Nat /\ Interval * p <= x /\ y < Interval * q + Interval
        BY <2>1, <2>2
      <3> HIDE DEF p, q
      <3> SUFFICES ASSUME q + 1 <= p PROVE FALSE
        BY <3>1
      <3>2. Interval * (q + 1) <= Interval * p /\ Interval * (q + 1) = Interval * q + Interval * 1 /\ Interval * 1 = Interval
            /\ Interval * q \in Int /\ Interval * p \in Int
        BY <1>1, <3>1, ProductsOrdered, Distributes
      <3> QED
        BY <1>1, <1>2, <3>1, <3>2
    <2> QED
      BY <2>2, <2>3
  <1> QED
    BY <1>3, <1>4 DEF y

LEMMA FlowingIs ==
    ASSUME Typed, NEW c \in Class, NEW f \in Flow
    PROVE  Flowing(c, f) \in Nat /\ Flowing(c, f) <= (Wrap - 1) \div Interval
  <1>1. recv[<<c, f>>] \in Nat
    <2>1. <<c, f>> \in Slot /\ recv \in [Slot -> 0 .. Wrap - 1]
      BY DEF Typed, TypeOK, Slot
    <2> QED
      BY <2>1
  <1> QED
    BY <1>1, RateOf DEF Flowing

LEMMA ClassFlowingIs ==
    ASSUME Typed, NEW c \in Class
    PROVE  ClassFlowing(c) \in Nat
  <1> DEFINE g == [f \in known[c] |-> recv[<<c, f>>]]
             s == SumFunction(g)
  <1>1. s = SumFunctionOnSet(g, known[c])
    BY DEF SumFunction
  <1>2. IsFiniteSet(known[c])
    BY DEF Typed
  <1>3. \A f \in known[c] : g[f] \in Nat
    <2> SUFFICES ASSUME NEW f \in known[c] PROVE recv[<<c, f>>] \in Nat
      OBVIOUS
    <2>1. <<c, f>> \in Slot /\ recv \in [Slot -> 0 .. Wrap - 1]
      BY DEF Typed, TypeOK, Slot
    <2> QED
      BY <2>1
  <1> HIDE DEF g
  <1>4. s \in Int
    BY <1>1, <1>2, <1>3, SumNat
  <1> HIDE DEF s
  <1>5. s % Wrap \in Nat
    BY <1>4, WrapsInto, WrapIs
  <1>6. ClassFlowing(c) = AsRate(s % Wrap)
    BY DEF ClassFlowing, s, g
  <1> QED
    BY <1>5, <1>6, RateOf

LEMMA InterestRateIs == ASSUME Typed PROVE InterestRate \in Nat
  <1>1. received \in Nat /\ InterestSize \in Nat /\ Second \in Nat /\ Interval \in Nat \ {0}
    BY SizeAssumption, TimeAssumption DEF Typed, TypeOK
  <1> DEFINE x == received * InterestSize * Second
  <1>2. x \in Nat
    <2>1. received * InterestSize \in Nat
      BY <1>1
    <2> QED
      BY <1>1, <2>1
  <1>3. InterestRate = x \div Interval
    BY DEF InterestRate
  <1> HIDE DEF x
  <1> QED
    BY <1>1, <1>2, <1>3, QuotientIs

LEMMA RemainIs ==
    ASSUME Typed
    PROVE  /\ LimitedRate \in Nat /\ Remain \in 0 .. Wrap - 1
           /\ TrafficFits => Remain = Link - InterestRate - LimitedRate /\ Remain < HalfRange
  <1> DEFINE g == [c \in SP |-> ClassFlowing(c)]
  <1>1. LimitedRate = SumFunctionOnSet(g, SP)
    BY DEF LimitedRate, SumFunction
  <1>2. \A c \in SP : g[c] \in Nat
    <2>1. \A c \in SP : c \in Class
      BY DEF Class
    <2> QED
      BY <2>1, ClassFlowingIs
  <1> HIDE DEF g
  <1>3. LimitedRate \in Nat
    BY <1>1, <1>2, ClassAssumption, SumNat
  <1>4. Link \in Int /\ InterestRate \in Nat
    BY InterestRateIs, WrapIs
  <1> DEFINE x == Link - InterestRate - LimitedRate
  <1>5. x \in Int /\ Remain = x % Wrap
    BY <1>3, <1>4 DEF Remain
  <1>6. TrafficFits => x \in 0 .. Wrap - 1 /\ x < HalfRange
    BY <1>3, <1>4, WrapIs DEF TrafficFits
  <1>7. x \in 0 .. Wrap - 1 => x % Wrap = x
    <2> HIDE DEF x
    <2>1. x \in 0 .. Wrap - 1 => (Wrap * 0 + x) % Wrap = x /\ Wrap * 0 + x = x
      BY <1>5, WrapIs, RemainderOf
    <2> QED
      BY <2>1
  <1> QED
    BY <1>3, <1>5, <1>6, <1>7, WrapsInto

LEMMA ShareIs ==
    ASSUME Typed, NEW c \in WFQ
    PROVE  Share(c) \in Nat /\ Share(c) <= Remain
  <1>1. Weight[c] \in Nat /\ TotalWeight \in Nat \ {0} /\ Weight[c] <= TotalWeight
    BY WeightIs
  <1>2. Remain \in Nat
    BY RemainIs, WrapIs
  <1> HIDE DEF Remain, TotalWeight
  <1> QED
    BY <1>1, <1>2, PartOf DEF Share

LEMMA AddRateIs ==
    ASSUME Typed, NEW t \in Int, NEW c \in WFQ
    PROVE  AddRate(t, c) \in Int
  <1>1. Share(c) \in Int /\ ClassFlowing(c) \in Int
    BY ShareIs, ClassFlowingIs DEF Class
  <1>2. HalfRange \in Nat /\ Wrap \in Nat \ {0}
    BY WrapIs
  <1> HIDE DEF Share, ClassFlowing, Wrap
  <1>3. DoubleToInt(t + Share(c)) \in Int
    BY <1>1, <1>2 DEF DoubleToInt
  <1>4. UnsignedToInt(t + ClassFlowing(c)) \in Int
    <2> DEFINE x == t + ClassFlowing(c) + HalfRange
    <2>1. x \in Int
      BY <1>1, <1>2
    <2> HIDE DEF x
    <2>2. x % Wrap \in Int
      BY <1>2, <2>1
    <2> QED
      BY <1>2, <2>2 DEF UnsignedToInt, x
  <1> QED
    BY <1>3, <1>4 DEF AddRate

(* The fold of TotalRate, as a table of the positions that are done.        *)
RateFold(t) ==
    t = [s \in SUBSET DOMAIN WFQOrder |->
            IF s = {} THEN 0 ELSE AddRate(t[s \ {Max(s)}], WFQOrder[Max(s)])]

LEMMA TotalRateIsFold == TotalRate = (CHOOSE t : RateFold(t))[DOMAIN WFQOrder]
  BY DEF TotalRate, FoldLeft, MapThenFoldSet, RateFold

RateTable(u) ==
    \A T \in SUBSET DOMAIN WFQOrder :
        /\ u[T] \in Int
        /\ u[T] = IF T = {} THEN 0 ELSE AddRate(u[T \ {Max(T)}], WFQOrder[Max(T)])

LEMMA PositionsOf ==
    /\ DOMAIN WFQOrder = 1 .. Len(WFQOrder) /\ Len(WFQOrder) \in Nat
    /\ IsFiniteSet(DOMAIN WFQOrder)
    /\ \A i \in DOMAIN WFQOrder : WFQOrder[i] \in WFQ
    /\ \A T \in SUBSET DOMAIN WFQOrder : T # {} => Max(T) \in T /\ \A i \in T : i <= Max(T)
  <1>1. DOMAIN WFQOrder = 1 .. Len(WFQOrder) /\ Len(WFQOrder) \in Nat
    BY ClassAssumption
  <1>2. ASSUME NEW T \in SUBSET DOMAIN WFQOrder, T # {}
        PROVE  Max(T) \in T /\ \A i \in T : i <= Max(T)
    <2>1. T \subseteq Nat /\ \A i \in T : i <= Len(WFQOrder)
      BY <1>1
    <2>2. Max(T) \in T /\ \A i \in T : Max(T) >= i
      BY <1>1, <1>2, <2>1, MaxIsGreatest
    <2> DEFINE m == Max(T)
    <2> HIDE DEF m
    <2>3. m \in T /\ \A i \in T : i <= m
      BY <2>1, <2>2 DEF m
    <2> QED
      BY <2>3 DEF m
  <1>3. IsFiniteSet(1 .. Len(WFQOrder))
    BY <1>1, FS_Interval
  <1> QED
    BY <1>1, <1>2, <1>3, WFQFinite

LEMMA TotalRateTable ==
    ASSUME Typed
    PROVE  \E u : RateTable(u) /\ TotalRate = u[DOMAIN WFQOrder]
  <1> DEFINE S == DOMAIN WFQOrder
             pick == [T \in SUBSET S |-> Max(T)]
             o == [x \in Int \X S |-> AddRate(x[1], WFQOrder[x[2]])]
             chosen == CHOOSE t : RateFold(t)
  <1>1. IsFiniteSet(S) /\ \A T \in SUBSET S : T # {} => Max(T) \in T
    BY PositionsOf
  <1>3. PicksFrom(pick, S)
    BY <1>1 DEF PicksFrom
  <1>4. o \in [Int \X S -> Int]
    <2>1. \A x \in Int \X S : AddRate(x[1], WFQOrder[x[2]]) \in Int
      BY AddRateIs, PositionsOf
    <2> QED
      BY <2>1
  <1>5. \A T \in SUBSET S : pick[T] = Max(T)
    OBVIOUS
  <1>6. \A d \in Int, i \in S : o[<<d, i>>] = AddRate(d, WFQOrder[i])
    OBVIOUS
  <1>s. S = DOMAIN WFQOrder
    OBVIOUS
  <1> HIDE DEF S, pick, o
  <1>7. PICK u \in [SUBSET S -> Int] : IsFold(o, 0, pick, S, u)
    <2> DEFINE D == Int
               z == 0
    <2>1. z \in D /\ o \in [D \X S -> D]
      BY <1>4
    <2> HIDE DEF D, z
    <2>2. \E u \in [SUBSET S -> D] : IsFold(o, z, pick, S, u)
      BY <1>1, <1>3, <2>1, FoldExists
    <2> QED
      BY <2>2 DEF D, z
  <1>8. ASSUME NEW T \in SUBSET S
        PROVE  u[T] = IF T = {} THEN 0 ELSE AddRate(u[T \ {Max(T)}], WFQOrder[Max(T)])
    <2>1. u[T] = FoldRow(o, 0, pick, u, T)
      BY <1>7 DEF IsFold
    <2>2. CASE T = {}
      BY <2>1, <2>2 DEF FoldRow
    <2>3. CASE T # {}
      <3>1. Max(T) \in S /\ u[T \ {Max(T)}] \in Int /\ pick[T] = Max(T)
        BY <1>1, <1>5, <1>7, <2>3
      <3>2. u[T] = o[<<u[T \ {Max(T)}], Max(T)>>]
        BY <2>1, <2>3, <3>1 DEF FoldRow
      <3> QED
        BY <1>6, <2>3, <3>1, <3>2
    <2> QED
      BY <2>2, <2>3
  <1>9. RateFold(u)
    <2>1. u = [T \in SUBSET S |-> u[T]]
      BY <1>7
    <2> QED
      BY <1>s, <1>8, <2>1 DEF RateFold
  <1>10. RateFold(chosen)
    BY <1>9
  <1> HIDE DEF chosen
  <1>11. ASSUME NEW T \in SUBSET S
         PROVE  chosen[T] = IF T = {} THEN 0 ELSE AddRate(chosen[T \ {Max(T)}], WFQOrder[Max(T)])
    BY <1>s, <1>10 DEF RateFold
  <1>12. \A T \in SUBSET S : chosen[T] = u[T]
    <2> DEFINE Bad == {T \in SUBSET S : chosen[T] # u[T]}
    <2> SUFFICES ASSUME Bad # {} PROVE FALSE
      OBVIOUS
    <2>1. Bad \in SUBSET SUBSET S
      OBVIOUS
    <2> HIDE DEF Bad
    <2>2. PICK T \in Bad : \A U \in Bad : ~(U \subseteq T /\ U # T)
      BY <1>1, <2>1, Smallest
    <2>3. T \in SUBSET S /\ chosen[T] # u[T]
      BY DEF Bad
    <2>4. T # {}
      BY <1>8, <1>11, <2>3
    <2> DEFINE V == T \ {Max(T)}
    <2>5. V \subseteq T /\ V # T /\ V \in SUBSET S
      BY <1>1, <2>3, <2>4
    <2>6. chosen[V] = u[V]
      BY <2>2, <2>5 DEF Bad
    <2> QED
      BY <1>8, <1>11, <2>3, <2>4, <2>6
  <1>13. TotalRate = chosen[S]
    BY <1>s, TotalRateIsFold DEF chosen
  <1>14. RateTable(u)
    BY <1>s, <1>7, <1>8 DEF RateTable
  <1>15. TotalRate = u[S] /\ S \in SUBSET S
    BY <1>12, <1>13
  <1> QED
    BY <1>s, <1>14, <1>15

LEMMA WFQShareIs ==
    ASSUME Typed, NEW c \in WFQ
    PROVE  WFQShare(c) \in 0 .. Wrap - 1
  <1> DEFINE lent == UnsignedToInt(Remain - TotalRate)
             of == SumFunctionOnSet(Weight, Borrowers)
  <1>1. TotalRate \in Int
    <2>1. PICK u : RateTable(u) /\ TotalRate = u[DOMAIN WFQOrder]
      BY TotalRateTable
    <2> QED
      BY <2>1 DEF RateTable
  <1>2. Remain \in 0 .. Wrap - 1 /\ HalfRange \in Nat /\ Wrap \in Nat \ {0}
    BY RemainIs, WrapIs
  <1>3. lent \in Int
    <2> DEFINE x == (Remain - TotalRate) + HalfRange
    <2> HIDE DEF Remain, TotalRate, Wrap
    <2>1. x \in Int
      BY <1>1, <1>2
    <2>2. lent = (x % Wrap) - HalfRange
      BY DEF UnsignedToInt
    <2> HIDE DEF x
    <2> QED
      BY <1>2, <2>1, <2>2
  <1>4. Borrowers \in SUBSET WFQ
    BY DEF Borrowers
  <1>5. Weight[c] \in Nat \ {0} /\ TotalWeight \in Nat \ {0}
    BY WeightIs
  <1>6. CASE c \in Borrowers
    <2>1. of \in Nat \ {0}
      BY <1>4, <1>6, WeightsOf
    <2> HIDE DEF Remain, TotalRate, Wrap, lent, of, TotalWeight, Borrowers
    <2> DEFINE a == Weight[c] * (lent * TotalWeight + Remain * of)
               b == of * TotalWeight
    <2>2. WFQShare(c) = Truncated(a, b) % Wrap
      BY <1>6 DEF WFQShare, lent, of
    <2>3. a \in Int
      <3>1. lent * TotalWeight \in Int /\ Remain * of \in Int
        BY <1>2, <1>3, <1>5, <2>1
      <3> QED
        BY <1>5, <3>1
    <2>4. b \in Nat \ {0}
      BY <1>5, <2>1
    <2> HIDE DEF a, b
    <2>5. Truncated(a, b) \in Int
      BY <2>3, <2>4 DEF Truncated
    <2> QED
      BY <2>2, <2>5, WrapsInto
  <1>7. CASE c \notin Borrowers
    <2>1. WFQShare(c) = Share(c)
      BY <1>7 DEF WFQShare
    <2>2. Share(c) \in Nat /\ Share(c) <= Remain
      BY ShareIs
    <2> HIDE DEF Share, Remain, Wrap
    <2> QED
      BY <1>2, <2>1, <2>2
  <1> QED
    BY <1>6, <1>7

-----------------------------------------------------------------------------
(* The flows of one class.                                                 *)

(* Flows K of class c that share bandwidth A.                               *)
Sharing(c, K, A) == c \in Class /\ K \in SUBSET Flow /\ IsFiniteSet(K) /\ A \in 0 .. Wrap - 1

LEMMA HalvesAre ==
    ASSUME NEW c, NEW K, IsFiniteSet(K)
    PROVE  /\ SumFunction([g \in K |-> Halves(c, g)]) \in Nat
           /\ \A f \in K : Halves(c, f) \in 1 .. 2 /\ Halves(c, f) <= SumFunction([g \in K |-> Halves(c, g)])
  <1> DEFINE h == [g \in K |-> Halves(c, g)]
  <1>1. \A f \in K : Halves(c, f) \in 1 .. 2
    BY DEF Halves
  <1>2. SumFunction(h) = SumFunctionOnSet(h, K) /\ \A f \in K : h[f] = Halves(c, f)
    BY DEF SumFunction
  <1>3. \A f \in K : h[f] \in Nat
    BY <1>1
  <1> HIDE DEF h
  <1>4. SumFunctionOnSet(h, K) \in Nat
    BY <1>3, SumNat
  <1>5. \A f \in K : h[f] <= SumFunctionOnSet(h, K)
    BY <1>3, SumTerm
  <1>6. SumFunction(h) \in Nat /\ \A f \in K : Halves(c, f) \in 1 .. 2 /\ Halves(c, f) <= SumFunction(h)
    BY <1>1, <1>2, <1>4, <1>5
  <1> QED
    BY <1>6 DEF h

LEMMA BaseIs ==
    ASSUME NEW c, NEW K, NEW A, Sharing(c, K, A), NEW f \in K
    PROVE  Base(c, f, K, A) \in Nat /\ Base(c, f, K, A) <= A /\ A \in Nat
  <1> DEFINE T == SumFunction([g \in K |-> Halves(c, g)])
             h == Halves(c, f)
  <1>1. A \in Nat
    BY WrapIs DEF Sharing
  <1>2. T \in Nat /\ h \in 1 .. 2 /\ h <= T
    BY HalvesAre DEF Sharing
  <1>3. Base(c, f, K, A) = (A * h) \div T
    BY DEF Base
  <1> HIDE DEF T, h
  <1>4. A * h = h * A /\ T \in Nat \ {0} /\ h \in Nat
    BY <1>1, <1>2
  <1>5. (h * A) \div T \in Nat /\ (h * A) \div T <= A
    BY <1>1, <1>2, <1>4, PartOf
  <1> QED
    BY <1>1, <1>3, <1>4, <1>5

(* What flow f of K counts as consumed.                                     *)
Counted(c, f, K, A) == IF Fast(c, f, K, A) THEN Base(c, f, K, A) ELSE Flowing(c, f)
CountedSum(c, K, A) == SumFunction([f \in K |-> Counted(c, f, K, A)])

LEMMA CountedIs ==
    ASSUME Typed, NEW c, NEW K, NEW A, Sharing(c, K, A)
    PROVE  /\ \A f \in K : Counted(c, f, K, A) \in Nat
           /\ CountedSum(c, K, A) \in Nat
           /\ Consumed(c, K, A) = CountedSum(c, K, A) % Wrap
           /\ Consumed(c, K, A) \in 0 .. Wrap - 1
  <1> DEFINE g == [f \in K |-> Counted(c, f, K, A)]
  <1>1. ASSUME NEW f \in K PROVE Counted(c, f, K, A) \in Nat
    <2>1. Base(c, f, K, A) \in Nat /\ Flowing(c, f) \in Nat
      BY BaseIs, FlowingIs DEF Sharing
    <2> QED
      BY <2>1 DEF Counted
  <1>2. CountedSum(c, K, A) = SumFunctionOnSet(g, K) /\ \A f \in K : g[f] = Counted(c, f, K, A)
    BY DEF CountedSum, SumFunction
  <1>3. Consumed(c, K, A) = CountedSum(c, K, A) % Wrap
    BY DEF Consumed, CountedSum, Counted
  <1> HIDE DEF g
  <1>4. CountedSum(c, K, A) \in Nat
    BY <1>1, <1>2, SumNat DEF Sharing
  <1> HIDE DEF CountedSum
  <1> QED
    BY <1>1, <1>3, <1>4, WrapsInto

LEMMA FastFlowsAre ==
    ASSUME NEW c, NEW K, NEW A, Sharing(c, K, A)
    PROVE  /\ FastFlows(c, K, A) \in SUBSET K /\ IsFiniteSet(FastFlows(c, K, A))
           /\ Cardinality(FastFlows(c, K, A)) \in Nat
           /\ FastFlows(c, K, A) # {} => Cardinality(FastFlows(c, K, A)) \in Nat \ {0}
  <1> DEFINE F == FastFlows(c, K, A)
  <1>1. F \in SUBSET K /\ IsFiniteSet(K)
    BY DEF FastFlows, Sharing
  <1> HIDE DEF F
  <1>2. IsFiniteSet(F)
    BY <1>1, FS_Subset
  <1>3. Cardinality(F) \in Nat /\ (Cardinality(F) = 0 <=> F = {})
    BY <1>2, FS_CardinalityType, FS_EmptySet
  <1>4. F # {} => Cardinality(F) \in Nat \ {0}
    BY <1>3
  <1> QED
    BY <1>1, <1>2, <1>3, <1>4 DEF F

(* What is lent to n fast flows is at most what is left, divided by n.       *)
LEMMA LentIs ==
    ASSUME Typed, NEW c, NEW K, NEW A, Sharing(c, K, A)
    PROVE  /\ Lent(c, K, A) \in Nat
           /\ Lent(c, K, A) > 0 =>
                /\ FastFlows(c, K, A) # {} /\ Consumed(c, K, A) < A
                /\ Cardinality(FastFlows(c, K, A)) * Lent(c, K, A) <= A - Consumed(c, K, A)
  <1> DEFINE F == FastFlows(c, K, A)
             n == Cardinality(F)
             u == Consumed(c, K, A)
             x == A - u
  <1>1. A \in Nat /\ u \in Nat
    <2>1. u \in 0 .. Wrap - 1 /\ A \in 0 .. Wrap - 1
      BY CountedIs DEF Sharing
    <2> HIDE DEF u
    <2> QED
      BY <2>1
  <1>2. F # {} => n \in Nat \ {0}
    BY FastFlowsAre
  <1>3. Lent(c, K, A) = IF u < A /\ F # {} THEN x \div n ELSE 0
    BY DEF Lent
  <1> HIDE DEF F, n, u
  <1>4. CASE u < A /\ F # {}
    <2>1. x \in Nat /\ n \in Nat \ {0} /\ x = A - u
      BY <1>1, <1>2, <1>4
    <2> HIDE DEF x
    <2>2. x \div n \in Nat /\ n * (x \div n) <= x
      BY <2>1, QuotientIs
    <2>3. Lent(c, K, A) \in Nat /\ n * Lent(c, K, A) <= A - u
      BY <1>3, <1>4, <2>1, <2>2
    <2> QED
      BY <1>4, <2>3 DEF F, n, u
  <1>5. CASE ~(u < A /\ F # {})
    BY <1>3, <1>5
  <1> QED
    BY <1>4, <1>5

LEMMA BoostedIs ==
    ASSUME Typed, NEW c, NEW K, NEW A, Sharing(c, K, A), NEW f \in K
    PROVE  /\ Boosted(c, f, K, A) \in 0 .. Wrap - 1
           /\ Boosted(c, f, K, A) <= Base(c, f, K, A) + (IF Receives(c, f, K, A) THEN Lent(c, K, A) ELSE 0)
  <1> DEFINE x == Base(c, f, K, A) + (IF Receives(c, f, K, A) THEN Lent(c, K, A) ELSE 0)
  <1>1. Base(c, f, K, A) \in Nat /\ Lent(c, K, A) \in Nat
    BY BaseIs, LentIs
  <1>2. x \in Nat
    <2> HIDE DEF Base, Lent, Receives
    <2> QED
      BY <1>1
  <1>3. Boosted(c, f, K, A) = x % Wrap
    BY DEF Boosted
  <1> HIDE DEF x
  <1>4. x % Wrap \in 0 .. Wrap - 1 /\ x % Wrap <= x
    BY <1>2, WrapsInto, WrapsDown
  <1>5. Boosted(c, f, K, A) \in 0 .. Wrap - 1 /\ Boosted(c, f, K, A) <= x
    BY <1>3, <1>4
  <1> QED
    BY <1>5 DEF x

LEMMA DiscountAt == ASSUME NEW n \in 0 .. VqSize PROVE Discount[n] \in 0 .. 1000
  <1> DEFINE D == 0 .. VqSize
             R == 0 .. 1000
  <1>1. n \in D
    OBVIOUS
  <1>2. Discount \in [D -> R]
    BY ONLY DiscountAssumption DEF D, R
  <1> HIDE DEF D, R
  <1>3. Discount[n] \in R
    BY <1>1, <1>2
  <1> QED
    BY <1>3 DEF R

LEMMA DiscountedIs ==
    ASSUME Typed, NEW c, NEW K, NEW A, Sharing(c, K, A), NEW f \in K
    PROVE  Discounted(c, f, K, A) \in 0 .. Wrap - 1 /\ Discounted(c, f, K, A) <= Boosted(c, f, K, A)
  <1> DEFINE b == Boosted(c, f, K, A)
             d == Discount[waiting[<<c, f>>]]
  <1>1. b \in 0 .. Wrap - 1
    BY BoostedIs
  <1>2. CASE penalised[<<c, f>>] \/ Caught(c, f, K, A)
    <2>1. Discounted(c, f, K, A) = b
      BY <1>2 DEF Discounted
    <2> HIDE DEF b
    <2>2. b <= b
      BY <1>1
    <2> QED
      BY <1>1, <2>1, <2>2 DEF b
  <1>3. CASE ~(penalised[<<c, f>>] \/ Caught(c, f, K, A))
    <2>1. Discounted(c, f, K, A) = (b * d) \div 1000
      BY <1>3 DEF Discounted
    <2>2. d \in 0 .. 1000
      <3>1. <<c, f>> \in Slot
        BY DEF Sharing, Slot
      <3>2. waiting[<<c, f>>] \in Nat /\ waiting[<<c, f>>] <= VqSize
        <4>1. waiting \in [Slot -> 0 .. Longest]
          BY DEF Typed, TypeOK
        <4> QED
          BY <1>3, <3>1, <4>1 DEF Typed
      <3>3. VqSize \in Nat
        BY LimitAssumption
      <3> DEFINE w == waiting[<<c, f>>]
      <3>4. w \in 0 .. VqSize
        BY <3>2, <3>3
      <3> HIDE DEF w
      <3>5. Discount[w] \in 0 .. 1000
        BY <3>4, DiscountAt
      <3> QED
        BY <3>5 DEF w
    <2> HIDE DEF b, d
    <2>3. b * d = d * b /\ b \in Nat /\ d \in Nat /\ d <= 1000
      BY <1>1, <2>2, WrapIs
    <2>4. (d * b) \div 1000 \in Nat /\ (d * b) \div 1000 <= b
      BY <2>3, PartOf
    <2>5. Discounted(c, f, K, A) \in Nat /\ Discounted(c, f, K, A) <= b
      BY <2>1, <2>3, <2>4
    <2>6. Discounted(c, f, K, A) \in 0 .. Wrap - 1
      BY <1>1, <2>5, WrapIs
    <2> QED
      BY <2>5, <2>6 DEF b
  <1> QED
    BY <1>2, <1>3

LEMMA GreedyTimesAre ==
    ASSUME Typed, NEW c \in Class, NEW f \in Flow, NEW K, NEW A
    PROVE  GreedyTimes(c, f, K, A) \in 0 .. GreedyThreshold
  <1>1. greedyTimes[<<c, f>>] \in 0 .. GreedyThreshold /\ GreedyThreshold \in Nat
    BY LimitAssumption DEF Typed, TypeOK, Slot
  <1> QED
    BY <1>1 DEF GreedyTimes

-----------------------------------------------------------------------------
(* Type correctness.                                                       *)

LEMMA TypedInit == Init => Typed
  <1> SUFFICES ASSUME Init PROVE Typed
    OBVIOUS
  <1>1. /\ known = [c \in Class |-> {}]
        /\ rate = [x \in Slot |-> 0] /\ penalised = [x \in Slot |-> FALSE]
        /\ greedyTimes = [x \in Slot |-> 0]
        /\ recv = [x \in Slot |-> 0] /\ size = [x \in Slot |-> VqSize] /\ waiting = [x \in Slot |-> 0]
        /\ avail = [c \in Class |-> IF c \in SP THEN Limit[c] ELSE (Link * Weight[c]) \div TotalWeight]
        /\ weight \in {[c \in Class |-> j] : j \in Junk}
        /\ received = 0 /\ served = {}
        /\ settled = [c \in Class |-> TRUE] /\ quiet = [x \in Slot |-> 2] /\ arrivals = 0
    BY DEF Init
  <1>2. /\ Wrap \in Nat \ {0} /\ GreedyThreshold \in Nat /\ VqSize \in Nat /\ PenalisedSize \in Nat
        /\ MaxReceived \in Nat /\ MaxArrivals \in Nat
    BY WrapIs, LimitAssumption, BoundAssumption
  <1>3. /\ rate \in [Slot -> 0 .. Wrap - 1] /\ recv \in [Slot -> 0 .. Wrap - 1]
        /\ penalised \in [Slot -> BOOLEAN] /\ greedyTimes \in [Slot -> 0 .. GreedyThreshold]
        /\ size \in [Slot -> {VqSize, PenalisedSize}]
    <2> HIDE DEF Wrap
    <2> QED
      BY <1>1, <1>2
  <1>4. waiting \in [Slot -> 0 .. Longest]
    <2>1. Longest \in Nat
      BY <1>2 DEF Longest, Larger
    <2> QED
      BY <1>1, <2>1
  <1>5. avail \in [Class -> 0 .. Wrap - 1]
    <2> SUFFICES ASSUME NEW c \in Class
                 PROVE  (IF c \in SP THEN Limit[c] ELSE (Link * Weight[c]) \div TotalWeight) \in 0 .. Wrap - 1
      BY <1>1
    <2>1. CASE c \in SP
      BY <2>1, WeightAssumption
    <2>2. CASE c \notin SP
      <3>1. c \in WFQ
        BY <2>2 DEF Class
      <3>2. Weight[c] \in Nat /\ TotalWeight \in Nat \ {0} /\ Weight[c] <= TotalWeight
        BY <3>1, WeightIs
      <3>3. Link \in Nat /\ Link < Wrap
        BY WrapIs
      <3> HIDE DEF TotalWeight, Wrap
      <3> DEFINE w == Weight[c]
      <3> HIDE DEF w
      <3>4. w * Link = Link * w /\ w \in Nat /\ w <= TotalWeight
        <4>1. w \in Nat /\ w <= TotalWeight
          BY <3>2 DEF w
        <4> QED
          BY <3>3, <4>1, Distributes
      <3>5. (w * Link) \div TotalWeight \in Nat /\ (w * Link) \div TotalWeight <= Link
        BY <3>2, <3>3, <3>4, PartOf
      <3>6. (Link * w) \div TotalWeight \in 0 .. Wrap - 1
        BY <1>2, <3>3, <3>4, <3>5
      <3> QED
        BY <2>2, <3>6 DEF w
    <2> QED
      BY <2>1, <2>2
  <1>6. \A c \in Class : weight[c] - 2 * Cardinality(known[c]) \in Junk
    <2> SUFFICES ASSUME NEW c \in Class PROVE weight[c] - 2 * Cardinality(known[c]) \in Junk
      OBVIOUS
    <2>1. weight[c] \in Junk /\ known[c] = {}
      BY <1>1
    <2>2. Cardinality(known[c]) = 0 /\ weight[c] \in Int
      BY <2>1, FS_EmptySet, JunkAssumption
    <2>3. weight[c] - 2 * Cardinality(known[c]) = weight[c]
      BY <2>2
    <2> QED
      BY <2>1, <2>3
  <1>w. weight \in [Class -> Int]
    <2>1. PICK j \in Junk : weight = [c \in Class |-> j]
      BY <1>1
    <2> QED
      BY <2>1, JunkAssumption
  <1>7. TypeOK
    BY <1>1, <1>2, <1>3, <1>4, <1>5, <1>6, <1>w DEF TypeOK
  <1>8. \A c \in Class : IsFiniteSet(known[c])
    BY <1>1, FS_EmptySet
  <1>9. \A x \in Slot : size[x] = VqSize /\ waiting[x] <= VqSize
    BY <1>1, <1>2
  <1> QED
    BY <1>7, <1>8, <1>9 DEF Typed

LEMMA FirstRateIs ==
    ASSUME Typed, NEW c \in Class, NEW f \in Flow, NEW w \in Int
    PROVE  FirstRate(c, f, w) \in 0 .. Wrap - 1
  <1> DEFINE share == Quotient(avail[c] * 2, w)
             r == share % Wrap
  <1>1. share \in Int
    <2>1. avail[c] \in Int
      BY DEF Typed, TypeOK
    <2> DEFINE a == avail[c] * 2
    <2>2. a \in Int
      BY <2>1
    <2> HIDE DEF a
    <2>3. CASE w > 0
      BY <2>2, <2>3 DEF Quotient, a
    <2>4. CASE w < 0
      <3> DEFINE v == -w
      <3>1. v \in Int /\ v > 0
        BY <2>4
      <3> HIDE DEF v
      <3>2. a \div v \in Int
        BY <2>2, <3>1
      <3>3. Quotient(a, w) = -(a \div v)
        BY <2>4 DEF Quotient, v
      <3> QED
        BY <3>2, <3>3 DEF a
    <2>5. CASE w = 0
      BY <2>5 DEF Quotient
    <2> QED
      BY <2>3, <2>4, <2>5
  <1>2. FirstRate(c, f, w) = IF penalised[<<c, f>>] THEN r \div 2 ELSE r
    BY DEF FirstRate
  <1> HIDE DEF share
  <1>3. r \in 0 .. Wrap - 1
    BY <1>1, WrapsInto
  <1>4. Wrap \in Nat
    BY WrapIs
  <1> HIDE DEF r, Wrap
  <1>5. r \div 2 \in Nat /\ r \div 2 <= r
    <2>1. r \in Nat /\ 2 \in Nat \ {0}
      BY <1>3, <1>4
    <2> QED
      BY <2>1, QuotientIs
  <1>6. r \div 2 \in 0 .. Wrap - 1
    BY <1>3, <1>4, <1>5
  <1> QED
    BY <1>2, <1>3, <1>6

LEMMA AppendTyped ==
  ASSUME Typed, NEW c \in Class, NEW f \in Flow, NEW dsz \in Nat, NEW marked \in BOOLEAN,
         AppendInterest(c, f, dsz, marked)
  PROVE  Typed'
  <1>0. TypeOK /\ Wrap \in Nat \ {0} /\ MaxArrivals \in Nat
    BY WrapIs, BoundAssumption DEF Typed
  <1>1. <<c, f>> \in Slot
    BY DEF Slot
  <1>2. arrivals' \in 0 .. MaxArrivals
    BY <1>0 DEF AppendInterest, TypeOK
  <1>3. UNCHANGED <<greedyTimes, size, avail, received, served>>
    BY DEF AppendInterest
  <1>q. quiet' \in [Slot -> 0 .. 2]
    <2>1. quiet \in [Slot -> 0 .. 2] /\ quiet' = [quiet EXCEPT ![<<c, f>>] = 0]
      BY <1>0 DEF AppendInterest, TypeOK
    <2>2. 0 \in 0 .. 2
      OBVIOUS
    <2> QED
      BY <1>1, <2>1, <2>2
  <1>4. recv' \in [Slot -> 0 .. Wrap - 1]
    <2>1. recv' = [recv EXCEPT ![<<c, f>>] = (@ + dsz) % Wrap]
      BY DEF AppendInterest
    <2>2. recv \in [Slot -> 0 .. Wrap - 1]
      BY <1>0 DEF TypeOK
    <2>3. recv[<<c, f>>] + dsz \in Int
      BY <1>1, <2>2
    <2>4. (recv[<<c, f>>] + dsz) % Wrap \in 0 .. Wrap - 1
      BY <2>3, WrapsInto
    <2> HIDE DEF Wrap
    <2> QED
      BY <1>1, <2>1, <2>2, <2>4
  <1>5. /\ known' \in [Class -> SUBSET Flow] /\ settled' \in [Class -> BOOLEAN]
        /\ rate' \in [Slot -> 0 .. Wrap - 1]
        /\ weight' \in [Class -> Int]
        /\ \A d \in Class : IsFiniteSet(known'[d]) /\ weight'[d] - 2 * Cardinality(known'[d]) \in Junk
    <2>0. /\ weight \in [Class -> Int]
          /\ known \in [Class -> SUBSET Flow] /\ settled \in [Class -> BOOLEAN]
          /\ rate \in [Slot -> 0 .. Wrap - 1]
          /\ \A d \in Class : IsFiniteSet(known[d]) /\ weight[d] - 2 * Cardinality(known[d]) \in Junk
      BY <1>0 DEF TypeOK, Typed
    <2>1. CASE f \in known[c]
      <3>1. UNCHANGED <<known, weight, rate, settled>>
        BY <2>1 DEF AppendInterest
      <3> QED
        BY <2>0, <3>1
    <2>2. CASE f \notin known[c]
      <3>1. /\ known' = [known EXCEPT ![c] = @ \cup {f}]
            /\ weight' = [weight EXCEPT ![c] = @ + 2]
            /\ rate' = [x \in Slot |->
                  IF x[1] = c /\ x[2] \in known'[c] THEN FirstRate(c, x[2], weight'[c]) ELSE rate[x]]
            /\ settled' = [settled EXCEPT ![c] = FALSE]
        BY <2>2 DEF AppendInterest
      <3> DEFINE n == Cardinality(known[c])
      <3>2. IsFiniteSet(known'[c]) /\ Cardinality(known'[c]) = n + 1 /\ n \in Nat
        <4>1. known'[c] = known[c] \cup {f} /\ IsFiniteSet(known[c])
          BY <2>0, <3>1
        <4> QED
          BY <2>2, <4>1, FS_AddElement, FS_CardinalityType
      <3>3. weight'[c] - 2 * Cardinality(known'[c]) \in Junk /\ weight'[c] \in Int
        <4>1. weight'[c] = weight[c] + 2 /\ weight[c] - 2 * n \in Junk
          BY <2>0, <3>1
        <4>2. PICK j \in Junk : j = weight[c] - 2 * n
          BY <4>1
        <4>3. j \in Int /\ weight[c] \in Int
          BY <2>0, JunkAssumption
        <4> HIDE DEF n
        <4>4. weight'[c] - 2 * (n + 1) = j /\ weight'[c] \in Int
          BY <3>2, <4>1, <4>2, <4>3
        <4> QED
          BY <3>2, <4>4
      <3>4. \A d \in Class : d # c => known'[d] = known[d] /\ weight'[d] = weight[d]
        BY <2>0, <3>1
      <3>5. \A d \in Class : IsFiniteSet(known'[d]) /\ weight'[d] - 2 * Cardinality(known'[d]) \in Junk
        <4> SUFFICES ASSUME NEW d \in Class
                     PROVE  IsFiniteSet(known'[d]) /\ weight'[d] - 2 * Cardinality(known'[d]) \in Junk
          OBVIOUS
        <4>1. CASE d = c
          BY <3>2, <3>3, <4>1
        <4>2. CASE d # c
          BY <2>0, <3>4, <4>2
        <4> QED
          BY <4>1, <4>2
      <3>6. rate' \in [Slot -> 0 .. Wrap - 1]
        <4> SUFFICES ASSUME NEW x \in Slot
                     PROVE  (IF x[1] = c /\ x[2] \in known'[c] THEN FirstRate(c, x[2], weight'[c]) ELSE rate[x]) \in 0 .. Wrap - 1
          BY <3>1
        <4>1. x[2] \in Flow
          BY DEF Slot
        <4>2. FirstRate(c, x[2], weight'[c]) \in 0 .. Wrap - 1
          BY <3>3, <4>1, FirstRateIs
        <4> QED
          BY <2>0, <4>2
      <3>7. known' \in [Class -> SUBSET Flow] /\ settled' \in [Class -> BOOLEAN] /\ weight' \in [Class -> Int]
        BY <2>0, <3>1
      <3> QED
        BY <3>5, <3>6, <3>7
    <2> QED
      BY <2>1, <2>2
  <1>6. /\ waiting' \in [Slot -> 0 .. Longest] /\ penalised' \in [Slot -> BOOLEAN]
        /\ \A x \in Slot : ~penalised'[x] => size'[x] = VqSize /\ waiting'[x] <= VqSize
    <2>0. /\ waiting \in [Slot -> 0 .. Longest] /\ penalised \in [Slot -> BOOLEAN]
          /\ size \in [Slot -> {VqSize, PenalisedSize}]
          /\ \A x \in Slot : ~penalised[x] => size[x] = VqSize /\ waiting[x] <= VqSize
      BY <1>0 DEF TypeOK, Typed
    <2>1. CASE UNCHANGED <<waiting, penalised>>
      BY <1>3, <2>0, <2>1
    <2>2. CASE ~ UNCHANGED <<waiting, penalised>>
      <3>1. /\ Accepts(c, f)
            /\ waiting' = [waiting EXCEPT ![<<c, f>>] = @ + 1]
            /\ penalised' = [penalised EXCEPT ![<<c, f>>] = @ \/ marked]
        BY <2>2 DEF AppendInterest
      <3>2. waiting[<<c, f>>] < size[<<c, f>>]
        BY <3>1 DEF Accepts
      <3>3. VqSize \in Nat /\ PenalisedSize \in Nat /\ VqSize <= Longest /\ PenalisedSize <= Longest /\ Longest \in Nat
        BY LimitAssumption DEF Longest, Larger
      <3> DEFINE w == waiting[<<c, f>>]
                 z == size[<<c, f>>]
      <3>4. w \in Nat /\ z \in Nat /\ z <= Longest /\ (~penalised[<<c, f>>] => z = VqSize)
        BY <1>1, <2>0, <3>3
      <3> HIDE DEF w, z
      <3>5. w + 1 \in 0 .. Longest /\ (~penalised[<<c, f>>] => w + 1 <= VqSize)
        <4>1. w < z
          BY <3>2 DEF w, z
        <4> QED
          BY <3>3, <3>4, <4>1
      <3>6. /\ waiting' = [waiting EXCEPT ![<<c, f>>] = w + 1]
            /\ penalised'[<<c, f>>] = (penalised[<<c, f>>] \/ marked)
            /\ penalised' \in [Slot -> BOOLEAN]
            /\ \A x \in Slot : x # <<c, f>> => penalised'[x] = penalised[x]
        BY <1>1, <2>0, <3>1 DEF w
      <3>7. /\ waiting' \in [Slot -> 0 .. Longest] /\ waiting'[<<c, f>>] = w + 1
            /\ \A x \in Slot : x # <<c, f>> => waiting'[x] = waiting[x]
        BY <1>1, <2>0, <3>5, <3>6
      <3>8. ASSUME NEW x \in Slot, ~penalised'[x] PROVE size'[x] = VqSize /\ waiting'[x] <= VqSize
        <4>1. CASE x = <<c, f>>
          <5>1. ~penalised[<<c, f>>]
            BY <3>6, <3>8, <4>1
          <5> QED
            BY <1>3, <2>0, <3>5, <3>7, <4>1, <5>1
        <4>2. CASE x # <<c, f>>
          BY <1>3, <2>0, <3>6, <3>7, <3>8, <4>2
        <4> QED
          BY <4>1, <4>2
      <3> QED
        BY <3>6, <3>7, <3>8
    <2> QED
      BY <2>1, <2>2
  <1>7. TypeOK'
    BY <1>0, <1>2, <1>3, <1>q, <1>4, <1>5, <1>6 DEF TypeOK
  <1> QED
    BY <1>5, <1>6, <1>7 DEF Typed

LEMMA ScheduleTyped ==
  ASSUME Typed, NEW c \in Class, NEW f \in Flow, ScheduleNext(c, f)
  PROVE  Typed'
  <1>0. TypeOK
    BY DEF Typed
  <1>1. /\ waiting[<<c, f>>] > 0
        /\ waiting' = [waiting EXCEPT ![<<c, f>>] = @ - 1]
        /\ served' = served \cup {[class |-> c, flow |-> f, number |-> Number(c, f)]}
        /\ UNCHANGED <<known, rate, penalised, greedyTimes, recv, size, linkVars, settled, quiet, arrivals>>
    BY DEF ScheduleNext
  <1>2. <<c, f>> \in Slot /\ waiting \in [Slot -> 0 .. Longest] /\ Longest \in Nat
    BY <1>0, LimitAssumption DEF Slot, TypeOK, Longest, Larger
  <1>3. waiting' \in [Slot -> 0 .. Longest] /\ \A x \in Slot : waiting'[x] <= waiting[x]
    <2> DEFINE w == waiting[<<c, f>>]
    <2>1. w \in 0 .. Longest /\ w > 0 /\ waiting' = [waiting EXCEPT ![<<c, f>>] = w - 1]
      BY <1>1, <1>2
    <2>2. w - 1 \in 0 .. Longest /\ w - 1 <= w
      BY <1>2, <2>1
    <2> HIDE DEF w
    <2>3. waiting' \in [Slot -> 0 .. Longest]
      BY <1>2, <2>1, <2>2
    <2>4. ASSUME NEW x \in Slot PROVE waiting'[x] <= waiting[x]
      <3>1. CASE x = <<c, f>>
        BY <1>2, <2>1, <2>2, <3>1 DEF w
      <3>2. CASE x # <<c, f>>
        <4>1. waiting'[x] = waiting[x] /\ waiting[x] \in Int
          BY <1>2, <2>1, <3>2
        <4> QED
          BY <4>1
      <3> QED
        BY <3>1, <3>2
    <2> QED
      BY <2>3, <2>4
  <1>4. served' \subseteq Out
    <2>1. Number(c, f) \in Class
      BY NumberAssumption DEF Number
    <2>2. served \subseteq Out
      BY <1>0 DEF TypeOK
    <2> QED
      BY <1>1, <2>1, <2>2 DEF Out
  <1>5. TypeOK'
    BY <1>0, <1>1, <1>3, <1>4 DEF TypeOK, linkVars
  <1>6. \A d \in Class : IsFiniteSet(known'[d])
    BY <1>1 DEF Typed
  <1>7. ASSUME NEW x \in Slot, ~penalised'[x] PROVE size'[x] = VqSize /\ waiting'[x] <= VqSize
    <2>1. ~penalised[x] /\ size'[x] = size[x]
      BY <1>1, <1>7
    <2>2. size[x] = VqSize /\ waiting[x] <= VqSize
      BY <2>1 DEF Typed
    <2>3. waiting[x] \in Int /\ waiting'[x] \in Int /\ VqSize \in Int /\ waiting'[x] <= waiting[x]
      BY <1>2, <1>3, LimitAssumption
    <2> QED
      BY <2>1, <2>2, <2>3
  <1> QED
    BY <1>5, <1>6, <1>7 DEF Typed

(* The flows of class c that stay, and the weight that they leave.          *)
LEMMA KeptAre ==
    ASSUME Typed, NEW c \in Class
    PROVE  /\ Kept(c) \in SUBSET known[c] /\ Kept(c) \in SUBSET Flow /\ IsFiniteSet(Kept(c))
           /\ WeightLeft(c) \in Int /\ WeightLeft(c) - 2 * Cardinality(Kept(c)) \in Junk
  <1>1. known[c] \in SUBSET Flow /\ IsFiniteSet(known[c]) /\ weight[c] \in Int
        /\ weight[c] - 2 * Cardinality(known[c]) \in Junk
    BY DEF Typed, TypeOK
  <1>2. Gone(c) \in SUBSET known[c] /\ Kept(c) = known[c] \ Gone(c)
    BY DEF Gone, Kept
  <1> HIDE DEF Gone, Kept
  <1>3. IsFiniteSet(Gone(c)) /\ IsFiniteSet(Kept(c))
    BY <1>1, <1>2, FS_Subset
  <1>4. Cardinality(Kept(c)) = Cardinality(known[c]) - Cardinality(Gone(c))
    <2>1. known[c] \cap Gone(c) = Gone(c)
      BY <1>2
    <2> QED
      BY <1>1, <1>2, <2>1, FS_Difference
  <1> DEFINE n == Cardinality(known[c])
             g == Cardinality(Gone(c))
             w == weight[c]
  <1>5. n \in Nat /\ g \in Nat /\ w \in Int
    BY <1>1, <1>3, FS_CardinalityType
  <1>6. WeightLeft(c) = w - 2 * g
    BY DEF WeightLeft
  <1>7. Cardinality(Kept(c)) = n - g /\ w - 2 * n \in Junk
    BY <1>1, <1>4
  <1> HIDE DEF n, g, w
  <1>8. (w - 2 * g) - 2 * (n - g) = w - 2 * n
    BY <1>5
  <1> QED
    BY <1>1, <1>2, <1>3, <1>5, <1>6, <1>7, <1>8

LEMMA SharingIs ==
    ASSUME Typed, NEW c \in Class, NEW A \in 0 .. Wrap - 1
    PROVE  Sharing(c, Kept(c), A)
  BY KeptAre DEF Sharing

LEMMA CalObjectRateTyped ==
  ASSUME Typed, WaitsKnown, CalObjectRate
  PROVE  Typed'
  <1>0. TypeOK /\ Wrap \in Nat \ {0}
    BY WrapIs DEF Typed
  <1>1. avail' \in [Class -> 0 .. Wrap - 1]
    <2>1. avail' = [c \in Class |-> IF c \in SP THEN avail[c] ELSE WFQShare(c)]
      BY DEF CalObjectRate
    <2>2. \A c \in Class : (IF c \in SP THEN avail[c] ELSE WFQShare(c)) \in 0 .. Wrap - 1
      <3>1. avail \in [Class -> 0 .. Wrap - 1]
        BY <1>0 DEF TypeOK
      <3> QED
        BY <3>1, WFQShareIs DEF Class
    <2> QED
      BY <2>1, <2>2
  <1>2. \A c \in Class : Sharing(c, Kept(c), avail'[c])
    BY <1>1, SharingIs
  <1>3. /\ known' = [c \in Class |-> Kept(c)]
        /\ weight' = [c \in Class |-> WeightLeft(c)]
        /\ recv' = [x \in Slot |-> 0] /\ received' = 0
        /\ settled' = [c \in Class |-> TRUE]
        /\ quiet' = [x \in Slot |-> Lesser(quiet[x] + 1, 2)]
        /\ UNCHANGED <<waiting, served, arrivals>>
    BY DEF CalObjectRate
  <1>4. /\ known' \in [Class -> SUBSET Flow] /\ weight' \in [Class -> Int]
        /\ \A c \in Class : IsFiniteSet(known'[c]) /\ weight'[c] - 2 * Cardinality(known'[c]) \in Junk
    BY <1>3, KeptAre
  <1>5. /\ recv' \in [Slot -> 0 .. Wrap - 1] /\ received' \in 0 .. MaxReceived
        /\ settled' \in [Class -> BOOLEAN] /\ quiet' \in [Slot -> 0 .. 2]
    <2>1. MaxReceived \in Nat /\ quiet \in [Slot -> 0 .. 2]
      BY <1>0, BoundAssumption DEF TypeOK
    <2>2. quiet' \in [Slot -> 0 .. 2]
      BY <1>3, <2>1 DEF Lesser
    <2> HIDE DEF Wrap
    <2> QED
      BY <1>0, <1>3, <2>1, <2>2
  <1>6. ASSUME NEW x \in Slot, IsKept(x)
        PROVE  x[1] \in Class /\ x[2] \in Flow /\ x[2] \in Kept(x[1]) /\ Sharing(x[1], Kept(x[1]), avail'[x[1]])
    BY <1>2, <1>6 DEF IsKept, Slot
  <1>7. rate' \in [Slot -> 0 .. Wrap - 1]
    <2>1. rate' = [x \in Slot |->
              IF IsKept(x) THEN Discounted(x[1], x[2], Kept(x[1]), avail'[x[1]]) ELSE 0]
      BY DEF CalObjectRate
    <2>2. ASSUME NEW x \in Slot
          PROVE  (IF IsKept(x) THEN Discounted(x[1], x[2], Kept(x[1]), avail'[x[1]]) ELSE 0) \in 0 .. Wrap - 1
      <3>1. CASE IsKept(x)
        <4>1. Discounted(x[1], x[2], Kept(x[1]), avail'[x[1]]) \in 0 .. Wrap - 1
          BY <1>6, <3>1, DiscountedIs
        <4> QED
          BY <3>1, <4>1
      <3>2. CASE ~IsKept(x)
        BY <1>0, <3>2
      <3> QED
        BY <3>1, <3>2
    <2> QED
      BY <2>1, <2>2
  <1>8. greedyTimes' \in [Slot -> 0 .. GreedyThreshold]
    <2>1. greedyTimes' = [x \in Slot |->
              IF IsKept(x) THEN GreedyTimes(x[1], x[2], Kept(x[1]), avail'[x[1]]) ELSE 0]
      BY DEF CalObjectRate
    <2>2. ASSUME NEW x \in Slot
          PROVE  (IF IsKept(x) THEN GreedyTimes(x[1], x[2], Kept(x[1]), avail'[x[1]]) ELSE 0) \in 0 .. GreedyThreshold
      <3>1. CASE IsKept(x)
        <4>1. GreedyTimes(x[1], x[2], Kept(x[1]), avail'[x[1]]) \in 0 .. GreedyThreshold
          BY <1>6, <3>1, GreedyTimesAre
        <4> QED
          BY <3>1, <4>1
      <3>2. CASE ~IsKept(x)
        BY <3>2, LimitAssumption
      <3> QED
        BY <3>1, <3>2
    <2> QED
      BY <2>1, <2>2
  <1>9. penalised' \in [Slot -> BOOLEAN] /\ size' \in [Slot -> {VqSize, PenalisedSize}]
    <2>1. /\ penalised' = [x \in Slot |->
                IsKept(x) /\ (penalised[x] \/ Caught(x[1], x[2], Kept(x[1]), avail'[x[1]]))]
          /\ size' = [x \in Slot |->
                IF ~IsKept(x) THEN VqSize
                ELSE IF Caught(x[1], x[2], Kept(x[1]), avail'[x[1]]) THEN PenalisedSize ELSE size[x]]
      BY DEF CalObjectRate
    <2>2. size \in [Slot -> {VqSize, PenalisedSize}]
      BY <1>0 DEF TypeOK
    <2> HIDE DEF IsKept, Caught, Kept
    <2> QED
      BY <2>1, <2>2
  <1>10. ASSUME NEW x \in Slot, ~penalised'[x] PROVE size'[x] = VqSize /\ waiting'[x] <= VqSize
    <2>0. waiting \in [Slot -> 0 .. Longest] /\ VqSize \in Nat /\ waiting'[x] = waiting[x]
      BY <1>0, <1>3, LimitAssumption DEF TypeOK
    <2>1. CASE IsKept(x)
      <3>1. ~penalised[x] /\ ~Caught(x[1], x[2], Kept(x[1]), avail'[x[1]])
        BY <1>10, <2>1 DEF CalObjectRate
      <3>2. size'[x] = size[x]
        BY <2>1, <3>1 DEF CalObjectRate
      <3> QED
        BY <2>0, <3>1, <3>2 DEF Typed
    <2>2. CASE ~IsKept(x)
      <3>1. size'[x] = VqSize
        BY <2>2 DEF CalObjectRate
      <3>2. x[1] \in Class /\ x[2] \in Flow /\ x = <<x[1], x[2]>>
        BY DEF Slot
      <3>3. waiting[x] \in Nat /\ ~(waiting[x] > 0)
        <4>1. waiting[x] \in Nat
          BY <2>0
        <4>2. x[2] \notin known[x[1]] => ~(waiting[<<x[1], x[2]>>] > 0)
          BY <3>2 DEF WaitsKnown
        <4>3. x[2] \in known[x[1]] => waiting[<<x[1], x[2]>>] = 0
          BY <2>2 DEF IsKept, Kept, Gone
        <4>4. ~(waiting[<<x[1], x[2]>>] > 0)
          BY <4>2, <4>3
        <4> QED
          BY <3>2, <4>1, <4>4
      <3> QED
        BY <2>0, <3>1, <3>3
    <2> QED
      BY <2>1, <2>2
  <1>11. TypeOK'
    BY <1>0, <1>1, <1>3, <1>4, <1>5, <1>7, <1>8, <1>9 DEF TypeOK
  <1> QED
    BY <1>4, <1>10, <1>11 DEF Typed

LEMMA TypedStep == Memory /\ Typed /\ [Next]_vars => Typed'
  <1> SUFFICES ASSUME Memory, Typed, [Next]_vars PROVE Typed'
    OBVIOUS
  <1>1. ASSUME NEW i \in Offer, AppendInterest(i.class, i.flow, i.dsz, i.marked)
        PROVE  Typed'
    <2>1. i.class \in Class /\ i.flow \in Flow /\ i.dsz \in Nat /\ i.marked \in BOOLEAN
      BY OfferAssumption
    <2> QED
      BY <1>1, <2>1, AppendTyped
  <1>2. ASSUME NEW c \in Class, NEW f \in Flow, ScheduleNext(c, f)
        PROVE  Typed'
    BY <1>2, ScheduleTyped
  <1>3. CASE CalObjectRate
    BY <1>3, CalObjectRateTyped DEF Memory
  <1>4. CASE ReceiveInterest
    <2>1. received' \in 0 .. MaxReceived
      <3>1. received \in 0 .. MaxReceived /\ received < MaxReceived /\ received' = received + 1
        BY <1>4 DEF ReceiveInterest, Typed, TypeOK
      <3> QED
        BY <3>1, BoundAssumption
    <2>2. UNCHANGED <<flowVars, avail, weight, served, settled, quiet, arrivals>>
      BY <1>4 DEF ReceiveInterest
    <2> QED
      BY <2>1, <2>2 DEF Typed, TypeOK, flowVars
  <1>5. CASE UNCHANGED vars
    BY <1>5 DEF Typed, TypeOK, vars, flowVars, linkVars
  <1> QED
    BY <1>1, <1>2, <1>3, <1>4, <1>5 DEF Next

(* Rates, bandwidths and counters keep their types: in particular, the rate  *)
(* that calObjectRate computes fits its word whatever was measured, and      *)
(* totalWeight stays off by what it was off by when it was not initialized.  *)
THEOREM TypeCorrect == Spec => []TypeOK
  <1>1. Typed => TypeOK
    BY DEF Typed
  <1> QED
    BY MemoryAlways, TypedInit, TypedStep, <1>1, PTL DEF Spec

-----------------------------------------------------------------------------
(* What Data finds.                                                        *)

(* A flow is known until two intervals have ended since its last Interest:   *)
(* the bits of that Interest are counted until the first of them ends, since *)
(* all that was offered fits the word together.                            *)
Quiet == \A c \in Class, f \in Flow :
    /\ quiet[<<c, f>>] < 2 => f \in known[c]
    /\ quiet[<<c, f>>] = 0 => recv[<<c, f>>] > 0
    /\ MaxArrivals * recv[<<c, f>>] <= arrivals * (Wrap - 1)

(* An Interest has left with the number it came with or with its class's.    *)
Numbered == \A x \in served :
    x.class \in Class /\ x.flow \in Flow /\ x.number \in {x.class, Tos[x.class]}

LEMMA BitsAdd ==
    ASSUME NEW b \in Nat, NEW d \in Nat, NEW a \in Nat, a < MaxArrivals,
           MaxArrivals * b <= a * (Wrap - 1), MaxArrivals * d < Wrap
    PROVE  /\ (b + d) % Wrap = b + d
           /\ MaxArrivals * (b + d) <= (a + 1) * (Wrap - 1)
           /\ a * (Wrap - 1) <= (a + 1) * (Wrap - 1)
  <1> DEFINE M == MaxArrivals
             W == Wrap
             V == W - 1
             s == b + d
  <1>1. M \in Nat \ {0} /\ W \in Nat \ {0} /\ V \in Nat /\ s \in Nat /\ a + 1 <= M
    BY BoundAssumption, WrapIs
  <1>2. M * b <= a * V /\ M * d < W
    OBVIOUS
  <1> HIDE DEF M, W
  <1>3. M * b \in Int /\ M * d \in Int /\ a * V \in Int /\ M * d <= V
    BY <1>1, <1>2
  <1>4. M * s = M * b + M * d /\ (a + 1) * V = a * V + 1 * V /\ 1 * V = V
    BY <1>1, Distributes
  <1> HIDE DEF V, s
  <1>5. M * s <= (a + 1) * V /\ a * V <= (a + 1) * V
    BY <1>1, <1>2, <1>3, <1>4
  <1>6. s <= V
    <2>1. V * (a + 1) <= V * M /\ V * (a + 1) = (a + 1) * V /\ V * M = M * V
      BY <1>1, ProductsOrdered, Distributes
    <2>2. M * s \in Int /\ M * V \in Int /\ (a + 1) * V \in Int
      BY <1>1
    <2>3. M * s <= M * V
      BY <1>5, <2>1, <2>2
    <2> QED
      BY <1>1, <2>3, ProductsCancel
  <1>7. s % W = s
    <2>1. s \in 0 .. W - 1
      BY <1>1, <1>6 DEF V
    <2> QED
      BY <1>1, <2>1
  <1> QED
    BY <1>5, <1>7 DEF M, W, V, s

LEMMA QuietInit == Init => Quiet
  <1> SUFFICES ASSUME Init PROVE Quiet
    OBVIOUS
  <1>1. quiet = [x \in Slot |-> 2] /\ recv = [x \in Slot |-> 0] /\ arrivals = 0
    BY DEF Init
  <1>2. MaxArrivals * 0 = 0 /\ 0 * (Wrap - 1) = 0
    BY BoundAssumption, WrapIs
  <1> QED
    BY <1>1, <1>2 DEF Quiet, Slot

LEMMA AppendQuiet ==
  ASSUME BitsFit, Typed, Quiet, NEW i \in Offer, AppendInterest(i.class, i.flow, i.dsz, i.marked)
  PROVE  Quiet'
  <1> DEFINE c == i.class
             f == i.flow
             d == i.dsz
             V == Wrap - 1
             b == recv[<<c, f>>]
             a == arrivals
  <1>1. c \in Class /\ f \in Flow /\ d \in Nat \ {0} /\ <<c, f>> \in Slot
    BY OfferAssumption DEF Slot
  <1>2. /\ arrivals < MaxArrivals /\ arrivals' = arrivals + 1
        /\ recv' = [recv EXCEPT ![<<c, f>>] = (@ + d) % Wrap]
        /\ quiet' = [quiet EXCEPT ![<<c, f>>] = 0]
        /\ known' = known \/ known' = [known EXCEPT ![c] = @ \cup {f}]
        /\ f \in known[c] \/ known' = [known EXCEPT ![c] = @ \cup {f}]
    BY DEF AppendInterest
  <1>3. /\ recv \in [Slot -> 0 .. Wrap - 1] /\ quiet \in [Slot -> 0 .. 2]
        /\ known \in [Class -> SUBSET Flow] /\ arrivals \in Nat
    BY BoundAssumption DEF Typed, TypeOK
  <1>4. b \in Nat /\ recv \in [Slot -> Nat]
    BY <1>1, <1>3
  <1>5. MaxArrivals * b <= a * V /\ MaxArrivals * d < Wrap
    BY <1>1 DEF Quiet, BitsFit
  <1>6. /\ (b + d) % Wrap = b + d
        /\ MaxArrivals * (b + d) <= (a + 1) * V
        /\ a * V <= (a + 1) * V
    BY <1>1, <1>2, <1>3, <1>4, <1>5, BitsAdd
  <1>7. recv'[<<c, f>>] = b + d /\ \A y \in Slot : y # <<c, f>> => recv'[y] = recv[y]
    BY <1>1, <1>2, <1>4, <1>6
  <1>8. quiet'[<<c, f>>] = 0 /\ \A y \in Slot : y # <<c, f>> => quiet'[y] = quiet[y]
    BY <1>1, <1>2, <1>3
  <1>9. f \in known'[c] /\ \A e \in Class : known[e] \subseteq known'[e]
    BY <1>1, <1>2, <1>3
  <1>10. ASSUME NEW e \in Class, NEW g \in Flow
         PROVE  /\ quiet'[<<e, g>>] < 2 => g \in known'[e]
                /\ quiet'[<<e, g>>] = 0 => recv'[<<e, g>>] > 0
                /\ MaxArrivals * recv'[<<e, g>>] <= arrivals' * (Wrap - 1)
    <2>1. CASE <<e, g>> = <<c, f>>
      <3>1. b + d > 0
        BY <1>1, <1>4
      <3>2. MaxArrivals * recv'[<<c, f>>] <= arrivals' * (Wrap - 1)
        BY <1>2, <1>6, <1>7
      <3> QED
        BY <1>7, <1>9, <2>1, <3>1, <3>2
    <2>2. CASE <<e, g>> # <<c, f>>
      <3>1. <<e, g>> \in Slot /\ recv'[<<e, g>>] = recv[<<e, g>>] /\ quiet'[<<e, g>>] = quiet[<<e, g>>]
        BY <1>7, <1>8, <2>2 DEF Slot
      <3>2. /\ quiet[<<e, g>>] < 2 => g \in known[e]
            /\ quiet[<<e, g>>] = 0 => recv[<<e, g>>] > 0
            /\ MaxArrivals * recv[<<e, g>>] <= a * V
        BY DEF Quiet
      <3>3. MaxArrivals * recv[<<e, g>>] <= (a + 1) * V
        <4> DEFINE p == MaxArrivals * recv[<<e, g>>]
                   q == a * V
                   r == (a + 1) * V
        <4>1. p \in Int /\ q \in Int /\ r \in Int /\ p <= q /\ q <= r
          BY <1>3, <1>4, <1>6, <3>1, <3>2, BoundAssumption, WrapIs
        <4> HIDE DEF p, q, r
        <4>2. p <= r
          BY <4>1
        <4> QED
          BY <4>2 DEF p, r
      <3>4. MaxArrivals * recv'[<<e, g>>] <= arrivals' * (Wrap - 1)
        BY <1>2, <3>1, <3>3
      <3> QED
        BY <1>9, <3>1, <3>2, <3>4
    <2> QED
      BY <2>1, <2>2
  <1> QED
    BY <1>10 DEF Quiet

LEMMA CalObjectRateQuiet ==
  ASSUME Typed, Quiet, CalObjectRate
  PROVE  Quiet'
  <1>1. /\ known' = [c \in Class |-> Kept(c)]
        /\ recv' = [x \in Slot |-> 0]
        /\ quiet' = [x \in Slot |-> Lesser(quiet[x] + 1, 2)]
        /\ UNCHANGED arrivals
    BY DEF CalObjectRate
  <1>2. /\ recv \in [Slot -> 0 .. Wrap - 1] /\ quiet \in [Slot -> 0 .. 2] /\ arrivals \in Nat
    BY BoundAssumption DEF Typed, TypeOK
  <1>3. MaxArrivals * 0 = 0 /\ 0 <= arrivals * (Wrap - 1)
    <2> DEFINE V == Wrap - 1
    <2>1. V \in Nat
      BY WrapIs
    <2> HIDE DEF V
    <2>2. 0 <= arrivals * V
      BY <1>2, <2>1
    <2>3. MaxArrivals * 0 = 0
      BY BoundAssumption
    <2> QED
      BY <2>2, <2>3 DEF V
  <1>4. ASSUME NEW c \in Class, NEW f \in Flow
        PROVE  /\ quiet'[<<c, f>>] < 2 => f \in known'[c]
               /\ quiet'[<<c, f>>] = 0 => recv'[<<c, f>>] > 0
               /\ MaxArrivals * recv'[<<c, f>>] <= arrivals' * (Wrap - 1)
    <2> DEFINE q == quiet[<<c, f>>]
    <2>1. <<c, f>> \in Slot /\ q \in 0 .. 2
      BY <1>2 DEF Slot
    <2>2. quiet'[<<c, f>>] = Lesser(q + 1, 2)
      BY <1>1, <2>1
    <2>3. recv'[<<c, f>>] = 0 /\ arrivals' = arrivals
      BY <1>1, <2>1
    <2>4. q = 0 => f \in known[c] /\ ~(recv[<<c, f>>] = 0)
      <3>1. q < 2 => f \in known[c]
        BY DEF Quiet
      <3>2. q = 0 => recv[<<c, f>>] > 0
        BY DEF Quiet
      <3> QED
        BY <3>1, <3>2
    <2> HIDE DEF q
    <2>5. quiet'[<<c, f>>] # 0 /\ (quiet'[<<c, f>>] < 2 => q = 0)
      BY <2>1, <2>2 DEF Lesser
    <2>6. q = 0 => f \in known'[c]
      BY <1>1, <2>4 DEF Kept, Gone
    <2>7. MaxArrivals * recv'[<<c, f>>] <= arrivals' * (Wrap - 1)
      BY <1>3, <2>3
    <2> QED
      BY <2>5, <2>6, <2>7
  <1> QED
    BY <1>4 DEF Quiet

LEMMA QuietStep == BitsFit /\ Typed /\ Quiet /\ [Next]_vars => Quiet'
  <1> SUFFICES ASSUME BitsFit, Typed, Quiet, [Next]_vars PROVE Quiet'
    OBVIOUS
  <1>1. ASSUME NEW i \in Offer, AppendInterest(i.class, i.flow, i.dsz, i.marked)
        PROVE  Quiet'
    BY <1>1, AppendQuiet
  <1>2. CASE CalObjectRate
    BY <1>2, CalObjectRateQuiet
  <1>3. CASE UNCHANGED <<known, recv, quiet, arrivals>>
    BY <1>3 DEF Quiet
  <1>4. ASSUME NEW c \in Class, NEW f \in Flow, ScheduleNext(c, f)
        PROVE  Quiet'
    BY <1>3, <1>4 DEF ScheduleNext
  <1>5. CASE ReceiveInterest
    BY <1>3, <1>5 DEF ReceiveInterest, flowVars
  <1>6. CASE UNCHANGED vars
    BY <1>3, <1>6 DEF vars, flowVars
  <1> QED
    BY <1>1, <1>2, <1>4, <1>5, <1>6 DEF Next

LEMMA NumberedStep == Numbered /\ [Next]_vars => Numbered'
  <1> SUFFICES ASSUME Numbered, [Next]_vars PROVE Numbered'
    OBVIOUS
  <1>1. ASSUME NEW c \in Class, NEW f \in Flow, ScheduleNext(c, f)
        PROVE  Numbered'
    <2> DEFINE y == [class |-> c, flow |-> f, number |-> Number(c, f)]
    <2>1. served' = served \cup {y}
      BY <1>1 DEF ScheduleNext
    <2>2. y.class = c /\ y.flow = f /\ y.number \in {c, Tos[c]}
      BY DEF Number
    <2> HIDE DEF y
    <2> QED
      BY <2>1, <2>2 DEF Numbered
  <1>2. CASE UNCHANGED served
    BY <1>2 DEF Numbered
  <1> QED
    BY <1>1, <1>2 DEF Next, AppendInterest, ReceiveInterest, CalObjectRate, vars

(* Data is told the rate of the flow that its Interest was served from, by    *)
(* whatever hops the Interest went on, until the flow has been quiet for two  *)
(* ends of an interval and none of its Interests waits; where the class      *)
(* writes its own number on packets, and no count of bits wraps around.      *)
THEOREM DataFindsItsFlow == Spec => []AnswersKnown
  <1>1. Memory /\ Numbered /\ (BitsFit => Quiet) => AnswersKnown
    <2> SUFFICES ASSUME Memory, Numbered, Quiet, NEW x \in served, Tos[x.class] = x.class,
                        quiet[<<x.class, x.flow>>] < 2 \/ waiting[<<x.class, x.flow>>] > 0,
                        NEW n \in Carried(x.number), NEW r \in Asked
                 PROVE  /\ x.flow \in known[n]
                        /\ TargetRate(n, x.flow, r) = DownstreamRate(x.class, x.flow, r)
      BY DEF AnswersKnown
    <2>1. x.class \in Class /\ x.flow \in Flow /\ x.number = x.class
      BY DEF Numbered
    <2>2. n = x.class
      <3> DEFINE S == {x.class}
      <3>1. S \in SUBSET Class /\ x.number \in S /\ \A k \in S : Tos[k] \in S
        BY <2>1
      <3> HIDE DEF S
      <3>2. n \in S
        BY <3>1 DEF Carried
      <3> QED
        BY <3>2 DEF S
    <2>3. x.flow \in known[x.class]
      BY <2>1 DEF Quiet, Memory, WaitsKnown
    <2> QED
      BY <2>2, <2>3 DEF TargetRate, DownstreamRate, ObjectRate
  <1>2. Init => Numbered
    BY DEF Init, Numbered
  <1>3. CASE BitsFit
    BY <1>3, MemoryAlways, TypedInit, TypedStep, QuietInit, QuietStep, <1>1, <1>2, NumberedStep, PTL DEF Spec
  <1>4. CASE ~BitsFit
    BY <1>4, MemoryAlways, <1>1, <1>2, NumberedStep, PTL DEF Spec
  <1> QED
    BY <1>3, <1>4

-----------------------------------------------------------------------------
(* Rates within what a class has.                                          *)

LEMMA CountedAtMost ==
    ASSUME FewFlows, Typed, NEW c, NEW K, NEW A, Sharing(c, K, A), NEW f \in K
    PROVE  Counted(c, f, K, A) <= (Wrap - 1) \div Interval + Margin
  <1> DEFINE m == (Wrap - 1) \div Interval
             b == Base(c, f, K, A)
             r == Flowing(c, f)
  <1>1. c \in Class /\ f \in Flow
    BY DEF Sharing
  <1>2. b \in Nat /\ b <= A /\ A \in 0 .. Wrap - 1
    BY BaseIs DEF Sharing
  <1>3. r \in Nat /\ r <= m
    BY <1>1, FlowingIs
  <1>4. Wrap \in Nat \ {0} /\ Margin \in Nat
    BY WrapIs, LimitAssumption
  <1>5. m \in Nat
    <2> DEFINE y == Wrap - 1
    <2>1. y \in Nat /\ Interval \in Nat \ {0}
      BY <1>4, TimeAssumption
    <2> HIDE DEF y
    <2>2. y \div Interval \in Nat
      BY <2>1, QuotientIs
    <2> QED
      BY <2>2 DEF y
  <1>6. Counted(c, f, K, A) = IF Fast(c, f, K, A) THEN b ELSE r
    BY DEF Counted
  <1>7. Fast(c, f, K, A) => r > (b - Margin) % Wrap
    BY DEF Fast
  <1> HIDE DEF m, b, r, Wrap
  <1>8. CASE ~Fast(c, f, K, A)
    <2>1. r <= m + Margin
      BY <1>3, <1>4, <1>5
    <2> QED
      BY <1>6, <1>8, <2>1 DEF m
  <1>9. CASE Fast(c, f, K, A)
    <2>1. CASE b < Margin
      BY <1>2, <1>4, <1>5, <1>6, <1>9, <2>1 DEF m
    <2>2. CASE b >= Margin
      <3> DEFINE d == b - Margin
      <3>1. d \in 0 .. Wrap - 1
        BY <1>2, <1>4, <2>2
      <3> HIDE DEF d
      <3>2. (Wrap * 0 + d) % Wrap = d /\ Wrap * 0 + d = d
        BY <1>4, <3>1, RemainderOf
      <3>3. r > d
        BY <1>7, <1>9, <3>2 DEF d
      <3>4. b <= m + Margin
        BY <1>2, <1>3, <1>4, <1>5, <3>3 DEF d
      <3> QED
        BY <1>6, <1>9, <3>4 DEF m
    <2> QED
      BY <1>2, <1>4, <2>1, <2>2
  <1> QED
    BY <1>8, <1>9

(* So what is consumed is not wrapped around.                               *)
LEMMA ConsumedExact ==
    ASSUME FewFlows, Typed, NEW c, NEW K, NEW A, Sharing(c, K, A)
    PROVE  Consumed(c, K, A) = CountedSum(c, K, A)
  <1> DEFINE g == [f \in K |-> Counted(c, f, K, A)]
             m == (Wrap - 1) \div Interval + Margin
             s == CountedSum(c, K, A)
  <1>1. IsFiniteSet(K) /\ K \subseteq Flow /\ IsFiniteSet(Flow) /\ m * Cardinality(Flow) < Wrap
    BY DEF Sharing, FewFlows
  <1>2. s = SumFunctionOnSet(g, K) /\ s \in Nat /\ Consumed(c, K, A) = s % Wrap
    BY CountedIs DEF CountedSum, SumFunction
  <1>3. \A f \in K : g[f] \in Int /\ g[f] <= m
    <2> SUFFICES ASSUME NEW f \in K PROVE Counted(c, f, K, A) \in Int /\ Counted(c, f, K, A) <= m
      OBVIOUS
    <2> QED
      BY CountedIs, CountedAtMost
  <1>4. Wrap \in Nat \ {0} /\ m \in Nat
    <2> DEFINE y == Wrap - 1
    <2>1. y \in Nat /\ Interval \in Nat \ {0} /\ Margin \in Nat /\ Wrap \in Nat \ {0}
      BY WrapIs, TimeAssumption, LimitAssumption
    <2> HIDE DEF y
    <2>2. y \div Interval \in Nat
      BY <2>1, QuotientIs
    <2> QED
      BY <2>1, <2>2 DEF y
  <1> HIDE DEF g, m, s, Wrap
  <1>5. s <= m * Cardinality(K)
    BY <1>1, <1>2, <1>3, <1>4, SumBounded
  <1>6. Cardinality(K) \in Nat /\ Cardinality(Flow) \in Nat /\ Cardinality(K) <= Cardinality(Flow)
    BY <1>1, FS_Subset, FS_CardinalityType
  <1>7. m * Cardinality(K) <= m * Cardinality(Flow) /\ m * Cardinality(K) \in Int /\ m * Cardinality(Flow) \in Int
    BY <1>4, <1>6, ProductsOrdered, Distributes
  <1>8. s \in 0 .. Wrap - 1
    BY <1>1, <1>2, <1>4, <1>5, <1>7
  <1>9. (Wrap * 0 + s) % Wrap = s /\ Wrap * 0 + s = s
    BY <1>4, <1>8, RemainderOf
  <1> QED
    BY <1>2, <1>9 DEF s

(* Flows without a penalty share alike.                                     *)
LEMMA SameBase ==
    ASSUME NEW c, NEW K, NEW A, NEW f, NEW g, ~penalised[<<c, f>>], ~penalised[<<c, g>>]
    PROVE  Base(c, f, K, A) = Base(c, g, K, A)
  BY DEF Base, Halves

(* What the fast flows may use is consumed.                                 *)
LEMMA FastConsume ==
    ASSUME Typed, NEW c, NEW K, NEW A, Sharing(c, K, A), NEW f \in K, ~penalised[<<c, f>>]
    PROVE  Cardinality(FastFlows(c, K, A)) * Base(c, f, K, A) <= CountedSum(c, K, A)
  <1> DEFINE g == [x \in K |-> Counted(c, x, K, A)]
             F == FastFlows(c, K, A)
             b == Base(c, f, K, A)
             n == Cardinality(F)
             s == CountedSum(c, K, A)
  <1>1. /\ IsFiniteSet(K) /\ F \subseteq K /\ IsFiniteSet(F) /\ IsFiniteSet(K \ F) /\ n \in Nat
        /\ b \in Nat
    <2>1. IsFiniteSet(K) /\ F \in SUBSET K /\ IsFiniteSet(F) /\ n \in Nat
      BY FastFlowsAre DEF Sharing
    <2>2. b \in Nat
      BY BaseIs
    <2> HIDE DEF F
    <2>3. IsFiniteSet(K \ F)
      BY <2>1, FS_Difference
    <2> QED
      BY <2>1, <2>2, <2>3
  <1>2. s = SumFunctionOnSet(g, K) /\ \A x \in K : g[x] \in Nat
    BY CountedIs DEF CountedSum, SumFunction
  <1>3. ASSUME NEW x \in F PROVE g[x] = b
    <2>1. x \in K /\ ~penalised[<<c, x>>] /\ Fast(c, x, K, A)
      BY <1>3 DEF FastFlows
    <2>2. g[x] = Base(c, x, K, A)
      BY <2>1 DEF Counted
    <2>3. Base(c, x, K, A) = Base(c, f, K, A)
      BY <2>1, SameBase
    <2> QED
      BY <2>2, <2>3
  <1> HIDE DEF g, F, b, s, n
  <1>4. SumFunctionOnSet(g, K) = SumFunctionOnSet(g, F) + SumFunctionOnSet(g, K \ F)
    BY <1>1, <1>2, SumSplit
  <1>5. SumFunctionOnSet(g, K \ F) \in Nat
    BY <1>1, <1>2, SumNat
  <1>6. SumFunctionOnSet(g, F) = b * n
    <2>1. SumFunctionOnSet(g, F) = b * Cardinality(F)
      BY <1>1, <1>3, SumConstant
    <2> QED
      BY <2>1 DEF n
  <1>7. b * n = n * b /\ n * b \in Int
    BY <1>1, Distributes
  <1>8. n * b <= s
    BY <1>2, <1>4, <1>5, <1>6, <1>7
  <1> QED
    BY <1>8 DEF n, F, b, s

LEMMA RateFits ==
    ASSUME FewFlows, Typed, NEW c, NEW K, NEW A, Sharing(c, K, A), NEW f \in K
    PROVE  Discounted(c, f, K, A) <= A
  <1> DEFINE n == Cardinality(FastFlows(c, K, A))
             b == Base(c, f, K, A)
             l == Lent(c, K, A)
             o == Boosted(c, f, K, A)
             d == Discounted(c, f, K, A)
             u == Consumed(c, K, A)
  <1>1. b \in Nat /\ b <= A /\ A \in Nat
    BY BaseIs
  <1>2. l \in Nat /\ (l > 0 => FastFlows(c, K, A) # {} /\ n * l <= A - u)
    BY LentIs
  <1>3. d \in Nat /\ o \in Nat /\ d <= o /\ o <= b + (IF Receives(c, f, K, A) THEN l ELSE 0)
    <2>1. o \in 0 .. Wrap - 1 /\ o <= b + (IF Receives(c, f, K, A) THEN l ELSE 0)
      BY BoostedIs
    <2>2. d \in 0 .. Wrap - 1 /\ d <= o
      BY DiscountedIs
    <2> HIDE DEF o, d, b, l
    <2> QED
      BY <2>1, <2>2
  <1>4. CASE Receives(c, f, K, A) /\ l > 0
    <2>1. ~penalised[<<c, f>>]
      BY <1>4 DEF Receives
    <2>2. n * b <= u /\ u \in Nat
      <3>1. u \in 0 .. Wrap - 1 /\ u = CountedSum(c, K, A)
        BY CountedIs, ConsumedExact
      <3> HIDE DEF u
      <3> QED
        BY <2>1, <3>1, FastConsume
    <2>3. n \in Nat \ {0} /\ n * l <= A - u
      BY <1>2, <1>4, FastFlowsAre
    <2> HIDE DEF n, b, l, o, d, u
    <2>4. n * (b + l) = n * b + n * l /\ n * b \in Int /\ n * l \in Int
      BY <1>1, <1>2, <2>3, Distributes
    <2>5. b + l <= n * (b + l)
      <3> DEFINE x == b + l
      <3>1. x \in Nat
        BY <1>1, <1>2
      <3> HIDE DEF x
      <3>2. x * 1 <= x * n /\ x * n = n * x /\ x * 1 = x
        BY <2>3, <3>1, ProductsOrdered, Distributes
      <3>3. x <= n * x
        BY <3>2
      <3> QED
        BY <3>3 DEF x
    <2>6. b + l <= A
      BY <1>1, <1>2, <2>2, <2>3, <2>4, <2>5
    <2>7. d <= A
      BY <1>1, <1>2, <1>3, <1>4, <2>6
    <2> QED
      BY <2>7 DEF d
  <1>5. CASE ~(Receives(c, f, K, A) /\ l > 0)
    <2> HIDE DEF n, b, l, o, d, u
    <2>1. d <= A
      BY <1>1, <1>2, <1>3, <1>5
    <2> QED
      BY <2>1 DEF d
  <1> QED
    BY <1>4, <1>5

Within == \A c \in Class : settled[c] => \A f \in known[c] : rate[<<c, f>>] <= avail[c]

LEMMA WithinStep == FewFlows /\ Memory /\ Typed /\ Within /\ [Next]_vars => Within'
  <1> SUFFICES ASSUME FewFlows, Memory, Typed, Within, [Next]_vars PROVE Within'
    OBVIOUS
  <1>0. TypeOK
    BY DEF Typed
  <1>1. ASSUME NEW c \in Class, NEW f \in Flow, NEW dsz, NEW marked, AppendInterest(c, f, dsz, marked)
        PROVE  Within'
    <2>1. CASE f \in known[c]
      <3>1. UNCHANGED <<known, rate, settled, avail>>
        BY <1>1, <2>1 DEF AppendInterest
      <3> QED
        BY <3>1 DEF Within
    <2>2. CASE f \notin known[c]
      <3>1. /\ known' = [known EXCEPT ![c] = @ \cup {f}]
            /\ rate' = [x \in Slot |->
                  IF x[1] = c /\ x[2] \in known'[c] THEN FirstRate(c, x[2], weight'[c]) ELSE rate[x]]
            /\ settled' = [settled EXCEPT ![c] = FALSE]
            /\ avail' = avail
        BY <1>1, <2>2 DEF AppendInterest
      <3> SUFFICES ASSUME NEW d \in Class, settled'[d], NEW g \in known'[d]
                   PROVE  rate'[<<d, g>>] <= avail'[d]
        BY DEF Within
      <3>2. d # c /\ settled[d] /\ g \in known[d]
        BY <1>0, <3>1 DEF TypeOK
      <3>3. <<d, g>> \in Slot
        BY <1>0, <3>2 DEF TypeOK, Slot
      <3>4. rate'[<<d, g>>] = rate[<<d, g>>]
        BY <3>1, <3>2, <3>3
      <3> QED
        BY <3>1, <3>2, <3>4 DEF Within
    <2> QED
      BY <2>1, <2>2
  <1>2. CASE CalObjectRate
    <2>1. Typed'
      BY <1>2, CalObjectRateTyped DEF Memory
    <2> SUFFICES ASSUME NEW c \in Class, NEW f \in known'[c]
                 PROVE  rate'[<<c, f>>] <= avail'[c]
      BY DEF Within
    <2>2. f \in Kept(c)
      BY <1>2 DEF CalObjectRate
    <2>3. avail'[c] \in 0 .. Wrap - 1
      <3>1. avail' \in [Class -> 0 .. Wrap' - 1]
        BY <2>1 DEF Typed, TypeOK
      <3>2. Wrap' = Wrap
        BY DEF Wrap
      <3> QED
        BY <3>1, <3>2
    <2>4. Sharing(c, Kept(c), avail'[c])
      BY <2>3, SharingIs
    <2>5. f \in Flow /\ <<c, f>> \in Slot
      BY <2>2, KeptAre DEF Slot
    <2>6. IsKept(<<c, f>>)
      BY <2>2 DEF IsKept
    <2>7. rate'[<<c, f>>] = Discounted(c, f, Kept(c), avail'[c])
      <3>1. rate' = [x \in Slot |->
                IF IsKept(x) THEN Discounted(x[1], x[2], Kept(x[1]), avail'[x[1]]) ELSE 0]
        BY <1>2 DEF CalObjectRate
      <3> DEFINE x == <<c, f>>
      <3>2. x[1] = c /\ x[2] = f
        OBVIOUS
      <3> HIDE DEF x
      <3>3. rate'[x] = Discounted(c, f, Kept(c), avail'[c])
        BY <2>5, <2>6, <3>1, <3>2 DEF x
      <3> QED
        BY <3>3 DEF x
    <2> QED
      BY <2>2, <2>4, <2>7, RateFits
  <1>3. CASE UNCHANGED <<known, rate, settled, avail>>
    BY <1>3 DEF Within
  <1>4. ASSUME NEW i \in Offer, AppendInterest(i.class, i.flow, i.dsz, i.marked)
        PROVE  Within'
    <2>1. i.class \in Class /\ i.flow \in Flow
      BY OfferAssumption
    <2> QED
      BY <1>1, <1>4, <2>1
  <1> QED
    BY <1>2, <1>3, <1>4 DEF Next, ScheduleNext, ReceiveInterest, vars, flowVars, linkVars

(* After an interval without new flows, no flow of a class is told more than  *)
(* the class has, although the flows that are lent to need not be those that  *)
(* were counted: fast flows share alike, and what they may use is counted as  *)
(* consumed before the rest is divided by their number.                      *)
THEOREM RatesStayWithin ==
  ASSUME FewFlows
  PROVE  Spec => []RatesWithinClass
  <1>1. Init => Within
    BY DEF Init, Within
  <1>2. Typed /\ Within => RatesWithinClass
    <2> SUFFICES ASSUME Typed, Within, NEW c \in Class, settled[c], NEW f \in known[c], NEW r \in Asked
                 PROVE  DownstreamRate(c, f, r) <= avail[c]
      BY DEF RatesWithinClass
    <2>1. <<c, f>> \in Slot
      BY DEF Typed, TypeOK, Slot
    <2>2. rate[<<c, f>>] \in Int /\ avail[c] \in Int /\ r \in Int /\ rate[<<c, f>>] <= avail[c]
      BY <2>1, SizeAssumption DEF Typed, TypeOK, Within
    <2> QED
      BY <2>2 DEF DownstreamRate, Lesser
  <1>3. Memory /\ Typed /\ Within /\ [Next]_vars => Within'
    BY WithinStep
  <1> QED
    BY MemoryAlways, TypedInit, TypedStep, <1>1, <1>2, <1>3, PTL DEF Spec

-----------------------------------------------------------------------------
(* The weighted classes fit what is left of the link.                      *)

(* What a class counts for: its share if it is busy, or what it uses.       *)
Counts(c) == IF Busy(c) THEN Share(c) ELSE ClassFlowing(c)
CountsOf == [c \in WFQ |-> Counts(c)]

LEMMA SharesAre ==
    ASSUME Typed, NEW c \in WFQ
    PROVE  /\ Share(c) \in Nat
           /\ TotalWeight * Share(c) <= Remain * Weight[c]
           /\ Remain * Weight[c] < TotalWeight * (Share(c) + 1)
  <1>1. Weight[c] \in Nat /\ TotalWeight \in Nat \ {0}
    BY WeightIs
  <1>2. Remain \in Nat
    BY RemainIs, WrapIs
  <1> DEFINE R == Remain
             w == TotalWeight
             x == Weight[c] * R
  <1>3. Share(c) = x \div w
    BY DEF Share
  <1>4. x \in Nat /\ x = R * Weight[c]
    BY <1>1, <1>2, Distributes
  <1> HIDE DEF R, w, x
  <1>5. x \div w \in Nat /\ w * (x \div w) <= x /\ x < w * (x \div w) + w
    BY <1>1, <1>4, QuotientIs DEF w
  <1> DEFINE s == x \div w
  <1>6. s \in Nat /\ w \in Nat \ {0} /\ w * s <= x /\ x < w * s + w
    BY <1>1, <1>5 DEF w
  <1> HIDE DEF s
  <1>7. w * (s + 1) = w * s + w * 1 /\ w * 1 = w /\ w * s \in Int
    BY <1>6, Distributes
  <1>8. x < w * (s + 1)
    BY <1>4, <1>6, <1>7
  <1> QED
    BY <1>3, <1>4, <1>6, <1>8 DEF s, w, R

LEMMA CountsAre ==
    ASSUME Typed, NEW c \in WFQ
    PROVE  Counts(c) \in Nat /\ Counts(c) <= Share(c) /\ CountsOf[c] = Counts(c)
  <1>1. ClassFlowing(c) \in Nat /\ Share(c) \in Nat /\ Remain * Weight[c] < TotalWeight * (Share(c) + 1)
    BY ClassFlowingIs, SharesAre DEF Class
  <1>2. Weight[c] \in Nat /\ TotalWeight \in Nat \ {0} /\ Remain \in Nat
    BY WeightIs, RemainIs, WrapIs
  <1>3. CountsOf[c] = Counts(c)
    BY DEF CountsOf
  <1>4. CASE Busy(c)
    BY <1>1, <1>3, <1>4 DEF Counts
  <1>5. CASE ~Busy(c)
    <2> DEFINE a == ClassFlowing(c)
               w == TotalWeight
               R == Remain
               v == Weight[c]
               s == Share(c)
    <2>1. ~(10 * a * w > 8 * v * R)
      BY <1>5 DEF Busy
    <2>2. a \in Nat /\ w \in Nat \ {0} /\ R \in Nat /\ v \in Nat /\ s \in Nat /\ R * v < w * (s + 1)
      BY <1>1, <1>2
    <2>3. Counts(c) = a
      BY <1>5 DEF Counts
    <2> HIDE DEF a, w, R, v, s
    <2>4. 10 * a * w = 10 * (w * a) /\ 8 * v * R = 8 * (R * v) /\ w * a \in Nat /\ R * v \in Nat /\ w * (s + 1) \in Nat
      BY <2>2
    <2>5. w * a < w * (s + 1)
      <3> DEFINE p == w * a
                 q == R * v
                 z == w * (s + 1)
      <3>1. ~(10 * p > 8 * q) /\ p \in Nat /\ q \in Nat /\ z \in Nat /\ q < z
        BY <2>1, <2>2, <2>4
      <3> HIDE DEF p, q, z
      <3>2. p < z
        BY <3>1
      <3> QED
        BY <3>2 DEF p, z
    <2>6. a <= s
      <3> SUFFICES ASSUME s + 1 <= a PROVE FALSE
        BY <2>2
      <3>1. w * (s + 1) <= w * a
        BY <2>2, ProductsOrdered
      <3> QED
        BY <2>4, <2>5, <3>1
    <2> QED
      BY <1>3, <2>2, <2>3, <2>6 DEF s
  <1> QED
    BY <1>4, <1>5

(* Together they count for no more than what is left.                      *)
LEMMA CountsFit ==
    ASSUME Typed, NEW B \in SUBSET WFQ
    PROVE  /\ SumFunctionOnSet(CountsOf, B) \in Nat /\ SumFunctionOnSet(CountsOf, B) <= Remain
           /\ IsFiniteSet(B)
  <1>1. IsFiniteSet(B)
    BY WFQFinite, FS_Subset
  <1>2. Remain \in Nat /\ SumFunctionOnSet(Weight, B) \in Nat /\ SumFunctionOnSet(Weight, B) <= TotalWeight
    BY RemainIs, WrapIs, WeightsOf
  <1> DEFINE w == TotalWeight
             R == Remain
             sh == [c \in B |-> Share(c)]
             ts == [c \in B |-> w * sh[c]]
             rw == [c \in B |-> R * Weight[c]]
             y == SumFunctionOnSet(sh, B)
             v == SumFunctionOnSet(Weight, B)
             n == SumFunctionOnSet(CountsOf, B)
  <1>3. ASSUME NEW c \in B
        PROVE  /\ CountsOf[c] \in Nat /\ CountsOf[c] <= sh[c] /\ sh[c] \in Nat
               /\ w \in Nat \ {0} /\ Weight[c] \in Nat
               /\ ts[c] = w * sh[c] /\ rw[c] = R * Weight[c] /\ ts[c] <= rw[c]
    BY CountsAre, SharesAre, WeightIs
  <1> HIDE DEF w, R, sh, ts, rw
  <1>4. n \in Nat /\ n <= y /\ y \in Nat
    <2>1. n \in Nat /\ y \in Nat
      BY <1>1, <1>3, SumNat
    <2>2. \A c \in B : CountsOf[c] \in Int /\ sh[c] \in Int /\ CountsOf[c] <= sh[c]
      BY <1>3
    <2> QED
      BY <1>1, <2>1, <2>2, SumAtMost
  <1>5. CASE B = {}
    <2>1. n = 0
      BY <1>5, SumEmpty
    <2> QED
      BY <1>1, <1>2, <2>1
  <1>6. CASE B # {}
    <2>1. w \in Nat \ {0} /\ R \in Nat
      BY <1>2, <1>3, <1>6 DEF R
    <2>2. SumFunctionOnSet(ts, B) = w * y /\ SumFunctionOnSet(ts, B) \in Int
      <3>1. \A c \in B : sh[c] \in Int /\ ts[c] = w * sh[c]
        BY <1>3
      <3> QED
        BY <1>1, <2>1, <3>1, SumScaled
    <2>3. SumFunctionOnSet(rw, B) = R * v /\ SumFunctionOnSet(rw, B) \in Int
      <3>1. \A c \in B : Weight[c] \in Int /\ rw[c] = R * Weight[c]
        BY <1>3
      <3> QED
        BY <1>1, <2>1, <3>1, SumScaled
    <2>4. SumFunctionOnSet(ts, B) <= SumFunctionOnSet(rw, B)
      <3>1. \A c \in B : ts[c] \in Int /\ rw[c] \in Int /\ ts[c] <= rw[c]
        BY <1>3, <2>1
      <3> QED
        BY <1>1, <3>1, SumAtMost
    <2>5. v \in Nat /\ v <= w
      BY <1>2 DEF w
    <2> HIDE DEF y, v, n
    <2>6. R * v <= R * w /\ R * w = w * R /\ R * v \in Int /\ R * w \in Int
      BY <2>1, <2>5, ProductsOrdered, Distributes
    <2>7. w * y <= w * R
      BY <1>4, <2>1, <2>2, <2>3, <2>4, <2>6
    <2>8. y <= R
      BY <1>4, <2>1, <2>7, ProductsCancel
    <2>9. n \in Nat /\ n <= R
      BY <1>4, <2>1, <2>8
    <2> QED
      BY <1>1, <2>9 DEF n, R
  <1> QED
    BY <1>5, <1>6

(* Below 2^31 the conversions change nothing.                              *)
LEMMA Converted ==
    ASSUME NEW x \in Nat, x < HalfRange
    PROVE  DoubleToInt(x) = x /\ UnsignedToInt(x) = x
  <1>1. HalfRange \in Nat /\ Wrap \in Nat \ {0} /\ Wrap = 2 * HalfRange
    BY WrapIs
  <1> DEFINE y == x + HalfRange
  <1>2. y \in 0 .. Wrap - 1
    BY <1>1
  <1>3. UnsignedToInt(x) = (y % Wrap) - HalfRange
    BY DEF UnsignedToInt
  <1> HIDE DEF y, Wrap
  <1>4. (Wrap * 0 + y) % Wrap = y /\ Wrap * 0 + y = y
    BY <1>1, <1>2, RemainderOf
  <1>5. UnsignedToInt(x) = y - HalfRange
    BY <1>3, <1>4
  <1> QED
    BY <1>1, <1>5 DEF y, DoubleToInt

LEMMA AddsExact ==
    ASSUME Typed, TrafficFits, NEW t \in Nat, NEW c \in WFQ, t + Counts(c) <= Remain
    PROVE  AddRate(t, c) = t + Counts(c)
  <1>1. Remain \in Nat /\ Remain < HalfRange /\ HalfRange \in Nat
    BY RemainIs, WrapIs
  <1>2. Counts(c) \in Nat
    BY CountsAre
  <1> DEFINE x == t + Counts(c)
  <1>3. x \in Nat /\ x < HalfRange
    BY <1>1, <1>2
  <1> HIDE DEF x
  <1>4. DoubleToInt(x) = x /\ UnsignedToInt(x) = x
    BY <1>3, Converted
  <1>5. AddRate(t, c) = IF Busy(c) THEN DoubleToInt(x) ELSE UnsignedToInt(x)
    BY DEF AddRate, Counts, x
  <1> QED
    BY <1>4, <1>5 DEF x

(* So totalRate is what they count for.                                    *)
LEMMA TotalRateExact ==
    ASSUME Typed, TrafficFits
    PROVE  TotalRate = SumFunctionOnSet(CountsOf, WFQ)
  <1> DEFINE S == DOMAIN WFQOrder
             h == [i \in S |-> Counts(WFQOrder[i])]
             Classes(T) == {WFQOrder[i] : i \in T}
  <1>1. PICK u : RateTable(u) /\ TotalRate = u[S]
    BY TotalRateTable
  <1>2. /\ IsFiniteSet(S) /\ \A i \in S : WFQOrder[i] \in WFQ
        /\ \A T \in SUBSET S : T # {} => Max(T) \in T
        /\ \A i, j \in S : WFQOrder[i] = WFQOrder[j] => i = j
    <2>1. IsInjective(WFQOrder)
      BY ClassAssumption
    <2>2. \A i, j \in S : WFQOrder[i] = WFQOrder[j] => i = j
      BY <2>1 DEF IsInjective
    <2> QED
      BY <2>2, PositionsOf
  <1>3. ASSUME NEW i \in S
        PROVE  h[i] = Counts(WFQOrder[i]) /\ h[i] = CountsOf[WFQOrder[i]] /\ CountsOf[WFQOrder[i]] \in Int
    BY <1>2, CountsAre
  <1>4. ASSUME NEW T \in SUBSET S
        PROVE  /\ u[T] = IF T = {} THEN 0 ELSE AddRate(u[T \ {Max(T)}], WFQOrder[Max(T)])
               /\ IsFiniteSet(T)
    BY <1>1, <1>2, FS_Subset DEF RateTable
  <1>5. Classes(S) = WFQ
    BY DEF WFQ, Range
  <1> HIDE DEF h
  <1>6. ASSUME NEW T \in SUBSET S
        PROVE  /\ SumFunctionOnSet(h, T) = SumFunctionOnSet(CountsOf, Classes(T))
               /\ SumFunctionOnSet(h, T) \in Nat /\ SumFunctionOnSet(h, T) <= Remain
    <2>1. Classes(T) \in SUBSET WFQ
      BY <1>2
    <2>2. SumFunctionOnSet(h, T) = SumFunctionOnSet(CountsOf, Classes(T))
      <3>1. /\ \A i, j \in T : WFQOrder[i] = WFQOrder[j] => i = j
            /\ \A i \in T : CountsOf[WFQOrder[i]] \in Int /\ h[i] = CountsOf[WFQOrder[i]]
        BY <1>2, <1>3
      <3>2. SumFunctionOnSet(h, T) = SumFunctionOnSet(CountsOf, {WFQOrder[i] : i \in T})
        <4> DEFINE f == WFQOrder
                   g == CountsOf
        <4>1. /\ \A i, j \in T : f[i] = f[j] => i = j
              /\ \A i \in T : g[f[i]] \in Int /\ h[i] = g[f[i]]
          BY <3>1
        <4> HIDE DEF f, g
        <4>2. SumFunctionOnSet(h, T) = SumFunctionOnSet(g, {f[i] : i \in T})
          <5>1. IsFiniteSet(T)
            BY <1>4
          <5> QED
            BY ONLY <4>1, <5>1, SumReindexed
        <4> QED
          BY <4>2 DEF f, g
      <3> QED
        BY <3>2
    <2> HIDE DEF Classes
    <2>3. SumFunctionOnSet(CountsOf, Classes(T)) \in Nat /\ SumFunctionOnSet(CountsOf, Classes(T)) <= Remain
      BY <2>1, CountsFit
    <2> QED
      BY <2>2, <2>3
  <1>7. \A T \in SUBSET S : u[T] = SumFunctionOnSet(h, T)
    <2> DEFINE Bad == {T \in SUBSET S : u[T] # SumFunctionOnSet(h, T)}
    <2> SUFFICES ASSUME Bad # {} PROVE FALSE
      OBVIOUS
    <2>1. Bad \in SUBSET SUBSET S
      OBVIOUS
    <2> HIDE DEF Bad
    <2>2. PICK T \in Bad : \A U \in Bad : ~(U \subseteq T /\ U # T)
      BY <1>2, <2>1, Smallest
    <2>3. T \in SUBSET S /\ u[T] # SumFunctionOnSet(h, T)
      BY DEF Bad
    <2>4. T # {}
      BY <1>4, <2>3, SumEmpty
    <2> DEFINE m == Max(T)
               V == T \ {m}
               t == SumFunctionOnSet(h, V)
    <2>5. m \in T /\ m \in S /\ V \subseteq T /\ V # T /\ V \in SUBSET S
      BY <1>2, <2>3, <2>4
    <2>6. u[V] = t
      BY <2>2, <2>5 DEF Bad
    <2>7. t \in Nat /\ SumFunctionOnSet(h, T) <= Remain
      BY <1>6, <2>3, <2>5
    <2>8. SumFunctionOnSet(h, T) = h[m] + t
      <3>1. \A i \in T : h[i] \in Int
        BY <1>3, <2>3
      <3> HIDE DEF m
      <3> QED
        BY <1>4, <2>3, <2>5, <3>1, SumRemove
    <2>9. u[T] = AddRate(t, WFQOrder[m])
      BY <1>4, <2>3, <2>4, <2>6
    <2> HIDE DEF m, V, t
    <2>10. h[m] = Counts(WFQOrder[m]) /\ WFQOrder[m] \in WFQ /\ Counts(WFQOrder[m]) \in Nat
      BY <1>2, <1>3, <2>5, CountsAre
    <2>11. Counts(WFQOrder[m]) + t = t + Counts(WFQOrder[m])
      BY <2>7, <2>10
    <2>12. AddRate(t, WFQOrder[m]) = t + Counts(WFQOrder[m])
      BY <2>7, <2>8, <2>10, <2>11, AddsExact
    <2> QED
      BY <2>3, <2>8, <2>9, <2>10, <2>11, <2>12
  <1>8. S \in SUBSET S
    OBVIOUS
  <1> QED
    BY <1>1, <1>5, <1>6, <1>7, <1>8

(* What the borrowers divide by their weights: what is left over, and their  *)
(* own parts of the rest, over a common denominator.                        *)
Loan == (Remain - TotalRate) * TotalWeight + Remain * SumFunctionOnSet(Weight, Borrowers)

LEMMA BorrowerIs ==
    ASSUME Typed, TrafficFits, NEW c \in Borrowers
    PROVE  /\ WFQShare(c) \in Nat /\ Loan \in Nat
           /\ SumFunctionOnSet(Weight, Borrowers) \in Nat \ {0}
           /\ (SumFunctionOnSet(Weight, Borrowers) * TotalWeight) * WFQShare(c) <= Loan * Weight[c]
  <1> DEFINE R == Remain
             P == TotalRate
             w == TotalWeight
             of == SumFunctionOnSet(Weight, Borrowers)
             v == Weight[c]
             lent == UnsignedToInt(R - P)
             k == Loan
             a == v * (lent * w + R * of)
             b == of * w
  <1>1. Borrowers \in SUBSET WFQ /\ c \in WFQ /\ Borrowers # {}
    BY DEF Borrowers
  <1>2. R \in Nat /\ R < HalfRange
    BY RemainIs, WrapIs
  <1>3. P \in Nat /\ P <= R
    <2>1. WFQ \in SUBSET WFQ
      OBVIOUS
    <2> QED
      BY <2>1, TotalRateExact, CountsFit
  <1>4. w \in Nat \ {0} /\ v \in Nat /\ of \in Nat \ {0}
    BY <1>1, WeightIs, WeightsOf
  <1>5. WFQShare(c) = Truncated(a, b) % Wrap
    BY <1>1 DEF WFQShare
  <1>6. k = (R - P) * w + R * of
    BY DEF Loan
  <1> HIDE DEF R, P, w, of, v, k
  <1>7. lent = R - P /\ lent \in Nat
    <2>1. R - P \in Nat /\ R - P < HalfRange
      BY <1>2, <1>3, WrapIs
    <2> QED
      BY <2>1, Converted
  <1> HIDE DEF lent
  <1>8. k \in Nat /\ a = v * k
    <2>1. lent * w \in Nat /\ R * of \in Nat
      BY <1>2, <1>4, <1>7
    <2> QED
      BY <1>4, <1>6, <1>7, <2>1
  <1>9. a \in Nat /\ b \in Nat \ {0} /\ a = k * v
    BY <1>4, <1>8
  <1> HIDE DEF a, b
  <1>10. a \div b \in Nat /\ b * (a \div b) <= a
    BY <1>9, QuotientIs
  <1> DEFINE q == a \div b
             x == q % Wrap
  <1>11. WFQShare(c) = x
    BY <1>5, <1>9 DEF Truncated
  <1>12. q \in Nat /\ b * q <= a
    BY <1>10
  <1> HIDE DEF q
  <1>13. x \in Nat /\ x <= q
    <2>1. q \in Int
      BY <1>12
    <2> QED
      BY <1>12, <2>1, WrapsDown, WrapsInto, WrapIs
  <1> HIDE DEF x
  <1>14. b * x <= b * q /\ b * x \in Int /\ b * q \in Int
    BY <1>9, <1>12, <1>13, ProductsOrdered
  <1>15. b * x <= a
    BY <1>9, <1>12, <1>14
  <1> QED
    BY <1>4, <1>8, <1>9, <1>11, <1>13, <1>15 DEF b, of, w, k, v

(* Products and sums of the divided amounts, B being the busy classes.      *)
LEMMA BorrowersTake ==
    ASSUME Typed, TrafficFits, \E c \in WFQ : Busy(c),
           NEW X, X = [c \in Borrowers |-> WFQShare(c)]
    PROVE  /\ SumFunctionOnSet(X, Borrowers) \in Nat
           /\ SumFunctionOnSet(X, Borrowers)
                <= (Remain - TotalRate) + SumFunctionOnSet(CountsOf, Borrowers) + Cardinality(Borrowers)
  <1> DEFINE B == Borrowers
             R == Remain
             P == TotalRate
             w == TotalWeight
             k == Loan
             of == SumFunctionOnSet(Weight, B)
             Y == SumFunctionOnSet(CountsOf, B)
             N == Cardinality(B)
             x == SumFunctionOnSet(X, B)
             b == of * w
  <1>1. B \in SUBSET WFQ /\ B # {} /\ \A c \in B : Busy(c)
    BY DEF Borrowers
  <1>2. IsFiniteSet(B) /\ Y \in Nat /\ N \in Nat
    BY <1>1, CountsFit, FS_CardinalityType
  <1>3. R \in Nat /\ P \in Nat /\ P <= R
    <2>1. WFQ \in SUBSET WFQ
      OBVIOUS
    <2> QED
      BY <2>1, TotalRateExact, CountsFit, RemainIs, WrapIs
  <1>4. w \in Nat \ {0} /\ of \in Nat \ {0}
    BY <1>1, WeightIs, WeightsOf
  <1>5. k = (R - P) * w + R * of /\ k \in Nat
    BY <1>1, BorrowerIs DEF Loan
  <1>6. ASSUME NEW c \in B
        PROVE  /\ X[c] \in Nat /\ b * X[c] <= k * Weight[c] /\ Weight[c] \in Nat
               /\ CountsOf[c] \in Nat /\ R * Weight[c] <= w * (CountsOf[c] + 1)
    <2>1. CountsOf[c] = Share(c) /\ Share(c) \in Nat
      BY <1>1, CountsAre, SharesAre DEF Counts
    <2>2. R * Weight[c] < w * (CountsOf[c] + 1) /\ Weight[c] \in Nat
      BY <1>1, <2>1, SharesAre, WeightIs
    <2>3. R * Weight[c] \in Int /\ w * (CountsOf[c] + 1) \in Int
      BY <1>3, <1>4, <2>1, <2>2
    <2>4. R * Weight[c] <= w * (CountsOf[c] + 1)
      <3> DEFINE p == R * Weight[c]
                 q == w * (CountsOf[c] + 1)
      <3>1. p < q /\ p \in Int /\ q \in Int
        BY <2>2, <2>3
      <3> HIDE DEF p, q
      <3>2. p <= q
        BY <3>1
      <3> QED
        BY <3>2 DEF p, q
    <2>5. X[c] = WFQShare(c)
      OBVIOUS
    <2> QED
      BY <2>1, <2>2, <2>4, <2>5, BorrowerIs
  <1> DEFINE bx == [c \in B |-> b * X[c]]
             kw == [c \in B |-> k * Weight[c]]
             rw == [c \in B |-> R * Weight[c]]
             more == [c \in B |-> 1 * CountsOf[c] + 1]
             one == [c \in B |-> 1]
             wm == [c \in B |-> w * more[c]]
  <1>7. ASSUME NEW c \in B
        PROVE  /\ bx[c] = b * X[c] /\ kw[c] = k * Weight[c] /\ rw[c] = R * Weight[c]
               /\ one[c] = 1 /\ more[c] = 1 * CountsOf[c] + one[c] /\ wm[c] = w * more[c] /\ more[c] \in Int
               /\ one[c] \in Int /\ CountsOf[c] \in Int /\ X[c] \in Int /\ Weight[c] \in Int
               /\ bx[c] <= kw[c] /\ rw[c] <= wm[c]
    BY <1>6
  <1>8. b \in Nat \ {0}
    BY <1>4
  <1>i. ASSUME NEW c \in B
        PROVE  bx[c] \in Int /\ kw[c] \in Int /\ rw[c] \in Int /\ wm[c] \in Int
    BY <1>3, <1>4, <1>5, <1>7, <1>8
  <1> HIDE DEF B, R, P, w, k, of, b, bx, kw, rw, more, one, wm
  <1>9. x \in Nat
    BY <1>2, <1>6, SumNat
  <1>10. /\ SumFunctionOnSet(bx, B) = b * x /\ SumFunctionOnSet(bx, B) \in Int
         /\ SumFunctionOnSet(kw, B) = k * of /\ SumFunctionOnSet(kw, B) \in Int
         /\ SumFunctionOnSet(rw, B) = R * of /\ SumFunctionOnSet(rw, B) \in Int
    <2>1. \A c \in B : X[c] \in Int /\ bx[c] = b * X[c]
      BY <1>7
    <2>2. \A c \in B : Weight[c] \in Int /\ kw[c] = k * Weight[c]
      BY <1>7
    <2>3. \A c \in B : Weight[c] \in Int /\ rw[c] = R * Weight[c]
      BY <1>7
    <2>4. b \in Int /\ k \in Int /\ R \in Int
      BY <1>3, <1>5, <1>8
    <2>5. SumFunctionOnSet(bx, B) = b * x /\ SumFunctionOnSet(bx, B) \in Int
      BY ONLY <1>2, <2>1, <2>4, SumScaled
    <2>6. SumFunctionOnSet(kw, B) = k * of /\ SumFunctionOnSet(kw, B) \in Int
      <3> DEFINE g == Weight
      <3>1. IsFiniteSet(B) /\ k \in Int /\ \A c \in B : g[c] \in Int /\ kw[c] = k * g[c]
        BY <1>2, <2>2, <2>4
      <3> HIDE DEF g
      <3>2. SumFunctionOnSet(kw, B) = k * SumFunctionOnSet(g, B) /\ SumFunctionOnSet(kw, B) \in Int
        BY ONLY <3>1, SumScaled
      <3> QED
        BY <3>2 DEF of, g
    <2>7. SumFunctionOnSet(rw, B) = R * of /\ SumFunctionOnSet(rw, B) \in Int
      <3> DEFINE g == Weight
      <3>1. IsFiniteSet(B) /\ R \in Int /\ \A c \in B : g[c] \in Int /\ rw[c] = R * g[c]
        BY <1>2, <2>3, <2>4
      <3> HIDE DEF g
      <3>2. SumFunctionOnSet(rw, B) = R * SumFunctionOnSet(g, B) /\ SumFunctionOnSet(rw, B) \in Int
        BY ONLY <3>1, SumScaled
      <3> QED
        BY <3>2 DEF of, g
    <2> QED
      BY <2>5, <2>6, <2>7
  <1>11. SumFunctionOnSet(wm, B) = w * (Y + N) /\ SumFunctionOnSet(wm, B) \in Int
    <2>1. SumFunctionOnSet(one, B) = N
      BY <1>2, <1>7, SumOnes
    <2>2. SumFunctionOnSet(more, B) = 1 * Y + SumFunctionOnSet(one, B)
      <3>1. \A c \in B : one[c] \in Int /\ CountsOf[c] \in Int /\ more[c] = 1 * CountsOf[c] + one[c]
        BY <1>7
      <3>2. 1 \in Int
        OBVIOUS
      <3> QED
        BY <1>2, <3>1, <3>2, SumLinear
    <2>3. SumFunctionOnSet(wm, B) = w * SumFunctionOnSet(more, B) /\ SumFunctionOnSet(wm, B) \in Int
      <3>1. \A c \in B : more[c] \in Int /\ wm[c] = w * more[c]
        BY <1>7
      <3>2. w \in Int
        BY <1>4
      <3> QED
        BY <1>2, <3>1, <3>2, SumScaled
    <2>4. 1 * Y = Y
      BY <1>2
    <2> QED
      BY <2>1, <2>2, <2>3, <2>4
  <1>12. b * x <= k * of
    <2>1. \A c \in B : bx[c] \in Int /\ kw[c] \in Int /\ bx[c] <= kw[c]
      BY <1>7, <1>i
    <2> QED
      BY <1>2, <1>10, <2>1, SumAtMost
  <1>13. R * of <= w * (Y + N)
    <2>1. \A c \in B : rw[c] \in Int /\ wm[c] \in Int /\ rw[c] <= wm[c]
      BY <1>7, <1>i
    <2> QED
      BY <1>2, <1>10, <1>11, <2>1, SumAtMost
  <1> HIDE DEF x, Y, N
  <1>14. w * x <= k
    <2>1. b * x = of * (w * x) /\ k * of = of * k /\ w * x \in Int
      BY <1>4, <1>5, <1>9 DEF b
    <2>2. of * (w * x) <= of * k
      BY <1>12, <2>1
    <2> QED
      BY <1>4, <1>5, <2>1, <2>2, ProductsCancel
  <1> DEFINE z == (R - P) + Y + N
  <1>15. w * x <= w * z
    <2> DEFINE l == R - P
               m == Y + N
    <2>1. l \in Int /\ m \in Int /\ z = l + m
      BY <1>2, <1>3
    <2> HIDE DEF l, m, z
    <2>2. w * z = w * l + w * m /\ w * l = l * w /\ w * l \in Int /\ w * m \in Int
      BY <1>4, <2>1, Distributes
    <2>3. k = l * w + R * of /\ R * of <= w * m
      BY <1>5, <1>13 DEF l, m
    <2>4. R * of \in Int /\ w * x \in Int /\ k \in Int
      BY <1>3, <1>4, <1>5, <1>9
    <2>5. k <= w * z
      BY <2>2, <2>3, <2>4
    <2>6. w * z \in Int
      BY <2>2
    <2> QED
      BY <1>14, <2>4, <2>5, <2>6
  <1>16. x <= z
    <2>1. z \in Int /\ x \in Int
      BY <1>2, <1>3, <1>9
    <2> HIDE DEF z
    <2> QED
      BY <1>4, <1>15, <2>1, ProductsCancel
  <1> QED
    BY <1>9, <1>16 DEF x, z, R, P, Y, N, B

LEMMA BandwidthGiven ==
    ASSUME CalObjectRate, NEW c \in WFQ
    PROVE  avail'[c] = WFQShare(c)
  <1>1. avail' = [d \in Class |-> IF d \in SP THEN avail[d] ELSE WFQShare(d)]
    BY DEF CalObjectRate
  <1>2. c \in Class /\ c \notin SP
    BY ClassAssumption DEF Class
  <1> QED
    BY <1>1, <1>2

LEMMA ClassesFitStep ==
    ASSUME Typed, CalObjectRate, TrafficFits, \E c \in WFQ : Busy(c)
    PROVE  SumFunction([c \in WFQ |-> IF c \in Borrowers THEN avail'[c] ELSE ClassFlowing(c)])
             <= Remain + Cardinality(WFQ)
  <1> DEFINE B == Borrowers
             C == WFQ \ B
             F == [c \in WFQ |-> IF c \in Borrowers THEN avail'[c] ELSE ClassFlowing(c)]
             X == [c \in Borrowers |-> WFQShare(c)]
             s(g, T) == SumFunctionOnSet(g, T)
  <1>1. /\ B \in SUBSET WFQ /\ C \in SUBSET WFQ /\ B \subseteq WFQ
        /\ \A c \in WFQ : c \in B <=> Busy(c)
    BY DEF Borrowers
  <1>2. IsFiniteSet(WFQ) /\ IsFiniteSet(B) /\ IsFiniteSet(C)
    BY <1>1, WFQFinite, FS_Subset
  <1>3. SumFunction(F) = s(F, WFQ)
    BY DEF SumFunction
  <1>4. ASSUME NEW c \in B PROVE F[c] = X[c] /\ X[c] \in Int
    <2>1. c \in WFQ /\ F[c] = avail'[c] /\ X[c] = WFQShare(c)
      BY <1>1
    <2> QED
      BY <2>1, BandwidthGiven, BorrowerIs
  <1>5. ASSUME NEW c \in C PROVE F[c] = CountsOf[c] /\ CountsOf[c] \in Int
    <2>1. c \in WFQ /\ c \notin Borrowers /\ ~Busy(c)
      BY <1>1
    <2>2. F[c] = ClassFlowing(c) /\ Counts(c) = ClassFlowing(c)
      BY <2>1 DEF Counts
    <2> QED
      BY <2>1, <2>2, CountsAre
  <1>6. \A c \in WFQ : F[c] \in Int
    <2> SUFFICES ASSUME NEW c \in WFQ PROVE F[c] \in Int
      OBVIOUS
    <2>1. c \in B \/ c \in C
      OBVIOUS
    <2> HIDE DEF F, B, C, X
    <2> QED
      BY <1>4, <1>5, <2>1
  <1>7. \A c \in WFQ : CountsOf[c] \in Int
    BY CountsAre
  <1>8. /\ s(X, B) \in Nat
        /\ s(X, B) <= (Remain - TotalRate) + s(CountsOf, B) + Cardinality(B)
    BY BorrowersTake
  <1>9. /\ s(CountsOf, B) \in Nat /\ s(CountsOf, C) \in Nat /\ Remain \in Nat
        /\ TotalRate = s(CountsOf, WFQ)
    BY <1>1, CountsFit, TotalRateExact, RemainIs, WrapIs
  <1>10. Cardinality(B) \in Nat /\ Cardinality(WFQ) \in Nat /\ Cardinality(B) <= Cardinality(WFQ)
    BY <1>1, <1>2, FS_CardinalityType, FS_Subset
  <1>c. C = WFQ \ B
    OBVIOUS
  <1> HIDE DEF F, X, B, C, s
  <1>11. s(F, WFQ) = s(F, B) + s(F, C) /\ s(CountsOf, WFQ) = s(CountsOf, B) + s(CountsOf, C)
    BY <1>1, <1>2, <1>6, <1>7, <1>c, SumSplit DEF s
  <1>12. s(F, B) = s(X, B)
    BY <1>2, <1>4, SumEqual DEF s
  <1>13. s(F, C) = s(CountsOf, C)
    BY <1>2, <1>5, SumEqual DEF s
  <1>14. s(F, WFQ) <= Remain + Cardinality(WFQ)
    <2> DEFINE a == s(X, B)
               b == s(CountsOf, B)
               d == s(CountsOf, C)
               m == Cardinality(B)
               n == Cardinality(WFQ)
               R == Remain
    <2>1. a \in Nat /\ b \in Nat /\ d \in Nat /\ m \in Nat /\ n \in Nat /\ R \in Nat /\ m <= n
      BY <1>8, <1>9, <1>10
    <2>2. a <= (R - (b + d)) + b + m
      BY <1>8, <1>9, <1>11
    <2>3. s(F, WFQ) = a + d
      BY <1>11, <1>12, <1>13
    <2> HIDE DEF a, b, d, m, n, R
    <2>4. a + d <= R + n
      BY <2>1, <2>2
    <2> QED
      BY <2>3, <2>4 DEF R, n
  <1> QED
    BY <1>3, <1>14 DEF F

(* While the traffic of the interval fits the link and a class is busy, what *)
(* the classes that borrow are given and what the others use fit what is    *)
(* left of the link, but for a unit a class: each quotient is rounded down.  *)
THEOREM ClassesFitLink == Spec => ClassesFit
  <1>1. Typed /\ [Next]_vars =>
          [CalObjectRate /\ TrafficFits /\ (\E c \in WFQ : Busy(c)) =>
             SumFunction([c \in WFQ |-> IF c \in Borrowers THEN avail'[c] ELSE ClassFlowing(c)])
               <= Remain + Cardinality(WFQ)]_vars
    BY ClassesFitStep
  <1> QED
    BY MemoryAlways, TypedInit, TypedStep, <1>1, PTL DEF Spec, ClassesFit
=============================================================================
