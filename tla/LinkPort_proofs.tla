--------------------------- MODULE LinkPort_proofs ---------------------------
(***************************************************************************)
(* That the scheduler of a face keeps the promise of LinkPort and the       *)
(* priority of its classes, and how much traffic its tags can count.        *)
(* The invariant of LinkScheduler_proofs is taken from there.               *)
(***************************************************************************)
EXTENDS LinkScheduler_proofs, FiniteSetTheorems

-----------------------------------------------------------------------------
(* Priority.                                                               *)

(* The step PriorityRespected is about.                                    *)
ByPriority ==
    pending' # << >> => \A i \in DOMAIN SPOrder :
      LET c == SPOrder[i] IN
      /\ pending'[1].class \notin {SPOrder[j] : j \in 1 .. i}
      /\ Backlog(queue', c) # {}
      => \E f \in Backlog(queue', c) : tokens[c] <= Head(queue'[c][f])

(* A class that was passed over could not pay for some flow's packet.       *)
LEMMA PassedOverCannotPay ==
    ASSUME TypeOK, NEW q \in Queues, NEW pick \in Picks(q), NEW c \in SP,
           ~Pays(q, pick, c), queue'[c] = q[c], Backlog(queue', c) # {}
    PROVE  \E f \in Backlog(queue', c) : tokens[c] <= Head(queue'[c][f])
  <1>1. c \in Class /\ Backlog(q, c) = Backlog(queue', c)
    BY DEF Class, Backlog
  <1>2. pick[c] \in Backlog(q, c) /\ pick[c] # Null
    BY <1>1, NullAssumption DEF Picks, Backlog
  <1>3. FirstSize(q, c, pick) \in 1 .. MaxSize /\ tokens[c] \in Nat
    BY <1>1, PickYields DEF TypeOK
  <1>4. tokens[c] <= FirstSize(q, c, pick)
    BY <1>2, <1>3, SizeAssumption DEF Pays
  <1> QED
    BY <1>1, <1>2, <1>4 DEF FirstSize

LEMMA PumpByPriority ==
    ASSUME TypeOK, NEW q \in Queues, Pump(q, << >>)
    PROVE  ByPriority
  <1> SUFFICES ASSUME NEW i \in DOMAIN SPOrder, pending' # << >>,
                      pending'[1].class \notin {SPOrder[j] : j \in 1 .. i},
                      Backlog(queue', SPOrder[i]) # {}
               PROVE  \E f \in Backlog(queue', SPOrder[i]) :
                          tokens[SPOrder[i]] <= Head(queue'[SPOrder[i]][f])
    BY DEF ByPriority
  <1> DEFINE c == SPOrder[i]
  <1>1. c \in SP /\ c \in Class /\ c \notin WFQ
    BY ClassAssumption DEF SP, Class
  <1>2. PICK pick \in Picks(q) :
            SendSP(q, << >>, pick) \/ SendWFQ(q, << >>, pick) \/ Rest(q, << >>, pick)
    BY DEF Pump
  <1>3. CASE SendSP(q, << >>, pick)
    <2>1. PICK k \in DOMAIN SPOrder :
            /\ \A j \in Ahead(k) : ~Pays(q, pick, SPOrder[j])
            /\ queue' = [q EXCEPT ![SPOrder[k]][pick[SPOrder[k]]] = Tail(@)]
            /\ Launch(<< >>, SPOrder[k], pick[SPOrder[k]], FirstSize(q, SPOrder[k], pick))
      BY <1>3 DEF SendSP
    <2>2. pending'[1].class = SPOrder[k]
      BY <2>1 DEF Launch
    <2>3. i \in Nat /\ k \in Nat /\ i >= 1 /\ k >= 1
      BY ClassAssumption
    <2>4. i < k
      BY <2>2, <2>3
    <2>5. ~Pays(q, pick, c)
      BY <2>1, <2>3, <2>4 DEF Ahead
    <2>6. c # SPOrder[k]
      BY <2>2, <2>3
    <2>7. queue'[c] = q[c]
      BY <1>1, <2>1, <2>6 DEF Queues
    <2> QED
      BY <1>1, <2>5, <2>7, PassedOverCannotPay
  <1>4. CASE SendWFQ(q, << >>, pick)
    <2>1. ~Pays(q, pick, c) /\ queue' = Drained(q, pick)
      BY <1>1, <1>4 DEF SendWFQ, Refill
    <2>2. queue'[c] = q[c]
      BY <1>1, <2>1 DEF Drained
    <2> QED
      BY <1>1, <2>1, <2>2, PassedOverCannotPay
  <1>5. CASE Rest(q, << >>, pick)
    BY <1>5 DEF Rest
  <1> QED
    BY <1>2, <1>3, <1>4, <1>5

(* The callback fires the only timer.                                      *)
LEMMA CallbackPumps ==
    ASSUME IInv, NEW i \in DOMAIN pending, SendPacketCallback(i)
    PROVE  /\ Pump(queue, << >>) /\ queue \in Queues /\ UNCHANGED arrivals
           /\ pending \in Seq(Packet) /\ Len(pending) = 1
  <1>1. pending \in Seq(Packet) /\ Len(pending) <= 1
    BY DEF IInv, TypeOK, OneTimer
  <1>2. i = 1 /\ Len(pending) = 1
    <2>1. i \in 1 .. Len(pending) /\ Len(pending) \in Nat
      BY <1>1
    <2>2. \A n \in Nat : n <= 1 => \A k \in 1 .. n : k = 1 /\ n = 1
      OBVIOUS
    <2> QED
      BY <1>1, <2>1, <2>2
  <1>3. Without(pending, i) = << >>
    BY <1>1, <1>2 DEF Without
  <1> QED
    BY <1>1, <1>2, <1>3 DEF SendPacketCallback, IInv, TypeOK, Queues

LEMMA PriorityStep == IInv /\ [Next]_vars /\ Sends => ByPriority
  <1> SUFFICES ASSUME IInv, [Next]_vars, Sends
               PROVE  ByPriority
    OBVIOUS
  <1>0. TypeOK
    BY DEF IInv
  <1>1. ASSUME NEW c \in Class, NEW f \in Flow, NEW s \in Size, DoSendInterest(c, f, s)
        PROVE  ByPriority
    <2> DEFINE q == IF Accepts(c, f) THEN [queue EXCEPT ![c][f] = Append(@, s)] ELSE queue
    <2>1. q \in Queues
      BY <1>0, AppendGrows
    <2>2. arrivals' = arrivals + 1 /\ arrivals \in Nat
      BY <1>0, <1>1, BoundAssumption DEF DoSendInterest, TypeOK
    <2>3. pending = << >> /\ canScheduler
      BY <2>2 DEF Sends, IInv, OneTimer
    <2>4. Pump(q, << >>)
      BY <1>1, <2>3 DEF DoSendInterest
    <2> QED
      BY <1>0, <2>1, <2>4, PumpByPriority
  <1>2. ASSUME NEW i \in DOMAIN pending, SendPacketCallback(i)
        PROVE  ByPriority
    BY <1>0, <1>2, CallbackPumps, PumpByPriority
  <1>3. ~UNCHANGED <<queue, cache, pending>>
    BY DEF Sends
  <1> QED
    BY <1>1, <1>2, <1>3 DEF Next, GenerateToken, vars, wfqVars

(* A packet enters the wire only if no class of higher priority could pay    *)
(* for a packet of each of its flows, for any number of classes.            *)
THEOREM PriorityKept == Spec => PriorityRespected
    <1>1. IInv /\ [Next]_vars => [Sends => \A i \in DOMAIN SPOrder :
         LET c == SPOrder[i] IN
         /\ pending'[1].class \notin {SPOrder[j] : j \in 1 .. i}
         /\ Backlog(queue', c) # {}
         => \E f \in Backlog(queue', c) : tokens[c] <= Head(queue'[c][f])]_vars
    BY PriorityStep DEF Sends, ByPriority
  <1> QED
    BY InitIInv, NextIInv, <1>1, PTL DEF Spec, PriorityRespected

-----------------------------------------------------------------------------
(* How far tags get.  Every refill takes a packet out of the queues, and     *)
(* moves the largest tag by at most MaxSize.                                *)

(* The places in the queues of the weighted classes that hold a packet.     *)
Places(q) == {x \in WFQ \X Flow \X (Nat \ {0}) : x[3] <= Len(q[x[1]][x[2]])}

Taken == arrivals - Cardinality(Places(queue))

(* Tags so far, if k packets were taken out of the queues.                  *)
TagsWithin(k) ==
    /\ virtualTime <= k * MaxSize
    /\ \A c \in WFQ : cache[c] # Null => cache[c].seq <= k * MaxSize

Measured ==
    /\ IsFiniteSet(Places(queue))
    /\ Taken >= 0
    /\ ~wrapped => TagsWithin(Taken)
    /\ arrivals * MaxSize < HalfRange => ~wrapped

(* An append adds at most one place.                                       *)
LEMMA PlacesAfterAppend ==
    ASSUME TypeOK, IsFiniteSet(Places(queue)),
           NEW c \in Class, NEW f \in Flow, NEW s \in Size,
           NEW q, q = IF Accepts(c, f) THEN [queue EXCEPT ![c][f] = Append(@, s)] ELSE queue
    PROVE  /\ IsFiniteSet(Places(q))
           /\ Cardinality(Places(q)) <= Cardinality(Places(queue)) + 1
  <1>1. CASE ~Accepts(c, f)
    BY <1>1, FS_CardinalityType
  <1>2. CASE Accepts(c, f)
    <2> DEFINE new == <<c, f, Len(queue[c][f]) + 1>>
    <2>1. queue[c][f] \in Seq(Size)
      BY DEF TypeOK
    <2>2. q = [queue EXCEPT ![c][f] = Append(@, s)]
      BY <1>2
    <2>3. \A d \in Class, g \in Flow :
            Len(q[d][g]) = IF d = c /\ g = f THEN Len(queue[c][f]) + 1 ELSE Len(queue[d][g])
      BY <2>1, <2>2 DEF TypeOK
    <2>4. Places(q) \subseteq Places(queue) \cup {new}
      <3> SUFFICES ASSUME NEW d \in WFQ, NEW g \in Flow, NEW n \in Nat \ {0},
                          n <= Len(q[d][g]), ~(n <= Len(queue[d][g]))
                   PROVE  <<d, g, n>> = new
        BY DEF Places
      <3>1. d = c /\ g = f
        BY <2>3 DEF Class
      <3>2. n <= Len(queue[c][f]) + 1 /\ Len(queue[c][f]) \in Nat
        BY <2>1, <2>3, <3>1
      <3> QED
        BY <3>1, <3>2
    <2> HIDE DEF new
    <2>5. /\ IsFiniteSet(Places(queue) \cup {new})
          /\ Cardinality(Places(queue) \cup {new}) <= Cardinality(Places(queue)) + 1
          /\ Cardinality(Places(queue)) \in Nat
      <3>1. Cardinality(Places(queue)) \in Nat
        BY FS_CardinalityType
      <3>2. /\ IsFiniteSet(Places(queue) \cup {new})
            /\ Cardinality(Places(queue) \cup {new}) =
                 IF new \in Places(queue) THEN Cardinality(Places(queue))
                                          ELSE Cardinality(Places(queue)) + 1
        BY FS_AddElement
      <3> QED
        BY <3>1, <3>2
    <2>6. /\ IsFiniteSet(Places(q))
          /\ Cardinality(Places(q)) <= Cardinality(Places(queue) \cup {new})
      BY <2>4, <2>5, FS_Subset
    <2>7. Cardinality(Places(q)) \in Nat /\ Cardinality(Places(queue) \cup {new}) \in Nat
      BY <2>5, <2>6, FS_CardinalityType
    <2> QED
      BY <2>5, <2>6, <2>7
  <1> QED
    BY <1>1, <1>2

(* A class that refills takes a place.                                     *)
LEMMA PlacesAfterRefill ==
    ASSUME TypeOK, NEW q \in Queues, NEW pick \in Picks(q), IsFiniteSet(Places(q))
    PROVE  /\ IsFiniteSet(Places(Drained(q, pick)))
           /\ Cardinality(Places(Drained(q, pick))) <= Cardinality(Places(q))
           /\ (\E c \in WFQ : Refills(q, c)) =>
                Cardinality(Places(Drained(q, pick))) + 1 <= Cardinality(Places(q))
  <1> DEFINE d == Drained(q, pick)
  <1>1. ASSUME NEW c \in WFQ, NEW f \in Flow
        PROVE  /\ q[c][f] \in Seq(Size) /\ d[c][f] \in Seq(Size)
               /\ Len(d[c][f]) <= Len(q[c][f])
               /\ Refills(q, c) => pick[c] \in Flow /\ Len(q[c][pick[c]]) > 0
                                   /\ Len(d[c][pick[c]]) = Len(q[c][pick[c]]) - 1
    <2>1. c \in Class /\ q[c] \in [Flow -> Seq(Size)] /\ q[c][f] \in Seq(Size)
      BY DEF Class, Queues
    <2>2. CASE ~Refills(q, c)
      BY <2>1, <2>2 DEF Drained
    <2>3. CASE Refills(q, c)
      <3>1. d[c] = [q[c] EXCEPT ![pick[c]] = Tail(@)]
        BY <2>1, <2>3 DEF Drained
      <3>2. /\ pick[c] \in Flow
            /\ q[c][pick[c]] # << >>
            /\ Tail(q[c][pick[c]]) \in Seq(Size)
            /\ q[c][pick[c]] \in Seq(Size)
        BY <2>1, <2>3, PickYields DEF Refills
      <3>3. Len(q[c][pick[c]]) > 0 /\ Len(Tail(q[c][pick[c]])) = Len(q[c][pick[c]]) - 1
        BY <3>2
      <3>4. d[c][f] = IF f = pick[c] THEN Tail(q[c][pick[c]]) ELSE q[c][f]
        BY <2>1, <3>1
      <3>5. d[c][pick[c]] = Tail(q[c][pick[c]])
        BY <2>1, <3>1, <3>2
      <3> HIDE DEF d
      <3> QED
        BY <2>1, <3>2, <3>3, <3>4, <3>5
    <2> QED
      BY <2>2, <2>3
  <1>2. Places(d) \subseteq Places(q)
    <2> SUFFICES ASSUME NEW c \in WFQ, NEW f \in Flow, NEW n \in Nat \ {0}, n <= Len(d[c][f])
                 PROVE  n <= Len(q[c][f])
      BY DEF Places
    <2>1. Len(d[c][f]) \in Nat /\ Len(q[c][f]) \in Nat /\ Len(d[c][f]) <= Len(q[c][f])
      BY <1>1
    <2> QED
      BY <2>1
  <1>3. ASSUME NEW c \in WFQ, Refills(q, c)
        PROVE  Places(d) # Places(q)
    <2>1. PICK f \in Flow : f = pick[c] /\ Len(q[c][f]) > 0 /\ Len(d[c][f]) = Len(q[c][f]) - 1
      <3>1. c \in Class /\ Backlog(q, c) # {}
        BY <1>3 DEF Class, Refills
      <3>2. pick[c] \in Flow
        BY <3>1, PickYields
      <3> QED
        BY <1>1, <1>3, <3>2
    <2>2. Len(q[c][f]) \in Nat \ {0}
      BY <1>1, <2>1
    <2>3. <<c, f, Len(q[c][f])>> \in Places(q)
      BY <2>2 DEF Places
    <2>4. <<c, f, Len(q[c][f])>> \notin Places(d)
      BY <2>1, <2>2 DEF Places
    <2> QED
      BY <2>3, <2>4
  <1> HIDE DEF d
  <1>4. IsFiniteSet(Places(d)) /\ Cardinality(Places(d)) <= Cardinality(Places(q))
    BY <1>2, FS_Subset
  <1>5. Cardinality(Places(d)) = Cardinality(Places(q)) => Places(d) = Places(q)
    BY <1>2, FS_Subset
  <1>6. Cardinality(Places(d)) \in Nat /\ Cardinality(Places(q)) \in Nat
    BY <1>4, FS_CardinalityType
  <1>7. (\E c \in WFQ : Refills(q, c)) => Cardinality(Places(d)) + 1 <= Cardinality(Places(q))
    BY <1>3, <1>4, <1>5, <1>6
  <1> QED
    BY <1>4, <1>7 DEF d

(* Products of natural numbers keep order.                                 *)
LEMMA ProductsOrdered ==
    ASSUME NEW j \in Nat, NEW k \in Nat, j <= k, NEW m \in Nat
    PROVE  /\ j * m \in Nat /\ k * m \in Nat /\ j * m <= k * m
           /\ (j + 1) * m = j * m + m
  <1>1. k - j \in Nat /\ (k - j) * m \in Nat /\ k * m = j * m + (k - j) * m
    OBVIOUS
  <1>2. j * m \in Nat /\ k * m \in Nat /\ (j + 1) * m = j * m + m
    OBVIOUS
  <1> QED
    BY <1>1, <1>2

LEMMA AtMostOnce ==
    ASSUME NEW x \in Nat, NEW w \in Nat \ {0}, NEW s \in Nat, x * w <= s
    PROVE  x <= s
  <1>1. w - 1 \in Nat /\ x * (w - 1) \in Nat /\ x * w = x * (w - 1) + x
    OBVIOUS
  <1>2. x * w \in Nat
    OBVIOUS
  <1> QED
    BY <1>1, <1>2

(* A new tag is at most MaxSize beyond those of before.                     *)
LEMMA NewTagWithin ==
    ASSUME TypeOK, TagsInPlace, ~wrapped, NEW k \in Nat, TagsWithin(k),
           NEW q \in Queues, NEW pick \in Picks(q), NEW c \in WFQ, Refills(q, c)
    PROVE  ExactSeq(q, pick, c) <= (k + 1) * MaxSize
  <1> DEFINE e == ExactSeq(q, pick, c)
             size == FirstSize(q, c, pick)
  <1>1. Base(c) = virtualTime /\ virtualTime \in Nat
    <2>1. virtualTime \in Nat
      BY RangeAssumption DEF TypeOK, UintMax
    <2> QED
      BY <2>1 DEF TagsInPlace, InPlace, Base, Refills
  <1>2. size \in Nat /\ size <= MaxSize /\ Weight[c] \in Nat \ {0}
    BY PickYields, SizeAssumption, WeightAssumption DEF Class, Refills
  <1>3. e \in Int /\ e >= virtualTime /\ (e - virtualTime) * Weight[c] <= size
    BY <1>1, TagBounds DEF Refills
  <1> HIDE DEF e, size
  <1>4. e - virtualTime <= size
    <2>1. e - virtualTime \in Nat
      BY <1>1, <1>3
    <2> QED
      BY <1>2, <1>3, <2>1, AtMostOnce
  <1>5. virtualTime <= k * MaxSize /\ k * MaxSize \in Nat /\ (k + 1) * MaxSize = k * MaxSize + MaxSize
    BY SizeAssumption, ProductsOrdered DEF TagsWithin
  <1>6. e <= (k + 1) * MaxSize
    BY <1>1, <1>2, <1>3, <1>4, <1>5, SizeAssumption
  <1> QED
    BY <1>6 DEF e

(* What a refill leaves: a Interests came, and k2 packets were taken.        *)
LEMMA RefillMeasured ==
    ASSUME TypeOK, TagsInPlace, NEW q \in Queues, NEW pick \in Picks(q), Refill(q, pick),
           IsFiniteSet(Places(q)), NEW a \in Nat, NEW k \in Nat, k = a - Cardinality(Places(q)),
           ~wrapped => TagsWithin(k),
           a * MaxSize < HalfRange => ~wrapped,
           NEW k2, k2 = a - Cardinality(Places(queue'))
    PROVE  /\ IsFiniteSet(Places(queue'))
           /\ k2 \in Nat
           /\ ~wrapped' =>
                /\ virtualTime <= k2 * MaxSize
                /\ \A c \in WFQ : Refilled(q, pick)[c] # Null =>
                        Refilled(q, pick)[c].seq <= k2 * MaxSize
           /\ a * MaxSize < HalfRange => ~wrapped'
  <1>1. queue' = Drained(q, pick)
    BY DEF Refill
  <1>2. /\ IsFiniteSet(Places(queue'))
        /\ Cardinality(Places(queue')) <= Cardinality(Places(q))
        /\ (\E c \in WFQ : Refills(q, c)) => Cardinality(Places(queue')) + 1 <= Cardinality(Places(q))
    BY <1>1, PlacesAfterRefill
  <1>3. Cardinality(Places(queue')) \in Nat /\ Cardinality(Places(q)) \in Nat
    BY <1>2, FS_CardinalityType
  <1>4. k2 \in Nat /\ k <= k2 /\ k2 <= a /\ ((\E c \in WFQ : Refills(q, c)) => k + 1 <= k2)
    BY <1>2, <1>3
  <1>5. k * MaxSize <= k2 * MaxSize /\ k2 * MaxSize <= a * MaxSize
        /\ k * MaxSize \in Nat /\ k2 * MaxSize \in Nat /\ a * MaxSize \in Nat
    BY <1>4, ProductsOrdered, SizeAssumption
  <1>6. ASSUME ~wrapped, NEW c \in WFQ, Refills(q, c)
        PROVE  ExactSeq(q, pick, c) \in Int /\ ExactSeq(q, pick, c) <= k2 * MaxSize
    <2>1. ExactSeq(q, pick, c) <= (k + 1) * MaxSize
      BY <1>6, NewTagWithin
    <2>2. (k + 1) * MaxSize <= k2 * MaxSize /\ (k + 1) * MaxSize \in Nat
      BY <1>4, <1>6, ProductsOrdered, SizeAssumption
    <2>3. ExactSeq(q, pick, c) \in Int
      BY <1>6, TagBounds DEF Refills
    <2> QED
      BY <1>5, <2>1, <2>2, <2>3
  <1>7. ASSUME a * MaxSize < HalfRange
        PROVE  ~wrapped'
    <2>1. ~wrapped
      BY <1>7
    <2>2. ASSUME NEW c \in WFQ, Refills(q, c)
          PROVE  ~(ExactSeq(q, pick, c) >= HalfRange)
      BY <1>5, <1>6, <1>7, <2>1, <2>2, RangeAssumption
    <2> QED
      BY <2>1, <2>2 DEF Refill
  <1>8. ASSUME ~wrapped'
        PROVE  /\ virtualTime <= k2 * MaxSize
               /\ \A c \in WFQ : Refilled(q, pick)[c] # Null =>
                        Refilled(q, pick)[c].seq <= k2 * MaxSize
    <2>1. ~wrapped /\ \A c \in WFQ : Refills(q, c) => ~(ExactSeq(q, pick, c) >= HalfRange)
      BY <1>8 DEF Refill
    <2>2. virtualTime \in Nat /\ virtualTime <= k * MaxSize
      BY <2>1, RangeAssumption DEF TypeOK, UintMax, TagsWithin
    <2>3. ASSUME NEW c \in WFQ, Refills(q, c)
          PROVE  Refilled(q, pick)[c].seq <= k2 * MaxSize
      <3>1. ExactSeq(q, pick, c) \in Int /\ ExactSeq(q, pick, c) <= k2 * MaxSize
        BY <1>6, <2>1, <2>3
      <3>2. ToInt(ExactSeq(q, pick, c)) = ExactSeq(q, pick, c)
        BY <2>1, <2>3, <3>1, RangeAssumption DEF ToInt
      <3> QED
        BY <2>3, <3>1, <3>2, RefillFacts
    <2>4. ASSUME NEW c \in WFQ, ~Refills(q, c), Refilled(q, pick)[c] # Null
          PROVE  Refilled(q, pick)[c].seq <= k2 * MaxSize
      <3>1. Refilled(q, pick)[c] = cache[c] /\ cache[c] \in Cached
        BY <2>4, RefillFacts DEF TypeOK
      <3>2. cache[c].seq \in Int /\ cache[c].seq <= k * MaxSize
        BY <2>1, <2>4, <3>1, RangeAssumption DEF TagsWithin, Cached
      <3> QED
        BY <1>5, <3>1, <3>2
    <2> QED
      BY <1>5, <2>2, <2>3, <2>4
  <1> QED
    BY <1>2, <1>4, <1>7, <1>8

LEMMA PumpMeasured ==
    ASSUME TypeOK, TagsInPlace, NEW q \in Queues, NEW timers \in Seq(Packet),
           \A c \in WFQ : Backlog(queue, c) \subseteq Backlog(q, c),
           Pump(q, timers), IsFiniteSet(Places(q)), arrivals' \in Nat,
           NEW k \in Nat, k = arrivals' - Cardinality(Places(q)),
           ~wrapped => TagsWithin(k),
           arrivals' * MaxSize < HalfRange => ~wrapped
    PROVE  Measured'
  <1>1. PICK pick \in Picks(q) :
            SendSP(q, timers, pick) \/ SendWFQ(q, timers, pick) \/ Rest(q, timers, pick)
    BY DEF Pump
  <1> DEFINE filled == Refilled(q, pick)
             k2 == Taken'
  <1>2. CASE SendSP(q, timers, pick)
    <2>1. PICK i \in DOMAIN SPOrder :
            /\ queue' = [q EXCEPT ![SPOrder[i]][pick[SPOrder[i]]] = Tail(@)]
            /\ UNCHANGED wfqVars
      BY <1>2 DEF SendSP
    <2>2. \A c \in WFQ : queue'[c] = q[c]
      BY <2>1, ClassAssumption DEF SP, Queues, Class
    <2>3. Places(queue') = Places(q)
      BY <2>2 DEF Places
    <2>4. Taken' = k /\ k >= 0
      BY <2>3 DEF Taken
    <2>5. ~wrapped' => TagsWithin(Taken)'
      BY <2>1, <2>4 DEF TagsWithin, wfqVars
    <2>6. arrivals' * MaxSize < HalfRange => ~wrapped'
      BY <2>1 DEF wfqVars
    <2> QED
      BY <2>3, <2>4, <2>5, <2>6 DEF Measured
  <1>3. ASSUME Refill(q, pick)
        PROVE  /\ IsFiniteSet(Places(queue'))
               /\ k2 \in Nat
               /\ ~wrapped' =>
                    /\ virtualTime <= k2 * MaxSize
                    /\ \A c \in WFQ : filled[c] # Null => filled[c].seq <= k2 * MaxSize
               /\ arrivals' * MaxSize < HalfRange => ~wrapped'
    BY <1>3, RefillMeasured DEF Taken
  <1>4. CASE Rest(q, timers, pick)
    <2>1. Refill(q, pick) /\ cache' = filled /\ virtualTime' = virtualTime
      BY <1>4 DEF Rest
    <2> HIDE DEF filled
    <2> QED
      BY <1>3, <2>1 DEF Measured, TagsWithin
  <1>5. CASE SendWFQ(q, timers, pick)
    <2>1. Refill(q, pick)
      BY <1>5 DEF SendWFQ
    <2>2. PICK i \in DOMAIN WFQOrder :
            /\ Tag(filled, WFQOrder[i]) < UintMax
            /\ virtualTime' = Tag(filled, WFQOrder[i])
            /\ cache' = [filled EXCEPT ![WFQOrder[i]] = Null]
      BY <1>5 DEF SendWFQ
    <2> DEFINE w == WFQOrder[i]
    <2>3. w \in WFQ /\ filled \in [WFQ -> Cached \cup {Null}] /\ filled[w] # Null
      <3>1. w \in WFQ /\ filled \in [WFQ -> Cached \cup {Null}]
        BY RefillFacts DEF WFQ
      <3> QED
        BY <2>2, <3>1, RangeAssumption DEF Tag, UintMax
    <2>4. ASSUME ~wrapped'
          PROVE  virtualTime' <= k2 * MaxSize
      <3>0. virtualTime \in Nat
        BY RangeAssumption DEF TypeOK, UintMax
      <3>1. virtualTime <= filled[w].seq /\ virtualTime \in Nat
        BY <2>1, <2>3, <2>4, <3>0, RefillInPlace
      <3>2. filled[w].seq \in Int
        BY <2>3, RangeAssumption DEF Cached
      <3>3. virtualTime' = filled[w].seq
        BY <2>2, <2>3, <3>1, <3>2 DEF Tag, ToUint
      <3> HIDE DEF filled
      <3> QED
        BY <1>3, <2>1, <2>3, <2>4, <3>3
    <2>5. \A c \in WFQ : cache'[c] # Null => cache'[c] = filled[c]
      BY <2>2, <2>3
    <2> HIDE DEF filled
    <2> QED
      BY <1>3, <2>1, <2>4, <2>5 DEF Measured, TagsWithin
  <1> QED
    BY <1>1, <1>2, <1>4, <1>5

LEMMA MeasuredInit == Init => Measured
  <1> SUFFICES ASSUME Init PROVE Measured
    OBVIOUS
  <1>1. Places(queue) = {}
    BY DEF Init, Places, Class
  <1>2. IsFiniteSet(Places(queue)) /\ Cardinality(Places(queue)) = 0
    BY <1>1, FS_EmptySet
  <1>3. arrivals = 0 /\ virtualTime = 0 /\ ~wrapped /\ \A c \in WFQ : cache[c] = Null
    BY DEF Init
  <1> QED
    BY <1>2, <1>3, SizeAssumption DEF Measured, Taken, TagsWithin

LEMMA MeasuredStep == IInv /\ Measured /\ [Next]_vars => Measured'
  <1> SUFFICES ASSUME IInv, Measured, [Next]_vars PROVE Measured'
    OBVIOUS
  <1>0. TypeOK /\ TagsInPlace /\ arrivals \in Nat /\ queue \in Queues
    BY BoundAssumption DEF IInv, TypeOK, Queues
  <1>a. Cardinality(Places(queue)) \in Nat /\ Taken \in Nat
    <2>1. Cardinality(Places(queue)) \in Nat
      BY FS_CardinalityType DEF Measured
    <2> QED
      BY <1>0, <2>1 DEF Measured, Taken
  <1>1. ASSUME NEW c \in Class, NEW f \in Flow, NEW s \in Size, DoSendInterest(c, f, s)
        PROVE  Measured'
    <2> DEFINE q == IF Accepts(c, f) THEN [queue EXCEPT ![c][f] = Append(@, s)] ELSE queue
               k == arrivals' - Cardinality(Places(q))
    <2>1. /\ q \in Queues
          /\ \A d \in WFQ : Backlog(queue, d) \subseteq Backlog(q, d)
      BY <1>0, AppendGrows DEF Class
    <2>2. /\ IsFiniteSet(Places(q))
          /\ Cardinality(Places(q)) <= Cardinality(Places(queue)) + 1
      BY <1>0, PlacesAfterAppend DEF Measured
    <2>3. arrivals' = arrivals + 1 /\ arrivals' \in Nat
      BY <1>0, <1>1 DEF DoSendInterest
    <2>4. IF canScheduler THEN Pump(q, pending)
          ELSE queue' = q /\ UNCHANGED <<tokens, wfqVars, pending, canScheduler>>
      BY <1>1 DEF DoSendInterest
    <2> HIDE DEF q
    <2>5. k \in Nat /\ Taken <= k
      <3>1. Cardinality(Places(q)) \in Nat
        BY <2>2, FS_CardinalityType
      <3> QED
        BY <1>0, <1>a, <2>2, <2>3, <3>1 DEF Taken
    <2>6. ~wrapped => TagsWithin(k)
      <3>1. Taken * MaxSize <= k * MaxSize /\ Taken * MaxSize \in Nat /\ k * MaxSize \in Nat
        BY <1>a, <2>5, ProductsOrdered, SizeAssumption
      <3>2. virtualTime \in Int /\ \A d \in WFQ : cache[d] # Null => cache[d].seq \in Int
        BY <1>0, RangeAssumption DEF TypeOK, UintMax, Cached
      <3> HIDE DEF k
      <3> QED
        BY <3>1, <3>2 DEF Measured, TagsWithin
    <2>7. arrivals' * MaxSize < HalfRange => ~wrapped
      <3>1. arrivals * MaxSize <= arrivals' * MaxSize /\ arrivals * MaxSize \in Nat /\ arrivals' * MaxSize \in Nat
        BY <1>0, <2>3, ProductsOrdered, SizeAssumption
      <3> QED
        BY <3>1, RangeAssumption DEF Measured
    <2>8. CASE canScheduler
      <3>1. pending \in Seq(Packet)
        BY <1>0 DEF TypeOK
      <3> QED
        BY <1>0, <2>1, <2>2, <2>3, <2>4, <2>5, <2>6, <2>7, <2>8, <3>1, PumpMeasured
    <2>9. CASE ~canScheduler
      <3>1. queue' = q /\ UNCHANGED wfqVars
        BY <2>4, <2>9
      <3>2. k = Taken'
        BY <3>1 DEF Taken
      <3> HIDE DEF k
      <3> QED
        BY <2>2, <2>5, <2>6, <2>7, <3>1, <3>2 DEF Measured, TagsWithin, wfqVars
    <2> QED
      BY <2>8, <2>9
  <1>2. ASSUME NEW i \in DOMAIN pending, SendPacketCallback(i)
        PROVE  Measured'
    <2>1. Pump(queue, << >>) /\ arrivals' = arrivals /\ << >> \in Seq(Packet)
      BY <1>2, CallbackPumps
    <2> QED
      BY <1>0, <1>a, <2>1, PumpMeasured DEF Measured, Taken
  <1>3. CASE UNCHANGED <<queue, wfqVars, arrivals>>
    BY <1>3 DEF Measured, Taken, TagsWithin, wfqVars
  <1> QED
    BY <1>1, <1>2, <1>3 DEF Next, GenerateToken, vars

(* No tag leaves the range of int before 2^31 bits of Data were asked for,   *)
(* for any weights and any order of arrivals.                              *)
THEOREM TagsLast == Spec => []RangeSuffices
  <1>1. Measured => RangeSuffices
    BY DEF Measured, RangeSuffices
  <1> QED
    BY InitIInv, NextIInv, MeasuredInit, MeasuredStep, <1>1, PTL DEF Spec

-----------------------------------------------------------------------------
(* LinkPort.                                                               *)

(* What waits: the queues, with the cached packets before them.             *)
WaitingOf(q, ch) ==
    [c \in Class |-> [f \in Flow |->
        IF c \in WFQ /\ ch[c] # Null /\ ch[c].flow = f
          THEN <<ch[c].size>> \o q[c][f]
          ELSE q[c][f]]]

(* v is w without the first packet of one flow.                            *)
Takes(w, v, c, f) == v = [w EXCEPT ![c][f] = Tail(@)]

LEMMA AfterFirst ==
    ASSUME NEW x \in Size, NEW s \in Seq(Size)
    PROVE  /\ <<x>> \o s # << >>
           /\ Head(<<x>> \o s) = x
           /\ Tail(<<x>> \o s) = s
  <1>1. <<x>> \o s \in Seq(Size) /\ Len(<<x>> \o s) = 1 + Len(s) /\ Len(s) \in Nat
    OBVIOUS
  <1>2. (<<x>> \o s)[1] = x /\ \A i \in 1 .. Len(s) : (<<x>> \o s)[i + 1] = s[i]
    OBVIOUS
  <1>3. Tail(<<x>> \o s) \in Seq(Size) /\ Len(Tail(<<x>> \o s)) = Len(s)
    BY <1>1
  <1>4. \A i \in 1 .. Len(s) : Tail(<<x>> \o s)[i] = s[i]
    BY <1>1, <1>2
  <1>5. Tail(<<x>> \o s) = s
    BY <1>3, <1>4
  <1> QED
    BY <1>1, <1>2, <1>5

LEMMA HeadFirst ==
    ASSUME NEW S, NEW s \in Seq(S), s # << >>
    PROVE  <<Head(s)>> \o Tail(s) = s
  OBVIOUS

(* A refill moves no packet past another.                                  *)
LEMMA RefillKeepsWaiting ==
    ASSUME TypeOK, NEW q \in Queues, NEW pick \in Picks(q)
    PROVE  WaitingOf(Drained(q, pick), Refilled(q, pick)) = WaitingOf(q, cache)
  <1> DEFINE d == Drained(q, pick)
             filled == Refilled(q, pick)
  <1>1. ASSUME NEW c \in Class, NEW f \in Flow
        PROVE  WaitingOf(d, filled)[c][f] = WaitingOf(q, cache)[c][f]
    <2>1. CASE c \notin WFQ
      <3>1. d[c] = q[c]
        BY <2>1 DEF Drained
      <3> HIDE DEF d, filled
      <3> QED
        BY <2>1, <3>1 DEF WaitingOf
    <2>2. CASE c \in WFQ /\ ~Refills(q, c)
      <3>1. d[c] = q[c] /\ filled[c] = cache[c]
        BY <2>2, RefillFacts
      <3> HIDE DEF d, filled
      <3> QED
        BY <3>1 DEF WaitingOf
    <2>3. CASE c \in WFQ /\ Refills(q, c)
      <3>1. /\ cache[c] = Null /\ filled[c] # Null
            /\ filled[c].flow = pick[c] /\ filled[c].size = Head(q[c][pick[c]])
        <4>1. cache[c] = Null /\ filled[c] # Null
          BY <2>3, RefillFacts
        <4>2. filled[c] = [flow |-> pick[c], size |-> FirstSize(q, c, pick),
                           seq |-> ToInt(ExactSeq(q, pick, c))]
          BY <2>3 DEF Refilled
        <4> QED
          BY <4>1, <4>2 DEF FirstSize
      <3>2. /\ pick[c] \in Flow /\ q[c][pick[c]] # << >>
            /\ q[c] \in [Flow -> Seq(Size)]
        BY <2>3, PickYields DEF Refills, Queues
      <3>3. d[c] = [q[c] EXCEPT ![pick[c]] = Tail(@)]
        BY <2>3 DEF Drained
      <3>4. CASE f = pick[c]
        <4>1. WaitingOf(d, filled)[c][f] = <<Head(q[c][f])>> \o Tail(q[c][f])
          <5>1. d[c][f] = Tail(q[c][f])
            BY <3>2, <3>3, <3>4
          <5> HIDE DEF d, filled
          <5> QED
            BY <2>3, <3>1, <3>4, <5>1 DEF WaitingOf
        <4>2. <<Head(q[c][f])>> \o Tail(q[c][f]) = q[c][f]
          BY <3>2, <3>4, HeadFirst
        <4>3. WaitingOf(q, cache)[c][f] = q[c][f]
          BY <3>1 DEF WaitingOf
        <4> QED
          BY <4>1, <4>2, <4>3
      <3>5. CASE f # pick[c]
        <4>1. d[c][f] = q[c][f]
          BY <3>2, <3>3, <3>5
        <4> HIDE DEF d, filled
        <4> QED
          BY <3>1, <3>5, <4>1 DEF WaitingOf
      <3> QED
        BY <3>4, <3>5
    <2> QED
      BY <2>1, <2>2, <2>3
  <1> HIDE DEF d, filled
  <1>2. \A c \in Class : WaitingOf(d, filled)[c] = WaitingOf(q, cache)[c]
    BY <1>1 DEF WaitingOf
  <1>3. WaitingOf(d, filled) = WaitingOf(q, cache)
    BY <1>2 DEF WaitingOf
  <1> QED
    BY <1>3 DEF d, filled

(* A table that differs from another in one entry.                         *)
OnlyAt(w, v, c, f, t) ==
    \A b \in Class, g \in Flow : v[b][g] = IF b = c /\ g = f THEN t ELSE w[b][g]

LEMMA OneEntryChanged ==
    ASSUME NEW w \in Queues, NEW v \in Queues, NEW c \in Class, NEW f \in Flow, NEW t,
           OnlyAt(w, v, c, f, t)
    PROVE  v = [w EXCEPT ![c][f] = t]
  <1>0. \A b \in Class, g \in Flow : v[b][g] = IF b = c /\ g = f THEN t ELSE w[b][g]
    BY DEF OnlyAt
  <1>1. \A b \in Class : w[b] \in [Flow -> Seq(Size)] /\ v[b] \in [Flow -> Seq(Size)]
    BY DEF Queues
  <1>2. \A b \in Class : b # c => v[b] = w[b]
    BY <1>0, <1>1
  <1>3. v[c] = [w[c] EXCEPT ![f] = t]
    BY <1>0, <1>1
  <1> QED
    BY <1>2, <1>3 DEF Queues

LEMMA WaitingType ==
    ASSUME NEW q \in Queues, NEW ch \in [WFQ -> Cached \cup {Null}]
    PROVE  WaitingOf(q, ch) \in Queues
  <1>1. ASSUME NEW c \in Class, NEW f \in Flow
        PROVE  WaitingOf(q, ch)[c][f] \in Seq(Size)
    <2>1. q[c][f] \in Seq(Size)
      BY DEF Queues
    <2>2. CASE c \in WFQ /\ ch[c] # Null /\ ch[c].flow = f
      <3>1. ch[c].size \in Size
        BY <2>2 DEF Cached
      <3>2. <<ch[c].size>> \o q[c][f] \in Seq(Size)
        BY <2>1, <3>1
      <3> QED
        BY <2>2, <3>2 DEF WaitingOf
    <2>3. CASE ~(c \in WFQ /\ ch[c] # Null /\ ch[c].flow = f)
      BY <2>1, <2>3 DEF WaitingOf
    <2> QED
      BY <2>2, <2>3
  <1> QED
    BY <1>1 DEF WaitingOf, Queues

(* Sending the cached packet of a class takes the first that waits.         *)
LEMMA SendCached ==
    ASSUME NEW d \in Queues, NEW filled \in [WFQ -> Cached \cup {Null}],
           NEW c \in WFQ, filled[c] # Null
    PROVE  /\ filled[c].flow \in Flow
           /\ WaitingOf(d, filled)[c][filled[c].flow] # << >>
           /\ Head(WaitingOf(d, filled)[c][filled[c].flow]) = filled[c].size
           /\ Takes(WaitingOf(d, filled), WaitingOf(d, [filled EXCEPT ![c] = Null]),
                    c, filled[c].flow)
  <1> DEFINE f == filled[c].flow
             x == filled[c].size
             w == WaitingOf(d, filled)
             v == WaitingOf(d, [filled EXCEPT ![c] = Null])
  <1>1. f \in Flow /\ x \in Size /\ c \in Class /\ d[c][f] \in Seq(Size)
    <2>1. filled[c] \in Cached /\ c \in Class
      BY DEF Class
    <2>2. f \in Flow /\ x \in Size
      BY <2>1 DEF Cached
    <2> QED
      BY <2>1, <2>2 DEF Queues
  <1>2. w[c][f] = <<x>> \o d[c][f]
    BY <1>1 DEF WaitingOf
  <1>3. v[c][f] = d[c][f]
    BY <1>1 DEF WaitingOf
  <1>4. ASSUME NEW b \in Class, NEW g \in Flow, ~(b = c /\ g = f)
        PROVE  v[b][g] = w[b][g]
    BY <1>4 DEF WaitingOf
  <1>5. w[c][f] # << >> /\ Head(w[c][f]) = x /\ Tail(w[c][f]) = d[c][f]
    BY <1>1, <1>2, AfterFirst
  <1>6. w \in Queues /\ v \in Queues
    BY WaitingType
  <1> HIDE DEF f, x, w, v
  <1>7. Takes(w, v, c, f)
    <2>1. \A b \in Class, g \in Flow :
             v[b][g] = IF b = c /\ g = f THEN Tail(w[c][f]) ELSE w[b][g]
      BY <1>3, <1>4, <1>5
    <2> DEFINE t == Tail(w[c][f])
    <2>2. OnlyAt(w, v, c, f, t)
      BY <2>1 DEF OnlyAt
    <2>3. f \in Flow /\ c \in Class
      BY <1>1
    <2> HIDE DEF t
    <2>4. v = [w EXCEPT ![c][f] = t]
      BY <1>6, <2>2, <2>3, OneEntryChanged
    <2> QED
      BY <2>4 DEF t, Takes
  <1> QED
    BY <1>1, <1>5, <1>7 DEF f, x, w, v

(* Sending from a rate-limited class takes the first that waits there.      *)
LEMMA SendQueued ==
    ASSUME TypeOK, NEW q \in Queues, NEW c \in SP, NEW f \in Flow, q[c][f] # << >>,
           NEW p, Takes(q, p, c, f)
    PROVE  /\ WaitingOf(q, cache)[c][f] = q[c][f]
           /\ Takes(WaitingOf(q, cache), WaitingOf(p, cache), c, f)
  <1> DEFINE w == WaitingOf(q, cache)
             v == WaitingOf(p, cache)
  <1>1. c \in Class /\ c \notin WFQ
    BY ClassAssumption DEF Class
  <1>2. w[c][f] = q[c][f]
    BY <1>1 DEF WaitingOf
  <1>3. p[c][f] = Tail(q[c][f]) /\ \A b \in Class, g \in Flow : ~(b = c /\ g = f) => p[b][g] = q[b][g]
    BY <1>1 DEF Queues, Takes
  <1>4. v[c][f] = Tail(w[c][f])
    BY <1>1, <1>2, <1>3 DEF WaitingOf
  <1>5. ASSUME NEW b \in Class, NEW g \in Flow, ~(b = c /\ g = f)
        PROVE  v[b][g] = w[b][g]
    BY <1>3, <1>5 DEF WaitingOf
  <1>6. w \in Queues /\ v \in Queues
    <2>1. p \in Queues
      BY <1>1, TailLeavesQueues DEF Takes
    <2> QED
      BY <2>1, WaitingType DEF TypeOK
  <1> HIDE DEF w, v
  <1>7. Takes(w, v, c, f)
    <2>1. \A b \in Class, g \in Flow :
             v[b][g] = IF b = c /\ g = f THEN Tail(w[c][f]) ELSE w[b][g]
      BY <1>4, <1>5
    <2> DEFINE t == Tail(w[c][f])
    <2>2. OnlyAt(w, v, c, f, t)
      BY <2>1 DEF OnlyAt
    <2>3. f \in Flow /\ c \in Class
      BY <1>1
    <2> HIDE DEF t
    <2>4. v = [w EXCEPT ![c][f] = t]
      BY <1>6, <2>2, <2>3, OneEntryChanged
    <2> QED
      BY <2>4 DEF t, Takes
  <1> QED
    BY <1>2, <1>7 DEF w, v

Wire == IF pending = << >> THEN Null ELSE pending[1]

LEMMA LaunchOnWire ==
    ASSUME NEW c, NEW f, NEW s, Launch(<< >>, c, f, s)
    PROVE  Wire' = [class |-> c, flow |-> f, size |-> s]
  BY DEF Launch, Wire

(* The wire takes x, the first of a flow in w, and v is what is left; or     *)
(* nothing that needs no tokens is left to take.                           *)
Begins(w, v, x) ==
    \E c \in Class, f \in Flow :
        /\ w[c][f] # << >>
        /\ Takes(w, v, c, f)
        /\ x = [class |-> c, flow |-> f, size |-> Head(w[c][f])]

Holds(w, v, x) ==
    /\ \A c \in Telling', f \in Flow : w[c][f] = << >>
    /\ v = w
    /\ x = Null

PortWaiting == WaitingOf(queue, cache)

(* The pump begins with a packet that waits, or holds an empty port.        *)
LEMMA PumpIsPort ==
    ASSUME TypeOK, NEW q \in Queues, Pump(q, << >>)
    PROVE  \/ Begins(WaitingOf(q, cache), PortWaiting', Wire')
           \/ Holds(WaitingOf(q, cache), PortWaiting', Wire')
  <1>1. PICK pick \in Picks(q) :
            SendSP(q, << >>, pick) \/ SendWFQ(q, << >>, pick) \/ Rest(q, << >>, pick)
    BY DEF Pump
  <1> DEFINE filled == Refilled(q, pick)
             d == Drained(q, pick)
             w == WaitingOf(q, cache)
  <1>2. CASE SendSP(q, << >>, pick)
    <2>1. PICK i \in DOMAIN SPOrder :
            /\ Pays(q, pick, SPOrder[i])
            /\ Takes(q, queue', SPOrder[i], pick[SPOrder[i]])
            /\ Launch(<< >>, SPOrder[i], pick[SPOrder[i]], FirstSize(q, SPOrder[i], pick))
            /\ UNCHANGED wfqVars
      BY <1>2 DEF SendSP, Takes
    <2> DEFINE c == SPOrder[i]
               f == pick[c]
    <2>2. c \in SP /\ c \in Class
      BY DEF SP, Class
    <2>3. f \in Flow /\ q[c][f] # << >>
      BY <2>1, <2>2, PaysBacklogged, PickYields
    <2>4. Takes(q, queue', c, f) /\ cache' = cache
      BY <2>1 DEF wfqVars
    <2>5. Wire' = [class |-> c, flow |-> f, size |-> Head(q[c][f])]
      BY <2>1, LaunchOnWire DEF FirstSize
    <2> HIDE DEF c, f
    <2>6. w[c][f] = q[c][f] /\ Takes(w, PortWaiting', c, f)
      BY <2>2, <2>3, <2>4, SendQueued DEF PortWaiting
    <2> HIDE DEF w
    <2>7. /\ w[c][f] # << >>
          /\ Takes(w, PortWaiting', c, f)
          /\ Wire' = [class |-> c, flow |-> f, size |-> Head(w[c][f])]
      BY <2>3, <2>5, <2>6
    <2> QED
      BY <2>2, <2>3, <2>7 DEF w, Begins
  <1>3. CASE SendWFQ(q, << >>, pick)
    <2>1. queue' = d
      BY <1>3 DEF SendWFQ, Refill
    <2>2. PICK i \in DOMAIN WFQOrder :
            /\ Tag(filled, WFQOrder[i]) < UintMax
            /\ cache' = [filled EXCEPT ![WFQOrder[i]] = Null]
            /\ Launch(<< >>, WFQOrder[i], filled[WFQOrder[i]].flow, filled[WFQOrder[i]].size)
      BY <1>3 DEF SendWFQ
    <2> DEFINE c == WFQOrder[i]
               f == filled[c].flow
    <2>3. /\ c \in WFQ /\ c \in Class
          /\ filled \in [WFQ -> Cached \cup {Null}] /\ d \in Queues
      BY RefillFacts DEF WFQ, Class
    <2>4. filled[c] # Null
      BY <2>2, <2>3, RangeAssumption DEF Tag, UintMax
    <2>5. WaitingOf(d, filled) = w
      BY RefillKeepsWaiting
    <2>6. Wire' = [class |-> c, flow |-> f, size |-> filled[c].size]
      BY <2>2, LaunchOnWire
    <2>7. cache' = [filled EXCEPT ![c] = Null]
      BY <2>2
    <2> HIDE DEF w, d, filled, c
    <2>8. /\ f \in Flow
          /\ WaitingOf(d, filled)[c][f] # << >>
          /\ Head(WaitingOf(d, filled)[c][f]) = filled[c].size
          /\ Takes(WaitingOf(d, filled), WaitingOf(d, [filled EXCEPT ![c] = Null]), c, f)
      BY <2>3, <2>4, SendCached
    <2> HIDE DEF f
    <2>9. /\ w[c][f] # << >>
          /\ Takes(w, PortWaiting', c, f)
          /\ Wire' = [class |-> c, flow |-> f, size |-> Head(w[c][f])]
      BY <2>1, <2>5, <2>6, <2>7, <2>8 DEF PortWaiting
    <2> QED
      BY <2>3, <2>8, <2>9 DEF w, Begins
  <1>4. CASE Rest(q, << >>, pick)
    <2>1. /\ queue' = d /\ cache' = filled /\ pending' = << >>
          /\ \A c \in WFQ : Tag(filled, c) = UintMax
      BY <1>4 DEF Rest, Refill
    <2>2. PortWaiting' = w
      BY <2>1, RefillKeepsWaiting DEF PortWaiting
    <2>3. ASSUME NEW c \in Telling'
          PROVE  c \in WFQ /\ filled[c] = Null
      BY <2>1, <2>3 DEF Tag, Telling
    <2>4. ASSUME NEW c \in Telling', NEW f \in Flow
          PROVE  w[c][f] = << >>
      <3>1. ~Refills(q, c)
        BY <2>3, RefillFacts
      <3>2. cache[c] = Null
        BY <2>3, <3>1, RefillFacts
      <3>3. Backlog(q, c) = {}
        BY <3>1, <3>2 DEF Refills
      <3> QED
        BY <2>3, <3>2, <3>3 DEF WaitingOf, Backlog, Class
    <2> HIDE DEF w
    <2>5. Wire' = Null
      BY <2>1 DEF Wire
    <2> QED
      BY <2>2, <2>4, <2>5 DEF w, Holds
  <1> QED
    BY <1>1, <1>2, <1>3, <1>4

LEMMA AppendAfter ==
    ASSUME NEW x \in Size, NEW s \in Seq(Size), NEW y \in Size
    PROVE  <<x>> \o Append(s, y) = Append(<<x>> \o s, y)
  OBVIOUS

(* v is w with one more packet of one flow.                                *)
Gains(w, v, c, f, s) == v = [w EXCEPT ![c][f] = Append(@, s)]

(* An Interest that is accepted waits last.                                *)
LEMMA AppendWaits ==
    ASSUME TypeOK, NEW c \in Class, NEW f \in Flow, NEW s \in Size,
           NEW q \in Queues, Gains(queue, q, c, f, s)
    PROVE  Gains(WaitingOf(queue, cache), WaitingOf(q, cache), c, f, s)
  <1> DEFINE w == WaitingOf(queue, cache)
             v == WaitingOf(q, cache)
             t == Append(w[c][f], s)
  <1>1. queue \in Queues /\ queue[c][f] \in Seq(Size)
    BY DEF TypeOK, Queues
  <1>2. q[c][f] = Append(queue[c][f], s)
        /\ \A b \in Class, g \in Flow : ~(b = c /\ g = f) => q[b][g] = queue[b][g]
    BY <1>1 DEF Queues, Gains
  <1>3. v[c][f] = t
    <2>1. CASE c \in WFQ /\ cache[c] # Null /\ cache[c].flow = f
      <3>1. cache[c].size \in Size
        BY <2>1 DEF TypeOK, Cached
      <3>2. <<cache[c].size>> \o Append(queue[c][f], s) = Append(<<cache[c].size>> \o queue[c][f], s)
        BY <1>1, <3>1, AppendAfter
      <3>3. v[c][f] = <<cache[c].size>> \o Append(queue[c][f], s)
        BY <1>2, <2>1 DEF WaitingOf
      <3>4. w[c][f] = <<cache[c].size>> \o queue[c][f]
        BY <2>1 DEF WaitingOf
      <3> HIDE DEF w
      <3> QED
        BY <3>2, <3>3, <3>4
    <2>2. CASE ~(c \in WFQ /\ cache[c] # Null /\ cache[c].flow = f)
      BY <1>2, <2>2 DEF WaitingOf
    <2> QED
      BY <2>1, <2>2
  <1>4. ASSUME NEW b \in Class, NEW g \in Flow, ~(b = c /\ g = f)
        PROVE  v[b][g] = w[b][g]
    BY <1>2, <1>4 DEF WaitingOf
  <1>5. w \in Queues /\ v \in Queues
    BY <1>1, WaitingType DEF TypeOK
  <1> HIDE DEF v, t
  <1>6. OnlyAt(w, v, c, f, t)
    BY <1>3, <1>4 DEF OnlyAt
  <1> HIDE DEF w
  <1>7. v = [w EXCEPT ![c][f] = t]
    BY <1>5, <1>6, OneEntryChanged
  <1> QED
    BY <1>7 DEF v, w, t, Gains

LEMMA PortVars ==
    /\ Port!vars = <<PortWaiting, Wire>>
    /\ Port!vars' = <<PortWaiting', Wire'>>
  BY DEF Port!vars, PortWaiting, WaitingOf, Wire

(* The steps of the port, over what waits in the scheduler.                 *)
Arrives(c, f, s) ==
    \E q \in {PortWaiting, [PortWaiting EXCEPT ![c][f] = Append(@, s)]} :
        IF Wire = Null THEN Begins(q, PortWaiting', Wire') \/ Holds(q, PortWaiting', Wire')
                       ELSE PortWaiting' = q /\ Wire' = Wire

Finishes ==
    Wire # Null /\ (\/ Begins(PortWaiting, PortWaiting', Wire')
                    \/ Holds(PortWaiting, PortWaiting', Wire'))

LEMMA ArriveAt ==
    ASSUME NEW c, NEW f, NEW s, NEW q,
           q = PortWaiting \/ Gains(PortWaiting, q, c, f, s),
           IF Wire = Null THEN Begins(q, PortWaiting', Wire') \/ Holds(q, PortWaiting', Wire')
                          ELSE PortWaiting' = q /\ Wire' = Wire
    PROVE  Arrives(c, f, s)
  <1>1. q \in {PortWaiting, [PortWaiting EXCEPT ![c][f] = Append(@, s)]}
    BY DEF Gains
  <1> QED
    BY <1>1 DEF Arrives

(* They are steps of a port that owes a turn to the classes whose tags tell. *)
LEMMA ArriveOwed ==
    ASSUME NEW c, NEW f, NEW s, Arrives(c, f, s)
    PROVE  /\ Port!Arrive(c, f, s, Telling')
           /\ WFQ = Telling' => Port!Arrive(c, f, s, WFQ)
  <1>1. PICK q \in {PortWaiting, [PortWaiting EXCEPT ![c][f] = Append(@, s)]} :
            IF Wire = Null THEN Begins(q, PortWaiting', Wire') \/ Holds(q, PortWaiting', Wire')
                           ELSE PortWaiting' = q /\ Wire' = Wire
    BY DEF Arrives
  <1>2. IF Wire = Null THEN Port!Begin(q) \/ Port!Hold(q, Telling')
                       ELSE PortWaiting' = q /\ UNCHANGED Wire
    BY <1>1 DEF Port!Begin, Port!Hold, PortWaiting, WaitingOf, Wire, Begins, Takes, Holds
  <1>3. \E r \in {PortWaiting, [PortWaiting EXCEPT ![c][f] = Append(@, s)]} :
            IF Wire = Null THEN Port!Begin(r) \/ Port!Hold(r, Telling')
                           ELSE PortWaiting' = r /\ UNCHANGED Wire
    BY <1>2
  <1>4. Port!Arrive(c, f, s, Telling')
    BY <1>3, Zenon DEF Port!Arrive, PortWaiting, WaitingOf, Wire
  <1>5. ASSUME WFQ = Telling'
        PROVE  Port!Arrive(c, f, s, WFQ)
    <2>1. IF Wire = Null THEN Port!Begin(q) \/ Port!Hold(q, WFQ)
                         ELSE PortWaiting' = q /\ UNCHANGED Wire
      BY <1>1, <1>5 DEF Port!Begin, Port!Hold, PortWaiting, WaitingOf, Wire, Begins, Takes, Holds
    <2>2. \E r \in {PortWaiting, [PortWaiting EXCEPT ![c][f] = Append(@, s)]} :
              IF Wire = Null THEN Port!Begin(r) \/ Port!Hold(r, WFQ)
                             ELSE PortWaiting' = r /\ UNCHANGED Wire
      BY <2>1
    <2> QED
      BY <2>2, Zenon DEF Port!Arrive, PortWaiting, WaitingOf, Wire
  <1> QED
    BY <1>4, <1>5

LEMMA FinishOwed ==
    ASSUME Finishes
    PROVE  /\ Port!Finish(Telling')
           /\ WFQ = Telling' => Port!Finish(WFQ)
  <1>1. Port!Finish(Telling')
    BY DEF Finishes, Port!Finish, Port!Begin, Port!Hold, PortWaiting, WaitingOf, Wire, Begins, Takes, Holds
  <1>2. WFQ = Telling' => Port!Finish(WFQ)
    BY DEF Finishes, Port!Finish, Port!Begin, Port!Hold, PortWaiting, WaitingOf, Wire, Begins, Takes, Holds
  <1> QED
    BY <1>1, <1>2

LEMMA PortStep ==
    ASSUME IInv, [Next]_vars
    PROVE  \/ \E c \in Class, f \in Flow, s \in Size : Arrives(c, f, s)
           \/ Finishes
           \/ UNCHANGED Port!vars
  <1>0. TypeOK /\ queue \in Queues /\ PortWaiting = WaitingOf(queue, cache)
    BY DEF IInv, TypeOK, Queues, PortWaiting
  <1>1. ASSUME NEW c \in Class, NEW f \in Flow, NEW s \in Size, DoSendInterest(c, f, s)
        PROVE  Arrives(c, f, s)
    <2> DEFINE q == IF Accepts(c, f) THEN [queue EXCEPT ![c][f] = Append(@, s)] ELSE queue
               w == WaitingOf(q, cache)
    <2>1. q \in Queues
      BY <1>0, AppendGrows
    <2>2. w = PortWaiting \/ Gains(PortWaiting, w, c, f, s)
      <3>1. CASE Accepts(c, f)
        <4>1. Gains(queue, q, c, f, s)
          BY <3>1 DEF Gains
        <4> HIDE DEF q
        <4>2. Gains(PortWaiting, w, c, f, s)
          BY <1>0, <2>1, <4>1, AppendWaits DEF PortWaiting
        <4> QED
          BY <4>2
      <3>2. CASE ~Accepts(c, f)
        BY <1>0, <3>2
      <3> QED
        BY <3>1, <3>2
    <2>3. IF canScheduler THEN Pump(q, pending)
          ELSE queue' = q /\ UNCHANGED <<tokens, wfqVars, pending, canScheduler>>
      BY <1>1 DEF DoSendInterest
    <2> HIDE DEF q
    <2>4. CASE canScheduler
      <3>1. pending = << >>
        BY <2>4 DEF IInv, OneTimer
      <3>2. Wire = Null /\ (Begins(w, PortWaiting', Wire') \/ Holds(w, PortWaiting', Wire'))
        BY <1>0, <2>1, <2>3, <2>4, <3>1, PumpIsPort DEF Wire
      <3> HIDE DEF w
      <3> QED
        BY <2>2, <3>2, ArriveAt
    <2>5. CASE ~canScheduler
      <3>1. Wire # Null
        <4>1. pending \in Seq(Packet) /\ pending # << >>
          BY <2>5 DEF IInv, OneTimer, TypeOK
        <4>2. pending[1] \in Packet
          BY <4>1
        <4> QED
          BY <4>1, <4>2, NullAssumption DEF Wire, Packet
      <3>2. PortWaiting' = w /\ Wire' = Wire
        BY <2>3, <2>5 DEF PortWaiting, Wire, wfqVars
      <3> HIDE DEF w
      <3> QED
        BY <2>2, <3>1, <3>2, ArriveAt
    <2> QED
      BY <2>4, <2>5
  <1>2. ASSUME NEW i \in DOMAIN pending, SendPacketCallback(i)
        PROVE  Finishes
    <2>1. Pump(queue, << >>) /\ pending \in Seq(Packet) /\ Len(pending) = 1
      BY <1>2, CallbackPumps
    <2>2. Wire # Null
      <3>1. pending # << >> /\ pending[1] \in Packet
        BY <2>1
      <3> QED
        BY <3>1, NullAssumption DEF Wire, Packet
    <2>3. Begins(PortWaiting, PortWaiting', Wire') \/ Holds(PortWaiting, PortWaiting', Wire')
      BY <1>0, <2>1, PumpIsPort
    <2> QED
      BY <2>2, <2>3 DEF Finishes
  <1>3. CASE UNCHANGED <<queue, cache, pending>>
    <2>1. PortWaiting' = PortWaiting /\ Wire' = Wire
      BY <1>3 DEF PortWaiting, WaitingOf, Wire
    <2> QED
      BY <2>1, PortVars
  <1> QED
    BY <1>1, <1>2, <1>3 DEF Next, GenerateToken, vars, wfqVars

LEMMA PortInit == Init => Port!Init
  <1> SUFFICES ASSUME Init PROVE Port!Init
    OBVIOUS
  <1>1. \A c \in Class, f \in Flow : WaitingOf(queue, cache)[c][f] = << >>
    BY DEF Init, WaitingOf
  <1>2. WaitingOf(queue, cache) = [c \in Class |-> [f \in Flow |-> << >>]]
    BY <1>1 DEF WaitingOf
  <1>3. Wire = Null
    BY DEF Init, Wire
  <1> QED
    BY <1>2, <1>3 DEF Port!Init, WaitingOf, Wire

(* A tag in the range of int, and at or above virtual time, is not UINT32_MAX. *)
LEMMA TagsTellInRange == IInv /\ ~wrapped => Telling = WFQ
  <1> SUFFICES ASSUME IInv, ~wrapped, NEW c \in WFQ, cache[c] # Null
               PROVE  ToUint(cache[c].seq) # UintMax
    BY DEF Telling
  <1>1. virtualTime \in Nat /\ virtualTime <= cache[c].seq
    BY RangeAssumption DEF IInv, TypeOK, UintMax, TagsInPlace, InPlace
  <1>2. cache[c].seq \in Int /\ cache[c].seq < HalfRange
    BY RangeAssumption DEF IInv, TypeOK, Cached
  <1> QED
    BY <1>1, <1>2, RangeAssumption DEF ToUint, UintMax

(* The scheduler is the port it promises to be, whatever tags, tokens and    *)
(* weights are: a class is left waiting only behind a tag that hides it.     *)
THEOREM PortKept == Spec => ImplementsPort
  <1>1. IInv /\ [Next]_vars => [Port!Next(Telling')]_(Port!vars)
    BY PortStep, ArriveOwed, FinishOwed DEF Port!Next
  <1> QED
    BY InitIInv, NextIInv, PortInit, <1>1, PTL DEF Spec, ImplementsPort

(* While the traffic fits the range of tags, no tag hides a class: the port  *)
(* idles only when every weighted class is empty.                           *)
THEOREM PortKeptInRange ==
    ASSUME MaxArrivals * MaxSize < HalfRange
    PROVE  Spec => Port!Spec
  <1>1. IInv /\ Measured => Telling = WFQ
    <2> SUFFICES ASSUME IInv, Measured PROVE Telling = WFQ
      OBVIOUS
    <2>1. arrivals \in Nat /\ arrivals <= MaxArrivals
      BY BoundAssumption DEF IInv, TypeOK
    <2>2. arrivals * MaxSize <= MaxArrivals * MaxSize /\ arrivals * MaxSize \in Nat
          /\ MaxArrivals * MaxSize \in Nat
      BY <2>1, BoundAssumption, SizeAssumption, ProductsOrdered
    <2>3. ~wrapped
      BY <2>2, RangeAssumption DEF Measured
    <2> QED
      BY <2>3, TagsTellInRange
  <1>2. IInv /\ (Telling = WFQ)' /\ [Next]_vars => [Port!Next(WFQ)]_(Port!vars)
    BY PortStep, ArriveOwed, FinishOwed DEF Port!Next
  <1> QED
    BY InitIInv, NextIInv, MeasuredInit, MeasuredStep, PortInit, <1>1, <1>2, PTL DEF Spec, Port!Spec
=============================================================================
