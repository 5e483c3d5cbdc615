------------------------ MODULE LinkScheduler_proofs ------------------------
(***************************************************************************)
(* Proofs about LinkScheduler, for every set of classes, flows, weights,   *)
(* sizes, limits and token rates.  The safety of the pump rests on one     *)
(* inductive invariant: types, one timer, an empty pump at rest and, until *)
(* a tag leaves the range of int, the place of every class in virtual time.*)
(***************************************************************************)
EXTENDS LinkScheduler, TLAPS

(* Where a class stands in virtual time.  A class that still has packets    *)
(* remembers the tag of its last one, which is the tag it caches or, once   *)
(* that was sent, the current virtual time.                                *)
InPlace(c) ==
    /\ cache[c] # Null =>
         /\ virtualTime <= cache[c].seq
         /\ (cache[c].seq - virtualTime) * Weight[c] <= cache[c].size
    /\ lastSeq[c] # NoSeq =>
         /\ Backlog(queue, c) # {}
         /\ lastSeq[c] = IF cache[c] = Null THEN virtualTime ELSE cache[c].seq

TagsInPlace == ~wrapped => /\ virtualTime < HalfRange
                           /\ \A c \in WFQ : InPlace(c)

IInv == TypeOK /\ OneTimer /\ RestsOnlyWhenEmpty /\ TagsInPlace

Queues == [Class -> [Flow -> Seq(Size)]]

-----------------------------------------------------------------------------
(* Lemmas about the operators of the pump.                                 *)

(* Integer division rounds down.                                           *)
LEMMA DivRoundsDown ==
    ASSUME NEW s \in Nat, NEW w \in Nat \ {0}
    PROVE  /\ s \div w \in Nat
           /\ (s \div w) * w <= s
  OBVIOUS

LEMMA HeadTail ==
    ASSUME NEW S, NEW s \in Seq(S), s # << >>
    PROVE  Head(s) \in S /\ Tail(s) \in Seq(S)
  OBVIOUS

LEMMA AppendStaysSeq ==
    ASSUME NEW S, NEW s \in Seq(S), NEW x \in S
    PROVE  Append(s, x) \in Seq(S)
  OBVIOUS

(* A launched packet is one more timer.                                    *)
LEMMA LaunchTypes ==
    ASSUME NEW timers \in Seq(Packet), NEW c \in Class, NEW f \in Flow, NEW s \in Size,
           Launch(timers, c, f, s)
    PROVE  pending' \in Seq(Packet) /\ canScheduler' \in BOOLEAN
  <1>1. [class |-> c, flow |-> f, size |-> s] \in Packet
    BY DEF Packet
  <1> QED
    BY <1>1, AppendStaysSeq DEF Launch

(* A request to a backlogged class yields a packet.                        *)
LEMMA PickYields ==
    ASSUME NEW q \in Queues, NEW pick \in Picks(q), NEW c \in Class, Backlog(q, c) # {}
    PROVE  /\ pick[c] \in Flow
           /\ q[c][pick[c]] # << >>
           /\ FirstSize(q, c, pick) \in Size
           /\ FirstSize(q, c, pick) \in 1 .. MaxSize
           /\ Tail(q[c][pick[c]]) \in Seq(Size)
  <1>1. pick[c] \in Backlog(q, c)
    BY DEF Picks
  <1>2. pick[c] \in Flow /\ q[c][pick[c]] # << >> /\ q[c][pick[c]] \in Seq(Size)
    BY <1>1 DEF Backlog, Queues
  <1>3. Head(q[c][pick[c]]) \in Size /\ Tail(q[c][pick[c]]) \in Seq(Size)
    BY <1>2, HeadTail
  <1> QED
    BY <1>2, <1>3, SizeAssumption DEF FirstSize

(* A class that can pay is backlogged.                                     *)
LEMMA PaysBacklogged ==
    ASSUME NEW q \in Queues, NEW pick \in Picks(q), NEW c \in Class, Pays(q, pick, c)
    PROVE  Backlog(q, c) # {}
  BY DEF Picks, Pays

(* Taking the head of one flow leaves queues.                              *)
LEMMA TailLeavesQueues ==
    ASSUME NEW q \in Queues, NEW c \in Class, NEW f \in Flow, q[c][f] # << >>
    PROVE  [q EXCEPT ![c][f] = Tail(@)] \in Queues
  <1>1. Tail(q[c][f]) \in Seq(Size)
    BY DEF Queues
  <1> QED
    BY <1>1 DEF Queues

(* The tag of a packet: never below the range of int; from a non-negative   *)
(* base, at most the packet's scaled size further on.                      *)
LEMMA TagBounds ==
    ASSUME TypeOK, NEW q \in Queues, NEW pick \in Picks(q), NEW c \in WFQ,
           Backlog(q, c) # {}
    PROVE  /\ ExactSeq(q, pick, c) \in Int
           /\ ExactSeq(q, pick, c) >= -HalfRange
           /\ ToInt(ExactSeq(q, pick, c)) \in -HalfRange .. HalfRange - 1
           /\ Base(c) >= 0 =>
                /\ ExactSeq(q, pick, c) >= Base(c)
                /\ (ExactSeq(q, pick, c) - Base(c)) * Weight[c] <= FirstSize(q, c, pick)
  <1> DEFINE size == FirstSize(q, c, pick)
             w == Weight[c]
             b == Base(c)
  <1>1. size \in Nat /\ size >= 1 /\ w \in Nat \ {0}
    BY PickYields, SizeAssumption, WeightAssumption DEF Class
  <1>2. b \in Int /\ b >= -HalfRange
    BY RangeAssumption DEF TypeOK, Base, UintMax, NoSeq
  <1>3. /\ size \div w \in Nat
        /\ (size \div w) * w <= size
        /\ (size + w - 1) \div w \in Nat
    BY <1>1, DivRoundsDown
  <1>4. ExactSeq(q, pick, c) = IF b * w + size >= 0 THEN b + size \div w
                               ELSE b + (size + w - 1) \div w
    BY DEF ExactSeq
  <1>5. b >= 0 => b * w + size >= 0
    BY <1>1, <1>2
  <1> HIDE DEF size, w, b
  <1>6. ExactSeq(q, pick, c) \in Int /\ ExactSeq(q, pick, c) >= -HalfRange
    BY <1>2, <1>3, <1>4, RangeAssumption
  <1>7. ToInt(ExactSeq(q, pick, c)) \in -HalfRange .. HalfRange - 1
    BY <1>6, RangeAssumption DEF ToInt
  <1>8. ASSUME b >= 0
        PROVE  /\ ExactSeq(q, pick, c) >= b
               /\ (ExactSeq(q, pick, c) - b) * w <= size
    <2>1. ExactSeq(q, pick, c) = b + size \div w
      BY <1>4, <1>5, <1>8
    <2>2. ExactSeq(q, pick, c) - b = size \div w /\ ExactSeq(q, pick, c) >= b
      BY <2>1, <1>2, <1>3
    <2> QED
      BY <2>2, <1>3
  <1> QED
    BY <1>6, <1>7, <1>8 DEF b, w, size

(* What a refill does to one weighted class.                               *)
LEMMA RefillFacts ==
    ASSUME TypeOK, NEW q \in Queues, NEW pick \in Picks(q)
    PROVE  /\ Drained(q, pick) \in Queues
           /\ Refilled(q, pick) \in [WFQ -> Cached \cup {Null}]
           /\ \A c \in WFQ : ~Refills(q, c) =>
                /\ Refilled(q, pick)[c] = cache[c]
                /\ Drained(q, pick)[c] = q[c]
           /\ \A c \in WFQ : Refills(q, c) =>
                /\ Backlog(q, c) # {}
                /\ cache[c] = Null
                /\ Refilled(q, pick)[c] # Null
                /\ Refilled(q, pick)[c].size = FirstSize(q, c, pick)
                /\ Refilled(q, pick)[c].seq = ToInt(ExactSeq(q, pick, c))
  <1>1. ASSUME NEW c \in WFQ, Refills(q, c)
        PROVE  /\ Backlog(q, c) # {}
               /\ cache[c] = Null
               /\ pick[c] \in Flow
               /\ FirstSize(q, c, pick) \in Size
               /\ ToInt(ExactSeq(q, pick, c)) \in -HalfRange .. HalfRange - 1
               /\ Tail(q[c][pick[c]]) \in Seq(Size)
    <2>1. Backlog(q, c) # {} /\ cache[c] = Null /\ c \in Class
      BY <1>1 DEF Refills, Class
    <2> QED
      BY <2>1, PickYields, TagBounds
  <1>2. ASSUME NEW c \in Class
        PROVE  Drained(q, pick)[c] \in [Flow -> Seq(Size)]
    <2>1. CASE c \in WFQ /\ Refills(q, c)
      <3>1. Drained(q, pick)[c] = [q[c] EXCEPT ![pick[c]] = Tail(@)]
        BY <2>1 DEF Drained
      <3>2. q[c] \in [Flow -> Seq(Size)] /\ Tail(q[c][pick[c]]) \in Seq(Size)
        BY <1>1, <2>1 DEF Queues
      <3> QED
        BY <3>1, <3>2
    <2>2. CASE ~(c \in WFQ /\ Refills(q, c))
      BY <2>2 DEF Drained, Queues
    <2> QED
      BY <2>1, <2>2
  <1>3. Drained(q, pick) \in Queues
    BY <1>2 DEF Drained, Queues
  <1>4. ASSUME NEW c \in WFQ, Refills(q, c)
        PROVE  /\ Refilled(q, pick)[c] = [flow |-> pick[c], size |-> FirstSize(q, c, pick),
                                          seq |-> ToInt(ExactSeq(q, pick, c))]
               /\ Refilled(q, pick)[c] \in Cached
               /\ Refilled(q, pick)[c] # Null
    <2>1. Refilled(q, pick)[c] = [flow |-> pick[c], size |-> FirstSize(q, c, pick),
                                  seq |-> ToInt(ExactSeq(q, pick, c))]
      BY <1>4 DEF Refilled
    <2>2. Refilled(q, pick)[c] \in Cached
      BY <1>1, <1>4, <2>1 DEF Cached
    <2>3. Refilled(q, pick)[c] \in [flow : Flow, size : Size, seq : Int]
      BY <2>2, RangeAssumption DEF Cached
    <2> QED
      BY <2>1, <2>2, <2>3, NullAssumption
  <1>5. ASSUME NEW c \in WFQ, ~Refills(q, c)
        PROVE  /\ Refilled(q, pick)[c] = cache[c]
               /\ Drained(q, pick)[c] = q[c]
    BY <1>5 DEF Refilled, Drained, Class
  <1>6. Refilled(q, pick) \in [WFQ -> Cached \cup {Null}]
    <2>1. \A c \in WFQ : Refilled(q, pick)[c] \in Cached \cup {Null}
      BY <1>4, <1>5 DEF TypeOK
    <2> QED
      BY <2>1 DEF Refilled
  <1> QED
    BY <1>1, <1>3, <1>4, <1>5, <1>6

-----------------------------------------------------------------------------
(* The pump preserves each part of the invariant.                          *)

(* What a refill leaves in the queues and in the tags has its type.        *)
LEMMA RefillTypes ==
    ASSUME TypeOK, NEW q \in Queues, NEW pick \in Picks(q), Refill(q, pick)
    PROVE  /\ queue' \in Queues
           /\ tokens' \in [SP -> 0 .. BucketSize]
           /\ lastSeq' \in [WFQ -> -HalfRange .. HalfRange - 1]
           /\ wrapped' \in BOOLEAN
  <1>1. queue' \in Queues
    BY RefillFacts DEF Refill
  <1>2. tokens' \in [SP -> 0 .. BucketSize]
    BY DEF Refill, TypeOK
  <1>3. lastSeq' \in [WFQ -> -HalfRange .. HalfRange - 1]
    <2>1. ASSUME NEW c \in WFQ
          PROVE  lastSeq'[c] \in -HalfRange .. HalfRange - 1
      <3>1. CASE ~Refills(q, c)
        BY <3>1 DEF Refill, TypeOK
      <3>2. CASE Refills(q, c)
        <4>1. Refilled(q, pick)[c].seq \in -HalfRange .. HalfRange - 1
          BY <3>2, RefillFacts, TagBounds
        <4>2. NoSeq \in -HalfRange .. HalfRange - 1
          BY RangeAssumption DEF NoSeq
        <4>3. lastSeq'[c] \in {NoSeq, Refilled(q, pick)[c].seq}
          BY <3>2 DEF Refill
        <4> QED
          BY <4>1, <4>2, <4>3
      <3> QED
        BY <3>1, <3>2
    <2> QED
      BY <2>1 DEF Refill
  <1>4. wrapped' \in BOOLEAN
    BY DEF Refill, TypeOK
  <1> QED
    BY <1>1, <1>2, <1>3, <1>4

(* A step of the pump keeps the types of all it changes.                    *)
LEMMA PumpTypes ==
    ASSUME TypeOK, NEW q \in Queues, NEW timers \in Seq(Packet), Pump(q, timers)
    PROVE  /\ queue' \in Queues
           /\ tokens' \in [SP -> 0 .. BucketSize]
           /\ cache' \in [WFQ -> Cached \cup {Null}]
           /\ lastSeq' \in [WFQ -> -HalfRange .. HalfRange - 1]
           /\ virtualTime' \in 0 .. UintMax
           /\ pending' \in Seq(Packet)
           /\ canScheduler' \in BOOLEAN
           /\ wrapped' \in BOOLEAN
  <1>1. PICK pick \in Picks(q) :
            SendSP(q, timers, pick) \/ SendWFQ(q, timers, pick) \/ Rest(q, timers, pick)
    BY DEF Pump
  <1>2. CASE SendSP(q, timers, pick)
    <2>1. PICK i \in DOMAIN SPOrder :
            /\ Pays(q, pick, SPOrder[i])
            /\ queue' = [q EXCEPT ![SPOrder[i]][pick[SPOrder[i]]] = Tail(@)]
            /\ tokens' = [tokens EXCEPT ![SPOrder[i]] = @ - FirstSize(q, SPOrder[i], pick)]
            /\ Launch(timers, SPOrder[i], pick[SPOrder[i]], FirstSize(q, SPOrder[i], pick))
            /\ UNCHANGED wfqVars
      BY <1>2 DEF SendSP
    <2> DEFINE c == SPOrder[i]
    <2>2. c \in SP /\ c \in Class
      BY DEF SP, Class
    <2>3. /\ pick[c] \in Flow
          /\ q[c][pick[c]] # << >>
          /\ FirstSize(q, c, pick) \in Size
          /\ FirstSize(q, c, pick) \in 1 .. MaxSize
      BY <2>1, <2>2, PaysBacklogged, PickYields
    <2>4. queue' \in Queues
      BY <2>1, <2>2, <2>3, TailLeavesQueues
    <2>5. tokens' \in [SP -> 0 .. BucketSize]
      <3>1. tokens[c] \in 0 .. BucketSize /\ tokens[c] > FirstSize(q, c, pick)
        BY <2>1, <2>2 DEF TypeOK, Pays
      <3>2. tokens[c] - FirstSize(q, c, pick) \in 0 .. BucketSize
        BY <3>1, <2>3, SizeAssumption, TokenAssumption
      <3> QED
        BY <2>1, <2>2, <3>2 DEF TypeOK
    <2>6. pending' \in Seq(Packet) /\ canScheduler' \in BOOLEAN
      BY <2>1, <2>2, <2>3, LaunchTypes
    <2> QED
      BY <2>1, <2>4, <2>5, <2>6 DEF TypeOK, wfqVars
  <1>3. CASE SendWFQ(q, timers, pick)
    <2> DEFINE filled == Refilled(q, pick)
    <2>1. PICK i \in DOMAIN WFQOrder :
            /\ Tag(filled, WFQOrder[i]) < UintMax
            /\ virtualTime' = Tag(filled, WFQOrder[i])
            /\ cache' = [filled EXCEPT ![WFQOrder[i]] = Null]
            /\ Launch(timers, WFQOrder[i], filled[WFQOrder[i]].flow, filled[WFQOrder[i]].size)
      BY <1>3 DEF SendWFQ
    <2> DEFINE c == WFQOrder[i]
    <2>2. c \in WFQ /\ c \in Class
      BY DEF WFQ, Class
    <2>3. filled \in [WFQ -> Cached \cup {Null}]
      BY RefillFacts
    <2>4. filled[c] \in Cached
      BY <2>1, <2>2, <2>3, RangeAssumption DEF Tag, UintMax
    <2>5. virtualTime' \in 0 .. UintMax
      BY <2>1, <2>4, RangeAssumption DEF Tag, ToUint, UintMax, Cached
    <2>6. cache' \in [WFQ -> Cached \cup {Null}]
      BY <2>1, <2>2, <2>3
    <2>7. pending' \in Seq(Packet) /\ canScheduler' \in BOOLEAN
      <3>1. filled[c].flow \in Flow /\ filled[c].size \in Size
        BY <2>4 DEF Cached
      <3> QED
        BY <2>1, <2>2, <3>1, LaunchTypes
    <2>8. Refill(q, pick)
      BY <1>3 DEF SendWFQ
    <2> QED
      BY <2>5, <2>6, <2>7, <2>8, RefillTypes
  <1>4. CASE Rest(q, timers, pick)
    <2>1. Refill(q, pick) /\ cache' = Refilled(q, pick)
      BY <1>4 DEF Rest
    <2> QED
      BY <1>4, <2>1, RefillTypes, RefillFacts DEF Rest, TypeOK
  <1> QED
    BY <1>1, <1>2, <1>3, <1>4

(* The pump started without a timer leaves at most one, and a flag that     *)
(* says so.                                                                *)
LEMMA PumpOneTimer ==
    ASSUME NEW q, Pump(q, << >>)
    PROVE  OneTimer'
  <1>1. ASSUME NEW c, NEW f, NEW s, Launch(<< >>, c, f, s)
        PROVE  OneTimer'
    BY <1>1 DEF Launch, OneTimer
  <1>2. PICK pick \in Picks(q) :
            SendSP(q, << >>, pick) \/ SendWFQ(q, << >>, pick) \/ Rest(q, << >>, pick)
    BY DEF Pump
  <1>3. CASE SendSP(q, << >>, pick)
    BY <1>1, <1>3 DEF SendSP
  <1>4. CASE SendWFQ(q, << >>, pick)
    BY <1>1, <1>4 DEF SendWFQ
  <1>5. CASE Rest(q, << >>, pick)
    BY <1>5 DEF Rest, OneTimer
  <1> QED
    BY <1>2, <1>3, <1>4, <1>5

(* The pump rests only when the weighted classes are empty, up to the tag   *)
(* that reads as "no packet".                                              *)
LEMMA PumpRests ==
    ASSUME TypeOK, NEW q \in Queues, NEW timers \in Seq(Packet), Pump(q, timers)
    PROVE  RestsOnlyWhenEmpty'
  <1>1. PICK pick \in Picks(q) :
            SendSP(q, timers, pick) \/ SendWFQ(q, timers, pick) \/ Rest(q, timers, pick)
    BY DEF Pump
  <1>2. CASE SendSP(q, timers, pick) \/ SendWFQ(q, timers, pick)
    BY <1>2 DEF SendSP, SendWFQ, Launch, RestsOnlyWhenEmpty
  <1>3. CASE Rest(q, timers, pick)
    <2> DEFINE filled == Refilled(q, pick)
    <2>1. /\ queue' = Drained(q, pick)
          /\ cache' = filled
          /\ \A c \in WFQ : Tag(filled, c) = UintMax
      BY <1>3 DEF Rest, Refill
    <2>2. ASSUME NEW c \in WFQ, filled[c] # Null
          PROVE  ToUint(filled[c].seq) = UintMax
      BY <2>1, <2>2 DEF Tag
    <2>3. ASSUME NEW c \in WFQ, filled[c] = Null
          PROVE  Backlog(queue', c) = {}
      <3>1. ~Refills(q, c)
        BY <2>3, RefillFacts
      <3>2. cache[c] = Null /\ queue'[c] = q[c]
        BY <2>1, <2>3, <3>1, RefillFacts
      <3>3. Backlog(q, c) = {}
        BY <3>1, <3>2 DEF Refills
      <3> QED
        BY <3>2, <3>3 DEF Backlog
    <2> HIDE DEF filled
    <2> QED
      BY <2>1, <2>2, <2>3 DEF RestsOnlyWhenEmpty
  <1> QED
    BY <1>1, <1>2, <1>3

(* Products keep order.                                                    *)
LEMMA TimesMonotone ==
    ASSUME NEW a \in Int, NEW b \in Int, a <= b, NEW w \in Nat,
           NEW s \in Int, b * w <= s
    PROVE  a * w <= s
  <1>1. a * w <= b * w
    OBVIOUS
  <1> QED
    BY <1>1

(* After a refill without overflow every cached tag lies at virtual time or *)
(* at most its packet's scaled size beyond it.                             *)
LEMMA RefillInPlace ==
    ASSUME TypeOK, TagsInPlace, NEW q \in Queues, NEW pick \in Picks(q),
           \A c \in WFQ : Backlog(queue, c) \subseteq Backlog(q, c),
           Refill(q, pick), ~wrapped', NEW c \in WFQ
    PROVE  /\ Refilled(q, pick)[c] # Null =>
                /\ virtualTime <= Refilled(q, pick)[c].seq
                /\ (Refilled(q, pick)[c].seq - virtualTime) * Weight[c]
                        <= Refilled(q, pick)[c].size
           /\ lastSeq'[c] # NoSeq =>
                /\ Backlog(queue', c) # {}
                /\ Refilled(q, pick)[c] # Null
                /\ lastSeq'[c] = Refilled(q, pick)[c].seq
  <1>1. ~wrapped /\ InPlace(c) /\ virtualTime \in Nat
    BY RangeAssumption DEF Refill, TagsInPlace, TypeOK, UintMax
  <1>2. queue' = Drained(q, pick)
    BY DEF Refill
  <1>3. CASE ~Refills(q, c)
    <2>1. Refilled(q, pick)[c] = cache[c] /\ queue'[c] = q[c] /\ lastSeq'[c] = lastSeq[c]
      BY <1>2, <1>3, RefillFacts DEF Refill
    <2>2. lastSeq[c] # NoSeq => Backlog(q, c) # {} /\ cache[c] # Null
      BY <1>1, <1>3 DEF InPlace, Refills
    <2>3. Backlog(queue', c) = Backlog(q, c)
      BY <2>1 DEF Backlog
    <2> QED
      BY <1>1, <2>1, <2>2, <2>3 DEF InPlace
  <1>4. CASE Refills(q, c)
    <2>1. Base(c) = virtualTime
      BY <1>1, <1>4 DEF Base, InPlace, Refills
    <2>2. ToInt(ExactSeq(q, pick, c)) = ExactSeq(q, pick, c)
      <3>1. ~(ExactSeq(q, pick, c) >= HalfRange)
        BY <1>4 DEF Refill
      <3>2. ExactSeq(q, pick, c) \in Int
        BY <1>4, RefillFacts, TagBounds
      <3> QED
        BY <3>1, <3>2, RangeAssumption DEF ToInt
    <2>3. /\ Refilled(q, pick)[c] # Null
          /\ Refilled(q, pick)[c].seq = ExactSeq(q, pick, c)
          /\ Refilled(q, pick)[c].size = FirstSize(q, c, pick)
      BY <1>4, <2>2, RefillFacts
    <2>4. /\ virtualTime <= ExactSeq(q, pick, c)
          /\ (ExactSeq(q, pick, c) - virtualTime) * Weight[c] <= FirstSize(q, c, pick)
      BY <1>1, <1>4, <2>1, RefillFacts, TagBounds
    <2>5. lastSeq'[c] # NoSeq => /\ Backlog(queue', c) # {}
                                 /\ lastSeq'[c] = Refilled(q, pick)[c].seq
      BY <1>2, <1>4 DEF Refill
    <2> QED
      BY <2>3, <2>4, <2>5
  <1> QED
    BY <1>3, <1>4

(* The pump keeps every class in its place in virtual time.                 *)
LEMMA PumpTags ==
    ASSUME TypeOK, TagsInPlace, NEW q \in Queues, NEW timers \in Seq(Packet),
           \A c \in WFQ : Backlog(queue, c) \subseteq Backlog(q, c),
           Pump(q, timers)
    PROVE  TagsInPlace'
  <1> SUFFICES ASSUME ~wrapped'
               PROVE  virtualTime' < HalfRange /\ \A c \in WFQ : InPlace(c)'
    BY DEF TagsInPlace
  <1>1. PICK pick \in Picks(q) :
            SendSP(q, timers, pick) \/ SendWFQ(q, timers, pick) \/ Rest(q, timers, pick)
    BY DEF Pump
  <1> DEFINE filled == Refilled(q, pick)
  <1>2. CASE SendSP(q, timers, pick)
    <2>1. PICK i \in DOMAIN SPOrder :
            /\ queue' = [q EXCEPT ![SPOrder[i]][pick[SPOrder[i]]] = Tail(@)]
            /\ UNCHANGED wfqVars
      BY <1>2 DEF SendSP
    <2>2. ~wrapped /\ virtualTime < HalfRange /\ \A c \in WFQ : InPlace(c)
      BY <2>1 DEF TagsInPlace, wfqVars
    <2>3. ASSUME NEW c \in WFQ
          PROVE  InPlace(c)'
      <3>1. c # SPOrder[i]
        BY ClassAssumption DEF SP
      <3>2. queue'[c] = q[c]
        BY <2>1, <3>1 DEF Queues, Class
      <3>3. Backlog(queue', c) = Backlog(q, c)
        BY <3>2 DEF Backlog
      <3> QED
        BY <2>1, <2>2, <3>3 DEF InPlace, wfqVars
    <2> QED
      BY <2>1, <2>2, <2>3 DEF wfqVars
  <1>3. CASE Rest(q, timers, pick)
    <2>1. Refill(q, pick) /\ cache' = filled /\ virtualTime' = virtualTime
      BY <1>3 DEF Rest
    <2>2. virtualTime < HalfRange
      BY <2>1 DEF Refill, TagsInPlace
    <2>3. \A c \in WFQ : InPlace(c)'
      BY <2>1, RefillInPlace DEF InPlace
    <2> QED
      BY <2>1, <2>2, <2>3
  <1>4. CASE SendWFQ(q, timers, pick)
    <2>1. Refill(q, pick)
      BY <1>4 DEF SendWFQ
    <2>2. PICK i \in DOMAIN WFQOrder :
            /\ Tag(filled, WFQOrder[i]) < UintMax
            /\ \A j \in DOMAIN WFQOrder : Tag(filled, WFQOrder[i]) <= Tag(filled, WFQOrder[j])
            /\ virtualTime' = Tag(filled, WFQOrder[i])
            /\ cache' = [filled EXCEPT ![WFQOrder[i]] = Null]
      BY <1>4 DEF SendWFQ
    <2> DEFINE w == WFQOrder[i]
    <2>3. w \in WFQ /\ virtualTime \in Nat /\ filled \in [WFQ -> Cached \cup {Null}]
      <3>1. w \in WFQ
        BY DEF WFQ
      <3>2. virtualTime \in Nat
        BY RangeAssumption DEF TypeOK, UintMax
      <3> QED
        BY <3>1, <3>2, RefillFacts
    <2>4. ASSUME NEW c \in WFQ, filled[c] # Null
          PROVE  /\ filled[c].seq \in Int
                 /\ filled[c].seq < HalfRange
                 /\ virtualTime <= filled[c].seq
                 /\ (filled[c].seq - virtualTime) * Weight[c] <= filled[c].size
                 /\ Tag(filled, c) = filled[c].seq
      <3>1. filled[c] \in Cached
        BY <2>3, <2>4
      <3>2. /\ virtualTime <= filled[c].seq
            /\ (filled[c].seq - virtualTime) * Weight[c] <= filled[c].size
        BY <2>1, <2>4, RefillInPlace
      <3> QED
        BY <2>3, <2>4, <3>1, <3>2, RangeAssumption DEF Cached, Tag, ToUint
    <2>5. filled[w] # Null
      BY <2>2, RangeAssumption DEF Tag, UintMax
    <2>6. virtualTime' = filled[w].seq
      BY <2>2, <2>3, <2>4, <2>5
    <2>7. virtualTime' \in Int /\ virtualTime <= virtualTime' /\ virtualTime' < HalfRange
      BY <2>3, <2>4, <2>5, <2>6
    <2>8. ASSUME NEW c \in WFQ
          PROVE  InPlace(c)'
      <3>1. CASE c = w
        <4>1. cache'[c] = Null
          BY <2>2, <2>3, <3>1
        <4>2. lastSeq'[c] # NoSeq => Backlog(queue', c) # {} /\ lastSeq'[c] = filled[w].seq
          BY <2>1, <3>1, RefillInPlace
        <4> QED
          BY <2>6, <4>1, <4>2 DEF InPlace
      <3>2. CASE c # w
        <4>1. cache'[c] = filled[c]
          BY <2>2, <2>3, <3>2
        <4>2. lastSeq'[c] # NoSeq => /\ Backlog(queue', c) # {}
                                     /\ filled[c] # Null
                                     /\ lastSeq'[c] = filled[c].seq
          BY <2>1, RefillInPlace
        <4>3. ASSUME filled[c] # Null
              PROVE  /\ virtualTime' <= filled[c].seq
                     /\ (filled[c].seq - virtualTime') * Weight[c] <= filled[c].size
          <5>1. PICK j \in DOMAIN WFQOrder : c = WFQOrder[j]
            BY DEF WFQ
          <5>2. virtualTime' <= filled[c].seq
            BY <2>2, <2>4, <4>3, <5>1
          <5>3. filled[c] \in Cached
            BY <2>3, <4>3
          <5>4. Weight[c] \in Nat /\ filled[c].size \in Int
            <6>1. filled[c].size \in Size
              BY <5>3 DEF Cached
            <6>2. Size \subseteq Int
              BY SizeAssumption
            <6> QED
              BY <6>1, <6>2, WeightAssumption
          <5>5. filled[c].seq - virtualTime' \in Int /\ filled[c].seq - virtualTime \in Int
            BY <2>3, <2>4, <2>7, <4>3
          <5>6. filled[c].seq - virtualTime' <= filled[c].seq - virtualTime
            BY <2>3, <2>4, <2>7, <4>3
          <5>7. (filled[c].seq - virtualTime) * Weight[c] <= filled[c].size
            BY <2>4, <4>3
          <5> HIDE DEF filled
          <5>8. (filled[c].seq - virtualTime') * Weight[c] <= filled[c].size
            BY ONLY <5>4, <5>5, <5>6, <5>7, TimesMonotone
          <5> QED
            BY ONLY <5>2, <5>8
        <4> QED
          BY <4>1, <4>2, <4>3 DEF InPlace
      <3> QED
        BY <3>1, <3>2
    <2> QED
      BY <2>7, <2>8
  <1> QED
    BY <1>1, <1>2, <1>3, <1>4

-----------------------------------------------------------------------------
(* The handlers.                                                           *)

(* An append leaves queues in which no backlog has shrunk.                  *)
LEMMA AppendGrows ==
    ASSUME TypeOK, NEW c \in Class, NEW f \in Flow, NEW s \in Size,
           NEW q, q = IF Accepts(c, f) THEN [queue EXCEPT ![c][f] = Append(@, s)] ELSE queue
    PROVE  /\ q \in Queues
           /\ \A d \in Class : Backlog(queue, d) \subseteq Backlog(q, d)
  <1>1. queue \in Queues
    BY DEF TypeOK, Queues
  <1>2. CASE ~Accepts(c, f)
    BY <1>1, <1>2
  <1>3. CASE Accepts(c, f)
    <2>1. queue[c][f] \in Seq(Size)
      BY <1>1 DEF Queues
    <2>2. Append(queue[c][f], s) \in Seq(Size) /\ Append(queue[c][f], s) # << >>
      BY <2>1, AppendStaysSeq
    <2>3. q = [queue EXCEPT ![c][f] = Append(@, s)]
      BY <1>3
    <2>4. q \in Queues
      BY <1>1, <2>2, <2>3 DEF Queues
    <2>5. ASSUME NEW d \in Class, NEW g \in Flow, queue[d][g] # << >>
          PROVE  q[d][g] # << >>
      BY <1>1, <2>2, <2>3, <2>5 DEF Queues
    <2> QED
      BY <2>4, <2>5 DEF Backlog
  <1> QED
    BY <1>2, <1>3

(* The invariant holds initially.                                          *)
LEMMA InitIInv == Init => IInv
  <1> SUFFICES ASSUME Init PROVE IInv
    OBVIOUS
  <1>1. TypeOK
    <2>1. queue \in [Class -> [Flow -> Seq(Size)]] /\ pending \in Seq(Packet)
      BY DEF Init
    <2>2. tokens \in [SP -> 0 .. BucketSize] /\ arrivals \in 0 .. MaxArrivals
      BY TokenAssumption, BoundAssumption DEF Init
    <2>3. cache \in [WFQ -> Cached \cup {Null}]
      BY DEF Init
    <2>4. NoSeq \in -HalfRange .. HalfRange - 1 /\ 0 \in 0 .. UintMax
      BY RangeAssumption DEF NoSeq, UintMax
    <2>5. lastSeq \in [WFQ -> -HalfRange .. HalfRange - 1] /\ virtualTime \in 0 .. UintMax
      BY <2>4 DEF Init
    <2> QED
      BY <2>1, <2>2, <2>3, <2>5 DEF Init, TypeOK
  <1>2. OneTimer
    BY DEF Init, OneTimer
  <1>3. RestsOnlyWhenEmpty
    BY DEF Init, RestsOnlyWhenEmpty, Backlog, Class
  <1>4. TagsInPlace
    BY RangeAssumption DEF Init, TagsInPlace, InPlace
  <1> QED
    BY <1>1, <1>2, <1>3, <1>4 DEF IInv

(* Every handler preserves it.                                             *)
LEMMA NextIInv == IInv /\ [Next]_vars => IInv'
  <1> SUFFICES ASSUME IInv, [Next]_vars PROVE IInv'
    OBVIOUS
  <1> USE DEF IInv
  <1>1. ASSUME NEW c \in Class, NEW f \in Flow, NEW s \in Size, DoSendInterest(c, f, s)
        PROVE  IInv'
    <2> DEFINE q == IF Accepts(c, f) THEN [queue EXCEPT ![c][f] = Append(@, s)] ELSE queue
    <2>1. /\ q \in Queues
          /\ \A d \in Class : Backlog(queue, d) \subseteq Backlog(q, d)
      BY <1>1, AppendGrows
    <2>2. arrivals' \in 0 .. MaxArrivals
      BY <1>1, BoundAssumption DEF DoSendInterest, TypeOK
    <2>3. \A d \in WFQ : Backlog(queue, d) \subseteq Backlog(q, d)
      BY <2>1 DEF Class
    <2>4. CASE canScheduler
      <3>1. Pump(q, pending) /\ pending = << >>
        BY <1>1, <2>4 DEF DoSendInterest, OneTimer
      <3>2. pending \in Seq(Packet)
        BY DEF TypeOK
      <3> HIDE DEF q
      <3>3. TypeOK'
        BY <2>1, <2>2, <3>1, <3>2, PumpTypes DEF TypeOK, Queues
      <3> QED
        BY <2>1, <2>3, <3>1, <3>2, <3>3, PumpOneTimer, PumpRests, PumpTags
    <2>5. CASE ~canScheduler
      <3>1. queue' = q /\ UNCHANGED <<tokens, wfqVars, pending, canScheduler>>
        BY <1>1, <2>5 DEF DoSendInterest
      <3> HIDE DEF q
      <3>2. TypeOK'
        BY <2>1, <2>2, <3>1 DEF TypeOK, Queues, wfqVars
      <3>3. OneTimer' /\ RestsOnlyWhenEmpty'
        BY <2>5, <3>1 DEF OneTimer, RestsOnlyWhenEmpty
      <3>4. ASSUME NEW d \in WFQ, InPlace(d)
            PROVE  InPlace(d)'
        BY <2>3, <3>1, <3>4 DEF InPlace, wfqVars
      <3>5. TagsInPlace'
        BY <3>1, <3>4 DEF TagsInPlace, wfqVars
      <3> QED
        BY <3>2, <3>3, <3>5
    <2> QED
      BY <2>4, <2>5
  <1>2. ASSUME NEW i \in DOMAIN pending, SendPacketCallback(i)
        PROVE  IInv'
    <2>1. Without(pending, i) = << >>
      <3>1. pending \in Seq(Packet) /\ Len(pending) <= 1
        BY DEF TypeOK, OneTimer
      <3>2. i = 1 /\ Len(pending) = 1
        <4>1. i \in 1 .. Len(pending) /\ Len(pending) \in Nat
          BY <3>1
        <4>2. \A n \in Nat : n <= 1 => \A k \in 1 .. n : k = 1 /\ n = 1
          OBVIOUS
        <4> QED
          BY <3>1, <4>1, <4>2
      <3> QED
        BY <3>1, <3>2 DEF Without
    <2>2. Pump(queue, << >>) /\ arrivals' = arrivals
      BY <1>2, <2>1 DEF SendPacketCallback
    <2>3. queue \in Queues /\ << >> \in Seq(Packet)
      BY DEF TypeOK, Queues
    <2>4. TypeOK'
      BY <2>2, <2>3, PumpTypes DEF TypeOK, Queues
    <2> QED
      BY <2>2, <2>3, <2>4, PumpOneTimer, PumpRests, PumpTags
  <1>3. ASSUME NEW c \in SP, GenerateToken(c)
        PROVE  IInv'
    <2>1. tokens' \in [SP -> 0 .. BucketSize]
      <3>1. tokens[c] \in 0 .. BucketSize /\ EachStep[c] \in Nat
        BY TokenAssumption DEF TypeOK
      <3> DEFINE n == IF tokens[c] + EachStep[c] > BucketSize THEN BucketSize
                      ELSE tokens[c] + EachStep[c]
      <3>2. n \in 0 .. BucketSize
        BY <3>1, TokenAssumption
      <3>3. tokens' = [tokens EXCEPT ![c] = n]
        BY <1>3 DEF GenerateToken
      <3> HIDE DEF n
      <3> QED
        BY <3>2, <3>3 DEF TypeOK
    <2>2. UNCHANGED <<queue, wfqVars, pending, canScheduler, arrivals>>
      BY <1>3 DEF GenerateToken
    <2>3. TypeOK'
      BY <2>1, <2>2 DEF TypeOK, wfqVars
    <2>4. OneTimer' /\ RestsOnlyWhenEmpty' /\ TagsInPlace'
      BY <2>2 DEF OneTimer, RestsOnlyWhenEmpty, TagsInPlace, InPlace, wfqVars
    <2> QED
      BY <2>3, <2>4
  <1>4. CASE UNCHANGED vars
    BY <1>4 DEF vars, wfqVars, TypeOK, OneTimer, RestsOnlyWhenEmpty, TagsInPlace, InPlace
  <1> QED
    BY <1>1, <1>2, <1>3, <1>4 DEF Next

-----------------------------------------------------------------------------
(* Theorems.                                                               *)

(* Every variable keeps the type the code declares: tokens stay in their    *)
(* bucket, tags in int and virtual time in uint32.                         *)
THEOREM TypeCorrect == Spec => []TypeOK
  <1>1. IInv => TypeOK
    BY DEF IInv
  <1> QED
    BY <1>1, InitIInv, NextIInv, PTL DEF Spec

(* At most one send timer runs, and canScheduler is TRUE exactly when none   *)
(* does: the pump neither doubles nor stalls.                              *)
THEOREM PumpSafe == Spec => []OneTimer
  <1>1. IInv => OneTimer
    BY DEF IInv
  <1> QED
    BY <1>1, InitIInv, NextIInv, PTL DEF Spec

(* The pump rests only when no weighted class holds a packet, or when the    *)
(* tag of the packet it caches has become the value for "no packet".        *)
THEOREM PumpWorkConserving == Spec => []RestsOnlyWhenEmpty
  <1>1. IInv => RestsOnlyWhenEmpty
    BY DEF IInv
  <1> QED
    BY <1>1, InitIInv, NextIInv, PTL DEF Spec

(* Until a tag overflows, every waiting class is within one packet, scaled  *)
(* by its weight, of virtual time.                                         *)
THEOREM WFQLagBounded == Spec => []LagBounded
  <1>1. IInv => LagBounded
    BY DEF IInv, TagsInPlace, InPlace, LagBounded
  <1> QED
    BY <1>1, InitIInv, NextIInv, PTL DEF Spec
=============================================================================
