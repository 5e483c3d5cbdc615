------------------------ MODULE QSCCPForwarder_proofs ------------------------
(***************************************************************************)
(* Theorems about QSCCPForwarder, for any faces, next hops, lifetimes and   *)
(* numbers of Interests.                                                   *)
(***************************************************************************)
EXTENDS QSCCPForwarder, TLAPS

-----------------------------------------------------------------------------
(* Facts about constants and records.                                      *)

LEMMA MostTicksType == MostTicks \in Lifetime /\ \A l \in Lifetime : l <= MostTicks
  BY TimeAssumption DEF MostTicks

LEMMA TicksNat == MostTicks \in Nat /\ MostTicks > 0 /\ MinRetxInterval \in Nat /\ MinRetxInterval > 0
  BY MostTicksType, TimeAssumption

LEMMA ChoicesUpstream ==
  ASSUME NEW f, NEW u \in Choices(f), u # NoFace
  PROVE  u \in Upstream
  BY DEF Choices, Eligible, Upstream

(* What With and Less do to a function of records.                         *)
LEMMA WithType ==
  ASSUME NEW R, NEW D, NEW r, DOMAIN r \subseteq D, r \in [DOMAIN r -> R],
         NEW f \in D, NEW rec \in R
  PROVE  /\ DOMAIN With(r, f, rec) = DOMAIN r \cup {f}
         /\ DOMAIN With(r, f, rec) \subseteq D
         /\ With(r, f, rec) \in [DOMAIN With(r, f, rec) -> R]
         /\ With(r, f, rec)[f] = rec
         /\ \A g \in DOMAIN r : g # f => With(r, f, rec)[g] = r[g]
  BY DEF With

LEMMA LessType ==
  ASSUME NEW R, NEW D, NEW r, DOMAIN r \subseteq D, r \in [DOMAIN r -> R], NEW S
  PROVE  /\ DOMAIN Less(r, S) = DOMAIN r \ S
         /\ DOMAIN Less(r, S) \subseteq D
         /\ Less(r, S) \in [DOMAIN Less(r, S) -> R]
         /\ \A g \in DOMAIN r \ S : Less(r, S)[g] = r[g]
  BY DEF Less

LEMMA NothingType ==
  ASSUME NEW R
  PROVE  DOMAIN Nothing = {} /\ Nothing \in [DOMAIN Nothing -> R]
  BY DEF Nothing

LEMMA NothingLeft ==
  ASSUME NEW r, NEW S, DOMAIN r \subseteq S
  PROVE  Less(r, S) = Nothing
  BY DEF Less, Nothing

LEMMA LifeType ==
  ASSUME NEW life \in Lifetime
  PROVE  life \in Nat /\ life > 0 /\ life <= MostTicks /\ life \in -1 .. MostTicks
  BY MostTicksType, TicksNat, TimeAssumption

LEMMA InRecordType ==
  ASSUME NEW n \in Nonce, NEW life \in Lifetime
  PROVE  [nonce |-> n, left |-> life] \in InRecord
  BY LifeType DEF InRecord

LEMMA OutRecordType ==
  ASSUME NEW out, NEW u, NEW n \in Nonce, NEW life \in Lifetime,
         DOMAIN out \subseteq Upstream, out \in [DOMAIN out -> OutRecord]
  PROVE  /\ OutRecordFor(out, u, n, life) \in OutRecord
         /\ OutRecordFor(out, u, n, life).nonce = n
         /\ u \notin DOMAIN out => ~OutRecordFor(out, u, n, life).nacked
         /\ u \in DOMAIN out => OutRecordFor(out, u, n, life).nacked = out[u].nacked
  <1>1. (u \in DOMAIN out /\ out[u].nacked) \in BOOLEAN
    BY DEF OutRecord
  <1>2. 0 \in 0 .. MinRetxInterval
    BY TicksNat
  <1>3. life \in -1 .. MostTicks
    BY LifeType
  <1>4. OutRecordFor(out, u, n, life) \in OutRecord
    BY <1>1, <1>2, <1>3 DEF OutRecordFor, OutRecord
  <1>5. OutRecordFor(out, u, n, life).nonce = n
    BY DEF OutRecordFor
  <1>6. u \notin DOMAIN out => ~OutRecordFor(out, u, n, life).nacked
    BY DEF OutRecordFor
  <1>7. u \in DOMAIN out => OutRecordFor(out, u, n, life).nacked = out[u].nacked
    BY <1>1 DEF OutRecordFor, OutRecord
  <1> QED
    BY <1>4, <1>5, <1>6, <1>7

(* Answers go to faces of the node.                                        *)
LEMMA AnswerType ==
  ASSUME NEW kind \in {"Interest", "Data", "Nack"}, NEW r, NEW S \in SUBSET DOMAIN r,
         DOMAIN r \subseteq Downstream, r \in [DOMAIN r -> InRecord]
  PROVE  Answer(kind, r, S) \subseteq Packet
  <1> SUFFICES ASSUME NEW f \in S
               PROVE  [kind |-> kind, to |-> f, nonce |-> r[f].nonce] \in Packet
    BY DEF Answer
  <1>1. f \in Face
    BY DEF Face
  <1>2. r[f].nonce \in Nonce
    BY DEF InRecord
  <1> QED
    BY <1>1, <1>2 DEF Packet

-----------------------------------------------------------------------------
(* Types.  The wire carries no more than the Interests that came.           *)

WireCounted == \A x \in Upstream \X Nonce : wire[x] <= arrivals

Bare == ~exists => inR = Nothing /\ outR = Nothing /\ timer = NoTimer

Typed == TypeOK /\ WireCounted /\ Bare

RecordsOK == /\ DOMAIN inR \subseteq Downstream /\ inR \in [DOMAIN inR -> InRecord]
             /\ DOMAIN outR \subseteq Upstream /\ outR \in [DOMAIN outR -> OutRecord]
             /\ timer \in NoTimer .. MostTicks

WireOK == /\ wire \in [Upstream \X Nonce -> 0 .. MaxArrivals]
          /\ WireCounted
          /\ arrivals \in 0 .. MaxArrivals

LEMMA TimerType ==
  ASSUME NEW r, r \in [DOMAIN r -> InRecord], TimerOfLast(r)
  PROVE  timer' \in NoTimer .. MostTicks
  BY DEF TimerOfLast, InRecord, NoTimer

LEMMA ZeroIsTime == 0 \in NoTimer .. MostTicks /\ NoTimer \in NoTimer .. MostTicks
  BY TicksNat DEF NoTimer

LEMMA RecordsOfInterest ==
  ASSUME RecordsOK, NEW f \in Downstream, NEW n \in Nonce, NEW life \in Lifetime,
         OnContentStoreMiss(f, n, life)
  PROVE  RecordsOK'
  <1> DEFINE r == With(inR, f, [nonce |-> n, left |-> life])
  <1>1. /\ DOMAIN r \subseteq Downstream /\ r \in [DOMAIN r -> InRecord]
    <2>1. [nonce |-> n, left |-> life] \in InRecord
      BY InRecordType
    <2>2. DOMAIN inR \subseteq Downstream /\ inR \in [DOMAIN inR -> InRecord]
      BY DEF RecordsOK
    <2> QED
      BY <2>1, <2>2 DEF With, r
  <1> HIDE DEF r
  <1>2. CASE Suppress(r)
    BY <1>1, <1>2, TimerType DEF Suppress, RecordsOK
  <1>3. ASSUME NEW u \in Choices(f), SendInterest(r, f, u, n, life)
        PROVE  RecordsOK'
    <2>1. u \in Upstream
      BY <1>3, ChoicesUpstream DEF SendInterest
    <2>2. OutRecordFor(outR, u, n, life) \in OutRecord
      BY <2>1, OutRecordType DEF RecordsOK
    <2>3. DOMAIN outR' \subseteq Upstream /\ outR' \in [DOMAIN outR' -> OutRecord]
      <3>1. outR' = With(outR, u, OutRecordFor(outR, u, n, life))
        BY <1>3 DEF SendInterest
      <3>2. DOMAIN outR \subseteq Upstream /\ outR \in [DOMAIN outR -> OutRecord]
        BY DEF RecordsOK
      <3> QED
        BY ONLY <3>1, <3>2, <2>1, <2>2 DEF With
    <2> QED
      BY <1>1, <1>3, <2>3, TimerType DEF SendInterest, RecordsOK
  <1>4. CASE NackNoRoute(r, f)
    <2>1. DOMAIN inR' \subseteq Downstream /\ inR' \in [DOMAIN inR' -> InRecord]
      BY <1>1, <1>4, LessType DEF NackNoRoute
    <2> QED
      BY <1>4, <2>1, ZeroIsTime DEF NackNoRoute, RejectPendingInterest, RecordsOK
  <1> QED
    BY <1>2, <1>3, <1>4 DEF OnContentStoreMiss, r

LEMMA RecordsOfData ==
  ASSUME RecordsOK, NEW u \in Upstream, NEW n \in Nonce, OnIncomingData(u, n)
  PROVE  RecordsOK'
  <1>1. CASE exists
    <2>1. DOMAIN inR' \subseteq Downstream /\ inR' \in [DOMAIN inR' -> InRecord]
      BY <1>1 DEF OnIncomingData, RecordsOK, Less
    <2>2. DOMAIN outR' \subseteq Upstream /\ outR' \in [DOMAIN outR' -> OutRecord]
      BY <1>1 DEF OnIncomingData, OutAfterData, RecordsOK, Less
    <2>3. timer' = 0
      BY <1>1 DEF OnIncomingData
    <2> QED
      BY <2>1, <2>2, <2>3, ZeroIsTime DEF RecordsOK
  <1>2. CASE ~exists
    BY <1>2 DEF OnIncomingData, RecordsOK
  <1> QED
    BY <1>1, <1>2

LEMMA RecordsOfNack ==
  ASSUME RecordsOK, NEW u \in Upstream, NEW n \in Nonce, OnIncomingNack(u, n)
  PROVE  RecordsOK'
  <1> DEFINE out == [outR EXCEPT ![u].nacked = TRUE]
  <1>1. CASE u \in DOMAIN outR /\ outR[u].nonce = n
    <2>1. outR' = out /\ timer' = TimerAfterNack(out) /\ inR' = Less(inR, ToBeNacked(out))
      BY <1>1 DEF OnIncomingNack
    <2>2. DOMAIN out = DOMAIN outR /\ out \in [DOMAIN out -> OutRecord]
      BY <1>1 DEF RecordsOK, OutRecord
    <2> HIDE DEF out
    <2>3. DOMAIN inR' \subseteq Downstream /\ inR' \in [DOMAIN inR' -> InRecord]
      BY <2>1 DEF RecordsOK, Less
    <2>4. timer' \in NoTimer .. MostTicks
      BY <2>1, ZeroIsTime DEF TimerAfterNack, RecordsOK
    <2> QED
      BY <2>1, <2>2, <2>3, <2>4 DEF RecordsOK
  <1>2. CASE ~(u \in DOMAIN outR /\ outR[u].nonce = n)
    BY <1>2 DEF OnIncomingNack, RecordsOK
  <1> QED
    BY <1>1, <1>2

LEMMA RecordsOfTick ==
  ASSUME RecordsOK, Tick
  PROVE  RecordsOK'
  <1>1. timer' \in NoTimer .. MostTicks
    <2>1. timer' = timer - 1 /\ timer > 0
      BY DEF Tick
    <2>2. timer \in NoTimer .. MostTicks
      BY DEF RecordsOK
    <2> QED
      BY <2>1, <2>2, TicksNat DEF NoTimer
  <1>2. ASSUME NEW f \in DOMAIN inR
        PROVE  [inR[f] EXCEPT !.left = IF @ < 0 THEN @ ELSE @ - 1] \in InRecord
    BY TicksNat DEF RecordsOK, InRecord
  <1>3. DOMAIN inR' \subseteq Downstream /\ inR' \in [DOMAIN inR' -> InRecord]
    BY <1>2 DEF Tick, RecordsOK
  <1>4. ASSUME NEW u \in DOMAIN outR
        PROVE  [outR[u] EXCEPT !.left = IF @ < 0 THEN @ ELSE @ - 1,
                               !.age = IF @ < MinRetxInterval THEN @ + 1 ELSE @] \in OutRecord
    <2> DEFINE left == IF outR[u].left < 0 THEN outR[u].left ELSE outR[u].left - 1
               age == IF outR[u].age < MinRetxInterval THEN outR[u].age + 1 ELSE outR[u].age
    <2>1. outR[u] \in OutRecord
      BY DEF RecordsOK
    <2>2. left \in -1 .. MostTicks
      BY <2>1, TicksNat DEF OutRecord
    <2>3. age \in 0 .. MinRetxInterval
      BY <2>1, TicksNat DEF OutRecord
    <2> HIDE DEF left, age
    <2>4. [outR[u] EXCEPT !.left = left, !.age = age] \in OutRecord
      BY <2>1, <2>2, <2>3 DEF OutRecord
    <2> QED
      BY <2>4 DEF left, age
  <1>5. DOMAIN outR' \subseteq Upstream /\ outR' \in [DOMAIN outR' -> OutRecord]
    BY <1>4 DEF Tick, RecordsOK
  <1> QED
    BY <1>1, <1>3, <1>5 DEF RecordsOK

(* Every step keeps the records.                                           *)
LEMMA RecordsStep ==
  ASSUME RecordsOK, [Next]_vars
  PROVE  RecordsOK'
  <1>1. ASSUME NEW f \in Downstream, NEW n \in Nonce, NEW life \in Lifetime,
               OnIncomingInterest(f, n, life)
        PROVE  RecordsOK'
    <2>1. CASE OnInterestLoop(f, n)
      BY <2>1 DEF OnInterestLoop, entry, RecordsOK
    <2>2. CASE OnContentStoreMiss(f, n, life)
      BY <2>2, RecordsOfInterest
    <2> QED
      BY <1>1, <2>1, <2>2 DEF OnIncomingInterest
  <1>2. ASSUME NEW u \in Upstream, NEW n \in Nonce, OnIncomingData(u, n)
        PROVE  RecordsOK'
    BY <1>2, RecordsOfData
  <1>3. ASSUME NEW u \in Upstream, NEW n \in Nonce, OnIncomingNack(u, n)
        PROVE  RecordsOK'
    BY <1>3, RecordsOfNack
  <1>4. CASE OnInterestFinalize
    BY <1>4, ZeroIsTime, NothingType DEF OnInterestFinalize, RecordsOK
  <1>5. CASE Tick
    BY <1>5, RecordsOfTick
  <1>6. CASE UNCHANGED vars
    BY <1>6 DEF vars, entry, RecordsOK
  <1> QED
    BY <1>1, <1>2, <1>3, <1>4, <1>5, <1>6 DEF Next

(* The effect of a step on the wire.                                       *)
Sends(u, n) == wire' = [wire EXCEPT ![<<u, n>>] = @ + 1]
Receives(u, n) == wire' = [wire EXCEPT ![<<u, n>>] = @ - 1]

LEMMA WireOfSend ==
  ASSUME WireOK, NEW u \in Upstream, NEW n \in Nonce, Sends(u, n),
         arrivals < MaxArrivals, arrivals' = arrivals + 1
  PROVE  WireOK' /\ Unanswered(u, n)'
  <1>1. wire \in [Upstream \X Nonce -> 0 .. MaxArrivals] /\ <<u, n>> \in Upstream \X Nonce
    BY DEF WireOK
  <1>2. \A x \in Upstream \X Nonce : wire[x] \in Nat /\ wire[x] <= arrivals
    BY BoundAssumption DEF WireOK, WireCounted
  <1>3. \A x \in Upstream \X Nonce :
           wire'[x] = IF x = <<u, n>> THEN wire[x] + 1 ELSE wire[x]
    BY <1>1 DEF Sends
  <1>4. arrivals' \in 0 .. MaxArrivals /\ arrivals \in Nat
    BY BoundAssumption DEF WireOK
  <1>5. \A x \in Upstream \X Nonce : wire'[x] \in 0 .. MaxArrivals /\ wire'[x] <= arrivals'
    BY <1>2, <1>3, <1>4, BoundAssumption
  <1>6. wire' \in [Upstream \X Nonce -> 0 .. MaxArrivals]
    <2>1. wire' = [x \in Upstream \X Nonce |-> wire'[x]]
      BY <1>1 DEF Sends
    <2> QED
      BY <1>5, <2>1
  <1>7. Unanswered(u, n)'
    BY <1>1, <1>2, <1>3 DEF Unanswered
  <1> QED
    BY <1>4, <1>5, <1>6, <1>7 DEF WireOK, WireCounted

LEMMA WireOfReceive ==
  ASSUME WireOK, NEW u \in Upstream, NEW n \in Nonce, Receives(u, n), Unanswered(u, n),
         UNCHANGED arrivals
  PROVE  WireOK'
  <1>1. wire \in [Upstream \X Nonce -> 0 .. MaxArrivals] /\ <<u, n>> \in Upstream \X Nonce
    BY DEF WireOK
  <1>2. \A x \in Upstream \X Nonce : wire[x] \in 0 .. MaxArrivals /\ wire[x] <= arrivals
    BY DEF WireOK, WireCounted
  <1>3. \A x \in Upstream \X Nonce :
           wire'[x] = IF x = <<u, n>> THEN wire[x] - 1 ELSE wire[x]
    BY <1>1 DEF Receives
  <1>4. arrivals' \in 0 .. MaxArrivals /\ arrivals' = arrivals
    BY DEF WireOK
  <1>5. wire[<<u, n>>] > 0
    BY DEF Unanswered
  <1>6. \A x \in Upstream \X Nonce : wire'[x] \in 0 .. MaxArrivals /\ wire'[x] <= arrivals'
    BY <1>2, <1>3, <1>4, <1>5, BoundAssumption
  <1>7. wire' \in [Upstream \X Nonce -> 0 .. MaxArrivals]
    <2>1. wire' = [x \in Upstream \X Nonce |-> wire'[x]]
      BY <1>1 DEF Receives
    <2> QED
      BY <1>6, <2>1
  <1> QED
    BY <1>4, <1>6, <1>7 DEF WireOK, WireCounted

LEMMA WireStep ==
  ASSUME WireOK, [Next]_vars
  PROVE  WireOK'
  <1>1. ASSUME NEW f \in Downstream, NEW n \in Nonce, NEW life \in Lifetime,
               OnIncomingInterest(f, n, life)
        PROVE  WireOK'
    <2>1. arrivals < MaxArrivals /\ arrivals' = arrivals + 1
      BY <1>1 DEF OnIncomingInterest
    <2>2. CASE UNCHANGED wire
      BY <2>1, <2>2, BoundAssumption DEF WireOK, WireCounted
    <2>3. ASSUME NEW r, NEW u \in Choices(f), SendInterest(r, f, u, n, life)
          PROVE  WireOK'
      <3>1. u \in Upstream
        BY <2>3, ChoicesUpstream DEF SendInterest
      <3>2. Sends(u, n)
        BY <2>3 DEF SendInterest, Sends
      <3> QED
        BY <2>1, <3>1, <3>2, WireOfSend
    <2> QED
      BY <1>1, <2>2, <2>3
      DEF OnIncomingInterest, OnInterestLoop, OnContentStoreMiss, Suppress, NackNoRoute
  <1>2. ASSUME NEW u \in Upstream, NEW n \in Nonce, OnIncomingData(u, n) \/ OnIncomingNack(u, n)
        PROVE  WireOK'
    <2>1. Receives(u, n) /\ Unanswered(u, n) /\ UNCHANGED arrivals
      BY <1>2 DEF OnIncomingData, OnIncomingNack, Receives
    <2> QED
      BY <2>1, WireOfReceive
  <1>3. CASE OnInterestFinalize \/ Tick \/ UNCHANGED vars
    BY <1>3 DEF OnInterestFinalize, Tick, vars, WireOK, WireCounted
  <1> QED
    BY <1>1, <1>2, <1>3 DEF Next

(* What is absent is empty.                                                *)
LEMMA BareStep ==
  ASSUME RecordsOK, Bare, [Next]_vars
  PROVE  Bare'
  <1>1. ASSUME NEW f \in Downstream, NEW n \in Nonce, NEW life \in Lifetime,
               OnIncomingInterest(f, n, life)
        PROVE  Bare'
    BY <1>1 DEF OnIncomingInterest, OnInterestLoop, OnContentStoreMiss, entry, Bare
  <1>2. ASSUME NEW u \in Upstream, NEW n \in Nonce, OnIncomingData(u, n)
        PROVE  Bare'
    BY <1>2 DEF OnIncomingData, Bare
  <1>3. ASSUME NEW u \in Upstream, NEW n \in Nonce, OnIncomingNack(u, n)
        PROVE  Bare'
    <2>1. CASE exists
      BY <1>3, <2>1 DEF OnIncomingNack, Bare
    <2>2. CASE ~exists
      <3>1. u \notin DOMAIN outR
        BY <2>2, NothingType DEF Bare
      <3> QED
        BY <1>3, <2>2, <3>1 DEF OnIncomingNack, Bare
    <2> QED
      BY <2>1, <2>2
  <1>4. CASE OnInterestFinalize
    BY <1>4 DEF OnInterestFinalize, Bare
  <1>5. CASE Tick
    BY <1>5 DEF Tick, Bare
  <1>6. CASE UNCHANGED vars
    BY <1>6 DEF vars, entry, Bare
  <1> QED
    BY <1>1, <1>2, <1>3, <1>4, <1>5, <1>6 DEF Next

(* The rest of the types.                                                  *)
RestOK == /\ {exists, satisfied} \subseteq BOOLEAN
          /\ dnl \subseteq Nonce
          /\ sent \subseteq Packet
          /\ nonces \in 0 .. MaxNonce

LEMMA SentByInterest ==
  ASSUME RecordsOK, NEW f \in Downstream, NEW n \in Nonce, NEW life \in Lifetime,
         OnIncomingInterest(f, n, life)
  PROVE  sent' \subseteq Packet
  <1> DEFINE r == With(inR, f, [nonce |-> n, left |-> life])
  <1>1. CASE OnInterestLoop(f, n)
    BY <1>1 DEF OnInterestLoop, Packet, Face
  <1>2. CASE Suppress(r)
    BY <1>2 DEF Suppress
  <1>3. ASSUME NEW u \in Choices(f), SendInterest(r, f, u, n, life)
        PROVE  sent' \subseteq Packet
    <2>1. u \in Upstream
      BY <1>3, ChoicesUpstream DEF SendInterest
    <2> QED
      BY <1>3, <2>1 DEF SendInterest, Packet, Face
  <1>4. CASE NackNoRoute(r, f)
    <2>1. sent' = Answer("Nack", r, {f})
      BY <1>4 DEF NackNoRoute
    <2>2. r[f].nonce = n
      BY DEF With
    <2> HIDE DEF r
    <2> QED
      BY <2>1, <2>2 DEF Answer, Packet, Face
  <1> HIDE DEF r
  <1> QED
    BY <1>1, <1>2, <1>3, <1>4 DEF OnIncomingInterest, OnContentStoreMiss, r

LEMMA RestStep ==
  ASSUME RecordsOK, RestOK, [Next]_vars
  PROVE  RestOK'
  <1>1. ASSUME NEW f \in Downstream, NEW n \in Nonce, NEW life \in Lifetime,
               OnIncomingInterest(f, n, life)
        PROVE  RestOK'
    <2>1. sent' \subseteq Packet
      BY <1>1, SentByInterest
    <2>2. {exists', satisfied'} \subseteq BOOLEAN /\ dnl' \subseteq Nonce
      BY <1>1 DEF OnIncomingInterest, OnInterestLoop, OnContentStoreMiss, entry, RestOK
    <2>3. nonces' \in 0 .. MaxNonce
      BY <1>1, BoundAssumption DEF OnIncomingInterest, RestOK, Nonce
    <2> QED
      BY <2>1, <2>2, <2>3 DEF RestOK
  <1>2. ASSUME NEW u \in Upstream, NEW n \in Nonce, OnIncomingData(u, n)
        PROVE  RestOK'
    <2>1. sent' = {} \/ sent' = Answer("Data", inR, Downstreams(u))
      BY <1>2 DEF OnIncomingData
    <2>2. sent' \subseteq Packet
      BY <2>1, AnswerType DEF Downstreams, RecordsOK
    <2> QED
      BY <1>2, <2>2 DEF OnIncomingData, RestOK
  <1>3. ASSUME NEW u \in Upstream, NEW n \in Nonce, OnIncomingNack(u, n)
        PROVE  RestOK'
    <2>1. sent' = {} \/ \E out : sent' = Answer("Nack", inR, ToBeNacked(out))
      BY <1>3 DEF OnIncomingNack
    <2>2. ASSUME NEW out PROVE Answer("Nack", inR, ToBeNacked(out)) \subseteq Packet
      <3>1. ToBeNacked(out) \in SUBSET DOMAIN inR
        BY DEF ToBeNacked
      <3> QED
        BY <3>1, AnswerType DEF RecordsOK
    <2>3. sent' \subseteq Packet
      BY <2>1, <2>2
    <2> QED
      BY <1>3, <2>3 DEF OnIncomingNack, RestOK
  <1>4. CASE OnInterestFinalize
    <2>1. DeadNonces \subseteq Nonce
      BY DEF DeadNonces, RecordsOK, OutRecord
    <2> QED
      BY <1>4, <2>1 DEF OnInterestFinalize, RestOK
  <1>5. CASE Tick
    BY <1>5 DEF Tick, RestOK
  <1>6. CASE UNCHANGED vars
    BY <1>6 DEF vars, entry, RestOK
  <1> QED
    BY <1>1, <1>2, <1>3, <1>4, <1>5, <1>6 DEF Next

LEMMA TypeParts == TypeOK /\ WireCounted <=> RecordsOK /\ WireOK /\ RestOK
  BY DEF TypeOK, RecordsOK, WireOK, RestOK

LEMMA TypedInit == Init => Typed
  <1> SUFFICES ASSUME Init PROVE Typed
    OBVIOUS
  <1>1. RecordsOK
    BY NothingType, ZeroIsTime DEF Init, RecordsOK
  <1>2. WireOK
    BY BoundAssumption DEF Init, WireOK, WireCounted
  <1>3. RestOK
    <2>1. {exists, satisfied} \subseteq BOOLEAN
      BY DEF Init
    <2>2. nonces \in 0 .. MaxNonce
      BY BoundAssumption DEF Init
    <2> QED
      BY <2>1, <2>2 DEF Init, RestOK
  <1> QED
    BY <1>1, <1>2, <1>3, TypeParts DEF Init, Typed, Bare

LEMMA TypedStep == Typed /\ [Next]_vars => Typed'
  <1> SUFFICES ASSUME Typed, [Next]_vars PROVE Typed'
    OBVIOUS
  <1>1. RecordsOK /\ WireOK /\ RestOK /\ Bare
    BY TypeParts DEF Typed
  <1>2. RecordsOK' /\ WireOK' /\ RestOK' /\ Bare'
    BY <1>1, RecordsStep, WireStep, RestStep, BareStep
  <1>3. TypeOK' /\ WireCounted'
    BY <1>2 DEF TypeOK, RecordsOK, WireOK, RestOK
  <1> QED
    BY <1>2, <1>3 DEF Typed

(* Every variable of the PIT entry keeps its type, for any faces, lifetimes  *)
(* and numbers of Interests: records name faces of the node and times that  *)
(* an Interest can have, and the network answers nothing that was not sent.  *)
THEOREM TypeCorrect == Spec => []TypeOK
  <1>1. Typed => TypeOK
    BY DEF Typed
  <1> QED
    BY TypedInit, TypedStep, <1>1, PTL DEF Spec

-----------------------------------------------------------------------------
(* Who may still answer.                                                   *)

LEMMA UnansweredAfterSend ==
  ASSUME WireOK, NEW u \in Upstream, NEW n \in Nonce, Sends(u, n)
  PROVE  /\ Unanswered(u, n)'
         /\ \A v \in Upstream, m \in Nonce : Unanswered(v, m) => Unanswered(v, m)'
  <1>1. wire \in [Upstream \X Nonce -> 0 .. MaxArrivals] /\ <<u, n>> \in Upstream \X Nonce
    BY DEF WireOK
  <1>2. \A x \in Upstream \X Nonce : wire[x] \in Nat
    BY <1>1, BoundAssumption
  <1>3. \A x \in Upstream \X Nonce :
           wire'[x] = IF x = <<u, n>> THEN wire[x] + 1 ELSE wire[x]
    BY <1>1 DEF Sends
  <1> QED
    BY <1>1, <1>2, <1>3 DEF Unanswered

LEMMA UnansweredAfterReceive ==
  ASSUME WireOK, NEW u \in Upstream, NEW n \in Nonce, Receives(u, n)
  PROVE  \A v \in Upstream, m \in Nonce :
           v # u \/ m # n => (Unanswered(v, m) => Unanswered(v, m)')
                             /\ (Unanswered(v, m)' => Unanswered(v, m))
  <1>1. wire \in [Upstream \X Nonce -> 0 .. MaxArrivals]
    BY DEF WireOK
  <1>2. \A v \in Upstream, m \in Nonce : v # u \/ m # n => wire'[<<v, m>>] = wire[<<v, m>>]
    BY <1>1 DEF Receives
  <1> QED
    BY <1>2 DEF Unanswered

(* The out-records after an Interest was sent.                              *)
LEMMA OutAfterSend ==
  ASSUME RecordsOK, NEW u \in Upstream, NEW n \in Nonce, NEW life \in Lifetime,
         outR' = With(outR, u, OutRecordFor(outR, u, n, life))
  PROVE  /\ DOMAIN outR' = DOMAIN outR \cup {u}
         /\ outR'[u].nonce = n
         /\ \A v \in DOMAIN outR : v # u => outR'[v] = outR[v]
  <1>1. OutRecordFor(outR, u, n, life).nonce = n
    BY DEF OutRecordFor
  <1> HIDE DEF OutRecordFor
  <1> QED
    BY <1>1 DEF With

LEMMA NonceType ==
  ASSUME RecordsOK, NEW u \in DOMAIN outR
  PROVE  u \in Upstream /\ outR[u].nonce \in Nonce
  BY DEF RecordsOK, OutRecord

(* The out-records after a Nack was recorded.                               *)
LEMMA OutAfterNack ==
  ASSUME RecordsOK, NEW u \in DOMAIN outR, NEW out, out = [outR EXCEPT ![u].nacked = TRUE]
  PROVE  /\ DOMAIN out = DOMAIN outR
         /\ \A v \in DOMAIN outR : v # u => out[v] = outR[v]
         /\ out[u].nacked
         /\ \A v \in DOMAIN outR : out[v].nonce = outR[v].nonce
         /\ \A v \in DOMAIN outR : outR[v].nacked => out[v].nacked
  BY DEF RecordsOK, OutRecord

(* The out-records after a tick.                                           *)
LEMMA OutAfterTick ==
  ASSUME RecordsOK, Tick
  PROVE  /\ DOMAIN outR' = DOMAIN outR
         /\ \A v \in DOMAIN outR : /\ outR'[v].nonce = outR[v].nonce
                                   /\ outR'[v].nacked = outR[v].nacked
                                   /\ outR'[v].left >= 0 => outR[v].left >= 0
  <1>1. DOMAIN outR' = DOMAIN outR
    BY DEF Tick
  <1>2. ASSUME NEW v \in DOMAIN outR
        PROVE  /\ outR'[v].nonce = outR[v].nonce
               /\ outR'[v].nacked = outR[v].nacked
               /\ outR'[v].left >= 0 => outR[v].left >= 0
    <2>1. outR[v] \in OutRecord
      BY DEF RecordsOK
    <2>2. outR'[v] = [outR[v] EXCEPT !.left = IF @ < 0 THEN @ ELSE @ - 1,
                                     !.age = IF @ < MinRetxInterval THEN @ + 1 ELSE @]
      BY DEF Tick
    <2> QED
      BY <2>1, <2>2, TicksNat DEF OutRecord
  <1> QED
    BY <1>1, <1>2

LEMMA AwaitsStep ==
  ASSUME Typed, AwaitsOnlyUnanswered, [Next]_vars
  PROVE  AwaitsOnlyUnanswered'
  <1> USE TypeParts DEF Typed
  <1>0. RecordsOK /\ WireOK /\ Bare
    OBVIOUS
  <1>1. ASSUME NEW f \in Downstream, NEW n \in Nonce, NEW life \in Lifetime,
               OnIncomingInterest(f, n, life)
        PROVE  AwaitsOnlyUnanswered'
    <2>1. CASE UNCHANGED <<outR, wire>>
      BY <2>1 DEF AwaitsOnlyUnanswered, Pending, Unanswered
    <2>2. ASSUME NEW r, NEW u \in Choices(f), SendInterest(r, f, u, n, life)
          PROVE  AwaitsOnlyUnanswered'
      <3>1. u \in Upstream
        BY <2>2, ChoicesUpstream DEF SendInterest
      <3>2. Sends(u, n) /\ outR' = With(outR, u, OutRecordFor(outR, u, n, life))
        BY <2>2 DEF SendInterest, Sends
      <3>3. /\ DOMAIN outR' = DOMAIN outR \cup {u}
            /\ outR'[u].nonce = n
            /\ \A v \in DOMAIN outR : v # u => outR'[v] = outR[v]
        BY ONLY <1>0, <3>1, <3>2, n \in Nonce, life \in Lifetime, OutAfterSend
      <3>4. Unanswered(u, n)' /\ \A v \in Upstream, m \in Nonce : Unanswered(v, m) => Unanswered(v, m)'
        BY <1>0, <3>1, <3>2, UnansweredAfterSend
      <3>5. ASSUME NEW v \in Upstream, Pending(outR, v)'
            PROVE  Unanswered(v, outR[v].nonce)'
        <4>1. CASE v = u
          BY <3>3, <3>4, <4>1
        <4>2. CASE v # u
          <5>1. Pending(outR, v) /\ outR'[v] = outR[v] /\ v \in DOMAIN outR
            BY <3>3, <3>5, <4>2 DEF Pending
          <5> QED
            BY <1>0, <3>4, <5>1, NonceType DEF AwaitsOnlyUnanswered
        <4> QED
          BY <4>1, <4>2
      <3> QED
        BY <3>5 DEF AwaitsOnlyUnanswered
    <2> QED
      BY <1>1, <2>1, <2>2
      DEF OnIncomingInterest, OnInterestLoop, OnContentStoreMiss, Suppress, NackNoRoute, entry
  <1>2. ASSUME NEW u \in Upstream, NEW n \in Nonce, OnIncomingData(u, n)
        PROVE  AwaitsOnlyUnanswered'
    <2>1. ASSUME NEW v \in Upstream, Pending(outR, v)'
          PROVE  v # u /\ Pending(outR, v) /\ outR'[v] = outR[v] /\ v \in DOMAIN outR
      BY <1>0, <1>2, <2>1, NothingType DEF OnIncomingData, OutAfterData, Less, Pending, Bare
    <2>2. Receives(u, n)
      BY <1>2 DEF OnIncomingData, Receives
    <2> QED
      BY <1>0, <2>1, <2>2, UnansweredAfterReceive, NonceType DEF AwaitsOnlyUnanswered
  <1>3. ASSUME NEW u \in Upstream, NEW n \in Nonce, OnIncomingNack(u, n)
        PROVE  AwaitsOnlyUnanswered'
    <2>1. Receives(u, n)
      BY <1>3 DEF OnIncomingNack, Receives
    <2>2. ASSUME NEW v \in Upstream, Pending(outR, v)'
          PROVE  /\ v # u \/ outR[v].nonce # n
                 /\ Pending(outR, v) /\ outR'[v].nonce = outR[v].nonce /\ v \in DOMAIN outR
      <3>1. CASE u \in DOMAIN outR /\ outR[u].nonce = n
        <4>1. outR' = [outR EXCEPT ![u].nacked = TRUE]
          BY <1>3, <3>1 DEF OnIncomingNack
        <4> QED
          BY <1>0, <2>2, <3>1, <4>1, OutAfterNack DEF Pending
      <3>2. CASE ~(u \in DOMAIN outR /\ outR[u].nonce = n)
        BY <1>3, <2>2, <3>2 DEF OnIncomingNack, Pending
      <3> QED
        BY <3>1, <3>2
    <2> QED
      BY <1>0, <2>1, <2>2, UnansweredAfterReceive, NonceType DEF AwaitsOnlyUnanswered
  <1>4. CASE OnInterestFinalize
    BY <1>4, NothingType DEF OnInterestFinalize, AwaitsOnlyUnanswered, Pending
  <1>5. CASE Tick
    <2>1. ASSUME NEW v \in Upstream, Pending(outR, v)'
          PROVE  Pending(outR, v) /\ outR'[v].nonce = outR[v].nonce
      BY <1>0, <1>5, <2>1, OutAfterTick DEF Pending
    <2>2. UNCHANGED wire
      BY <1>5 DEF Tick
    <2> QED
      BY <2>1, <2>2 DEF AwaitsOnlyUnanswered, Unanswered
  <1>6. CASE UNCHANGED vars
    BY <1>6 DEF vars, entry, AwaitsOnlyUnanswered, Pending, Unanswered
  <1> QED
    BY <1>1, <1>2, <1>3, <1>4, <1>5, <1>6 DEF Next

LEMMA WaitsStep ==
  ASSUME Typed, AwaitsOnlyUnanswered, AwaitsOnlyUnanswered', WaitsForSomebody, [Next]_vars
  PROVE  WaitsForSomebody'
  <1>0. RecordsOK /\ WireOK /\ Bare
    BY TypeParts DEF Typed
  <1>1. ASSUME NEW f \in Downstream, NEW n \in Nonce, NEW life \in Lifetime,
               OnIncomingInterest(f, n, life)
        PROVE  WaitsForSomebody'
    <2>1. CASE OnInterestLoop(f, n)
      BY <2>1 DEF OnInterestLoop, entry, WaitsForSomebody, Unanswered
    <2>2. ASSUME NEW r, Suppress(r)
          PROVE  WaitsForSomebody'
      <3>1. PICK v \in Upstream : Pending(outR, v)
        BY <2>2 DEF Suppress, Suppressed, HasPending
      <3>2. v \in DOMAIN outR /\ Unanswered(v, outR[v].nonce)
        BY <3>1 DEF AwaitsOnlyUnanswered, Pending
      <3> QED
        BY <2>2, <3>2 DEF Suppress, WaitsForSomebody, Unanswered
    <2>3. ASSUME NEW r, NEW u \in Choices(f), SendInterest(r, f, u, n, life)
          PROVE  WaitsForSomebody'
      <3>1. u \in Upstream
        BY <2>3, ChoicesUpstream DEF SendInterest
      <3>2. Sends(u, n) /\ outR' = With(outR, u, OutRecordFor(outR, u, n, life))
        BY <2>3 DEF SendInterest, Sends
      <3>3. u \in DOMAIN outR' /\ outR'[u].nonce = n
        BY ONLY <1>0, <3>1, <3>2, n \in Nonce, life \in Lifetime, OutAfterSend
      <3>4. Unanswered(u, n)'
        BY <1>0, <3>1, <3>2, UnansweredAfterSend
      <3> QED
        BY <3>3, <3>4 DEF WaitsForSomebody
    <2>4. ASSUME NEW r, NackNoRoute(r, f)
          PROVE  WaitsForSomebody'
      BY <2>4 DEF NackNoRoute, RejectPendingInterest, WaitsForSomebody
    <2> QED
      BY <1>1, <2>1, <2>2, <2>3, <2>4 DEF OnIncomingInterest, OnContentStoreMiss
  <1>2. ASSUME NEW u \in Upstream, NEW n \in Nonce, OnIncomingData(u, n)
        PROVE  WaitsForSomebody'
    BY <1>2 DEF OnIncomingData, WaitsForSomebody
  <1>3. ASSUME NEW u \in Upstream, NEW n \in Nonce, OnIncomingNack(u, n), exists', timer' > 0
        PROVE  \E v \in DOMAIN outR' : Unanswered(v, outR[v].nonce)'
    <2>1. CASE u \in DOMAIN outR /\ outR[u].nonce = n
      <3>1. timer' = TimerAfterNack(outR')
        BY <1>3, <2>1 DEF OnIncomingNack
      <3>2. HasPending(outR')
        BY <1>3, <3>1 DEF TimerAfterNack
      <3>3. PICK v \in Upstream : Pending(outR', v)
        BY <3>2 DEF HasPending
      <3>4. Pending(outR, v)'
        BY <3>3 DEF Pending
      <3> QED
        BY <3>4 DEF AwaitsOnlyUnanswered, Pending
    <2>2. CASE ~(u \in DOMAIN outR /\ outR[u].nonce = n)
      <3>1. Receives(u, n) /\ UNCHANGED <<exists, outR, timer>>
        BY <1>3, <2>2 DEF OnIncomingNack, Receives
      <3>2. PICK v \in DOMAIN outR : Unanswered(v, outR[v].nonce)
        BY <1>3, <3>1 DEF WaitsForSomebody
      <3>3. v # u \/ outR[v].nonce # n
        BY <2>2
      <3>4. v \in Upstream /\ outR[v].nonce \in Nonce
        BY <1>0, NonceType
      <3> QED
        BY <1>0, <3>1, <3>2, <3>3, <3>4, UnansweredAfterReceive
    <2> QED
      BY <2>1, <2>2
  <1>4. CASE OnInterestFinalize
    BY <1>4 DEF OnInterestFinalize, WaitsForSomebody
  <1>5. CASE Tick
    <2>1. exists /\ timer > 0 /\ UNCHANGED wire
      BY <1>5 DEF Tick
    <2>2. PICK v \in DOMAIN outR : Unanswered(v, outR[v].nonce)
      BY <2>1 DEF WaitsForSomebody
    <2>3. v \in DOMAIN outR' /\ outR'[v].nonce = outR[v].nonce
      BY <1>0, <1>5, OutAfterTick
    <2> QED
      BY <2>1, <2>2, <2>3 DEF WaitsForSomebody, Unanswered
  <1>6. CASE UNCHANGED vars
    BY <1>6 DEF vars, entry, WaitsForSomebody, Unanswered
  <1> QED
    BY <1>1, <1>2, <1>3, <1>4, <1>5, <1>6 DEF Next, WaitsForSomebody

(* Every upstream has refused, and none owes an answer.                     *)
AllRefused == \A u \in DOMAIN outR : outR[u].nacked /\ ~Unanswered(u, outR[u].nonce)

LEMMA RefusalStep ==
  ASSUME Typed, AwaitsOnlyUnanswered, RefusalReachesAll, [Next]_vars
  PROVE  RefusalReachesAll'
  <1>0. RecordsOK /\ WireOK /\ Bare
    BY TypeParts DEF Typed
  <1> SUFFICES ASSUME exists', ~satisfied', outR' # Nothing, AllRefused'
               PROVE  inR' = Nothing
    BY DEF RefusalReachesAll, AllRefused
  <1>a. ASSUME exists, ~satisfied, outR # Nothing, AllRefused
        PROVE  inR = Nothing
    BY <1>a DEF RefusalReachesAll, AllRefused
  <1>1. ASSUME NEW f \in Downstream, NEW n \in Nonce, NEW life \in Lifetime,
               OnIncomingInterest(f, n, life)
        PROVE  inR' = Nothing
    <2>1. CASE OnInterestLoop(f, n)
      BY <1>a, <2>1 DEF OnInterestLoop, entry, AllRefused, Unanswered
    <2>2. CASE OnContentStoreMiss(f, n, life)
      <3> DEFINE r == With(inR, f, [nonce |-> n, left |-> life])
      <3>1. CASE Suppress(r)
        <4>1. PICK v \in Upstream : Pending(outR, v)
          BY <3>1 DEF Suppress, Suppressed, HasPending
        <4>2. outR' = outR
          BY <3>1 DEF Suppress
        <4> QED
          BY <4>1, <4>2 DEF AllRefused, Pending
      <3>2. ASSUME NEW u \in Choices(f), SendInterest(r, f, u, n, life)
            PROVE  FALSE
        <4>1. u \in Upstream
          BY <3>2, ChoicesUpstream DEF SendInterest
        <4>2. Sends(u, n) /\ outR' = With(outR, u, OutRecordFor(outR, u, n, life))
          BY <3>2 DEF SendInterest, Sends
        <4>3. u \in DOMAIN outR' /\ outR'[u].nonce = n
          BY ONLY <1>0, <4>1, <4>2, n \in Nonce, life \in Lifetime, OutAfterSend
        <4>4. Unanswered(u, n)'
          BY <1>0, <4>1, <4>2, UnansweredAfterSend
        <4> QED
          BY <4>3, <4>4 DEF AllRefused
      <3>3. CASE NackNoRoute(r, f)
        <4>1. UNCHANGED <<satisfied, outR, wire>> /\ inR' = Less(r, {f})
          BY <2>2, <3>3 DEF NackNoRoute, OnContentStoreMiss
        <4>2. exists
          BY <1>0, <4>1 DEF Bare
        <4>3. inR = Nothing
          BY <1>a, <4>1, <4>2 DEF AllRefused, Unanswered
        <4>4. DOMAIN r \subseteq {f}
          BY <4>3, NothingType DEF With
        <4> QED
          BY <4>1, <4>4, NothingLeft
      <3> QED
        BY <2>2, <3>1, <3>2, <3>3 DEF OnContentStoreMiss
    <2> QED
      BY <1>1, <2>1, <2>2 DEF OnIncomingInterest
  <1>2. ASSUME NEW u \in Upstream, NEW n \in Nonce, OnIncomingData(u, n)
        PROVE  inR' = Nothing
    BY <1>2 DEF OnIncomingData
  <1>3. ASSUME NEW u \in Upstream, NEW n \in Nonce, OnIncomingNack(u, n)
        PROVE  inR' = Nothing
    <2>1. CASE u \in DOMAIN outR /\ outR[u].nonce = n
      <3>1. inR' = Less(inR, ToBeNacked(outR'))
        BY <1>3, <2>1 DEF OnIncomingNack
      <3>2. NotNacked(outR') = {}
        BY DEF NotNacked, AllRefused
      <3>3. ToBeNacked(outR') = DOMAIN inR
        BY <3>2 DEF ToBeNacked
      <3> QED
        BY <3>1, <3>3, NothingLeft
    <2>2. CASE ~(u \in DOMAIN outR /\ outR[u].nonce = n)
      <3>1. Receives(u, n) /\ UNCHANGED <<exists, satisfied, outR, inR>>
        BY <1>3, <2>2 DEF OnIncomingNack, Receives
      <3>2. ASSUME NEW v \in DOMAIN outR
            PROVE  outR[v].nacked /\ ~Unanswered(v, outR[v].nonce)
        <4>1. v # u \/ outR[v].nonce # n
          BY <2>2
        <4>2. v \in Upstream /\ outR[v].nonce \in Nonce
          BY <1>0, NonceType
        <4>3. outR[v].nacked /\ ~Unanswered(v, outR[v].nonce)'
          BY <3>1 DEF AllRefused
        <4> QED
          BY <1>0, <3>1, <4>1, <4>2, <4>3, UnansweredAfterReceive
      <3> QED
        BY <1>a, <3>1, <3>2 DEF AllRefused
    <2> QED
      BY <2>1, <2>2
  <1>4. CASE OnInterestFinalize
    BY <1>4 DEF OnInterestFinalize
  <1>5. CASE Tick
    <2>1. /\ DOMAIN outR' = DOMAIN outR
          /\ \A v \in DOMAIN outR : outR'[v].nonce = outR[v].nonce /\ outR'[v].nacked = outR[v].nacked
      BY <1>0, <1>5, OutAfterTick
    <2>2. UNCHANGED <<exists, satisfied, wire>> /\ DOMAIN inR' = DOMAIN inR
      BY <1>5 DEF Tick
    <2>3. AllRefused
      BY <2>1, <2>2 DEF AllRefused, Unanswered
    <2>4. DOMAIN inR' = {}
      <3>1. CASE outR = Nothing
        <4>1. outR' = Nothing
          BY <1>5, <3>1, NothingType DEF Tick, Nothing
        <4> QED
          BY <4>1
      <3>2. CASE outR # Nothing
        BY <1>a, <2>2, <2>3, <3>2, NothingType
      <3> QED
        BY <3>1, <3>2
    <2> QED
      BY <1>5, <2>4 DEF Tick, Nothing
  <1>6. CASE UNCHANGED vars
    BY <1>a, <1>6 DEF vars, entry, AllRefused, Unanswered
  <1> QED
    BY <1>1, <1>2, <1>3, <1>4, <1>5, <1>6 DEF Next

Answerable == Typed /\ AwaitsOnlyUnanswered /\ WaitsForSomebody /\ RefusalReachesAll

LEMMA AnswerableInit == Init => Answerable
  <1> SUFFICES ASSUME Init PROVE Answerable
    OBVIOUS
  <1>1. exists = FALSE /\ outR = Nothing
    BY DEF Init
  <1>2. AwaitsOnlyUnanswered /\ WaitsForSomebody /\ RefusalReachesAll
    BY <1>1, NothingType DEF AwaitsOnlyUnanswered, Pending, WaitsForSomebody, RefusalReachesAll
  <1> QED
    BY <1>2, TypedInit DEF Answerable

LEMMA AnswerableStep == Answerable /\ [Next]_vars => Answerable'
  BY TypedStep, AwaitsStep, WaitsStep, RefusalStep DEF Answerable

(* The entry waits only for upstreams that have not answered.               *)
THEOREM PendingMeansUnanswered == Spec => []AwaitsOnlyUnanswered
  <1>1. Answerable => AwaitsOnlyUnanswered
    BY DEF Answerable
  <1> QED
    BY AnswerableInit, AnswerableStep, <1>1, PTL DEF Spec

(* While the entry waits, somebody was asked who may still answer.          *)
THEOREM NobodyWaitsInVain == Spec => []WaitsForSomebody
  <1>1. Answerable => WaitsForSomebody
    BY DEF Answerable
  <1> QED
    BY AnswerableInit, AnswerableStep, <1>1, PTL DEF Spec

(* Once every upstream has refused, all who asked were told, although Nacks  *)
(* stay on records that are used again.                                     *)
THEOREM RefusalIsPassedOn == Spec => []RefusalReachesAll
  <1>1. Answerable => RefusalReachesAll
    BY DEF Answerable
  <1> QED
    BY AnswerableInit, AnswerableStep, <1>1, PTL DEF Spec

-----------------------------------------------------------------------------
(* The entry implements the exchange.                                      *)

(* The timer of an entry is not due before its Interests have expired,      *)
(* unless it was set to fire at once.                                      *)
TimerCovers == timer > 0 => \A f \in DOMAIN inR : inR[f].left <= timer

LEMMA TimerOfInterest ==
  ASSUME RecordsOK, NEW f \in Downstream, NEW n \in Nonce, NEW life \in Lifetime, NEW r,
         r = With(inR, f, [nonce |-> n, left |-> life]), TimerOfLast(r)
  PROVE  /\ \A g \in DOMAIN r : r[g].left <= timer'
         /\ timer' > 0
  <1>1. PICK g \in DOMAIN r : timer' = r[g].left /\ \A h \in DOMAIN r : r[h].left <= r[g].left
    BY DEF TimerOfLast
  <1>2. f \in DOMAIN r /\ r[f].left = life
    BY DEF With
  <1>3. DOMAIN r \subseteq Downstream /\ r \in [DOMAIN r -> InRecord]
    BY InRecordType DEF With, RecordsOK
  <1>4. r[g].left \in Int
    BY <1>3 DEF InRecord
  <1> QED
    BY <1>1, <1>2, <1>4, LifeType

LEMMA TimerCoversStep ==
  ASSUME RecordsOK, TimerCovers, [Next]_vars
  PROVE  TimerCovers'
  <1>1. ASSUME NEW f \in Downstream, NEW n \in Nonce, NEW life \in Lifetime,
               OnIncomingInterest(f, n, life)
        PROVE  TimerCovers'
    <2> DEFINE r == With(inR, f, [nonce |-> n, left |-> life])
    <2>1. CASE OnInterestLoop(f, n)
      BY <2>1 DEF OnInterestLoop, entry, TimerCovers
    <2>2. CASE inR' = r /\ TimerOfLast(r)
      BY <2>2, TimerOfInterest DEF TimerCovers
    <2>3. CASE timer' = 0
      BY <2>3 DEF TimerCovers
    <2> QED
      BY <1>1, <2>1, <2>2, <2>3
      DEF OnIncomingInterest, OnContentStoreMiss, Suppress, SendInterest, NackNoRoute, RejectPendingInterest
  <1>2. ASSUME NEW u \in Upstream, NEW n \in Nonce, OnIncomingData(u, n)
        PROVE  TimerCovers'
    BY <1>2 DEF OnIncomingData, TimerCovers
  <1>3. ASSUME NEW u \in Upstream, NEW n \in Nonce, OnIncomingNack(u, n)
        PROVE  TimerCovers'
    <2>1. timer' = timer \/ timer' = 0
      BY <1>3 DEF OnIncomingNack, TimerAfterNack
    <2>2. \A g \in DOMAIN inR' : g \in DOMAIN inR /\ inR'[g] = inR[g]
      BY <1>3 DEF OnIncomingNack, Less
    <2> QED
      BY <2>1, <2>2 DEF TimerCovers
  <1>4. CASE OnInterestFinalize
    <2>1. timer' = -1
      BY <1>4 DEF OnInterestFinalize, NoTimer
    <2>2. ~(timer' > 0)
      BY <2>1
    <2> QED
      BY <2>2 DEF TimerCovers
  <1>5. CASE Tick
    <2>a. timer' = timer - 1 /\ timer > 0
      BY <1>5 DEF Tick
    <2>b. timer \in Int
      BY TicksNat DEF RecordsOK, NoTimer
    <2>1. timer' = timer - 1 /\ timer > 0 /\ timer \in Int
      BY <2>a, <2>b
    <2>2. ASSUME NEW f \in DOMAIN inR
          PROVE  f \in DOMAIN inR' /\ inR'[f].left <= timer'
      <3>1. inR'[f] = [inR[f] EXCEPT !.left = IF @ < 0 THEN @ ELSE @ - 1]
        BY <1>5 DEF Tick
      <3>2. inR[f] \in InRecord
        BY DEF RecordsOK
      <3>3. inR[f].left \in Int /\ inR[f].left <= timer
        BY <2>1, <3>2 DEF TimerCovers, InRecord
      <3>4. inR'[f].left = IF inR[f].left < 0 THEN inR[f].left ELSE inR[f].left - 1
        BY <3>1, <3>2 DEF InRecord
      <3>5. f \in DOMAIN inR'
        BY <1>5 DEF Tick
      <3>6. inR'[f].left <= timer'
        BY ONLY <2>1, <3>3, <3>4
      <3> QED
        BY <3>5, <3>6
    <2>3. DOMAIN inR' = DOMAIN inR
      BY <1>5 DEF Tick
    <2> QED
      BY <2>2, <2>3 DEF TimerCovers
  <1>6. CASE UNCHANGED vars
    BY <1>6 DEF vars, entry, TimerCovers
  <1> QED
    BY <1>1, <1>2, <1>3, <1>4, <1>5, <1>6 DEF Next

LEMMA SentOfAnswer ==
  ASSUME NEW kind, NEW r, NEW S, sent' = Answer(kind, r, S)
  PROVE  Sent(kind)' = S /\ \A k : k # kind => Sent(k)' = {}
  <1>1. \A p \in sent' : p.kind = kind /\ p.to \in S
    BY DEF Answer
  <1>2. ASSUME NEW f \in S
        PROVE  \E p \in sent' : p.kind = kind /\ p.to = f
    <2>1. [kind |-> kind, to |-> f, nonce |-> r[f].nonce] \in sent'
      BY DEF Answer
    <2> QED
      BY <2>1
  <1>3. Sent(kind)' = S
    BY <1>1, <1>2 DEF Sent
  <1>4. ASSUME NEW k, k # kind
        PROVE  Sent(k)' = {}
    BY <1>1, <1>4 DEF Sent
  <1> QED
    BY <1>3, <1>4

LEMMA SentOfNothing ==
  ASSUME sent' = {}, NEW kind
  PROVE  Sent(kind)' = {}
  BY DEF Sent

(* Faces an Interest of which has expired, as the exchange sees them.       *)
LateFaces == {f \in DOMAIN inR : ~Waits(inR, f)}

LEMMA LateFacesOf == LateFaces = {f \in DOMAIN inR : ~(inR[f].left > 0)}
  BY DEF LateFaces, Waits

LEMMA ExchangeInit == Init => Exchange!Init
  <1> SUFFICES ASSUME Init PROVE Exchange!Init
    OBVIOUS
  <1>1. DOMAIN inR = {}
    BY NothingType DEF Init
  <1>2. ~(timer = 0)
    BY DEF Init, NoTimer
  <1>3. Sent("Data") = {} /\ Sent("Nack") = {}
    BY DEF Init, Sent
  <1> QED
    BY <1>1, <1>2, <1>3 DEF Exchange!Init

LEMMA InterestAsks ==
  ASSUME RecordsOK, NEW f \in Downstream, NEW n \in Nonce, NEW life \in Lifetime, NEW r,
         r = With(inR, f, [nonce |-> n, left |-> life]), TimerOfLast(r), inR' = r,
         \/ sent' = {}
         \/ \E u : sent' = {[kind |-> "Interest", to |-> u, nonce |-> n]}
  PROVE  Exchange!Ask(f)
  <1>1. DOMAIN inR' = DOMAIN inR \cup {f}
    BY DEF With
  <1>2. inR'[f].left = life /\ \A g \in DOMAIN inR \ {f} : inR'[g] = inR[g]
    BY DEF With
  <1>3. life > 0
    BY LifeType
  <1>4. LateFaces' = LateFaces \ {f}
    BY <1>1, <1>2, <1>3 DEF LateFaces, Waits
  <1>5. timer' > 0
    BY TimerOfInterest
  <1>6. ~(timer' = 0)
    BY <1>5
  <1>7. Sent("Data")' = {} /\ Sent("Nack")' = {}
    BY DEF Sent
  <1> QED
    BY <1>1, <1>4, <1>6, <1>7 DEF Exchange!Ask, LateFaces

LEMMA InterestAsksInVain ==
  ASSUME NEW f \in Downstream, NEW rec, NEW r, r = With(inR, f, rec), NackNoRoute(r, f)
  PROVE  Exchange!AskInVain(f)
  <1>1. DOMAIN r = DOMAIN inR \cup {f} /\ \A g \in DOMAIN inR \ {f} : r[g] = inR[g]
    BY DEF With
  <1>2. inR' = Less(r, {f}) /\ timer' = 0 /\ sent' = Answer("Nack", r, {f})
    BY DEF NackNoRoute, RejectPendingInterest
  <1>3. DOMAIN inR' = DOMAIN inR \ {f} /\ \A g \in DOMAIN inR \ {f} : inR'[g] = inR[g]
    BY <1>1, <1>2 DEF Less
  <1>4. LateFaces' = LateFaces \ {f}
    BY <1>3 DEF LateFaces, Waits
  <1>5. Sent("Nack")' = {f} /\ Sent("Data")' = {}
    BY <1>2, SentOfAnswer
  <1> QED
    BY <1>2, <1>3, <1>4, <1>5 DEF Exchange!AskInVain, LateFaces

LEMMA InterestLoops ==
  ASSUME NEW f \in Downstream, NEW n, OnInterestLoop(f, n)
  PROVE  Exchange!Loop(f)
  <1>1. sent' = {[kind |-> "Nack", to |-> f, nonce |-> n]}
    BY DEF OnInterestLoop
  <1>a. \A p \in sent' : p.kind = "Nack" /\ p.to = f
    BY <1>1
  <1>b. \E p \in sent' : p.kind = "Nack" /\ p.to = f
    BY <1>1
  <1>2. Sent("Nack")' = {f} /\ Sent("Data")' = {}
    BY <1>a, <1>b DEF Sent
  <1>3. inR' = inR /\ timer' = timer
    BY DEF OnInterestLoop, entry
  <1> QED
    BY <1>2, <1>3 DEF Exchange!Loop, Waits

LEMMA DataSatisfies ==
  ASSUME NEW u \in Upstream, NEW n, OnIncomingData(u, n)
  PROVE  Exchange!Satisfy(u) \/ Exchange!Ignore
  <1>1. CASE exists
    <2>1. /\ timer' = 0
          /\ sent' = Answer("Data", inR, Downstreams(u))
          /\ inR' = Less(inR, Downstreams(u))
      BY <1>1 DEF OnIncomingData
    <2>2. Downstreams(u) = DOMAIN inR \ (LateFaces \cup {u})
      BY DEF Downstreams, LateFaces
    <2>3. Sent("Data")' = Downstreams(u) /\ Sent("Nack")' = {}
      BY <2>1, SentOfAnswer
    <2>4. DOMAIN inR' = DOMAIN inR \ Downstreams(u)
          /\ \A g \in DOMAIN inR' : inR'[g] = inR[g]
      BY <2>1 DEF Less
    <2>5. LateFaces' = LateFaces
      BY <2>4 DEF LateFaces, Waits, Downstreams
    <2> QED
      BY <2>1, <2>2, <2>3, <2>4, <2>5 DEF Exchange!Satisfy, LateFaces
  <1>2. CASE ~exists
    <2>1. sent' = {} /\ inR' = inR /\ timer' = timer
      BY <1>2 DEF OnIncomingData
    <2> QED
      BY <2>1, SentOfNothing DEF Exchange!Ignore, Waits
  <1> QED
    BY <1>1, <1>2

LEMMA NackRefuses ==
  ASSUME RecordsOK, NEW u \in Upstream, NEW n, OnIncomingNack(u, n)
  PROVE  Exchange!Ignore \/ \E S \in SUBSET Face : Exchange!Refuse(S)
  <1>1. CASE u \in DOMAIN outR /\ outR[u].nonce = n
    <2> DEFINE S == ToBeNacked([outR EXCEPT ![u].nacked = TRUE])
    <2>1. /\ sent' = Answer("Nack", inR, S)
          /\ inR' = Less(inR, S)
          /\ timer' = timer \/ timer' = 0
      BY <1>1 DEF OnIncomingNack, TimerAfterNack
    <2>2. S \subseteq DOMAIN inR
      BY DEF ToBeNacked
    <2> HIDE DEF S
    <2>3. S \in SUBSET Face
      BY <2>2 DEF RecordsOK, Face
    <2>4. Sent("Nack")' = S /\ Sent("Data")' = {}
      BY <2>1, SentOfAnswer
    <2>5. DOMAIN inR' = DOMAIN inR \ S /\ \A g \in DOMAIN inR' : inR'[g] = inR[g]
      BY <2>1 DEF Less
    <2>6. LateFaces' = LateFaces \ S
      BY <2>5 DEF LateFaces, Waits
    <2>7. timer = 0 => timer' = 0
      BY <2>1
    <2>8. Exchange!Refuse(S)
      BY <2>2, <2>4, <2>5, <2>6, <2>7 DEF Exchange!Refuse, LateFaces
    <2> QED
      BY <2>3, <2>8
  <1>2. CASE ~(u \in DOMAIN outR /\ outR[u].nonce = n)
    <2>1. sent' = {} /\ inR' = inR /\ timer' = timer
      BY <1>2 DEF OnIncomingNack
    <2> QED
      BY <2>1, SentOfNothing DEF Exchange!Ignore, Waits
  <1> QED
    BY <1>1, <1>2

LEMMA TickExpires ==
  ASSUME RecordsOK, TimerCovers, Tick
  PROVE  Exchange!Expire
  <1>1. timer' = timer - 1 /\ timer > 0 /\ sent' = {} /\ DOMAIN inR' = DOMAIN inR
    BY DEF Tick
  <1>2. timer \in Int
    BY TicksNat DEF RecordsOK, NoTimer
  <1>3. ASSUME NEW f \in DOMAIN inR
        PROVE  /\ inR[f].left \in Int /\ inR[f].left <= timer
               /\ inR'[f].left = IF inR[f].left < 0 THEN inR[f].left ELSE inR[f].left - 1
    <2>1. inR[f] \in InRecord
      BY DEF RecordsOK
    <2>2. inR'[f] = [inR[f] EXCEPT !.left = IF @ < 0 THEN @ ELSE @ - 1]
      BY DEF Tick
    <2>3. inR'[f].left = IF inR[f].left < 0 THEN inR[f].left ELSE inR[f].left - 1
      BY <2>1, <2>2 DEF InRecord
    <2>4. inR[f].left \in Int
      BY <2>1 DEF InRecord
    <2>5. inR[f].left <= timer
      BY <1>1 DEF TimerCovers
    <2> QED
      BY <2>3, <2>4, <2>5
  <1>4. ASSUME NEW f \in DOMAIN inR, ~(inR[f].left > 0)
        PROVE  ~(inR'[f].left > 0)
    BY ONLY <1>3, <1>4
  <1>5. ASSUME NEW f \in DOMAIN inR, timer' = 0
        PROVE  ~(inR'[f].left > 0)
    BY ONLY <1>1, <1>2, <1>3, <1>5
  <1>6. LateFaces \subseteq LateFaces' /\ LateFaces' \subseteq DOMAIN inR
    BY <1>1, <1>4 DEF LateFaces, Waits
  <1>7. timer' = 0 => DOMAIN inR \subseteq LateFaces'
    BY <1>1, <1>5 DEF LateFaces, Waits
  <1>8. Sent("Data")' = {} /\ Sent("Nack")' = {}
    BY <1>1, SentOfNothing
  <1> QED
    BY <1>1, <1>6, <1>7, <1>8 DEF Exchange!Expire, LateFaces

LEMMA FinalizeGivesUp ==
  ASSUME OnInterestFinalize
  PROVE  Exchange!GiveUp
  <1>1. timer = 0 /\ inR' = Nothing /\ timer' = -1 /\ sent' = {}
    BY DEF OnInterestFinalize, NoTimer
  <1>2. DOMAIN inR' = {}
    BY <1>1, NothingType
  <1>3. ~(timer' = 0)
    BY <1>1
  <1> QED
    BY <1>1, <1>2, <1>3, SentOfNothing DEF Exchange!GiveUp

LEMMA ExchangeStep ==
  ASSUME RecordsOK, TimerCovers, [Next]_vars
  PROVE  [Exchange!Next]_(Exchange!vars)
  <1> USE DEF Exchange!Next
  <1>1. ASSUME NEW f \in Downstream, NEW n \in Nonce, NEW life \in Lifetime,
               OnIncomingInterest(f, n, life)
        PROVE  Exchange!Next
    <2> DEFINE r == With(inR, f, [nonce |-> n, left |-> life])
    <2>0. f \in Face
      BY DEF Face
    <2>1. CASE OnInterestLoop(f, n)
      BY <2>0, <2>1, InterestLoops
    <2>2. CASE Suppress(r)
      BY <2>0, <2>2, InterestAsks DEF Suppress
    <2>3. ASSUME NEW u \in Choices(f), SendInterest(r, f, u, n, life)
          PROVE  Exchange!Next
      BY <2>0, <2>3, InterestAsks DEF SendInterest
    <2>4. CASE NackNoRoute(r, f)
      BY <2>0, <2>4, InterestAsksInVain
    <2> QED
      BY <1>1, <2>1, <2>2, <2>3, <2>4 DEF OnIncomingInterest, OnContentStoreMiss
  <1>2. ASSUME NEW u \in Upstream, NEW n \in Nonce, OnIncomingData(u, n)
        PROVE  Exchange!Next
    BY <1>2, DataSatisfies DEF Face
  <1>3. ASSUME NEW u \in Upstream, NEW n \in Nonce, OnIncomingNack(u, n)
        PROVE  Exchange!Next
    BY <1>3, NackRefuses
  <1>4. CASE OnInterestFinalize
    BY <1>4, FinalizeGivesUp
  <1>5. CASE Tick
    BY <1>5, TickExpires
  <1>6. CASE UNCHANGED vars
    BY <1>6 DEF vars, entry, Exchange!vars, Sent, Waits
  <1> QED
    BY <1>1, <1>2, <1>3, <1>4, <1>5, <1>6 DEF Next

Covered == Typed /\ TimerCovers

LEMMA CoveredInit == Init => Covered
  <1>1. Init => ~(timer > 0)
    BY DEF Init, NoTimer
  <1> QED
    BY <1>1, TypedInit DEF Covered, TimerCovers

LEMMA CoveredRecords == Covered => RecordsOK
  BY DEF Covered, Typed, TypeOK, RecordsOK

LEMMA CoveredStep == Covered /\ [Next]_vars => Covered'
  BY TypedStep, TimerCoversStep, CoveredRecords DEF Covered

LEMMA CoveredExchange == Covered /\ [Next]_vars => [Exchange!Next]_(Exchange!vars)
  BY ExchangeStep, CoveredRecords DEF Covered

(* The handlers of one name keep what the exchange promises: Data reaches   *)
(* every face whose Interest is still alive, nobody else, and the name is   *)
(* given up only when that is allowed.                                     *)
THEOREM ExchangeKept == Spec => ImplementsExchange
  <1>1. Spec => []Covered
    BY CoveredInit, CoveredStep, PTL DEF Spec
  <1> QED
    BY ExchangeInit, CoveredExchange, <1>1, PTL DEF Spec, ImplementsExchange, Exchange!Spec
=============================================================================
