------------------------ MODULE ConsumerQSCCP_proofs ------------------------
(***************************************************************************)
(* Proofs about ConsumerQSCCP, for every number of requests, every rate and *)
(* every order of Data, losses, timeouts and send events.  One inductive   *)
(* invariant joins the accounting of sequence numbers, the chain of send   *)
(* events, the sign of the rate and the count of the Data.                 *)
(***************************************************************************)
EXTENDS ConsumerQSCCP, FiniteSetTheorems, WellFoundedInduction, TLAPS

(* What starting and stopping leave.                                       *)
Lifecycle ==
    /\ firstTime => /\ ~active /\ ~stopped /\ seq = 0 /\ seqMax = SeqMax
                    /\ {} = retx \cup timeouts \cup pending \cup inFlight \cup received
    /\ active => ~firstTime /\ ~stopped /\ seqMax = Limit

RatePositive == 0 \notin TargetRate => ~failed /\ sendRate > 0

(* The counter counts the sequence numbers that were answered.             *)
Counts == Leftover = {0} =>
    /\ firstTime \/ active => recvDataNum = Cardinality(received)
    /\ StopsServed

IInv == TypeOK /\ Lifecycle /\ Accounted /\ SendArmed /\ RatePositive /\ Counts

-----------------------------------------------------------------------------
(* Lemmas about the operators.                                             *)

(* A nonempty set of natural numbers has a least one.                       *)
LEMMA FirstIsIn ==
    ASSUME NEW T, T \subseteq Nat, T # {}
    PROVE  First(T) \in T
  <1>1. PICK x \in T : \A y \in T : ~ (<<y, x>> \in OpToRel(<, Nat))
    BY WFMin, NatLessThanWellFounded
  <1>2. ASSUME NEW y \in T PROVE x <= y
    <2>1. x \in Nat /\ y \in Nat
      OBVIOUS
    <2>2. <<y, x>> \in Nat \X Nat
      BY <2>1
    <2>3. ~ (y < x)
      BY <1>1, <2>2 DEF OpToRel
    <2> QED
      BY <2>1, <2>3
  <1>3. \E s \in T : \A t \in T : s <= t
    BY <1>2
  <1> QED
    BY <1>3 DEF First

(* The weighted average is a rate, and positive if both rates are.          *)
LEMMA AverageIsRate ==
    ASSUME NEW a \in Nat, NEW b \in Nat
    PROVE  /\ Average(a, b) \in Nat
           /\ a > 0 /\ b > 0 => Average(a, b) > 0
  BY DEF Average

LEMMA UpdatedIsRate ==
    ASSUME TypeOK, NEW r \in TargetRate \cup {None}
    PROVE  /\ UpdatedRate(r) \in Nat
           /\ 0 \notin TargetRate /\ sendRate > 0 => UpdatedRate(r) > 0
  <1>1. r \in Nat \/ r = None
    BY RateAssumption
  <1>2. sendRate \in Nat
    BY DEF TypeOK
  <1>3. CASE r = None
    BY <1>2, <1>3 DEF UpdatedRate
  <1>4. CASE r # None
    <2>1. r \in Nat /\ r \in TargetRate
      BY <1>1, <1>4
    <2>2. Average(sendRate, r) \in Nat /\ (sendRate > 0 /\ r > 0 => Average(sendRate, r) > 0)
      BY <1>2, <2>1, AverageIsRate
    <2> QED
      BY <1>2, <2>1, <2>2 DEF UpdatedRate
  <1> QED
    BY <1>3, <1>4

LEMMA LimitIsNat == Limit \in Nat /\ Limit <= SeqMax /\ SeqMax \in Nat
  BY ReqAssumption DEF Limit, None

(* ScheduleNextPacket either schedules an event or fails.                   *)
LEMMA Schedules ==
    ASSUME NEW scheduled \in BOOLEAN, NEW rate \in Nat, failed \in BOOLEAN,
           ScheduleNextPacket(scheduled, rate)
    PROVE  /\ sendEvent' \in BOOLEAN /\ failed' \in BOOLEAN
           /\ sendEvent' \/ failed'
           /\ rate > 0 => failed' = failed
  <1>1. CASE ~scheduled /\ rate = 0
    <2>1. sendEvent' = FALSE /\ failed' = TRUE
      BY <1>1 DEF ScheduleNextPacket
    <2>2. ~ (rate > 0)
      BY <1>1
    <2> QED
      BY <2>1, <2>2, Zenon
  <1>2. CASE ~(~scheduled /\ rate = 0)
    <2>1. sendEvent' = TRUE /\ failed' = failed
      BY <1>2 DEF ScheduleNextPacket
    <2> QED
      BY <2>1, Zenon
  <1> QED
    BY <1>1, <1>2

(* As many of the first n sequence numbers as there are, are all of them.   *)
LEMMA AllOfThem ==
    ASSUME NEW n \in Nat, NEW T, T \subseteq 0 .. n - 1, Cardinality(T) = n
    PROVE  T = 0 .. n - 1
  <1>1. IsFiniteSet(0 .. n - 1) /\ Cardinality(0 .. n - 1) = n
    <2>1. 0 \in Int /\ n - 1 \in Int /\ (0 > n - 1 => n = 0) /\ n - 1 - 0 + 1 = n
      OBVIOUS
    <2> QED
      BY <2>1, FS_Interval
  <1> QED
    BY <1>1, FS_Subset

-----------------------------------------------------------------------------
(* The invariant is inductive.                                             *)

LEMMA InitIInv == Init => IInv
  <1> SUFFICES ASSUME Init PROVE IInv
    OBVIOUS
  <1>1. TypeOK
    <2>1. recvDataNum \in Nat
      BY LeftoverAssumption DEF Init
    <2>2. seq \in 0 .. Limit /\ seqMax \in SeqNum
      BY LimitIsNat DEF Init, SeqNum
    <2>3. sendRate \in Nat /\ fixedRate \in Nat \cup {None}
      BY RateAssumption DEF Init
    <2> QED
      BY <2>1, <2>2, <2>3 DEF Init, TypeOK
  <1>2. Lifecycle
    BY DEF Init, Lifecycle
  <1>3. Accounted /\ SendArmed
    BY DEF Init, Accounted, SendArmed
  <1>4. RatePositive
    BY RateAssumption DEF Init, RatePositive
  <1>5. Counts
    BY FS_EmptySet DEF Init, Counts, StopsServed
  <1> QED
    BY <1>1, <1>2, <1>3, <1>4, <1>5 DEF IInv

LEMMA StartIInv ==
    ASSUME IInv, StartApplication
    PROVE  IInv'
  <1> USE DEF IInv, StartApplication
  <1>1. seqMax' = Limit /\ seqMax' \in SeqNum
    BY LimitIsNat DEF Lifecycle, Limit, SeqNum
  <1>2. sendRate' \in Nat /\ (sendRate > 0 => sendRate' > 0)
    BY DEF TypeOK, None
  <1>3. TypeOK'
    BY <1>1, <1>2 DEF TypeOK, network
  <1>4. Lifecycle'
    BY <1>1 DEF Lifecycle, network
  <1>5. Accounted' /\ SendArmed'
    BY DEF Lifecycle, Accounted, SendArmed, network
  <1>6. RatePositive'
    BY <1>2 DEF RatePositive
  <1>7. Counts'
    BY DEF Counts, StopsServed
  <1> QED
    BY <1>3, <1>4, <1>5, <1>6, <1>7

LEMMA SendIInv ==
    ASSUME IInv, SendPacket
    PROVE  IInv'
  <1> USE DEF IInv
  <1>1. UNCHANGED <<firstTime, active, rates, recvDataNum, stopped, inFlight, received>> /\ ~failed
    BY DEF SendPacket
  <1>2. Counts'
    BY <1>1 DEF Counts, StopsServed
  <1>3. sendRate \in Nat /\ failed \in BOOLEAN /\ seqMax \in SeqNum /\ SeqMax \in Nat
    BY LimitIsNat DEF TypeOK
  <1>4. ASSUME NEW s \in Requested, Ask(s)
        PROVE  /\ timeouts' = timeouts \cup {s} /\ pending' = pending \cup {s}
               /\ {sendEvent', failed'} \subseteq BOOLEAN
               /\ sendEvent' \/ failed'
               /\ RatePositive'
    <2>1. ScheduleNextPacket(FALSE, sendRate)
      BY <1>4 DEF Ask
    <2>2. /\ sendEvent' \in BOOLEAN /\ failed' \in BOOLEAN /\ (sendEvent' \/ failed')
          /\ (sendRate > 0 => failed' = failed)
      BY <1>3, <2>1, Schedules
    <2>3. RatePositive'
      BY <1>1, <2>2 DEF RatePositive, rates
    <2> QED
      BY <1>4, <2>2, <2>3 DEF Ask
  <1>5. CASE AskAgain
    <2> DEFINE s == First(retx)
    <2>1. retx \subseteq Nat /\ retx # {} /\ retx \subseteq Requested
      BY <1>5, LimitIsNat DEF AskAgain, TypeOK, Requested
    <2>2. s \in retx /\ s \in Requested
      BY <2>1, FirstIsIn
    <2>3. active /\ retx' = retx \ {s} /\ Ask(s) /\ UNCHANGED <<seq, seqMax>>
      BY <1>5 DEF AskAgain
    <2> HIDE DEF s
    <2>4. /\ timeouts' = timeouts \cup {s} /\ pending' = pending \cup {s}
          /\ {sendEvent', failed'} \subseteq BOOLEAN
          /\ sendEvent' \/ failed'
          /\ RatePositive'
      BY <1>4, <2>2, <2>3
    <2>5. TypeOK'
      BY <1>1, <2>2, <2>3, <2>4 DEF TypeOK, rates
    <2>6. Lifecycle' /\ SendArmed'
      BY <1>1, <2>3, <2>4 DEF Lifecycle, SendArmed
    <2>7. Accounted'
      BY <1>1, <2>2, <2>3, <2>4 DEF Accounted
    <2> QED
      BY <1>2, <2>4, <2>5, <2>6, <2>7
  <1>6. CASE AskNext
    <2>1. /\ active /\ retx = {} /\ seq < seqMax /\ seqMax = Limit
          /\ seq' = seq + 1 /\ Ask(seq) /\ UNCHANGED <<seqMax, retx>>
      BY <1>6 DEF AskNext, MoreToAsk, Lifecycle
    <2>2. seq \in Requested /\ seq + 1 \in 0 .. Limit /\ seq \in Nat
      BY <2>1, LimitIsNat DEF TypeOK, Requested
    <2>3. /\ timeouts' = timeouts \cup {seq} /\ pending' = pending \cup {seq}
          /\ {sendEvent', failed'} \subseteq BOOLEAN
          /\ sendEvent' \/ failed'
          /\ RatePositive'
      BY <1>4, <2>1, <2>2
    <2>4. TypeOK'
      BY <1>1, <2>1, <2>2, <2>3 DEF TypeOK, rates
    <2>5. Lifecycle' /\ SendArmed'
      BY <1>1, <2>1, <2>3 DEF Lifecycle, SendArmed
    <2>6. Accounted'
      <3>1. 0 .. seq' - 1 = (0 .. seq - 1) \cup {seq} /\ seq \notin 0 .. seq - 1
        BY <2>1, <2>2
      <3> QED
        BY <1>1, <2>1, <2>3, <3>1 DEF Accounted
    <2> QED
      BY <1>2, <2>3, <2>4, <2>5, <2>6
  <1>7. CASE AskNothing
    <2>1. sendEvent' = FALSE /\ UNCHANGED <<window, failed, pending>>
      BY <1>7 DEF AskNothing
    <2>2. TypeOK'
      BY <1>1, <2>1 DEF TypeOK, window, rates
    <2>3. Lifecycle' /\ Accounted' /\ RatePositive'
      BY <1>1, <2>1 DEF Lifecycle, Accounted, RatePositive, window, rates
    <2>4. SendArmed'
      BY <1>1, <1>7, <2>1 DEF AskNothing, MoreToAsk, SendArmed, window
    <2> QED
      BY <1>2, <2>2, <2>3, <2>4
  <1> QED
    BY <1>5, <1>6, <1>7 DEF SendPacket

LEMMA DataIInv ==
    ASSUME IInv, NEW s \in Requested, NEW r \in TargetRate \cup {None}, OnData(s, r)
    PROVE  IInv'
  <1> USE DEF IInv
  <1>1. /\ ~failed /\ s \in inFlight /\ inFlight' = inFlight \ {s}
        /\ sendRate' = UpdatedRate(r) /\ recvDataNum' = recvDataNum + 1
        /\ UNCHANGED <<firstTime, seq, seqMax, fixedRate, stopped, pending>>
    BY DEF OnData
  <1>2. ~firstTime
    BY <1>1 DEF Lifecycle
  <1>3. /\ timeouts' \subseteq timeouts /\ retx' \subseteq retx
        /\ received' \subseteq received \cup {s}
    BY DEF OnData, Answered
  <1>4. sendRate' \in Nat /\ (0 \notin TargetRate /\ sendRate > 0 => sendRate' > 0)
    BY <1>1, UpdatedIsRate
  <1>5. recvDataNum' \in Nat
    BY <1>1 DEF TypeOK
  <1>6. /\ {sendEvent', failed', active'} \subseteq BOOLEAN
        /\ active' => active /\ recvDataNum' # ReqNum /\ (sendEvent' \/ failed')
        /\ RatePositive'
    <2>1. CASE recvDataNum' = ReqNum
      <3>1. active' = FALSE /\ sendEvent' = FALSE /\ failed' = failed
        BY <2>1 DEF OnData
      <3>2. RatePositive'
        BY <1>4, <3>1 DEF RatePositive
      <3> QED
        BY <3>1, <3>2 DEF TypeOK
    <2>2. CASE recvDataNum' # ReqNum
      <3>1. ScheduleNextPacket(sendEvent, sendRate') /\ active' = active
        BY <2>2 DEF OnData
      <3>2. sendEvent \in BOOLEAN /\ failed \in BOOLEAN
        BY DEF TypeOK
      <3>3. /\ sendEvent' \in BOOLEAN /\ failed' \in BOOLEAN /\ (sendEvent' \/ failed')
            /\ (sendRate' > 0 => failed' = failed)
        BY <1>4, <3>1, <3>2, Schedules
      <3>4. RatePositive'
        BY <1>4, <3>3 DEF RatePositive
      <3> QED
        BY <2>2, <3>1, <3>3, <3>4 DEF TypeOK
    <2> QED
      BY <2>1, <2>2
  <1>7. TypeOK'
    BY <1>1, <1>3, <1>4, <1>5, <1>6 DEF TypeOK
  <1>8. Lifecycle' /\ SendArmed'
    BY <1>1, <1>2, <1>6 DEF Lifecycle, SendArmed
  <1>9. CASE active
    <2>1. /\ timeouts' = timeouts \ {s} /\ retx' = retx \ {s}
          /\ received' = received \cup {s}
      BY <1>9 DEF OnData, Answered
    <2>2. s \in timeouts /\ s \notin received /\ s \notin retx /\ s \notin pending
      BY <1>1, <1>9 DEF Accounted
    <2>3. Accounted'
      BY <1>1, <1>9, <2>1, <2>2 DEF Accounted
    <2>4. ASSUME Leftover = {0}
          PROVE  recvDataNum' = Cardinality(received') /\ StopsServed'
      <3>1. received \subseteq 0 .. Limit - 1 /\ received' \subseteq 0 .. Limit - 1
        BY <1>7 DEF TypeOK, Requested
      <3>2. IsFiniteSet(received)
        <4>1. 0 \in Int /\ Limit - 1 \in Int
          BY LimitIsNat
        <4>2. IsFiniteSet(0 .. Limit - 1)
          BY <4>1, FS_Interval
        <4> QED
          BY <3>1, <4>2, FS_Subset
      <3>3. recvDataNum = Cardinality(received)
        BY <1>9, <2>4 DEF Counts
      <3>4. recvDataNum' = Cardinality(received')
        BY <1>1, <2>1, <2>2, <3>2, <3>3, FS_AddElement
      <3>5. StopsServed'
        <4>1. CASE recvDataNum' = ReqNum
          <5>1. ReqNum \in Nat /\ ReqNum > 0 /\ Limit = ReqNum
            BY <1>1, <1>5, <4>1 DEF TypeOK, Limit
          <5>2. received' = 0 .. ReqNum - 1
            BY <3>1, <3>4, <4>1, <5>1, AllOfThem
          <5> QED
            BY <5>2 DEF StopsServed
        <4>2. CASE recvDataNum' # ReqNum
          <5>1. active' = active
            BY <4>2 DEF OnData
          <5> QED
            BY <1>9, <5>1 DEF StopsServed
        <4> QED
          BY <4>1, <4>2
      <3> QED
        BY <3>4, <3>5
    <2>5. Counts'
      BY <2>4 DEF Counts
    <2> QED
      BY <1>6, <1>7, <1>8, <2>3, <2>5
  <1>10. CASE ~active
    <2>1. received' = received
      BY <1>10 DEF OnData
    <2>2. ~active'
      BY <1>6, <1>10
    <2>3. Accounted'
      BY <2>2 DEF Accounted
    <2>4. Counts'
      BY <1>1, <1>2, <1>10, <2>1, <2>2 DEF Counts, StopsServed
    <2> QED
      BY <1>6, <1>7, <1>8, <2>3, <2>4
  <1> QED
    BY <1>9, <1>10

LEMMA TimeoutIInv ==
    ASSUME IInv, CheckRetxTimeout
    PROVE  IInv'
  <1> USE DEF IInv
  <1>1. PICK T \in SUBSET (timeouts \ inFlight) :
          /\ timeouts' = timeouts \ T
          /\ retx' = retx \cup T
          /\ pending' = pending \ T
          /\ OnTimeout(T)
    BY DEF CheckRetxTimeout
  <1>2. /\ ~failed
        /\ UNCHANGED <<firstTime, active, seq, seqMax, rates, recvDataNum, stopped, inFlight, received>>
    BY DEF CheckRetxTimeout
  <1>3. /\ {sendEvent', failed'} \subseteq BOOLEAN
        /\ T # {} => sendEvent' \/ failed'
        /\ T = {} => sendEvent' = sendEvent /\ failed' = failed
        /\ RatePositive'
    <2>1. sendEvent \in BOOLEAN /\ failed \in BOOLEAN /\ sendRate \in Nat
      BY DEF TypeOK
    <2>2. CASE T = {}
      <3>1. sendEvent' = sendEvent /\ failed' = failed
        BY <1>1, <2>2 DEF OnTimeout
      <3>2. RatePositive'
        BY <1>2, <3>1 DEF RatePositive, rates
      <3> QED
        BY <2>1, <2>2, <3>1, <3>2
    <2>3. CASE T # {}
      <3>1. ScheduleNextPacket(sendEvent, sendRate)
        BY <1>1, <2>3 DEF OnTimeout
      <3>2. /\ sendEvent' \in BOOLEAN /\ failed' \in BOOLEAN /\ (sendEvent' \/ failed')
            /\ (sendRate > 0 => failed' = failed)
        BY <2>1, <3>1, Schedules
      <3>3. RatePositive'
        BY <1>2, <3>2 DEF RatePositive, rates
      <3> QED
        BY <2>3, <3>2, <3>3
    <2> QED
      BY <2>2, <2>3
  <1>4. TypeOK'
    BY <1>1, <1>2, <1>3 DEF TypeOK, rates
  <1>5. Lifecycle'
    BY <1>1, <1>2 DEF Lifecycle
  <1>6. Accounted'
    BY <1>1, <1>2 DEF Accounted
  <1>7. SendArmed'
    BY <1>1, <1>2, <1>3 DEF SendArmed
  <1>8. Counts'
    BY <1>2 DEF Counts, StopsServed
  <1> QED
    BY <1>3, <1>4, <1>5, <1>6, <1>7, <1>8

LEMMA NextIInv == IInv /\ [Next]_vars => IInv'
  <1> SUFFICES ASSUME IInv, [Next]_vars PROVE IInv'
    OBVIOUS
  <1> USE DEF IInv
  <1>1. ASSUME Stop PROVE IInv'
    <2>1. TypeOK'
      <3>1. seq' \in 0 .. Limit /\ seqMax' \in SeqNum
        BY <1>1, LimitIsNat DEF Stop, SeqNum
      <3>2. stopped' = TRUE /\ sendEvent' = FALSE /\ active' = FALSE
        BY <1>1 DEF Stop
      <3> QED
        BY <1>1, <3>1, <3>2 DEF Stop, TypeOK, rates, network
    <2>2. Lifecycle' /\ Accounted' /\ SendArmed'
      BY <1>1 DEF Stop, Lifecycle, Accounted, SendArmed
    <2>3. RatePositive' /\ Counts'
      BY <1>1 DEF Stop, RatePositive, Counts, StopsServed, rates
    <2> QED
      BY <2>1, <2>2, <2>3
  <1>2. ASSUME StartGreedy PROVE IInv'
    <2>1. GreedyRate \in Nat /\ GreedyRate > 0
      BY <1>2, RateAssumption DEF StartGreedy, None
    <2>2. TypeOK'
      BY <1>2, <2>1 DEF StartGreedy, TypeOK, window, network
    <2>3. Lifecycle' /\ Accounted' /\ SendArmed'
      BY <1>2 DEF StartGreedy, Lifecycle, Accounted, SendArmed, window, network
    <2>4. RatePositive' /\ Counts'
      BY <1>2, <2>1 DEF StartGreedy, RatePositive, Counts, StopsServed
    <2> QED
      BY <2>2, <2>3, <2>4
  <1>3. ASSUME NEW s \in Requested, Deliver(s) PROVE IInv'
    <2>1. TypeOK' /\ Lifecycle'
      BY <1>3 DEF Deliver, TypeOK, Lifecycle, window, rates
    <2>2. Accounted' /\ SendArmed'
      BY <1>3 DEF Deliver, Accounted, SendArmed, window
    <2>3. RatePositive' /\ Counts'
      BY <1>3 DEF Deliver, RatePositive, Counts, StopsServed, rates
    <2> QED
      BY <2>1, <2>2, <2>3
  <1>4. CASE UNCHANGED vars
    BY <1>4 DEF vars, window, rates, network, TypeOK, Lifecycle, Accounted, SendArmed,
                RatePositive, Counts, StopsServed
  <1> QED
    BY <1>1, <1>2, <1>3, <1>4, StartIInv, SendIInv, DataIInv, TimeoutIInv DEF Next

-----------------------------------------------------------------------------
(* Theorems.                                                               *)

(* Sequence numbers stay among those requested, rates and counters natural. *)
THEOREM TypeCorrect == Spec => []TypeOK
  <1>1. IInv => TypeOK
    BY DEF IInv
  <1> QED
    BY <1>1, InitIInv, NextIInv, PTL DEF Spec

(* Every sequence number the application has passed is answered, awaited or *)
(* to be asked for again, and only one of them.                            *)
THEOREM NothingForgotten == Spec => []Accounted
  <1>1. IInv => Accounted
    BY DEF IInv
  <1> QED
    BY <1>1, InitIInv, NextIInv, PTL DEF Spec

(* An active application with something to send has a send event scheduled. *)
THEOREM ChainUnbroken == Spec => []SendArmed
  <1>1. IInv => SendArmed
    BY DEF IInv
  <1> QED
    BY <1>1, InitIInv, NextIInv, PTL DEF Spec

(* No division by zero unless a Data carries a target rate of zero.         *)
THEOREM RateNeverZero == Spec => []NeverFails
  <1>1. IInv => NeverFails
    BY DEF IInv, RatePositive, NeverFails
  <1> QED
    BY <1>1, InitIInv, NextIInv, PTL DEF Spec

(* If the counter starts from zero, an application that stops by itself has *)
(* got each Data it was to request.                                        *)
THEOREM StopsOnlyServed ==
    ASSUME Leftover = {0}
    PROVE  Spec => []StopsServed
  <1>1. IInv => StopsServed
    BY DEF IInv, Counts
  <1> QED
    BY <1>1, InitIInv, NextIInv, PTL DEF Spec
=============================================================================
