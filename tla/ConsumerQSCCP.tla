--------------------------- MODULE ConsumerQSCCP ---------------------------
(***************************************************************************)
(* The consumer application: ConsumerQSCCP with what it inherits from       *)
(* Consumer and App.  It asks for sequence numbers one send event at a     *)
(* time, at a rate that follows the target rates of the Data, asks again   *)
(* for what has timed out, and stops after ReqNum Data or at a time.       *)
(*                                                                         *)
(* The network answers an Interest at most once, within its lifetime, or    *)
(* never.  The Data is handed over by an event of its own (ScheduleNow), so *)
(* other events of the same time can come before OnData.                   *)
(***************************************************************************)
EXTENDS Integers

CONSTANTS
    ReqNum,       \* number of Data to request; -1: no limit
    SeqMax,       \* the largest uint32: as m_seqMax no limit; bound: last sequence number
    InitialRate,  \* InitialSendRate
    FixedRate,    \* FixedRate; -1: none
    GreedyRate,   \* GreedyRate, once DelayGreedy has passed; -1: never
    TimedStop,    \* whether TimingStop is set
    TargetRate,   \* target rates that Data carries
    Leftover      \* what an uninitialized uint64 member can hold

None == -1

ASSUME ReqAssumption == ReqNum \in Nat \cup {None} /\ SeqMax \in Nat /\ ReqNum < SeqMax
ASSUME RateAssumption == /\ InitialRate \in Nat \ {0}
                         /\ FixedRate \in Nat \cup {None}
                         /\ GreedyRate \in Nat \cup {None}
                         /\ TargetRate \subseteq Nat
ASSUME LeftoverAssumption == Leftover \subseteq Nat
ASSUME StopAssumption == TimedStop \in BOOLEAN

VARIABLES
    firstTime,   \* m_firstTime: the application has not started
    active,      \* m_active
    seq,         \* m_seq: the next new sequence number
    seqMax,      \* m_seqMax
    retx,        \* m_retxSeqs: to be asked for again
    timeouts,    \* m_seqTimeouts: asked for, neither answered nor timed out
    sendEvent,   \* whether m_sendEvent is scheduled
    sendRate,    \* sendRate
    fixedRate,   \* fixedRate
    recvDataNum, \* m_recvDataNum
    stopped,     \* whether the TimingStop event has run
    failed,      \* the division by sendRate has failed
    pending,     \* the network: Interests that may still be answered
    inFlight,    \* Data handed to the application, before OnData
    received     \* history: sequence numbers the active application got Data for

window == <<seq, seqMax, retx, timeouts>>
rates == <<sendRate, fixedRate>>
network == <<pending, inFlight>>
vars == <<firstTime, active, window, sendEvent, rates, recvDataNum, stopped, failed, network, received>>

SeqNum == 0 .. SeqMax
Limit == IF ReqNum > 0 THEN ReqNum ELSE SeqMax
Requested == 0 .. Limit - 1

TypeOK ==
    /\ {firstTime, active, sendEvent, stopped, failed} \subseteq BOOLEAN
    /\ seq \in 0 .. Limit /\ seqMax \in SeqNum
    /\ retx \subseteq Requested /\ timeouts \subseteq Requested
    /\ sendRate \in Nat
    /\ fixedRate \in Nat \cup {None}
    /\ recvDataNum \in Nat
    /\ pending \subseteq Requested /\ inFlight \subseteq Requested
    /\ received \subseteq Requested

(* m_recvDataNum is nowhere initialized.                                   *)
Init ==
    /\ firstTime = TRUE
    /\ active = FALSE
    /\ seq = 0
    /\ seqMax = SeqMax
    /\ retx = {}
    /\ timeouts = {}
    /\ sendEvent = FALSE
    /\ sendRate = InitialRate
    /\ fixedRate = FixedRate
    /\ recvDataNum \in Leftover
    /\ stopped = FALSE
    /\ failed = FALSE
    /\ pending = {}
    /\ inFlight = {}
    /\ received = {}

-----------------------------------------------------------------------------
(* ScheduleNextPacket after the first time: the waiting time is a quotient  *)
(* by the rate, which is needed only if no send event is scheduled.         *)
ScheduleNextPacket(scheduled, rate) ==
    IF ~scheduled /\ rate = 0
      THEN failed' = TRUE /\ sendEvent' = FALSE
      ELSE sendEvent' = TRUE /\ UNCHANGED failed

StartApplication ==
    /\ firstTime
    /\ firstTime' = FALSE
    /\ active' = TRUE
    /\ seqMax' = IF ReqNum > 0 THEN ReqNum ELSE seqMax
    /\ sendRate' = IF fixedRate > 0 THEN fixedRate ELSE sendRate
    /\ sendEvent' = TRUE
    /\ UNCHANGED <<seq, retx, timeouts, fixedRate, recvDataNum, stopped, failed, network, received>>

(* SendPacket.                                                             *)
First(S) == CHOOSE s \in S : \A t \in S : s <= t

(* WillSendOutInterest, and the Interest goes to the forwarder.             *)
Ask(s) ==
    /\ timeouts' = timeouts \cup {s}
    /\ pending' = pending \cup {s}
    /\ ScheduleNextPacket(FALSE, sendRate)

AskAgain ==
    /\ active /\ retx # {}
    /\ retx' = retx \ {First(retx)}
    /\ Ask(First(retx))
    /\ UNCHANGED <<seq, seqMax>>

(* Fault: the number of Data is taken for the last sequence number.         *)
MoreToAskOne == seq <= seqMax

MoreToAsk == seq < seqMax

AskNext ==
    /\ active /\ retx = {} /\ MoreToAsk
    /\ seq' = seq + 1
    /\ Ask(seq)
    /\ UNCHANGED <<seqMax, retx>>

AskNothing ==
    /\ ~active \/ (retx = {} /\ ~MoreToAsk)
    /\ sendEvent' = FALSE
    /\ UNCHANGED <<window, failed, pending>>

SendPacket ==
    /\ sendEvent /\ ~failed
    /\ AskAgain \/ AskNext \/ AskNothing
    /\ UNCHANGED <<firstTime, active, rates, recvDataNum, stopped, inFlight, received>>

(* Fault: the terms are rounded before they are added.                      *)
AverageOfRounded(old, new) == (8 * old) \div 10 + (2 * new) \div 10

Average(old, new) == (8 * old + 2 * new) \div 10

(* updateRate, which Data without a target rate does not reach.             *)
UpdatedRate(new) ==
    IF fixedRate > 0 \/ new = None THEN sendRate
    ELSE IF sendRate = 0 THEN new
    ELSE Average(sendRate, new)

(* Fault: the sequence number goes on being awaited.                        *)
AnsweredKept(s) == timeouts

Answered(s) == timeouts \ {s}

(* OnData, of Consumer and of ConsumerQSCCP; only the former asks whether   *)
(* the application is active.  The last Data requested stops it.            *)
OnData(s, targetRate) ==
    /\ ~failed /\ s \in inFlight
    /\ inFlight' = inFlight \ {s}
    /\ IF active
         THEN /\ timeouts' = Answered(s)
              /\ retx' = retx \ {s}
              /\ received' = received \cup {s}
         ELSE UNCHANGED <<timeouts, retx, received>>
    /\ sendRate' = UpdatedRate(targetRate)
    /\ recvDataNum' = recvDataNum + 1
    /\ IF recvDataNum' = ReqNum
         THEN active' = FALSE /\ sendEvent' = FALSE /\ UNCHANGED failed
         ELSE ScheduleNextPacket(sendEvent, sendRate') /\ UNCHANGED active
    /\ UNCHANGED <<firstTime, seq, seqMax, fixedRate, stopped, pending>>

(* Fault: OnTimeout does not schedule a packet.                             *)
OnTimeoutSilent(S) == UNCHANGED <<sendEvent, failed>>

OnTimeout(S) == IF S = {} THEN UNCHANGED <<sendEvent, failed>>
                          ELSE ScheduleNextPacket(sendEvent, sendRate)

(* CheckRetxTimeout: some Interests, those past their lifetimes, time out   *)
(* (any set of them, since Interests of one time have one deadline).        *)
(* Data that was handed over came in time.                                  *)
CheckRetxTimeout ==
    /\ ~failed
    /\ \E S \in SUBSET (timeouts \ inFlight) :
          /\ timeouts' = timeouts \ S
          /\ retx' = retx \cup S
          /\ pending' = pending \ S
          /\ OnTimeout(S)
    /\ UNCHANGED <<firstTime, active, seq, seqMax, rates, recvDataNum, stopped, inFlight, received>>

(* stop, at TimingStop.                                                    *)
Stop ==
    /\ TimedStop /\ ~firstTime /\ ~stopped /\ ~failed
    /\ stopped' = TRUE
    /\ seqMax' = 0
    /\ seq' = 0
    /\ sendEvent' = FALSE
    /\ active' = FALSE
    /\ UNCHANGED <<firstTime, retx, timeouts, rates, recvDataNum, failed, network, received>>

(* startGreedy, at DelayGreedy.                                            *)
StartGreedy ==
    /\ GreedyRate > 0 /\ ~firstTime /\ ~failed /\ fixedRate # GreedyRate
    /\ fixedRate' = GreedyRate
    /\ sendRate' = GreedyRate
    /\ UNCHANGED <<firstTime, active, window, sendEvent, recvDataNum, stopped, failed, network, received>>

(* The network hands over the Data of an Interest that is pending; the face *)
(* of an application that has stopped is closed.                           *)
Deliver(s) ==
    /\ active /\ ~failed /\ s \in pending
    /\ pending' = pending \ {s}
    /\ inFlight' = inFlight \cup {s}
    /\ UNCHANGED <<firstTime, active, window, sendEvent, rates, recvDataNum, stopped, failed, received>>

Next ==
    \/ StartApplication
    \/ SendPacket
    \/ \E s \in Requested, r \in TargetRate \cup {None} : OnData(s, r)
    \/ CheckRetxTimeout
    \/ Stop
    \/ StartGreedy
    \/ \E s \in Requested : Deliver(s)

Spec == Init /\ [][Next]_vars

(* Events of the simulator run, and an Interest that is asked for again and *)
(* again is answered at last.                                              *)
FairSpec ==
    /\ Spec
    /\ WF_vars(StartApplication) /\ WF_vars(SendPacket) /\ WF_vars(CheckRetxTimeout)
    /\ \A s \in Requested : /\ WF_vars(\E r \in TargetRate \cup {None} : OnData(s, r))
                            /\ SF_vars(Deliver(s))

-----------------------------------------------------------------------------
(* Every sequence number the application has passed is answered, awaited or *)
(* to be asked for again, and only one of them, whatever the order of Data, *)
(* timeouts and send events; the network holds no others.                   *)
Accounted ==
    active => /\ received \cup timeouts \cup retx = 0 .. seq - 1
              /\ received \cap timeouts = {}
              /\ retx \cap (received \cup timeouts) = {}
              /\ pending \cup inFlight \subseteq timeouts
              /\ pending \cap inFlight = {}

(* The chain of send events is broken only while there is nothing to ask:   *)
(* an active application with something to send has one scheduled.          *)
SendArmed == active /\ ~failed /\ (retx # {} \/ seq < seqMax) => sendEvent

(* An application that stops by itself has got each of the ReqNum Data it   *)
(* was to request ("Request Data Num", ndn-consumer-qsccp.cpp:38).          *)
StopsServed ==
    ~active /\ ~firstTime /\ ~stopped => received = 0 .. ReqNum - 1

(* As long as no Data tells it a target rate of zero, the weighted average  *)
(* is never rounded down to zero, and ScheduleNextPacket can divide by it.  *)
NeverFails == 0 \notin TargetRate => ~failed

(* Data that is lost is asked for until it comes: the application gets all  *)
(* it has to request, unless TimingStop stops it.                          *)
Completes == <>(stopped \/ received = 0 .. ReqNum - 1)
=============================================================================
