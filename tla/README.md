# TLA+ models and proofs for qsccp

qsccp is a congestion control scheme for Named Data Networking built into ndnSIM (ns-3 with NFD
as its forwarder).  This directory models the parts of the repository that carry its own logic,
model-checks them with TLC and proves their central invariants with TLAPS.  Paths below are
relative to the repository; `NFD/` stands for `ns-3/src/ndnSIM/NFD/`.

## 1. The system

| Component | Where | State it keeps | Operations |
|---|---|---|---|
| Service class queue (`WDRRQueue`, `VirtualQueue`) | `NFD/daemon/face/queues.{hpp,cpp}` | `virtualQueues`, `flows`, `nextScheduleQueue`, per flow: packets, `balance`, `penaltyFactor`, `gredyTimes`, rates | `appendInterest`, `scheduleNext`, `calObjectRate` |
| Token bucket | `NFD/daemon/face/TokenBucket.cpp` | `currentTokenSize` | `generateToken` every 4 ms, `use` |
| Link scheduler (`DelaySensitiveServiceSP`, `WFQQueue`, `GlobalSP`) | `queues.{hpp,cpp}` | eight class queues, `cachePacketForWFQ`, `lastSeq` (per class and total) | `appendInterest`, `scheduleNext`, `calObjectRate` every 100 ms, `assignObjectRate` |
| Pump of a face (`GenericLinkService`) | `NFD/daemon/face/generic-link-service.cpp` | `canScheduler`, the send timer | `doSendInterest`, `sendPacketCallback`, `decodeInterest`, `decodeData` |
| QSCCP strategy (`QSCCPStrategy`, `RateStore`, `RateCollection`) | `scenario/extensions/QSCCPStrategy.{h,cpp}` | aggregated downstream rates (ART), upstream rates (RRT), per table: rates, ratios, balances, next face | `afterReceiveInterest`, `afterReceiveData`, `beforeSatisfyInterest`, `afterReceiveNack`, periodic cleaning |
| Consumer (`ConsumerQSCCP`, `Consumer`) | `ns-3/src/ndnSIM/apps/ndn-consumer-qsccp.cpp`, `ndn-consumer.cpp` | `sendRate`, `m_seq`, retransmission set, sequence timeouts, counters | send event, `OnData`, `OnTimeout`, `CheckRetxTimeout`, stop |
| Producer | `ns-3/src/ndnSIM/apps/ndn-producer.cpp` | none | answers every Interest, echoing its service class |
| NFD forwarding pipelines | `NFD/daemon/fw/forwarder.cpp`, `strategy.cpp` | PIT, CS, dead nonce list | incoming/outgoing Interest, Data, Nack |
| Link reliability | `NFD/daemon/face/lp-reliability.cpp` | unacknowledged fragments, ack queue, timers | send, acknowledge, retransmit, give up |
| Reassembly, fragmentation | `NFD/daemon/face/lp-reassembler.cpp`, `lp-fragmenter.cpp` | partial packets | receive fragment, timeout |
| Tables, RIB, management | `NFD/daemon/{table,rib,mgmt}` | FIB, measurements, routes | upstream NFD |
| ns-3 core and models | `ns-3/src/*` | simulator | third party |

A node's Interest path is: incoming face -> PIT -> `QSCCPStrategy::afterReceiveInterest`, which
records the rate the downstream asks for and picks an upstream face -> that face's
`GenericLinkService::doSendInterest`, which appends the Interest to a class queue and, if no send
timer runs, starts the pump.  The pump sends one Interest per timer, waiting for as long as the
*Data* it will bring back occupies the link.  Data bypasses the queues; on its way back each link
lowers its target rate to the flow's object rate (`decodeData` -> `assignObjectRate`), each node
splits the target rate among the downstream faces, and the consumer follows it.  All of a node runs
on one thread of the simulator: handlers are atomic, and what interleaves is the order of packets,
timers (send timer, 4 ms token tick, 100 ms rate tick, strategy cleaning, consumer events) and of
several nodes.

What makes each part correct, and what is hard:

* **class queue** - the vector of flows and the map of flows agree although only one is rebuilt on
  erasure; the packet counter that drives the recursion of `scheduleNext` is exact; deficits give
  backlogged flows equal shares; penalties last.
* **link scheduler and pump** - one send timer, never two, never none while a class without tokens
  can send; strict priority; bounded virtual-time lag; what happens when 32-bit tags overflow.
* **strategy** - shares of a target rate never add up to more than the rate; the chosen face is
  usable and not the one the Interest came from; the selection loop ends; every Interest is
  forwarded, Nacked or suppressed, with consequences for all downstreams of the PIT entry.
* **consumer** - every sequence number is asked for until answered; stops once; never divides by a
  zero rate.
* **rates** - what is told on Data is the rate of the flow its Interest was served from; what flows and
  classes may use fits what there is, although sums are 32 bits wide and one of them starts from
  uninitialized memory.
* **forwarder** - an entry lives exactly as long as somebody waits; Data, Nacks, expiry and
  retransmissions race each other over the same records.
* **reliability, reassembly** - upstream NFD, unchanged; reliability is off by default and the
  scenarios' packets are not fragmented.

All of this logic is C++.  The Python files of the repository are the bindings that ns-3 generates for
its classes, its build and test scripts, and the plotting of results: none of them holds state of the
system or decides anything in it, and none is modelled.

## 2. Modules

| Module | Models | Notes |
|---|---|---|
| `ClassQueue` | what a class promises: FIFO per flow, refuses only if rate-limited and short of tokens, starves no flow | abstract |
| `WDRRQueue` | `WDRRQueue`, `VirtualQueue`, `TokenBucket` | implements `ClassQueue` |
| `WDRRAsked` | `WDRRQueue` with the requests that a face makes of a class | implements `ClassQueue`, and its fairness as long as Interests come |
| `WDRRShare` | `WDRRQueue` with a history variable that measures how evenly flows are served | |
| `MCWDRRQueue`, `MCWDRRShare` | TLC instances | |
| `WDRRQueue_proofs` | TLAPS proofs about `WDRRQueue` and `WDRRShare` | |
| `LinkPort` | what a face promises: FIFO per flow and class, one packet at a time, no loss | abstract |
| `LinkScheduler` | the pump over `GlobalSP`, `DelaySensitiveServiceSP`, `WFQQueue` | sees classes through `ClassQueue`'s promise; implements `LinkPort` |
| `MCLinkScheduler` | TLC instance with two rate-limited and two weighted classes | |
| `LinkScheduler_proofs` | TLAPS proofs about `LinkScheduler` | |
| `LinkPort_proofs` | TLAPS proofs that `LinkScheduler` implements `LinkPort`, keeps its priorities, and of the range of its tags | extends `LinkScheduler_proofs` |
| `ObjectRate` | the rates of a face: `calObjectRate` of flows, classes and link, and what Interests and Data are told | |
| `MCObjectRate` | TLC instance | |
| `ObjectRate_proofs` | TLAPS proofs about `ObjectRate` | |
| `RateStore` | `RateStore` and `RateCollection` of the strategy, for one flow | |
| `RateShare` | `RateStore` with a history variable that measures how faces share the Interests | |
| `MCRateStore`, `MCRateShare` | TLC instances | |
| `RateStore_proofs` | TLAPS proofs about `RateStore` and `RateShare` | |
| `InterestExchange` | what a forwarder promises the faces that ask for a name: Data to whoever still waits, to nobody else, and no premature end | abstract |
| `QSCCPForwarder` | one PIT entry: NFD's pipelines, retransmission suppression, `QSCCPStrategy`'s handlers | implements `InterestExchange`; sees `RateStore` through its promise (any next hop but the ingress, or none) |
| `MCForwarder` | TLC instance | |
| `QSCCPForwarder_proofs` | TLAPS proofs about `QSCCPForwarder` | |
| `ConsumerQSCCP` | `ConsumerQSCCP` with what it inherits from `Consumer` and `App`, and the network as its environment | |
| `MCConsumer` | TLC instance | |
| `ConsumerQSCCP_proofs` | TLAPS proofs about `ConsumerQSCCP` | |
| `FoldTheorems` | facts about sums and folds over finite sets, minimum, maximum, quotients and remainders | used by the proofs about `WDRRQueue`, `ObjectRate` and `RateStore` |

A definition whose comment starts with *Fault* is a wrong variant of the definition after it; no
specification uses it.  It names a plausible mistake that one of the properties must detect.

### How state and actions correspond to the code

Each model is one event loop: an action is one whole handler, because the simulator runs events to
the end.  What is nondeterministic is which event comes next and what it carries.

* **WDRRQueue** - `keys` and `flows` are the key set of `virtualQueues` and the vector `flows`;
  `queue`, `balance`, `penalised`, `greedyTimes` and `received` are members of `VirtualQueue`
  (`penaltyFactor` is 1.0 or 0.5, `recvBits` only matters as zero or not); `next` is
  `nextScheduleQueue`, counted from 1.  `AppendInterest`, `ScheduleNext`, `GenerateToken` and
  `CalObjectRate` are the handlers.  The recursion of `scheduleNext` is written in closed form:
  the action takes the first scan, and in it the first position, that can pay.  `RecursionEnds`
  says that there is one, so that the closed form leaves out no endless recursion.
* **WDRRAsked** - `due` says that the face is about to ask the class or that its send timer runs:
  `Offer` (`doSendInterest`) makes it true, `Ask` (`sendPacketCallback`) keeps it so only if a packet came.
  A face that was refused asks again when the next Interest comes, never before.  The class
  has the face to itself: how classes compete is `LinkScheduler`'s matter.
* **LinkScheduler** - `queue[c]`, `tokens[c]`, `cache[c]` and `lastSeq[c]` are the class queues,
  their buckets, `cachePacketForWFQ` and `WDRRQueue::lastSeq`; `virtualTime` is
  `WFQQueue::lastSeq`; `pending` holds a packet for every send timer that runs, so that a second
  timer would show; `canScheduler` is the flag.  `DoSendInterest`, `SendPacketCallback` and
  `GenerateToken` are the handlers; the first two end in `Pump`, which is `SendSP`, `SendWFQ` or
  `Rest`, one for each way `GlobalSP::scheduleNext` can return.  Which flow a class serves
  (`pick`) is any backlogged one: that is `ClassQueue`'s promise, and `class_fair` checks that
  `WDRRQueue` keeps it.
* **ObjectRate** - `known`, `rate`, `penalised`, `greedyTimes`, `recv`, `size` and `waiting` are the
  keys of `virtualQueues` and the members of each `VirtualQueue`; `avail` and `weight` are
  `availableBandwidth` and `totalWeight` of the classes, `received` is `interestBytes`.  `AppendInterest`
  (which divides the bandwidth anew when a flow is new), `ScheduleNext`, `ReceiveInterest`
  (`decodeInterest`) and `CalObjectRate` (the periodic event, of link, classes and flows) are the
  handlers.  `served` remembers the Interests sent, with the number they carry; Data may answer each
  of them at any later time, so what Data is told needs no action: `TargetRate` is
  `assignObjectRate`, `DownstreamRate` what `scheduleNext` writes, and `Carried` the numbers under which
  Data may ask for a rate: the producer repeats what he saw, and any hop may have written a penalised
  packet's number anew.  `settled` and `quiet` are history.
* **RateStore** - `art` and `rrt` are the two `RateCollection`s of one flow.  `AfterReceiveInterest`,
  `BeforeSatisfyInterest` and `PeriodicCleaning` are the operations that change them; `NewDR`
  and `TargetRate` are the values other handlers read.  `selectNextFace`'s recursion is in closed
  form as well, and `SelectionEnds` is the counterpart of `RecursionEnds`.
* **QSCCPForwarder** - `exists`, `inR`, `outR`, `timer` and `satisfied` are the PIT entry, its records
  and its expiry timer, `dnl` the name's nonces in the dead nonce list.  `OnIncomingInterest` runs to
  its end: loop, or content store miss with the strategy's `Suppress`, `SendInterest` or
  `NackNoRoute`.  `OnIncomingData` and `OnIncomingNack` are the other pipelines, again with what the
  strategy does in them (`processNack`, `rejectPendingInterest`); `OnInterestFinalize` is the timer's
  event and `Tick` lets time pass.  `sent` is what the last handler sent and `wire` how many
  answers the network may still give to each Interest sent.
* **ConsumerQSCCP** - every variable but the last three has the name of the member it models.
  `StartApplication`, `SendPacket`, `OnData`, `CheckRetxTimeout` (with the `OnTimeout` of each
  number that timed out), `Stop` and `StartGreedy` are the events; `Deliver` is the network
  handing Data to the application's link service, which passes it on with an event of its own
  (`ScheduleNow`), hence `inFlight`.

### Simplifications

* A packet is its size, its flow and, where it matters, its mark.  Names are model values.
* `WDRRQueue`: `VqSize` is one constant.  (A flow found greedy has its limit set to 20, which
  differs from the limit it was created with in the scenarios `qsccp5`, 100, and
  `qsccp4-2-multi`, 50; `ObjectRate` has that second limit, `PenalisedSize`.)  The order in which the map
  lists flows after an erasure is any permutation.  Which flows exceed their object rate is any set
  of flows that received something: which ones do is `ObjectRate`'s matter.
* `LinkScheduler`: flows are not erased, since `ClassQueue` does not erase them.  A `double` that
  does not fit an `int` becomes `INT_MIN`, which is what x86-64's conversion yields; the width is
  the constant `HalfRange`.
* `ObjectRate`: doubles are exact quotients; unsigned sums and products wrap as the code's do.
  Interests served are never taken out of `served`, since an answer may be late.  The class
  objects are built alike, so that all start from the same uninitialized `totalWeight`: any number of
  halves, also zero or less.  (What is no number, infinite or another fraction is left out; the rates
  that a division by it yields are among those that other junk yields.)  A flow's Interests for one name
  carry one class.  All faces are built with the same class numbers.  Which packet is served is any that
  waits.
* `RateStore`: the entries of different flows share nothing, so one flow is enough.  Ratios are
  derived from rates and totals instead of being kept.  Balances are integers in units of
  `10e-6 * MTU_QUANTA`, rounded down, so that the smallest growth the code tells from none is one
  unit.  `allocateRate` is left out, because nothing reads it; of `recvCount` only zero or not
  zero matters.  Interests of a neighbour carry a downstream rate, because
  `GlobalSP::scheduleNext` sets it on all of them.
* `QSCCPForwarder`: one name, hence one PIT entry at a time.  The content store has size 0, as in the
  scenarios.  `MustBeFresh` is never set, so a satisfied Interest leaves nothing in the dead nonce
  list, which never evicts.  Faces are point-to-point.  Reasons of Nacks and rates are left out.
  Times are whole ticks; what is due at one instant may happen in any order.  The network may
  delay or lose any answer, and answer an Interest with Data or a Nack after the entry is gone.
* `ConsumerQSCCP`: time is left out; the numbers that time out together are any set.  Rates are
  integers and the weighted average is exact before it is rounded down.  The network answers an
  Interest at most once, and not after its lifetime.

## 3. What the runs check

`tlc -config X.cfg M` in this directory repeats a run; the configuration names its properties, and
each property's comment states it in words.

| Run | Module, configuration | Question |
|---|---|---|
| `class_order` | `MCWDRRQueue`, `MCWDRROrder` | Do the vector, the map, the packet counter and the marks of a class stay consistent while three flows come, go, are listed in another order and are penalised; does the recursion end, and is nobody passed over? |
| `class_share` | `MCWDRRShare`, `MCWDRRShare` | Do two backlogged flows with packets of different sizes get equal shares? |
| `class_fair` | `WDRRAsked`, `MCWDRRFair` | Is a rate-limited class a `ClassQueue`, and, while Interests keep coming, one that starves no flow? |
| `link` | `MCLinkScheduler`, `MCLinkScheduler` | Is there one send timer, strict priority, order without loss, and does a face drain of every class whose tag does not read as "no packet"; is the lag bounded until tags overflow, and how soon can they? |
| `link_retry` | `MCLinkScheduler`, `MCLinkRetry` | Is a packet without tokens tried again, as a comment says?  It is not (section 6). |
| `object_rate` | `MCObjectRate`, `MCObjectRate` | Do rates of flows fit their class and rates of borrowing classes the link, from whatever `totalWeight` was; does Data find the flow of its Interest, under any number it may carry? |
| `rate_select` | `MCRateStore`, `MCRateSelect` | Does the selection of an upstream face end, refuse only the hopeless, and keep balances bounded; are totals exact even when they wrap; is silence forgotten? |
| `rate_share` | `MCRateShare`, `MCRateShare` | Are two upstream faces used in proportion to the rates they recommend? |
| `forwarder` | `MCForwarder`, `MCForwarder` | Does the entry wait only for who may answer, is a refusal passed on, does every entry end, and do the handlers keep the promise of `InterestExchange`? |
| `forwarder_nack` | `MCForwarder`, `MCForwarderNack` | Does the Nack an out-record holds belong to the last Interest, as a comment says?  Not always (section 6). |
| `consumer` | `MCConsumer`, `MCConsumer` | Is every number asked for until answered, does the chain of send events hold, does the application stop served? |
| `consumer_count` | `MCConsumer`, `MCConsumerCount` | The same, if `m_recvDataNum` starts from what the memory held.  It stops early (section 6). |

### Bounds and why they are enough

* `class_order`: three flows are the fewest for which the round can stand between two flows when
  the one before, at or after it is erased and the rest are permuted.  `VqSize` 1 makes every
  second append overflow.  `MaxCleanups` 1 bounds the cleanings *that erase a flow*; others are
  not counted.  `Quantum` and `MaxSize` are equal, so that a penalised flow needs several
  rounds for one packet and the recursion is deep.  The bucket of 3 pays for one packet of size 2 and is then
  short until the next tick, so every second request is refused in the middle of a round unless a tick comes
  first.  Flows are symmetric: no property and no definition orders them.
* `class_share`: sizes 2 and 3 with a quantum of 4 leave every remainder of the deficit, and one
  cleaning may erase a flow and move the round.  The class is rate-limited, so that a request may also be
  refused in the middle of a round; with ticks in between it behaves as one that is not.  The history variable restarts when a flow is idle
  or penalised, so its range is what the property bounds, and symmetry of flows is sound.  The
  bound, twice a flow's credit, is not tight for two flows; in experiments without an erasing
  cleaning, two flows get ahead by at most two quanta and a packet, less one bit, and three by
  two quanta and two packets, less one bit: with three, the theorem's bound is reached exactly.
* `class_fair`: the class limit, the flow limit and the bucket are all reached; the bucket holds
  one token more than a packet needs, since the comparison is strict.  Marked packets lower a flow's
  deficit, so that grants of half a quantum occur.
* `link`: two rate-limited classes (one can pass the other) and two weighted classes
  (one can pass the other) with different weights; `MaxArrivals` 5 fills a
  flow's queue of two, its class's cache and the timer and goes on.
  `HalfRange` 7 is passed by the third packet of a class; five packets of size 3 in one class get the
  tags 3, 6, -7, -4 and -1, and the last, as an unsigned number, is the value for "no packet": the pump
  then rests on a packet.  `RestsOnlyWhenEmpty`, `ImplementsPort` and `WFQDrains` all except that class,
  and only while its tag reads so.  `link_retry` keeps `HalfRange` 100, which is never reached.
* `object_rate`: a rate-limited class that re-marks its packets as those of the next class, and
  two weighted classes of weights 2 and 1; two flows; six kinds of offers, of which three take
  more than a flow's share, one comes marked; `MaxArrivals` 3 lets a flow come to a class
  where another is, be found fast or greedy, and be erased.  `Junk` takes values that make the
  first divisors negative, zero and positive.  `HalfRange` 1000 is below `4 * Second`, so a product wraps while the link's
  rate does not.
* `rate_select`: face 3 is both a next hop and a downstream face.  With `Wrap` 3 the sum of two default
  rates wraps, and so does that of the default and a recommended one; in the code, sums of rates come to
  32 bits only with more or faster links than the scenarios have.  `Local` is empty: Data of a producer on
  the node comes by a face of local scope, which the strategy sends on without a look at the tables, so that
  such a face only ever has the default rate.
  `BalanceCap` 5 is passed by two refills.  Rates 0 and 1 with the default 2 give zero, small and
  equal ratios.
* `rate_share`: the bound of the property does not depend on time, and TLC exhausts the states.  The
  theorem's hypothesis `TwoHops` is an assumption of the module, so TLC evaluates it.
* `forwarder`: downstream faces 1, 2 and 4 (an application), next hops 2 and 3, so that face 2 asks
  and is asked.  Lifetimes 1 and 2 let records expire before and with the entry; a suppression
  interval of 1 both suppresses and lets pass.  Four Interests with three nonces make a loop, a
  retransmission and an Interest for a name already given up; `MaxArrivals` is also the most answers that can be out.
  `CHECK_DEADLOCK FALSE`, because the model stops once all Interests have come and all are settled.
* `consumer`: four requests let one be lost, one be late, one be in flight and one not be asked
  yet.  `SeqMax` is above `ReqNum`; a request number without limit would count to it.  Rates 1, 4,
  5 and 6 give averages that are rounded down and averages that are not.  `Leftover` is `{0}` here, `{0, 1}` in
  `consumer_count`.

### Fairness

Only what the simulator guarantees is assumed fair: an event that is scheduled runs.
`LinkScheduler!FairSpec` has weak fairness of the send timer and of each bucket's tick, and none
of `DoSendInterest`: nothing obliges an application to ask.  `WDRRAsked!AskSpec` has weak fairness of
`Ask`, a request that is due because an Interest came or a packet was sent, and of the tick.  A request
that found no tokens is not repeated, so a flow may starve if nobody asks for Data again; fairness among
flows is therefore promised under the condition that Interests keep coming to the class, whatever their
flow (`[]<><<Offer>>_askVars`).  `RateStore!FairSpec`
has weak fairness of the periodic cleaning, which schedules itself; `SilenceForgotten` is about faces whose
packets stop coming.  `QSCCPForwarder!FairSpec` has
weak fairness of `Tick` and of `OnInterestFinalize`: time passes and timers that are due fire; no
packet is obliged to come.  `ConsumerQSCCP!FairSpec` has
weak fairness of the start, of the send event, of the check for timeouts (periodic) and of the
delivery event of Data that has reached the application; and *strong* fairness of the network's
answers, because a network that loses every copy of an Interest would defeat any consumer.  That
last one is an assumption about the environment and the only one that is not the scheduler's.
Checking for timeouts may find none, so nothing forces an Interest to time out.

## 4. What is proved

`tlapm M.tla` checks each proof.  The theorems hold for all values of the constants that satisfy
the modules' named assumptions, which say only that sets and limits have the right kind
(numbers are natural, weights and rates that divide are not zero, classes are disjoint, listed once
and finitely many, there is a longest lifetime).  A few theorems have a hypothesis of their
own, which is said with them: `PortKeptInRange`, `RatesStayWithin`,
`SplitIsProportional` and `StopsOnlyServed`.

`LinkScheduler_proofs`:

* `TypeCorrect`, `PumpSafe` (`[]OneTimer`), `PumpWorkConserving` (`[]RestsOnlyWhenEmpty`) and
  `WFQLagBounded` (`[]LagBounded`).
* `OneTimer` is inductive with the type invariant, because each handler leaves through exactly one
  of `Launch` and `Rest`.
* `RestsOnlyWhenEmpty` needs nothing but itself, yet its step needs a fact about `Refill`: a class
  whose cache is empty afterwards has no backlog.
* `LagBounded` is not inductive.  A class tags its next packet from `lastSeq`, so the inductive
  invariant (`TagsInPlace`) also says what `lastSeq` is while it is not `NoSeq`: the class still
  has packets, and `lastSeq` is the tag it caches or, once that was sent, the current virtual time.
  The smallest tag is chosen, so virtual time does not pass one that waits; a class that refills
  then starts at virtual time exactly; rounding down to whole tags only makes the distance
  smaller.  The proof is by cases on the three ways the pump ends, with lemmas about the conversion
  to `int` and the rounded quotient.

`LinkPort_proofs`:

* `PriorityKept` (`PriorityRespected`) is by cases on the three ways the pump ends: a class of the
  strict order that sends was reached because all before it were passed over, and a class is passed
  over only if, for some flow with packets, the first of them costs more than the tokens.
* `TagsLast` (`[]RangeSuffices`).  The tags follow the service, so the invariant (`Measured`) counts it: the
  places that packets occupy in the weighted queues are a finite set, each refill takes one of
  them, and moves the largest tag by at most `MaxSize`, whatever the weights.  Tags are thus at most
  `MaxSize` times the packets that came and are no longer in the queues.
* `PortKept` (`Spec => ImplementsPort`): each pump is a `Begin` or `Hold` of the port, an
  arriving Interest is its `Arrive`.  The queue that the port sees is the cached packet followed by
  the queue, which a refill does not change.  The port may hold only if nothing waits in the classes it
  owes a turn, and here the code's use of `UINT32_MAX` for "no packet" matters: the scheduler rests on a
  cached packet if its tag reads so.  It owes a turn to the classes in `Telling`, those whose tag does not.
* `PortKeptInRange` (`Spec => Port!Spec`, the port that owes all weighted classes a turn) gets
  `Telling = WFQ` from `Measured` if all the traffic, `MaxArrivals * MaxSize`, fits the range of int.

`WDRRQueue_proofs`:

* `TypeCorrect`, `EachFlowListedOnce` (`[]FlowsListKeys`), `CounterExact` (`[]CountExact`),
  `RecursionTerminates` (`[]RecursionEnds`), `MarkSurvives` (`[]MarkNeverLost`), `CreditIsBounded`
  (`[]CreditBounded`), `RoundPassesNobody` (`[]NothingPassedOver`) and `ClassKept`
  (`Spec => Class!Spec`: the safety part of `ImplementsFairClass`).
* The counter is compared with the number of slots `<<flow, position>>` in use, whose cardinality
  an append raises and a service lowers by one.  The invariant `Basic` adds to it that queues keep
  within their limits, that the vector lists the keys once and that a flow outside the map is empty.
* `RecursionEnds`: each scan grants every backlogged flow at least one unit, so a scan with a
  number above the head's size finds one that can pay; the least such scan is the one taken.
* `CreditBounded` and `NothingPassedOver` need each other: the invariant `Credit` says how much a
  flow before and after the position of the round may hold, in terms of the packet at its head and
  of the cleanings that have moved the position.
* `SharesAreFair` (`ShareSpec => []FairShare`), for any number of flows, rests on one quantity: what a flow
  was served since the flows met plus what it has left.  Scans grant all contending flows alike and a
  service moves bits from one part to the other, so the difference of this quantity between two
  flows (`Ahead`) stays what it was when they met: at most one flow's credit, by `CreditBounded`.
  The flow served least has saved at most another.  The invariant is `Evened`.  The bound has two quanta,
  not one: a flow that becomes busy behind the round waits for the next grant, while the others
  spend what they already had.  With a quantum of 8 and packets up to 3, a flow gets 18 bits ahead.

`QSCCPForwarder_proofs`:

* `TypeCorrect`, `PendingMeansUnanswered` (`[]AwaitsOnlyUnanswered`), `NobodyWaitsInVain`
  (`[]WaitsForSomebody`), `RefusalIsPassedOn` (`[]RefusalReachesAll`) and `ExchangeKept`
  (`Spec => ImplementsExchange`).
* `Typed` adds to the types that the network owes no more answers than Interests were sent and that
  no record outlives its entry.  `Answerable` is the conjunction of the three invariants: an out-record
  without a Nack stands for an Interest that is out, since an answer removes the record or marks it.
* The refinement needs `TimerCovers`: the timer covers the longest of the in-records, unless the
  entry is about to go, so that no face is forgotten before its Interest has expired.

`ObjectRate_proofs`:

* `TypeCorrect`, `DataFindsItsFlow` (`[]AnswersKnown`), `RatesStayWithin` (`[]RatesWithinClass`) and
  `ClassesFitLink` (`Spec => ClassesFit`).
* `AnswersKnown` is proved from three invariants.  `Memory`: a flow with waiting packets is known.  `Quiet`:
  so is one that had an Interest less than two intervals ago, because the first `calObjectRate` after
  an Interest finds bits received, and only the next may erase; it needs that bits counted do not wrap to
  zero (`BitsFit`).  `Numbered`: an Interest leaves with the number of its class or with `Tos` of it.  For a
  class that writes its own number, `Carried` is that number alone, however many hops re-mark.  Two of
  the eight classes do not (`queues.hpp:227`: CS7 writes 2, EF writes 0); nothing is promised to them.
* `Typed` is the type invariant, that a class knows finitely many flows, and that the queue of an
  unpenalised flow keeps to its limit, by which the discount is looked up.  Its step goes through the
  computation definition by definition: sums and products are reduced where the code
  stores them in unsigned variables, divisors are not zero but for the junk in `totalWeight`, and what that
  leads to (`Quotient`) is still a rate.
* `RatesStayWithin` is about a rate that is lent: what all flows consume is taken from what the class
  has, and the rest is divided by the number of fast flows, but the flows that are lent to need not be
  those that were counted.  The bound holds because unpenalised fast flows share alike: each is
  counted with the same base rate, so the number of fast flows times that rate is at most what is
  consumed.  The theorem assumes `FewFlows`: what the flows of a class consume together does not wrap
  around 32 bits.  With the code's interval of 100 and margin of 500000 that is up to 98 flows
  of a class; beyond it the sum may wrap, what is left seems larger, and nothing in the code prevents it.
* `ClassesFitLink` is an action property.  Let a class count for its share if it is busy and for what
  it uses otherwise (`Counts`).  These counts sum to at most what is left of the link, hence no conversion of a
  double to int changes anything and `TotalRate`, whose recursion is written as a fold over the classes,
  is exactly their sum.  What the borrowers are given is then a sum of quotients with one denominator,
  which cancels; each quotient is rounded once, hence one unit for each class.

`RateStore_proofs`:

* `TypeCorrect`, `TotalsAreExact` (`[]TotalsExact`), `SelectionsEnd` (`[]SelectionEnds`), `OnlyHopelessRefused`
  (`[]RefusedOnlyHopeless`), `CreditIsBounded` (`[]CreditBounded`) and `SplitIsProportional`
  (`LeadSpec => []ProportionalSplit`).
* The invariant is `IInv`.  Its parts `GoodArt` and `GoodRrt` say what a `RateCollection` is: what it has heard from has a rate,
  the list has each face with a rate once, `next` a position of it, and `totalRate`
  the sum of the rates modulo the word.  The code changes the total by differences, so a total that has
  wrapped becomes exact again when enough is erased; that is why the sum is stated modulo the word.
* `SelectionsEnd` computes what k refills do to a balance in closed form: exactly k times the
  growth until the cap.  Whoever grows at all can pay for any packet after finitely many of them, because
  packets are smaller than the cap, and a face that grows is what the code tests for before it recurses.
* `CreditIsBounded` needs to know where a face is: behind `next` it was refilled in this pass and either
  taken or found too poor (`Low`), ahead of it, it may have been refilled once more (`High`).  A face
  that Interests come from is passed over whatever it has, and only the cap bounds it.
* `SplitIsProportional` is for two next hops that Interests do not come from (`TwoHops`) and rates whose sum
  does not wrap.  A refill adds to each balance in proportion to its growth, hence leaves the balance of the
  one times the growth of the other, less the same exchanged (`Offset`), alone.  The cap does
  not spoil that: a refill starts from less than a packet, so it is whole even if it ends above the cap
  (`RefillExact`).  Asking for a packet moves bits from the balance to `lead` (`Exchange`).  What was asked for plus the offset is thus what the
  offset was when the rates last changed (`SharesBalance`), which `CreditBounded` bounds.

`FoldTheorems` has the facts about data that these proofs cite.  The library's induction theorems take an
operator as a parameter, which the provers here cannot instantiate, so induction is stated about
sets instead: a set of numbers that has 0 and each successor has all (`NumberInduction`), a set of
subsets that has the empty set and each extension has all (`SetInduction`), both from the
smallest counterexample (`Smallest`).  A sum of the community modules is a choice of a recursive function;
`TableExists` and `FoldExists` show that there is one, as a table over the finite subsets, and
`TablesAgree` and `FoldsAgree` that it is the only one.  From these follow the sum of a set with an
element more or less, the order and linearity of sums, and remainders of sums.

`ConsumerQSCCP_proofs`:

* `TypeCorrect`, `NothingForgotten` (`[]Accounted`), `ChainUnbroken` (`[]SendArmed`),
  `RateNeverZero` (`[]NeverFails`) and `StopsOnlyServed` (`[]StopsServed`, assuming that
  `m_recvDataNum` starts from zero).
* The inductive invariant is the conjunction of the type invariant, the life cycle (an application
  that has not started is not active and has sent nothing), `Accounted`, `SendArmed`, the
  positivity of the rate while no Data carries zero, and `Counts`: the counter is the number of
  sequence numbers received.  `StopsServed` needs the last one, since the code compares a counter
  while the property is about a set: as many different numbers below `ReqNum` as `ReqNum` are all
  of them.  `NeverFails` needs that 0.8 old + 0.2 new, rounded down once, is at least one if both
  are.

Not proved, only model-checked: the liveness properties `WFQDrains`, `Completes`, `SilenceForgotten` and
`EntryEnds`, and the fairness of `ImplementsFairClass` (its safety part is `ClassKept`).  Liveness under
fairness is beyond the prover, as is `ENABLED`.  Every invariant and every action property that a
passing run checks is stated by a theorem.

## 5. What is not modelled

* **Link reliability, reassembly**: unchanged NFD.  Reliability is off unless asked for, and no
  scenario asks; packets fit one fragment.
* **RIB, management, other strategies, transports**: unchanged NFD that the scenarios do not
  exercise.  **Tables**: PIT lookup, FIB, content store and measurements are unchanged data
  structures; one PIT entry and its dead nonces are in `QSCCPForwarder`.
* **Producer**: stateless.  **Other consumers**: baselines for comparison.
  **ndnSIM helpers, scenarios, ns-3**: set-up, output, third party.  **Python**: bindings, build
  scripts and plots (section 1).
* `calSplitRateByRate`, whose result nobody reads, and `afterContentStoreHit`, which no scenario
  reaches.

Hazards without a property are listed in `PROJECT.json` with the reason.  The models do what the code does
there, but nothing in the code says what should hold: what is left of an overloaded link
(`queues.cpp:440`), re-marking under the number of another class (`queues.hpp:227`), rates measured
modulo the word (`queues.cpp:184`), nonces before the last of an out-record
(`forwarder.cpp:599`), one downstream that rejects the entry of all (`QSCCPStrategy.cpp:72`), a Nack while another
out-record has expired (`forwarder.cpp:469`).  Or they are beyond the models: a Data object that several
faces share (`ndn-app-link-service.cpp:57`), a flow erased while its packet is cached
(`queues.cpp:154`), the rate told to a face outside the ART (`QSCCPStrategy.cpp:474`) and unanswered
content store hits (`QSCCPStrategy.cpp:104`).

## 6. Where the code departs from what is said of it

* `link_retry`: `generic-link-service.cpp:75` says in a comment that when no packet can be
  scheduled, scheduling is tried again after 1 ms.  The call is commented out.  A packet of a
  rate-limited class that finds no tokens waits until another Interest is sent on that face;
  the bucket fills, but nobody asks.
* `forwarder_nack`: `pit-out-record.hpp:44` says that the Nack of an out-record means that the last
  outgoing Interest was refused, and `:66` that it is cleared in the outgoing Interest pipeline.
  `insertOrUpdateOutRecord` (`pit-entry.cpp:97`) renews a record and keeps the Nack; nobody calls
  `clearIncomingNack`.  A retransmission to an upstream that has refused before counts as refused
  until Data comes or the entry ends.
* `consumer_count`: `m_recvDataNum` (`ndn-consumer-qsccp.hpp:65`) is never initialized and is
  incremented and compared with `ReqNum`.  If it starts from 1, the application stops one Data
  before it has what it was to request.

## 7. What remains

1. `RateStore` and `ConsumerQSCCP` composed through the Data object they share, with the applications
   of one node: which target rate does each of them read?
2. A flow erased while one of its packets waits in the cache for WFQ: `LinkScheduler` over a class
   queue with erasure.
3. `LpReliability`, if a scenario turns it on.
