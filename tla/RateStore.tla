----------------------------- MODULE RateStore -----------------------------
(***************************************************************************)
(* RateStore of QSCCPStrategy, for one flow (a name prefix: the entries of  *)
(* different flows share nothing).  The ART holds the rates downstream      *)
(* faces ask for, the RRT the target rates upstream faces allow; both are   *)
(* RateCollections.  Interests are spread over the RRT's faces by deficits  *)
(* (selectNextFace), target rates are split over the ART's faces.           *)
(* Of the ART's items only the rates are read, so only those are kept.      *)
(*                                                                         *)
(* Balances are counted in units of 10e-6 * MTU_QUANTA bits, the largest   *)
(* growth that selectNextFace still takes for none, and rounded down.       *)
(***************************************************************************)
EXTENDS Integers, SequencesExt

CONSTANTS
    Down,         \* faces Interests of the flow come from
    NextHops,     \* the FIB's next hops of the flow, in order
    Local,        \* those of them that lead to a producer on this node
    Rate,         \* rates that packets carry
    DefaultRate,  \* 2000000: the rate assumed of an upstream that is silent
    Wrap,         \* 2^32: rates are uint32_t
    Dsz,          \* Data sizes that Interests announce
    Quantum,      \* MTU_QUANTA
    BalanceCap    \* 100000: a balance that is higher does not grow

Up == Range(NextHops)
Face == Down \cup Up
NoFace == 0

ASSUME FaceAssumption == NextHops \in Seq(Up) /\ NoFace \notin Face /\ Local \subseteq Up \ Down
ASSUME RateAssumption == /\ Wrap \in Nat \ {0}
                         /\ DefaultRate \in 1 .. Wrap - 1
                         /\ Rate \subseteq 0 .. Wrap - 1
ASSUME SelectAssumption == /\ Quantum \in Nat \ {0}
                           /\ BalanceCap \in Nat
                           /\ Dsz # {} /\ Dsz \subseteq 1 .. BalanceCap - 1

VARIABLES
    art, \* rates asked for by downstream faces
    rrt  \* rates recommended by upstream faces

vars == <<art, rrt>>

(* A RateCollection: rateValue of each of its faces, the faces whose        *)
(* recvCount is not zero, and totalRate.  The RRT's has also its items in   *)
(* order, their balances, and nextForwardFace, counted from 0.              *)
Faces(c) == DOMAIN c.rate

Rates(S) == UNION {[F -> 0 .. Wrap - 1] : F \in SUBSET S}

TypeOK ==
    /\ art \in [rate : Rates(Down), heard : SUBSET Down, total : 0 .. Wrap - 1]
    /\ rrt.rate \in Rates(Up) /\ rrt.heard \subseteq Up /\ rrt.total \in 0 .. Wrap - 1
    /\ rrt.items \in Seq(Up) /\ IsInjective(rrt.items) /\ Range(rrt.items) = Faces(rrt)
    /\ rrt.balance \in [Faces(rrt) -> Nat]
    /\ rrt.next \in 0 .. Len(rrt.items)

Init ==
    /\ art = [rate |-> << >>, heard |-> {}, total |-> 0]
    /\ rrt = [rate |-> << >>, heard |-> {}, total |-> 0,
              items |-> << >>, balance |-> << >>, next |-> 0]

-----------------------------------------------------------------------------
(* RateCollection: rates.                                                  *)

(* Fault: the rate that is replaced stays in the total.                     *)
NewTotalAdding(c, f, r) == (c.total + r) % Wrap

NewTotal(c, f, r) == (c.total - (IF f \in Faces(c) THEN c.rate[f] ELSE 0) + r) % Wrap

AddOrUpdateRate(c, f, r) ==
    [c EXCEPT !.rate = [g \in Faces(c) \cup {f} |-> IF g = f THEN r ELSE c.rate[g]],
              !.heard = @ \cup {f},
              !.total = NewTotal(c, f, r)]

(* Fault: the face is appended again.                                      *)
ItemsAppended(c, f) == Append(c.items, f)

ItemsAfter(c, f) == IF f \in Faces(c) THEN c.items ELSE Append(c.items, f)

(* addOrUpdateRate of the RRT: a new face goes to the end of items.         *)
Recommend(c, f, r) ==
    [AddOrUpdateRate(c, f, r) EXCEPT
        !.items = ItemsAfter(c, f),
        !.balance = [g \in Faces(c) \cup {f} |-> IF g \in Faces(c) THEN @[g] ELSE 0]]

Silent(c) == Faces(c) \ c.heard
TotalWithoutSilent(c) == c.total - SumFunction(Restrict(c.rate, Silent(c)))

(* doPeriodicCleaning(true).                                               *)
EraseSilent(c) ==
    [c EXCEPT !.rate = Restrict(@, c.heard),
              !.heard = {},
              !.total = TotalWithoutSilent(c) % Wrap]

(* Fault: a silent face keeps its rate.                                    *)
RateAfterSilenceKept(c, f) == c.rate[f]

RateAfterSilence(c, f) == DefaultRate

(* doPeriodicCleaning(false, DefaultRate): the update counts as a packet,   *)
(* but the loop visits the face again, which undoes the count.              *)
ResetSilent(c) ==
    LET rate == [f \in Faces(c) |-> IF f \in c.heard THEN c.rate[f] ELSE RateAfterSilence(c, f)]
    IN [c EXCEPT !.rate = rate,
                 !.heard = {},
                 !.total = (TotalWithoutSilent(c) + SumFunction(Restrict(rate, Silent(c)))) % Wrap]

(* getRatioByFace times an amount, rounded down to an integer.              *)
ShareOf(c, f, amount) ==
    IF c.total = 0 /\ Faces(c) # {} THEN amount \div Cardinality(Faces(c))
    ELSE IF f \notin Faces(c) THEN amount \div 100
    ELSE (c.rate[f] * amount) \div c.total

-----------------------------------------------------------------------------
(* RateCollection: selectNextFace.  Pass k is the k-th recursive call,      *)
(* which follows the k-th refill; pass 0 goes on where the last selection   *)
(* stopped.                                                                *)

(* item->ratio * MTU_QUANTA; 1 / items.size() is a division of integers.    *)
Growth(c, f) ==
    IF c.total < 1 THEN (1 \div Len(c.items)) * Quantum
                   ELSE (c.rate[f] * Quantum) \div c.total

CeilDiv(a, b) == (a + b - 1) \div b

(* Fault: balances grow without limit.                                      *)
RefilledUncapped(c, f, k) == c.balance[f] + k * Growth(c, f)

Refilled(c, f, k) ==
    IF c.balance[f] >= BalanceCap \/ Growth(c, f) = 0 THEN c.balance[f]
    ELSE c.balance[f] + Growth(c, f) * Min({k, CeilDiv(BalanceCap - c.balance[f], Growth(c, f))})

FirstPass(c) == IF c.next >= Len(c.items) THEN 1 ELSE 0
Passes(c) == FirstPass(c) .. FirstPass(c) + BalanceCap
Positions(c, k) == (IF k = 0 THEN c.next ELSE 0) .. Len(c.items) - 1
At(c, i) == c.items[i + 1]

(* Fault: the ingress is not excepted.                                     *)
CanTakeAny(c, i, k, size, ingress) == Refilled(c, At(c, i), k) > size

CanTake(c, i, k, size, ingress) == Refilled(c, At(c, i), k) > size /\ At(c, i) # ingress

(* Fault: a face that cannot grow is waited for.                            *)
ExceptedIngress(c, i, ingress) == At(c, i) = ingress

Excepted(c, i, ingress) == At(c, i) = ingress \/ Growth(c, At(c, i)) = 0

Takes(c, k, size, ingress) == \E i \in Positions(c, k) : CanTake(c, i, k, size, ingress)

(* Fault: exceptCount is compared with the faces visited.                  *)
GivesUpEarly(c, k, ingress) ==
    \A i \in Positions(c, k) : Excepted(c, i, ingress)

(* exceptCount as large as items: only a pass over all of them gives up.    *)
GivesUp(c, k, ingress) ==
    Cardinality({i \in Positions(c, k) : Excepted(c, i, ingress)}) = Len(c.items)

EndsAt(c, k, size, ingress) == Takes(c, k, size, ingress) \/ GivesUp(c, k, ingress)

(* Fault: a face is charged nothing.                                       *)
ChargedNothing(size) == 0

Charged(size) == size

(* The face selectNextFace returns, and the collection it leaves.           *)
SelectNextFace(c, size, ingress) ==
    LET k == Min({j \in Passes(c) : EndsAt(c, j, size, ingress)})
        full == [f \in Faces(c) |-> Refilled(c, f, k)]
    IN IF Takes(c, k, size, ingress)
         THEN LET i == Min({j \in Positions(c, k) : CanTake(c, j, k, size, ingress)})
              IN [face |-> At(c, i),
                  table |-> [c EXCEPT !.next = i, !.balance = [full EXCEPT ![At(c, i)] = @ - Charged(size)]]]
         ELSE [face |-> NoFace,
               table |-> [c EXCEPT !.next = Len(c.items), !.balance = full]]

(* The RRT starts from the next hops, at DefaultRate, unless Data got there *)
(* first.                                                                  *)
Prepared(c) ==
    IF c.items = << >> THEN FoldLeft(LAMBDA d, f : Recommend(d, f, DefaultRate), c, NextHops) ELSE c

(* selectFaceByRatio.                                                      *)
SelectFaceByRatio(ingress, size) ==
    LET c == Prepared(rrt) IN
    IF Len(c.items) = 0 THEN [face |-> NoFace, table |-> c]
    ELSE IF Len(c.items) = 1 THEN [face |-> IF At(c, 0) = ingress THEN NoFace ELSE At(c, 0), table |-> c]
    ELSE SelectNextFace(c, size, ingress)

-----------------------------------------------------------------------------
(* RateStore.                                                              *)

(* afterReceiveInterest.  Every Interest of a neighbour carries a           *)
(* downstream rate: GlobalSP::scheduleNext sets it.                         *)
AfterReceiveInterest(ingress, downstreamRate, size) ==
    /\ art' = AddOrUpdateRate(art, ingress, downstreamRate)
    /\ rrt' = SelectFaceByRatio(ingress, size).table

(* The rate the Interest is sent on with.                                  *)
NewDR(f) == ShareOf(rrt, f, art.total)

BeforeSatisfyInterest(ingress, targetRate) ==
    /\ rrt' = Recommend(rrt, ingress, targetRate)
    /\ UNCHANGED art

(* beforeSendData: the target rate a downstream face is told.  It leaves    *)
(* both tables as they are but for allocateRate, which nothing reads.       *)
TargetRate(f) ==
    IF Cardinality(Faces(art)) <= 1 THEN rrt.total ELSE ShareOf(art, f, rrt.total)

PeriodicCleaning ==
    /\ art' = EraseSilent(art)
    /\ rrt' = ResetSilent(rrt)

(* Data of a producer on this node comes by a local face: the strategy sends *)
(* it on and leaves the tables alone.                                      *)
Next ==
    \/ \E f \in Down, r \in Rate, s \in Dsz : AfterReceiveInterest(f, r, s)
    \/ \E f \in Up \ Local, r \in Rate : BeforeSatisfyInterest(f, r)
    \/ PeriodicCleaning

Spec == Init /\ [][Next]_vars

FairSpec == Spec /\ WF_vars(PeriodicCleaning)

-----------------------------------------------------------------------------
(* Whatever is added, replaced and cleaned, totalRate is the sum of the     *)
(* rates of the faces that are left, modulo 2^32: every target rate and     *)
(* every downstream rate is divided by it.                                 *)
TotalsExact == \A c \in {art, rrt} : c.total = SumFunction(c.rate) % Wrap

(* selectNextFace's recursion ends for every Interest that could arrive:    *)
(* a pass finds a face, or finds all of them excepted.                      *)
SelectionEnds ==
    \A f \in Down, s \in Dsz :
        LET c == Prepared(rrt)
        IN Len(c.items) > 1 => \E k \in Passes(c) : EndsAt(c, k, s, f)

(* An Interest is refused only if every face but its own recommends a rate  *)
(* too small to count, even if the selection starts between two faces.      *)
RefusedOnlyHopeless ==
    \A f \in Down, s \in Dsz :
        SelectFaceByRatio(f, s).face = NoFace =>
            LET c == SelectFaceByRatio(f, s).table
            IN \A u \in Faces(c) \ {f} : Growth(c, u) = 0

(* The deficits do not pile up: a face waits with at most one refill more   *)
(* than a packet needs; a face Interests come from, which a selection may   *)
(* pass over, with one more than the cap.  A refill is at most a quantum,   *)
(* unless the total has wrapped around and is less than the rates it sums.  *)
LargestRate == Max(Rate \cup {DefaultRate})
LargestGrowth == IF LargestRate * Cardinality(Up) < Wrap THEN Quantum ELSE LargestRate * Quantum

CreditBounded ==
    \A u \in Faces(rrt) :
        rrt.balance[u] < LargestGrowth + (IF u \in Down THEN BalanceCap ELSE Max(Dsz) + 1)

(* A face that falls silent is forgotten, however many packets it has sent:  *)
(* a downstream face leaves the ART, an upstream face goes back to the       *)
(* default rate, whatever it recommended.                                  *)
Asks(f) == \E r \in Rate, s \in Dsz : AfterReceiveInterest(f, r, s)
Answers(u) == \E r \in Rate : BeforeSatisfyInterest(u, r)

SilenceForgotten ==
    /\ \A f \in Down : []<><<Asks(f)>>_vars \/ <>[](f \notin Faces(art))
    /\ \A u \in Up : []<><<Answers(u)>>_vars \/ <>[](u \in Faces(rrt) => rrt.rate[u] = DefaultRate)
=============================================================================
