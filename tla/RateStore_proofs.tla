--------------------------- MODULE RateStore_proofs --------------------------
(***************************************************************************)
(* Theorems about RateStore and RateShare.  The inductive invariant says, of *)
(* both tables, that totals are sums (Kept); of the RRT, that its list holds *)
(* each face once (Listed), and that a balance is as high as the refills of  *)
(* a round leave it (Credit).  For the split of Interests by two hops, the   *)
(* lead of one is what the other one's balance is ahead (SharesBalance).    *)
(***************************************************************************)
EXTENDS RateShare, FoldTheorems

-----------------------------------------------------------------------------
(* Collections.                                                            *)

ART == [rate : Rates(Down), heard : SUBSET Down, total : 0 .. Wrap - 1]

RRT == [rate : Rates(Up), heard : SUBSET Up, total : 0 .. Wrap - 1,
        items : Seq(Up), balance : UNION {[F -> Nat] : F \in SUBSET Up}, next : Nat]

(* totalRate is what it says.                                              *)
Kept(c) ==
    /\ IsFiniteSet(Faces(c))
    /\ c.heard \subseteq Faces(c)
    /\ c.total = SumFunction(c.rate) % Wrap

(* items lists the faces that have a rate, each once.                       *)
Listed(c) ==
    /\ IsInjective(c.items)
    /\ Range(c.items) = Faces(c)
    /\ c.balance \in [Faces(c) -> Nat]
    /\ c.next \in 0 .. Len(c.items)

GoodArt(c) == c \in ART /\ Kept(c)
GoodRrt(c) == c \in RRT /\ Kept(c) /\ Listed(c)

LEMMA RatesType ==
    ASSUME NEW S, NEW g \in Rates(S)
    PROVE  g \in [DOMAIN g -> 0 .. Wrap - 1] /\ DOMAIN g \subseteq S
  BY DEF Rates

LEMMA RatesIn ==
    ASSUME NEW S, NEW F \in SUBSET S, NEW g \in [F -> 0 .. Wrap - 1]
    PROVE  g \in Rates(S)
  BY DEF Rates

(* The sum of rates when one is replaced, or added.                         *)
Replaces(g, f, r, h) ==
    /\ DOMAIN h = DOMAIN g \cup {f}
    /\ \A x \in DOMAIN h : h[x] = IF x = f THEN r ELSE g[x]

LEMMA SumReplaced ==
    ASSUME NEW F, IsFiniteSet(F), NEW g \in [F -> Int], NEW f, NEW r \in Int,
           NEW h, Replaces(g, f, r, h)
    PROVE  /\ SumFunction(g) \in Int /\ SumFunction(h) \in Int
           /\ SumFunction(h) = SumFunction(g) - (IF f \in F THEN g[f] ELSE 0) + r
  <1>0. DOMAIN h = F \cup {f} /\ \A x \in F \cup {f} : h[x] = IF x = f THEN r ELSE g[x]
    BY DEF Replaces
  <1> DEFINE E == F \ {f}
  <1>1. IsFiniteSet(E) /\ f \notin E /\ E \cup {f} = F \cup {f} /\ E \subseteq F
    BY FS_Subset
  <1>2. \A x \in E : g[x] \in Int /\ h[x] = g[x]
    BY <1>0
  <1>3. \A x \in E \cup {f} : h[x] \in Int
    BY <1>0
  <1>4. SumFunction(h) = SumFunctionOnSet(h, E \cup {f}) /\ SumFunction(g) = SumFunctionOnSet(g, F)
    BY <1>0, <1>1 DEF SumFunction
  <1> HIDE DEF E
  <1>5. SumFunctionOnSet(h, E \cup {f}) = r + SumFunctionOnSet(h, E)
    BY <1>0, <1>1, <1>3, SumAdd
  <1>6. SumFunctionOnSet(h, E) = SumFunctionOnSet(g, E) /\ SumFunctionOnSet(g, E) \in Int
    BY <1>1, <1>2, SumEqual, SumInt
  <1>7. SumFunctionOnSet(g, F) = (IF f \in F THEN g[f] ELSE 0) + SumFunctionOnSet(g, E)
    <2>1. CASE f \in F
      BY <2>1, SumRemove DEF E
    <2>2. CASE f \notin F
      <3>1. E = F
        BY <2>2 DEF E
      <3> QED
        BY <1>6, <2>2, <3>1
    <2> QED
      BY <2>1, <2>2
  <1> QED
    BY <1>4, <1>5, <1>6, <1>7

(* d is c with r as the rate of f.                                          *)
Adds(c, f, r, d) ==
    /\ d.rate = [g \in Faces(c) \cup {f} |-> IF g = f THEN r ELSE c.rate[g]]
    /\ d.heard = c.heard \cup {f}
    /\ d.total = NewTotal(c, f, r)

(* A total that is replaced by the difference stays the sum, modulo Wrap.    *)
LEMMA AddKeeps ==
    ASSUME NEW S, NEW c, c.rate \in Rates(S), c.total \in 0 .. Wrap - 1, Kept(c),
           NEW f \in S, NEW r \in 0 .. Wrap - 1,
           NEW d, Adds(c, f, r, d)
    PROVE  /\ d.rate \in Rates(S) /\ d.total \in 0 .. Wrap - 1 /\ Kept(d)
           /\ Faces(d) = Faces(c) \cup {f}
  <1> DEFINE F == Faces(c)
             old == IF f \in F THEN c.rate[f] ELSE 0
             sum == SumFunction(c.rate)
  <1>1. /\ c.rate \in [F -> 0 .. Wrap - 1] /\ F \subseteq S /\ IsFiniteSet(F) /\ c.heard \subseteq F
        /\ c.total = sum % Wrap
    BY RatesType DEF Faces, Kept
  <1>a. /\ d.rate = [g \in F \cup {f} |-> IF g = f THEN r ELSE c.rate[g]]
        /\ d.heard = c.heard \cup {f} /\ d.total = NewTotal(c, f, r)
    BY DEF Adds
  <1>2. Faces(d) = F \cup {f} /\ d.rate \in [F \cup {f} -> 0 .. Wrap - 1]
    BY <1>1, <1>a DEF Faces
  <1>3. d.rate \in Rates(S)
    BY <1>1, <1>2, RatesIn
  <1>4. IsFiniteSet(F \cup {f}) /\ d.heard \subseteq F \cup {f}
    BY <1>1, <1>a, FS_AddElement
  <1>5. old \in Int /\ r \in Int /\ Wrap \in Nat \ {0}
    BY <1>1, RateAssumption
  <1>6. sum \in Int /\ SumFunction(d.rate) = sum - old + r
    <2>1. c.rate \in [F -> Int]
      BY <1>1
    <2>2. DOMAIN d.rate = F \cup {f} /\ \A x \in F \cup {f} : d.rate[x] = IF x = f THEN r ELSE c.rate[x]
      BY <1>a
    <2> DEFINE g == c.rate
               h == d.rate
    <2> HIDE DEF F, g, h
    <2>3. SumFunction(g) \in Int /\ SumFunction(h) = SumFunction(g) - (IF f \in F THEN g[f] ELSE 0) + r
      <3>1. g \in [F -> Int] /\ IsFiniteSet(F)
        BY <1>1, <2>1 DEF g
      <3>2. Replaces(g, f, r, h)
        BY <1>1, <2>2 DEF g, h, F, Replaces
      <3>3. r \in Int
        BY <1>5
      <3>4. SumFunction(g) \in Int /\ SumFunction(h) = SumFunction(g) - (IF f \in F THEN g[f] ELSE 0) + r
        BY <3>1, <3>2, <3>3, SumReplaced
      <3> QED
        BY <3>4
    <2> QED
      BY <2>3 DEF g, h
  <1>7. d.total = (c.total - old + r) % Wrap
    BY <1>a DEF NewTotal
  <1> HIDE DEF old, sum
  <1>8. ((sum % Wrap) + (r - old)) % Wrap = (sum + (r - old)) % Wrap
    <2> DEFINE e == r - old
    <2>1. e \in Int
      BY <1>5
    <2> HIDE DEF e
    <2>2. ((sum % Wrap) + e) % Wrap = (sum + e) % Wrap
      BY <1>5, <1>6, <2>1, RemainderOfSum
    <2> QED
      BY <2>2 DEF e
  <1>9. d.total = SumFunction(d.rate) % Wrap /\ d.total \in 0 .. Wrap - 1
    <2>1. (sum % Wrap) \in Int /\ (sum + (r - old)) % Wrap \in 0 .. Wrap - 1
      BY <1>5, <1>6, QuotientOf
    <2>2. c.total - old + r = (sum % Wrap) + (r - old) /\ sum - old + r = sum + (r - old)
      BY <1>1, <1>5, <1>6, <2>1
    <2> QED
      BY <1>6, <1>7, <1>8, <2>1, <2>2
  <1> QED
    BY <1>2, <1>3, <1>4, <1>9 DEF Kept

-----------------------------------------------------------------------------
(* What each operation leaves.                                             *)

LEMMA InitGood == Init => GoodArt(art) /\ GoodRrt(rrt)
  <1> SUFFICES ASSUME Init PROVE GoodArt(art) /\ GoodRrt(rrt)
    OBVIOUS
  <1> DEFINE none == << >>
  <1>1. DOMAIN none = {} /\ none \in Seq(Up) /\ none \in [{} -> Nat] /\ Len(none) = 0
        /\ none \in [{} -> 0 .. Wrap - 1]
    OBVIOUS
  <1>2. SumFunction(none) = 0
    BY <1>1, SumEmpty DEF SumFunction
  <1>3. none \in Rates(Down) /\ none \in Rates(Up)
    BY <1>1, RatesIn
  <1>4. 0 \in 0 .. Wrap - 1 /\ 0 % Wrap = 0
    BY RateAssumption
  <1>5. IsInjective(none) /\ Range(none) = {}
    BY <1>1 DEF IsInjective, Range
  <1>6. none \in UNION {[F -> Nat] : F \in SUBSET Up}
    BY <1>1
  <1> HIDE DEF none
  <1>7. /\ art = [rate |-> none, heard |-> {}, total |-> 0]
        /\ rrt = [rate |-> none, heard |-> {}, total |-> 0,
                  items |-> none, balance |-> none, next |-> 0]
    BY DEF Init, none
  <1>8. art \in ART /\ rrt \in RRT
    BY <1>1, <1>3, <1>4, <1>6, <1>7 DEF ART, RRT
  <1>9. Kept(art) /\ Kept(rrt)
    BY <1>1, <1>2, <1>4, <1>7, FS_EmptySet DEF Kept, Faces
  <1>10. Listed(rrt)
    BY <1>1, <1>5, <1>7 DEF Listed, Faces
  <1> QED
    BY <1>8, <1>9, <1>10 DEF GoodArt, GoodRrt

LEMMA AddOrUpdateGood ==
    ASSUME NEW c, GoodArt(c), NEW f \in Down, NEW r \in 0 .. Wrap - 1
    PROVE  GoodArt(AddOrUpdateRate(c, f, r))
  <1> DEFINE d == AddOrUpdateRate(c, f, r)
  <1>1. c \in ART /\ Kept(c)
    BY DEF GoodArt
  <1>2. Adds(c, f, r, d) /\ d = [rate |-> d.rate, heard |-> d.heard, total |-> d.total]
    <2>1. PICK a, h, n : c = [rate |-> a, heard |-> h, total |-> n]
      BY <1>1 DEF ART
    <2> DEFINE R == [g \in Faces(c) \cup {f} |-> IF g = f THEN r ELSE c.rate[g]]
               H == c.heard \cup {f}
               N == NewTotal(c, f, r)
    <2>2. d = [c EXCEPT !.rate = R, !.heard = H, !.total = N]
      BY DEF AddOrUpdateRate
    <2> HIDE DEF R, H, N, d
    <2>3. d = [rate |-> R, heard |-> H, total |-> N]
      BY <2>1, <2>2
    <2> QED
      BY <2>3 DEF Adds, R, H, N
  <1>3. c.rate \in Rates(Down) /\ c.total \in 0 .. Wrap - 1 /\ c.heard \in SUBSET Down
    BY <1>1 DEF ART
  <1> HIDE DEF d
  <1>a. d.heard = c.heard \cup {f}
    BY <1>2 DEF Adds
  <1>4. d.rate \in Rates(Down) /\ d.total \in 0 .. Wrap - 1 /\ Kept(d)
    BY <1>1, <1>2, <1>3, AddKeeps
  <1> QED
    BY <1>2, <1>3, <1>4, <1>a DEF GoodArt, ART, d

(* A face that is new goes to the end of a list that had each face once.     *)
LEMMA ListGrows ==
    ASSUME NEW S, NEW s \in Seq(S), IsInjective(s), NEW f \in S, f \notin Range(s)
    PROVE  /\ Append(s, f) \in Seq(S) /\ Len(Append(s, f)) = Len(s) + 1
           /\ IsInjective(Append(s, f))
           /\ Range(Append(s, f)) = Range(s) \cup {f}
  <1> DEFINE t == Append(s, f)
  <1>1. /\ t \in Seq(S) /\ Len(t) = Len(s) + 1 /\ DOMAIN t = 1 .. Len(s) + 1
        /\ t[Len(s) + 1] = f /\ \A i \in 1 .. Len(s) : t[i] = s[i]
        /\ DOMAIN s = 1 .. Len(s) /\ Len(s) \in Nat
    OBVIOUS
  <1> HIDE DEF t
  <1>2. \A i \in 1 .. Len(s) : s[i] # f
    BY <1>1 DEF Range
  <1>3. IsInjective(t)
    BY <1>1, <1>2 DEF IsInjective
  <1>4. Range(t) = Range(s) \cup {f}
    BY <1>1 DEF Range
  <1> QED
    BY <1>1, <1>3, <1>4 DEF t

LEMMA RecommendGood ==
    ASSUME NEW c, GoodRrt(c), NEW f \in Up, NEW r \in 0 .. Wrap - 1,
           NEW d, d = Recommend(c, f, r)
    PROVE  /\ GoodRrt(d) /\ Faces(d) = Faces(c) \cup {f}
           /\ d.rate = [g \in Faces(c) \cup {f} |-> IF g = f THEN r ELSE c.rate[g]]
           /\ d.items = ItemsAfter(c, f) /\ d.next = c.next
           /\ d.balance = [g \in Faces(c) \cup {f} |-> IF g \in Faces(c) THEN c.balance[g] ELSE 0]
  <1>1. c \in RRT /\ Kept(c) /\ Listed(c)
    BY DEF GoodRrt
  <1>2. /\ d = [rate |-> d.rate, heard |-> d.heard, total |-> d.total,
                items |-> d.items, balance |-> d.balance, next |-> d.next]
        /\ Adds(c, f, r, d)
        /\ d.items = ItemsAfter(c, f)
        /\ d.balance = [g \in Faces(c) \cup {f} |-> IF g \in Faces(c) THEN c.balance[g] ELSE 0]
        /\ d.next = c.next
    <2>1. PICK a, h, n, l, b, x : c = [rate |-> a, heard |-> h, total |-> n,
                                       items |-> l, balance |-> b, next |-> x]
      BY <1>1 DEF RRT
    <2>2. d = [rate |-> [g \in Faces(c) \cup {f} |-> IF g = f THEN r ELSE c.rate[g]],
               heard |-> c.heard \cup {f}, total |-> NewTotal(c, f, r),
               items |-> ItemsAfter(c, f),
               balance |-> [g \in Faces(c) \cup {f} |-> IF g \in Faces(c) THEN c.balance[g] ELSE 0],
               next |-> c.next]
      BY <2>1 DEF Recommend, AddOrUpdateRate
    <2> QED
      BY <2>2 DEF Adds
  <1>3. /\ c.rate \in Rates(Up) /\ c.total \in 0 .. Wrap - 1 /\ c.heard \in SUBSET Up
        /\ c.items \in Seq(Up) /\ c.next \in Nat
    BY <1>1 DEF RRT
  <1>4. d.rate \in Rates(Up) /\ d.total \in 0 .. Wrap - 1 /\ Kept(d) /\ Faces(d) = Faces(c) \cup {f}
    BY <1>1, <1>2, <1>3, AddKeeps
  <1>5. /\ d.items \in Seq(Up) /\ IsInjective(d.items) /\ Range(d.items) = Faces(d)
        /\ Len(d.items) >= Len(c.items) /\ Len(d.items) \in Nat
    <2>1. CASE f \in Faces(c)
      BY <1>1, <1>2, <1>3, <1>4, <2>1 DEF ItemsAfter, Listed
    <2>2. CASE f \notin Faces(c)
      BY <1>1, <1>2, <1>3, <1>4, <2>2, ListGrows DEF ItemsAfter, Listed
    <2> QED
      BY <2>1, <2>2
  <1>6. d.balance \in [Faces(d) -> Nat]
    BY <1>1, <1>2, <1>4 DEF Listed
  <1>7. Faces(d) \in SUBSET Up
    BY <1>4, RatesType DEF Faces
  <1>8. d.next \in 0 .. Len(d.items)
    BY <1>1, <1>2, <1>5 DEF Listed
  <1>9. d \in RRT
    <2>1. d.heard \in SUBSET Up /\ d.next \in Nat
      BY <1>2, <1>3 DEF Adds
    <2>2. d.balance \in UNION {[F -> Nat] : F \in SUBSET Up}
      BY <1>6, <1>7
    <2>3. d.rate \in Rates(Up) /\ d.total \in 0 .. Wrap - 1 /\ d.items \in Seq(Up)
      BY <1>4, <1>5
    <2> QED
      BY <1>2, <2>1, <2>2, <2>3 DEF RRT
  <1> QED
    BY <1>2, <1>4, <1>5, <1>6, <1>8, <1>9 DEF GoodRrt, Listed, Adds

-----------------------------------------------------------------------------
(* The periodic cleaning.                                                  *)

LEMMA SumRestricted ==
    ASSUME NEW T, IsFiniteSet(T), NEW g, \A x \in T : g[x] \in Int
    PROVE  /\ SumFunction(Restrict(g, T)) = SumFunctionOnSet(g, T)
           /\ SumFunctionOnSet(g, T) \in Int
  <1> DEFINE h == Restrict(g, T)
  <1>1. DOMAIN h = T /\ \A x \in T : g[x] \in Int /\ h[x] = g[x]
    BY DEF Restrict
  <1> HIDE DEF h
  <1>2. SumFunctionOnSet(h, T) = SumFunctionOnSet(g, T) /\ SumFunctionOnSet(g, T) \in Int
    BY <1>1, SumEqual, SumInt
  <1>3. SumFunction(h) = SumFunctionOnSet(h, T)
    BY <1>1 DEF SumFunction
  <1> QED
    BY <1>2, <1>3 DEF h

(* The total without the faces that were silent.                            *)
LEMMA TotalOfHeard ==
    ASSUME NEW S, NEW c, c.rate \in Rates(S), Kept(c), NEW e \in Int
    PROVE  /\ (TotalWithoutSilent(c) + e) % Wrap
               = (SumFunctionOnSet(c.rate, c.heard) + e) % Wrap
           /\ TotalWithoutSilent(c) \in Int
           /\ SumFunctionOnSet(c.rate, c.heard) \in Int
  <1> DEFINE g == c.rate
             F == Faces(c)
             H == c.heard
             all == SumFunctionOnSet(g, F)
             sum == SumFunctionOnSet(g, H)
             off == SumFunctionOnSet(g, F \ H)
  <1>1. IsFiniteSet(F) /\ H \subseteq F /\ F = DOMAIN g /\ \A x \in F : g[x] \in Int
    BY RatesType DEF Faces, Kept
  <1>2. c.total = all % Wrap
    BY <1>1 DEF Kept, SumFunction
  <1> HIDE DEF g, F, H
  <1>3. all = sum + off
    BY <1>1, SumSplit
  <1>4. IsFiniteSet(F \ H) /\ IsFiniteSet(H)
    BY <1>1, FS_Subset
  <1>5. all \in Int /\ sum \in Int /\ off \in Int
    BY <1>1, <1>4, SumInt
  <1>6. SumFunction(Restrict(g, F \ H)) = off
    BY <1>1, <1>4, SumRestricted
  <1>7. TotalWithoutSilent(c) = c.total - off
    BY <1>6 DEF TotalWithoutSilent, Silent, g, F, H
  <1> HIDE DEF all, sum, off
  <1> DEFINE d == e - off
  <1>8. d \in Int /\ Wrap \in Nat \ {0} /\ (all % Wrap) \in Int
    BY <1>5, RateAssumption, QuotientOf
  <1>9. /\ TotalWithoutSilent(c) + e = (all % Wrap) + d
        /\ sum + e = all + d
        /\ TotalWithoutSilent(c) \in Int
    BY <1>2, <1>3, <1>5, <1>7, <1>8
  <1> HIDE DEF d
  <1>10. ((all % Wrap) + d) % Wrap = (all + d) % Wrap
    BY <1>5, <1>8, RemainderOfSum
  <1>11. (TotalWithoutSilent(c) + e) % Wrap = (sum + e) % Wrap
    BY <1>9, <1>10
  <1> QED
    BY <1>5, <1>9, <1>11 DEF sum, g, H

LEMMA EraseGood ==
    ASSUME NEW c, GoodArt(c)
    PROVE  GoodArt(EraseSilent(c))
  <1> DEFINE d == EraseSilent(c)
             R == Restrict(c.rate, c.heard)
             N == TotalWithoutSilent(c) % Wrap
  <1>1. c \in ART /\ Kept(c) /\ c.rate \in Rates(Down)
    BY DEF GoodArt, ART
  <1>2. d = [rate |-> R, heard |-> {}, total |-> N]
    <2>1. PICK a, h, n : c = [rate |-> a, heard |-> h, total |-> n]
      BY <1>1 DEF ART
    <2>2. d = [c EXCEPT !.rate = R, !.heard = {}, !.total = N]
      BY DEF EraseSilent
    <2> HIDE DEF R, N, d
    <2> QED
      BY <2>1, <2>2
  <1>3. /\ c.rate \in [Faces(c) -> 0 .. Wrap - 1] /\ c.heard \subseteq Faces(c)
        /\ Faces(c) \subseteq Down /\ IsFiniteSet(c.heard)
    BY <1>1, RatesType, FS_Subset DEF Faces, Kept
  <1>4. R \in [c.heard -> 0 .. Wrap - 1] /\ \A x \in c.heard : c.rate[x] \in Int
    BY <1>3 DEF Restrict
  <1>5. SumFunction(R) = SumFunctionOnSet(c.rate, c.heard)
    BY <1>3, <1>4, SumRestricted
  <1>6. N = SumFunctionOnSet(c.rate, c.heard) % Wrap /\ N \in 0 .. Wrap - 1
    <2>1. /\ (TotalWithoutSilent(c) + 0) % Wrap = (SumFunctionOnSet(c.rate, c.heard) + 0) % Wrap
          /\ TotalWithoutSilent(c) \in Int /\ SumFunctionOnSet(c.rate, c.heard) \in Int
      BY <1>1, TotalOfHeard
    <2>2. TotalWithoutSilent(c) % Wrap = SumFunctionOnSet(c.rate, c.heard) % Wrap
      BY <2>1
    <2> QED
      BY <2>1, <2>2, RateAssumption, QuotientOf
  <1> HIDE DEF R, N, d
  <1>7. d \in ART
    <2>1. R \in Rates(Down)
      BY <1>3, <1>4, RatesIn
    <2> QED
      BY <1>2, <1>6, <2>1 DEF ART
  <1>8. Kept(d)
    BY <1>2, <1>3, <1>4, <1>5, <1>6 DEF Kept, Faces
  <1> QED
    BY <1>7, <1>8 DEF GoodArt, d

(* A silent upstream face goes back to the default rate.                    *)
LEMMA ResetGood ==
    ASSUME NEW c, GoodRrt(c), NEW d, d = ResetSilent(c)
    PROVE  /\ GoodRrt(d) /\ d.items = c.items /\ d.balance = c.balance /\ d.next = c.next
           /\ Faces(d) = Faces(c)
           /\ \A f \in Faces(c) : d.rate[f] \in {c.rate[f], DefaultRate}
  <1> DEFINE F == Faces(c)
             H == c.heard
             R == [f \in F |-> IF f \in H THEN c.rate[f] ELSE RateAfterSilence(c, f)]
             N == (TotalWithoutSilent(c) + SumFunction(Restrict(R, Silent(c)))) % Wrap
  <1>1. c \in RRT /\ Kept(c) /\ Listed(c) /\ c.rate \in Rates(Up)
    BY DEF GoodRrt, RRT
  <1>2. d = [rate |-> R, heard |-> {}, total |-> N, items |-> c.items,
             balance |-> c.balance, next |-> c.next]
    <2>1. PICK a, h, n, l, b, x : c = [rate |-> a, heard |-> h, total |-> n,
                                       items |-> l, balance |-> b, next |-> x]
      BY <1>1 DEF RRT
    <2>2. d = [c EXCEPT !.rate = R, !.heard = {}, !.total = N]
      BY DEF ResetSilent
    <2> HIDE DEF R, N
    <2> QED
      BY <2>1, <2>2
  <1>3. c.rate \in [F -> 0 .. Wrap - 1] /\ H \subseteq F /\ F \subseteq Up /\ IsFiniteSet(F)
    BY <1>1, RatesType DEF Kept, Faces
  <1>4. DefaultRate \in 0 .. Wrap - 1
    BY RateAssumption
  <1>5. /\ R \in [F -> 0 .. Wrap - 1]
        /\ \A f \in F : R[f] \in Int /\ R[f] \in {c.rate[f], DefaultRate}
        /\ \A f \in H : R[f] = c.rate[f] /\ c.rate[f] \in Int
    BY <1>3, <1>4 DEF RateAfterSilence
  <1>6. Silent(c) = F \ H
    BY DEF Silent
  <1> HIDE DEF R, F, H
  <1>7. IsFiniteSet(F \ H) /\ IsFiniteSet(H)
    BY <1>3, FS_Subset
  <1> DEFINE off == SumFunctionOnSet(R, F \ H)
  <1>8. SumFunction(Restrict(R, Silent(c))) = off /\ off \in Int
    BY <1>5, <1>6, <1>7, SumRestricted
  <1>9. SumFunction(R) = SumFunctionOnSet(c.rate, H) + off
    <2>1. SumFunction(R) = SumFunctionOnSet(R, F)
      BY <1>5 DEF SumFunction
    <2>2. SumFunctionOnSet(R, F) = SumFunctionOnSet(R, H) + off
      BY <1>3, <1>5, SumSplit
    <2>3. SumFunctionOnSet(R, H) = SumFunctionOnSet(c.rate, H)
      BY <1>5, <1>7, SumEqual
    <2> QED
      BY <2>1, <2>2, <2>3
  <1> HIDE DEF off
  <1>10. N = SumFunction(R) % Wrap /\ N \in 0 .. Wrap - 1
    <2>1. /\ (TotalWithoutSilent(c) + off) % Wrap = (SumFunctionOnSet(c.rate, H) + off) % Wrap
          /\ TotalWithoutSilent(c) \in Int
      BY <1>1, <1>8, TotalOfHeard DEF H
    <2> DEFINE m == TotalWithoutSilent(c) + off
    <2>2. N = m % Wrap /\ m \in Int
      BY <1>8, <2>1
    <2>3. SumFunction(R) % Wrap = m % Wrap
      BY <1>9, <2>1
    <2> HIDE DEF m, N
    <2>4. m % Wrap \in 0 .. Wrap - 1
      BY <2>2, RateAssumption, QuotientOf
    <2> QED
      BY <2>2, <2>3, <2>4
  <1> HIDE DEF N
  <1>11. d \in RRT
    <2>1. R \in Rates(Up)
      BY <1>3, <1>5, RatesIn
    <2> QED
      BY <1>1, <1>2, <1>10, <2>1 DEF RRT
  <1>12. Faces(d) = F
    BY <1>2, <1>5 DEF Faces
  <1>13. Kept(d)
    BY <1>2, <1>3, <1>10, <1>12 DEF Kept
  <1>14. Listed(d)
    <2>1. d.items = c.items /\ d.balance = c.balance /\ d.next = c.next
      BY <1>2
    <2>2. Faces(d) = Faces(c)
      BY <1>12 DEF F
    <2> QED
      BY <1>1, <2>1, <2>2 DEF Listed
  <1> QED
    BY <1>2, <1>5, <1>11, <1>12, <1>13, <1>14 DEF GoodRrt, F

-----------------------------------------------------------------------------
(* The list that the first Interest fills.                                 *)

(* A list as the next hops make it: default rates and no balances.          *)
Fresh == {c \in RRT : GoodRrt(c) /\ c.next = 0 /\ \A u \in Faces(c) : c.rate[u] = DefaultRate /\ c.balance[u] = 0}

LEMMA RecommendFresh ==
    ASSUME NEW c \in Fresh, NEW f \in Up
    PROVE  Recommend(c, f, DefaultRate) \in Fresh
  <1> DEFINE d == Recommend(c, f, DefaultRate)
  <1>1. GoodRrt(c) /\ c.next = 0 /\ \A u \in Faces(c) : c.rate[u] = DefaultRate /\ c.balance[u] = 0
    BY DEF Fresh
  <1>2. DefaultRate \in 0 .. Wrap - 1
    BY RateAssumption
  <1> HIDE DEF d
  <1>3. /\ GoodRrt(d) /\ Faces(d) = Faces(c) \cup {f}
        /\ d.rate = [g \in Faces(c) \cup {f} |-> IF g = f THEN DefaultRate ELSE c.rate[g]]
        /\ d.next = c.next
        /\ d.balance = [g \in Faces(c) \cup {f} |-> IF g \in Faces(c) THEN c.balance[g] ELSE 0]
    BY <1>1, <1>2, RecommendGood DEF d
  <1>4. \A u \in Faces(d) : d.rate[u] = DefaultRate /\ d.balance[u] = 0
    BY <1>1, <1>3
  <1>5. d \in RRT
    BY <1>3 DEF GoodRrt
  <1> QED
    BY <1>1, <1>3, <1>4, <1>5 DEF Fresh, d

(* The fold of Prepared, as a table of the positions that are done.         *)
FoldIs(c, t) ==
    t = [s \in SUBSET DOMAIN NextHops |->
            IF s = {} THEN c ELSE Recommend(t[s \ {Max(s)}], NextHops[Max(s)], DefaultRate)]

LEMMA PreparedIsFold ==
    ASSUME NEW c, c.items = << >>
    PROVE  Prepared(c) = (CHOOSE t : FoldIs(c, t))[DOMAIN NextHops]
  BY DEF Prepared, FoldLeft, MapThenFoldSet, FoldIs

LEMMA PreparedFresh ==
    ASSUME NEW c \in Fresh, c.items = << >>
    PROVE  Prepared(c) \in Fresh
  <1> DEFINE S == DOMAIN NextHops
             pick == [T \in SUBSET S |-> Max(T)]
             o == [x \in Fresh \X S |-> Recommend(x[1], NextHops[x[2]], DefaultRate)]
             chosen == CHOOSE t : FoldIs(c, t)
  <1>1. S = 1 .. Len(NextHops) /\ Len(NextHops) \in Nat /\ \A i \in S : NextHops[i] \in Up
    BY FaceAssumption DEF Up, Range
  <1>2. IsFiniteSet(S)
    BY <1>1, FS_Interval
  <1>3. PicksFrom(pick, S)
    <2> SUFFICES ASSUME NEW T \in SUBSET S, T # {} PROVE Max(T) \in T
      BY DEF PicksFrom
    <2>1. T \subseteq Nat /\ \A i \in T : i <= Len(NextHops)
      BY <1>1
    <2> QED
      BY <1>1, <2>1, MaxIsGreatest
  <1>4. o \in [Fresh \X S -> Fresh]
    BY <1>1, RecommendFresh
  <1>5. \A T \in SUBSET S : pick[T] = Max(T)
    OBVIOUS
  <1>6. \A d \in Fresh, i \in S : o[<<d, i>>] = Recommend(d, NextHops[i], DefaultRate)
    OBVIOUS
  <1>s. S = DOMAIN NextHops
    OBVIOUS
  <1> HIDE DEF S, pick, o
  <1>7. PICK u \in [SUBSET S -> Fresh] : IsFold(o, c, pick, S, u)
    BY <1>2, <1>3, <1>4, FoldExists
  <1>8. ASSUME NEW T \in SUBSET S
        PROVE  u[T] = IF T = {} THEN c ELSE Recommend(u[T \ {Max(T)}], NextHops[Max(T)], DefaultRate)
    <2>1. u[T] = FoldRow(o, c, pick, u, T)
      BY <1>7 DEF IsFold
    <2>2. CASE T = {}
      BY <2>1, <2>2 DEF FoldRow
    <2>3. CASE T # {}
      <3>1. Max(T) \in S /\ u[T \ {Max(T)}] \in Fresh /\ pick[T] = Max(T)
        BY <1>3, <1>5, <1>7, <2>3 DEF PicksFrom
      <3>2. u[T] = o[<<u[T \ {Max(T)}], Max(T)>>]
        BY <2>1, <2>3, <3>1 DEF FoldRow
      <3> QED
        BY <1>6, <2>3, <3>1, <3>2
    <2> QED
      BY <2>2, <2>3
  <1>9. FoldIs(c, u)
    <2>1. u = [T \in SUBSET S |-> u[T]]
      BY <1>7
    <2> QED
      BY <1>s, <1>8, <2>1 DEF FoldIs
  <1>10. FoldIs(c, chosen)
    BY <1>9
  <1> HIDE DEF chosen
  <1>11. ASSUME NEW T \in SUBSET S
         PROVE  chosen[T] = IF T = {} THEN c ELSE Recommend(chosen[T \ {Max(T)}], NextHops[Max(T)], DefaultRate)
    BY <1>s, <1>10 DEF FoldIs
  <1>12. \A T \in SUBSET S : chosen[T] = u[T]
    <2> DEFINE Bad == {T \in SUBSET S : chosen[T] # u[T]}
    <2> SUFFICES ASSUME Bad # {} PROVE FALSE
      OBVIOUS
    <2>1. Bad \in SUBSET SUBSET S
      OBVIOUS
    <2> HIDE DEF Bad
    <2>2. PICK T \in Bad : \A U \in Bad : ~(U \subseteq T /\ U # T)
      BY <1>2, <2>1, Smallest
    <2>3. T \in SUBSET S /\ chosen[T] # u[T]
      BY DEF Bad
    <2>4. T # {}
      BY <1>8, <1>11, <2>3
    <2> DEFINE V == T \ {Max(T)}
    <2>5. V \subseteq T /\ V # T /\ V \in SUBSET S
      BY <1>3, <1>5, <2>3, <2>4 DEF PicksFrom
    <2>6. chosen[V] = u[V]
      BY <2>2, <2>5 DEF Bad
    <2> QED
      BY <1>8, <1>11, <2>3, <2>4, <2>6
  <1>13. Prepared(c) = chosen[S]
    BY <1>s, PreparedIsFold DEF chosen
  <1> QED
    BY <1>7, <1>12, <1>13

(* Preparing leaves a list that has faces as it is.                         *)
LEMMA PreparedGood ==
    ASSUME NEW c, GoodRrt(c)
    PROVE  GoodRrt(Prepared(c)) /\ (Prepared(c) = c \/ Prepared(c) \in Fresh)
  <1>1. CASE c.items = << >>
    <2>1. Faces(c) = {} /\ c.next = 0 /\ c \in RRT
      BY <1>1 DEF GoodRrt, Listed, Range, RRT
    <2>2. c \in Fresh
      BY <2>1 DEF Fresh
    <2> QED
      BY <1>1, <2>2, PreparedFresh DEF Fresh
  <1>2. CASE c.items # << >>
    BY <1>2 DEF Prepared
  <1> QED
    BY <1>1, <1>2

-----------------------------------------------------------------------------
(* Balances.                                                               *)

LEMMA CeilDivIs ==
    ASSUME NEW a \in Nat \ {0}, NEW b \in Nat \ {0}
    PROVE  /\ CeilDiv(a, b) \in 1 .. a
           /\ b * CeilDiv(a, b) >= a /\ b * CeilDiv(a, b) < a + b
  <1> DEFINE x == a + b - 1
             q == x \div b
  <1>1. x \in Nat /\ q \in Int /\ b * q <= x /\ x < b * q + b
    <2>1. x \in Nat
      OBVIOUS
    <2> HIDE DEF x
    <2> QED
      BY <2>1, QuotientOf
  <1>2. CeilDiv(a, b) = q /\ x = a + b - 1
    BY DEF CeilDiv
  <1> HIDE DEF q, x
  <1>3. b * q >= a /\ b * q < a + b
    BY <1>1, <1>2
  <1>4. q >= 1
    <2> SUFFICES ASSUME q <= 0 PROVE FALSE
      BY <1>1
    <2>1. b * q <= b * 0 /\ b * 0 = 0
      BY <1>1, ProductsOrdered
    <2> QED
      BY <1>1, <1>3, <2>1
  <1>5. q <= a
    <2> SUFFICES ASSUME a + 1 <= q PROVE FALSE
      BY <1>1
    <2>1. b * (a + 1) <= b * q /\ b * (a + 1) = b * a + b * 1 /\ b * 1 = b /\ b * a \in Int /\ b * a = a * b
      BY <1>1, ProductsOrdered, Distributes
    <2>2. a * 1 <= a * b /\ a * 1 = a
      BY ProductsOrdered
    <2> QED
      BY <1>1, <1>3, <2>1, <2>2
  <1> QED
    BY <1>1, <1>2, <1>3, <1>4, <1>5

(* What refill k makes of balance b at growth g.                            *)
RefillOf(b, g, k) ==
    IF b >= BalanceCap \/ g = 0 THEN b
    ELSE b + g * Min({k, CeilDiv(BalanceCap - b, g)})

LEMMA RefillIs ==
    ASSUME NEW b \in Nat, NEW g \in Nat, NEW k \in Nat
    PROVE  /\ RefillOf(b, g, k) \in Nat /\ RefillOf(b, g, 0) = b
           /\ RefillOf(b, g, k) < BalanceCap + g \/ RefillOf(b, g, k) = b
           /\ RefillOf(b, g, k + 1) <= RefillOf(b, g, k) + g
           /\ g > 0 /\ k >= BalanceCap => RefillOf(b, g, k) >= BalanceCap
  <1>0. BalanceCap \in Nat
    BY SelectAssumption
  <1>1. CASE b >= BalanceCap \/ g = 0
    BY <1>0, <1>1 DEF RefillOf
  <1>2. CASE ~(b >= BalanceCap \/ g = 0)
    <2> DEFINE q == CeilDiv(BalanceCap - b, g)
               m(j) == Min({j, q})
    <2>1. q \in 1 .. BalanceCap - b /\ g * q >= BalanceCap - b /\ g * q < BalanceCap - b + g
      <3>1. BalanceCap - b \in Nat \ {0} /\ g \in Nat \ {0}
        BY <1>0, <1>2
      <3> QED
        BY <3>1, CeilDivIs
    <2>2. \A j \in Nat : RefillOf(b, g, j) = b + g * m(j)
      BY <1>2 DEF RefillOf
    <2> HIDE DEF q
    <2>3. q \in Nat
      BY <1>0, <2>1
    <2>4. \A j \in Nat : m(j) = IF j <= q THEN j ELSE q
      <3> SUFFICES ASSUME NEW j \in Nat PROVE m(j) = IF j <= q THEN j ELSE q
        OBVIOUS
      <3>1. {j, q} \subseteq Nat /\ {j, q} # {}
        BY <2>3
      <3>2. m(j) \in {j, q} /\ m(j) <= j /\ m(j) <= q
        <4> DEFINE S == {j, q}
        <4>1. S \subseteq Nat /\ S # {} /\ j \in S /\ q \in S
          BY <3>1
        <4> HIDE DEF S
        <4>2. Min(S) \in S /\ \A y \in S : Min(S) <= y
          BY <4>1, MinIsLeast
        <4> QED
          BY <4>1, <4>2 DEF S
      <3> HIDE DEF m
      <3> QED
        BY <2>3, <3>2
    <2> HIDE DEF m
    <2>5. m(k) \in Nat /\ m(k) <= q /\ m(k + 1) \in Nat /\ m(k + 1) <= m(k) + 1 /\ m(0) = 0
          /\ (k >= BalanceCap => m(k) = q)
      BY <1>0, <2>1, <2>3, <2>4
    <2>6. g * m(k) <= g * q /\ g * m(k + 1) <= g * (m(k) + 1)
      BY <2>3, <2>5, ProductsOrdered
    <2>7. /\ g * m(k) \in Int /\ g * q \in Int /\ g * (m(k) + 1) = g * m(k) + g * 1 /\ g * 1 = g /\ g * 0 = 0
          /\ g * m(k + 1) \in Int
      <3>1. m(k) \in Int /\ m(k + 1) \in Int /\ q \in Int /\ g \in Int
        BY <2>3, <2>5
      <3>2. g * m(k) \in Int /\ g * q \in Int /\ g * m(k + 1) \in Int
        BY <3>1
      <3>3. g * (m(k) + 1) = g * m(k) + g * 1
        BY <3>1, Distributes
      <3> QED
        BY <3>1, <3>2, <3>3
    <2>8. g * 0 <= g * m(k)
      BY <2>5, ProductsOrdered
    <2>9. RefillOf(b, g, k) = b + g * m(k) /\ RefillOf(b, g, k + 1) = b + g * m(k + 1) /\ RefillOf(b, g, 0) = b + g * m(0)
      BY <2>2
    <2>10. b + g * m(k) \in Nat /\ b + g * m(0) = b
      BY <2>5, <2>7, <2>8
    <2>11. b + g * m(k) < BalanceCap + g /\ b + g * m(k + 1) <= b + g * m(k) + g
      BY <1>0, <2>1, <2>6, <2>7
    <2>12. k >= BalanceCap => b + g * m(k) >= BalanceCap
      BY <1>0, <2>1, <2>5, <2>7
    <2> QED
      BY <2>9, <2>10, <2>11, <2>12
  <1> QED
    BY <1>1, <1>2

-----------------------------------------------------------------------------
(* The selection.                                                          *)

(* A list of faces that selectNextFace is called with.                      *)
LEMMA ListFacts ==
    ASSUME NEW c, GoodRrt(c)
    PROVE  /\ Len(c.items) \in Nat /\ c.items \in Seq(Up) /\ c.next \in 0 .. Len(c.items)
           /\ c.rate \in [Faces(c) -> 0 .. Wrap - 1] /\ c.total \in 0 .. Wrap - 1
           /\ c.balance \in [Faces(c) -> Nat] /\ Faces(c) \subseteq Up /\ IsFiniteSet(Faces(c))
           /\ \A i \in 0 .. Len(c.items) - 1 : At(c, i) \in Faces(c)
           /\ \A u \in Faces(c) : \E i \in 0 .. Len(c.items) - 1 : At(c, i) = u
           /\ \A i, j \in 0 .. Len(c.items) - 1 : At(c, i) = At(c, j) => i = j
  <1> DEFINE n == Len(c.items)
  <1>1. c \in RRT /\ Kept(c) /\ Listed(c)
    BY DEF GoodRrt
  <1>2. c.items \in Seq(Up) /\ n \in Nat /\ DOMAIN c.items = 1 .. n /\ c.rate \in Rates(Up) /\ c.total \in 0 .. Wrap - 1
    BY <1>1 DEF RRT
  <1>3. c.rate \in [Faces(c) -> 0 .. Wrap - 1] /\ Faces(c) \subseteq Up
    BY <1>2, RatesType DEF Faces
  <1>4. IsInjective(c.items) /\ Range(c.items) = Faces(c) /\ c.balance \in [Faces(c) -> Nat] /\ c.next \in 0 .. n
    BY <1>1 DEF Listed
  <1>5. \A i \in 1 .. n : c.items[i] \in Faces(c)
    BY <1>2, <1>4 DEF Range
  <1>6. \A u \in Faces(c) : \E i \in 1 .. n : c.items[i] = u
    BY <1>2, <1>4 DEF Range
  <1>7. \A i, j \in 1 .. n : c.items[i] = c.items[j] => i = j
    BY <1>2, <1>4 DEF IsInjective
  <1> HIDE DEF n
  <1>8. \A i \in 0 .. n - 1 : i + 1 \in 1 .. n
    BY <1>2
  <1>9. \A i \in 1 .. n : i - 1 \in 0 .. n - 1 /\ (i - 1) + 1 = i
    BY <1>2
  <1>10. \A i \in 0 .. n - 1 : At(c, i) \in Faces(c)
    BY <1>5, <1>8 DEF At
  <1>11. \A u \in Faces(c) : \E i \in 0 .. n - 1 : At(c, i) = u
    BY <1>6, <1>9 DEF At
  <1>12. ASSUME NEW i \in 0 .. n - 1, NEW j \in 0 .. n - 1, At(c, i) = At(c, j) PROVE i = j
    <2>1. i + 1 = j + 1
      BY <1>7, <1>8, <1>12 DEF At
    <2> QED
      BY <2>1, <1>2
  <1> QED
    BY <1>1, <1>2, <1>3, <1>4, <1>10, <1>11, <1>12 DEF Kept, n

LEMMA GrowthIs ==
    ASSUME NEW c, GoodRrt(c), NEW u \in Faces(c)
    PROVE  Growth(c, u) \in Nat
  <1>1. /\ c.rate[u] \in Nat /\ c.total \in Nat /\ Quantum \in Nat /\ Len(c.items) \in Nat
        /\ Len(c.items) # 0
    <2>1. PICK i \in 0 .. Len(c.items) - 1 : At(c, i) = u
      BY ListFacts
    <2>2. Len(c.items) \in Nat /\ Len(c.items) - 1 >= 0
      BY <2>1, ListFacts
    <2>3. c.rate[u] \in 0 .. Wrap - 1 /\ c.total \in 0 .. Wrap - 1
      BY ListFacts
    <2> QED
      BY <2>2, <2>3, SelectAssumption
  <1>2. CASE c.total < 1
    <2> DEFINE n == Len(c.items)
               q == 1 \div n
    <2>1. q \in Nat
      <3>1. n \in Nat \ {0} /\ 1 <= n * 1
        BY <1>1
      <3> HIDE DEF n
      <3>2. 1 \div n \in Nat
        BY <3>1, QuotientAtMost
      <3> QED
        BY <3>2
    <2> HIDE DEF q
    <2>2. q * Quantum \in Nat
      BY <1>1, <2>1
    <2> QED
      BY <1>2, <2>2 DEF Growth, q
  <1>3. CASE ~(c.total < 1)
    <2> DEFINE x == c.rate[u] * Quantum
    <2>1. x \in Nat /\ c.total \in Nat \ {0}
      BY <1>1, <1>3
    <2> HIDE DEF x
    <2>2. x <= c.total * x
      <3>1. x * 1 <= x * c.total
        BY <2>1, ProductsOrdered
      <3> QED
        BY <2>1, <3>1, Distributes
    <2>3. x \div c.total \in Nat
      BY <2>1, <2>2, QuotientAtMost
    <2> QED
      BY <1>3, <2>3 DEF Growth, x
  <1> QED
    BY <1>2, <1>3

LEMMA RefilledIs ==
    ASSUME NEW c, GoodRrt(c), NEW u \in Faces(c), NEW k \in Nat
    PROVE  /\ Refilled(c, u, k) \in Nat /\ Refilled(c, u, 0) = c.balance[u]
           /\ Refilled(c, u, k) < BalanceCap + Growth(c, u) \/ Refilled(c, u, k) = c.balance[u]
           /\ Refilled(c, u, k + 1) <= Refilled(c, u, k) + Growth(c, u)
           /\ Growth(c, u) > 0 /\ k >= BalanceCap => Refilled(c, u, k) >= BalanceCap
  <1>1. Growth(c, u) \in Nat /\ c.balance[u] \in Nat
    BY GrowthIs, ListFacts
  <1> DEFINE b == c.balance[u]
             g == Growth(c, u)
  <1>2. \A j : Refilled(c, u, j) = RefillOf(b, g, j)
    BY DEF Refilled, RefillOf
  <1>3. b \in Nat /\ g \in Nat
    BY <1>1
  <1>4. ASSUME NEW h, h = g
        PROVE  /\ RefillOf(b, h, k) \in Nat /\ RefillOf(b, h, 0) = b
               /\ RefillOf(b, h, k) < BalanceCap + h \/ RefillOf(b, h, k) = b
               /\ RefillOf(b, h, k + 1) <= RefillOf(b, h, k) + h
               /\ h > 0 /\ k >= BalanceCap => RefillOf(b, h, k) >= BalanceCap
    <2>1. h \in Nat
      BY <1>3, <1>4
    <2> HIDE DEF b, g
    <2> QED
      BY <1>3, <2>1, RefillIs
  <1> QED
    BY <1>2, <1>4

(* A pass as long after the first as the cap is high finds a face, or finds  *)
(* none that will ever grow.                                               *)
LEMMA Ends ==
    ASSUME NEW c, GoodRrt(c), Len(c.items) > 0, NEW size \in Dsz, NEW ingress
    PROVE  \E k \in Passes(c) : EndsAt(c, k, size, ingress)
  <1> DEFINE k == FirstPass(c) + BalanceCap
             n == Len(c.items)
  <1>1. n \in Nat /\ n > 0 /\ BalanceCap \in Nat /\ size \in 1 .. BalanceCap - 1
    BY ListFacts, SelectAssumption
  <1>2. k \in Passes(c) /\ k \in Nat /\ k >= BalanceCap /\ k # 0
    BY <1>1 DEF Passes, FirstPass
  <1>3. Positions(c, k) = 0 .. n - 1
    BY <1>2 DEF Positions
  <1> HIDE DEF k
  <1>4. SUFFICES ASSUME ~Takes(c, k, size, ingress) PROVE GivesUp(c, k, ingress)
    BY <1>2 DEF EndsAt
  <1>5. \A i \in 0 .. n - 1 : Excepted(c, i, ingress)
    <2> SUFFICES ASSUME NEW i \in 0 .. n - 1, ~Excepted(c, i, ingress) PROVE FALSE
      OBVIOUS
    <2>1. At(c, i) \in Faces(c)
      BY ListFacts
    <2>2. At(c, i) # ingress /\ Growth(c, At(c, i)) \in Nat /\ Growth(c, At(c, i)) # 0
      BY <2>1, GrowthIs DEF Excepted
    <2>3. Refilled(c, At(c, i), k) >= BalanceCap /\ Refilled(c, At(c, i), k) \in Nat
      BY <1>2, <2>1, <2>2, RefilledIs
    <2>4. CanTake(c, i, k, size, ingress)
      BY <1>1, <2>2, <2>3 DEF CanTake
    <2> QED
      BY <1>3, <1>4, <2>4 DEF Takes
  <1>6. {i \in Positions(c, k) : Excepted(c, i, ingress)} = 0 .. n - 1
    BY <1>3, <1>5
  <1>7. Cardinality(0 .. n - 1) = n
    BY <1>1, FS_Interval
  <1> QED
    BY <1>6, <1>7 DEF GivesUp
(* The pass k that ends a selection, and what it leaves: the face at i is   *)
(* charged, or none.                                                       *)
Ending(c, size, ingress, k) ==
    /\ k \in Passes(c) /\ EndsAt(c, k, size, ingress)
    /\ \A j \in Passes(c) : j < k => ~EndsAt(c, j, size, ingress)

TakesAt(c, size, ingress, k, i) ==
    /\ i \in Positions(c, k) /\ CanTake(c, i, k, size, ingress)
    /\ \A j \in Positions(c, k) : j < i => ~CanTake(c, j, k, size, ingress)

Left(c, d, x, b) ==
    /\ d.rate = c.rate /\ d.heard = c.heard /\ d.total = c.total /\ d.items = c.items
    /\ d.balance = b /\ d.next = x
    /\ d = [rate |-> d.rate, heard |-> d.heard, total |-> d.total,
            items |-> d.items, balance |-> d.balance, next |-> d.next]

FullAt(c, k) == [f \in Faces(c) |-> Refilled(c, f, k)]

LEMMA LeftIs ==
    ASSUME NEW c \in RRT, NEW x, NEW b, NEW d, d = [c EXCEPT !.next = x, !.balance = b]
    PROVE  Left(c, d, x, b)
  <1>1. PICK a, h, n, l, e, y : c = [rate |-> a, heard |-> h, total |-> n,
                                     items |-> l, balance |-> e, next |-> y]
    BY DEF RRT
  <1>2. d = [rate |-> a, heard |-> h, total |-> n, items |-> l, balance |-> b, next |-> x]
    BY <1>1
  <1> QED
    BY <1>1, <1>2 DEF Left

LEMMA Outcome ==
    ASSUME NEW c, GoodRrt(c), Len(c.items) > 0, NEW size \in Dsz, NEW ingress
    PROVE  LET r == SelectNextFace(c, size, ingress)
           IN \E k : /\ Ending(c, size, ingress, k)
                     /\ \/ /\ Takes(c, k, size, ingress)
                           /\ \E i : /\ TakesAt(c, size, ingress, k, i)
                                     /\ r.face = At(c, i)
                                     /\ Left(c, r.table, i, [FullAt(c, k) EXCEPT ![At(c, i)] = @ - size])
                        \/ /\ ~Takes(c, k, size, ingress) /\ GivesUp(c, k, ingress)
                           /\ r.face = NoFace
                           /\ Left(c, r.table, Len(c.items), FullAt(c, k))
  <1> DEFINE r == SelectNextFace(c, size, ingress)
             K == {j \in Passes(c) : EndsAt(c, j, size, ingress)}
             k == Min(K)
             P == {j \in Positions(c, k) : CanTake(c, j, k, size, ingress)}
             i == Min(P)
             full == FullAt(c, k)
  <1>1. c \in RRT /\ Len(c.items) \in Nat /\ c.next \in Nat /\ BalanceCap \in Nat
    BY ListFacts, SelectAssumption DEF GoodRrt
  <1>2. Passes(c) \subseteq Nat
    BY <1>1 DEF Passes, FirstPass
  <1>3. K # {} /\ K \subseteq Nat
    BY <1>2, Ends
  <1>4. Ending(c, size, ingress, k)
    <2> HIDE DEF K
    <2>1. k \in K /\ \A j \in Nat : j < k => j \notin K
      BY <1>3, BelowMin
    <2> HIDE DEF k
    <2>2. \A j \in Passes(c) : j < k => ~EndsAt(c, j, size, ingress)
      BY <1>2, <2>1 DEF K
    <2> QED
      BY <2>1, <2>2 DEF Ending, K
  <1> HIDE DEF k
  <1>5. P \subseteq Nat
    BY <1>1 DEF Positions
  <1>6. r = IF Takes(c, k, size, ingress)
              THEN [face |-> At(c, i),
                    table |-> [c EXCEPT !.next = i, !.balance = [full EXCEPT ![At(c, i)] = @ - size]]]
              ELSE [face |-> NoFace,
                    table |-> [c EXCEPT !.next = Len(c.items), !.balance = full]]
    BY DEF SelectNextFace, Charged, k, FullAt
  <1>7. CASE Takes(c, k, size, ingress)
    <2>1. P # {}
      BY <1>7 DEF Takes
    <2>2. TakesAt(c, size, ingress, k, i)
      <3> HIDE DEF P
      <3>1. i \in P /\ \A j \in Nat : j < i => j \notin P
        BY <1>5, <2>1, BelowMin
      <3>2. i \in Positions(c, k) /\ CanTake(c, i, k, size, ingress)
        BY <3>1 DEF P
      <3>3. Positions(c, k) \subseteq Nat
        BY <1>1 DEF Positions
      <3> HIDE DEF i
      <3>4. \A j \in Positions(c, k) : j < i => ~CanTake(c, j, k, size, ingress)
        BY <3>1, <3>3 DEF P
      <3> QED
        BY <3>2, <3>4 DEF TakesAt
    <2> HIDE DEF i, full, r
    <2> DEFINE b == [full EXCEPT ![At(c, i)] = @ - size]
               d == [c EXCEPT !.next = i, !.balance = b]
    <2>3. r.face = At(c, i) /\ r.table = d
      BY <1>6, <1>7
    <2>4. d = [c EXCEPT !.next = i, !.balance = b]
      OBVIOUS
    <2> HIDE DEF b, d
    <2>5. Left(c, d, i, b)
      BY <1>1, <2>4, LeftIs
    <2>6. Left(c, r.table, i, [full EXCEPT ![At(c, i)] = @ - size])
      BY <2>3, <2>5 DEF b
    <2> QED
      BY <1>4, <1>7, <2>2, <2>3, <2>6 DEF r, full
  <1>8. CASE ~Takes(c, k, size, ingress)
    <2> HIDE DEF i, full, r
    <2> DEFINE d == [c EXCEPT !.next = Len(c.items), !.balance = full]
    <2>1. r.face = NoFace /\ r.table = d
      BY <1>6, <1>8
    <2>2. Left(c, d, Len(c.items), full)
      BY <1>1, LeftIs
    <2>3. GivesUp(c, k, ingress)
      BY <1>4, <1>8 DEF Ending, EndsAt
    <2> QED
      BY <1>4, <1>8, <2>1, <2>2, <2>3 DEF r, full
  <1> QED
    BY <1>7, <1>8

(* What a selection leaves is a good list again.                            *)
LEMMA LeftGood ==
    ASSUME NEW c, GoodRrt(c), NEW d, NEW x \in 0 .. Len(c.items), NEW b \in [Faces(c) -> Nat],
           Left(c, d, x, b)
    PROVE  GoodRrt(d) /\ Faces(d) = Faces(c)
  <1>1. c \in RRT /\ Kept(c) /\ Listed(c)
    BY DEF GoodRrt
  <1>2. Faces(d) = Faces(c) /\ Faces(c) \subseteq Up
    BY ListFacts DEF Left, Faces
  <1>3. /\ d.rate = c.rate /\ d.heard = c.heard /\ d.total = c.total /\ d.items = c.items
        /\ d.balance = b /\ d.next = x
        /\ d = [rate |-> d.rate, heard |-> d.heard, total |-> d.total,
                items |-> d.items, balance |-> d.balance, next |-> d.next]
    BY DEF Left
  <1>4. /\ c.rate \in Rates(Up) /\ c.heard \in SUBSET Up /\ c.total \in 0 .. Wrap - 1
        /\ c.items \in Seq(Up) /\ Len(c.items) \in Nat
    BY <1>1 DEF RRT
  <1>5. d \in RRT
    <2>1. b \in UNION {[F -> Nat] : F \in SUBSET Up} /\ x \in Nat
      BY <1>2, <1>4
    <2> QED
      BY <1>3, <1>4, <2>1 DEF RRT
  <1>6. Kept(d)
    BY <1>1, <1>2, <1>3 DEF Kept
  <1>7. Listed(d)
    BY <1>1, <1>2, <1>3 DEF Listed
  <1> QED
    BY <1>2, <1>5, <1>6, <1>7 DEF GoodRrt
-----------------------------------------------------------------------------
(* Credit.                                                                 *)

LEMMA LargestRateIs ==
    /\ LargestRate \in Nat /\ 1 <= DefaultRate /\ DefaultRate <= LargestRate
    /\ \A r \in Rate : r \in 0 .. Wrap - 1 /\ r <= LargestRate
  <1> DEFINE S == Rate \cup {DefaultRate}
  <1>1. Wrap - 1 \in Nat /\ Rate \subseteq 0 .. Wrap - 1 /\ DefaultRate \in 0 .. Wrap - 1 /\ 1 <= DefaultRate
    BY RateAssumption
  <1>2. Rate \subseteq S
    OBVIOUS
  <1>3. S \subseteq 0 .. Wrap - 1 /\ DefaultRate \in S
    BY <1>1, <1>2
  <1>4. LargestRate = Max(S)
    BY DEF LargestRate
  <1> HIDE DEF S
  <1> DEFINE m == Max(S)
  <1>5. m \in S /\ \A y \in S : m >= y
    <2>1. S \subseteq Nat /\ S # {} /\ \A x \in S : x <= Wrap - 1
      BY <1>1, <1>3
    <2> QED
      BY <1>1, <2>1, MaxIsGreatest
  <1> HIDE DEF m
  <1>6. m \in Nat /\ DefaultRate <= m /\ \A x \in S : x <= m
    BY <1>1, <1>3, <1>5
  <1>7. LargestRate = m
    BY <1>4 DEF m
  <1> QED
    BY <1>1, <1>2, <1>6, <1>7

LEMMA LargestSizeIs ==
    /\ Max(Dsz) \in Nat /\ Max(Dsz) < BalanceCap /\ BalanceCap \in Nat
    /\ \A s \in Dsz : s \in Nat /\ s <= Max(Dsz)
  <1>1. Dsz \subseteq Nat /\ Dsz # {} /\ BalanceCap \in Nat /\ \A s \in Dsz : s <= BalanceCap /\ s < BalanceCap
    BY SelectAssumption
  <1>2. Max(Dsz) \in Dsz /\ \A s \in Dsz : Max(Dsz) >= s
    BY <1>1, MaxIsGreatest
  <1> QED
    BY <1>1, <1>2

LEMMA UpFinite == IsFiniteSet(Up)
  <1> DEFINE n == Len(NextHops)
             f == [u \in Up |-> CHOOSE i \in 1 .. n : NextHops[i] = u]
  <1>1. n \in Nat /\ Up = {NextHops[i] : i \in 1 .. n}
    BY FaceAssumption DEF Up, Range
  <1>2. \A u \in Up : f[u] \in 1 .. n /\ NextHops[f[u]] = u
    BY <1>1
  <1>3. f \in [Up -> 1 .. n]
    BY <1>2
  <1>4. \A u, v \in Up : f[u] = f[v] => u = v
    BY <1>2
  <1> HIDE DEF f, n
  <1>5. f \in Injection(Up, 1 .. n)
    BY <1>3, <1>4 DEF Injection, IsInjective
  <1>6. IsFiniteSet(1 .. n)
    BY <1>1, FS_Interval
  <1> QED
    BY <1>5, <1>6, FS_Injection

(* The rates of the RRT are rates that Data carries.                        *)
Usual(c) == \A u \in Faces(c) : c.rate[u] <= LargestRate

(* A refill is at most LargestGrowth.                                       *)
LEMMA GrowthBounded ==
    ASSUME NEW c, GoodRrt(c), Usual(c), NEW u \in Faces(c)
    PROVE  Growth(c, u) <= LargestGrowth /\ LargestGrowth \in Nat
  <1> DEFINE L == LargestRate
             n == Len(c.items)
             r == c.rate[u]
             t == c.total
  <1>1. /\ r \in Nat /\ r <= L /\ t \in Nat /\ Quantum \in Nat \ {0} /\ n \in Nat \ {0}
        /\ L \in Nat /\ L >= 1 /\ Growth(c, u) \in Nat
    <2>1. PICK i \in 0 .. Len(c.items) - 1 : At(c, i) = u
      BY ListFacts
    <2>2. n \in Nat /\ n # 0
      BY <2>1, ListFacts
    <2>3. c.rate[u] \in 0 .. Wrap - 1 /\ c.total \in 0 .. Wrap - 1
      BY ListFacts
    <2>4. L \in Nat /\ L >= 1
      BY LargestRateIs, RateAssumption
    <2> QED
      BY <2>2, <2>3, <2>4, GrowthIs, SelectAssumption DEF Usual
  <1>2. Growth(c, u) = IF t < 1 THEN (1 \div n) * Quantum ELSE (r * Quantum) \div t
    BY DEF Growth
  <1>3. LargestGrowth = IF L * Cardinality(Up) < Wrap THEN Quantum ELSE L * Quantum
    BY DEF LargestGrowth
  <1>4. L * Cardinality(Up) < Wrap /\ t >= 1 => r <= t
    <2> SUFFICES ASSUME L * Cardinality(Up) < Wrap PROVE r <= t
      OBVIOUS
    <2> DEFINE g == c.rate
               F == Faces(c)
               sum == SumFunctionOnSet(g, F)
               C == Cardinality(F)
               D == Cardinality(Up)
    <2>1. IsFiniteSet(F) /\ \A x \in F : g[x] \in Nat /\ g[x] \in Int /\ g[x] <= L
      BY ListFacts DEF Usual
    <2>2. t = sum % Wrap
      BY DEF GoodRrt, Kept, SumFunction, Faces
    <2>3. C \in Nat /\ D \in Nat /\ C <= D
      <3>1. F \in SUBSET Up
        BY ListFacts
      <3> QED
        BY <2>1, <3>1, UpFinite, FS_Subset, FS_CardinalityType
    <2>4. sum <= L * C /\ sum \in Nat /\ g[u] <= sum
      <3> HIDE DEF L, g, F
      <3>1. L \in Nat /\ u \in F
        BY <1>1 DEF F
      <3> QED
        BY <2>1, <3>1, SumBounded, SumNat, SumTerm
    <2>5. L * C <= L * D /\ L * C \in Int /\ L * D \in Int
      BY <1>1, <2>3, ProductsOrdered, Distributes
    <2>6. L * D < Wrap
      OBVIOUS
    <2> HIDE DEF sum, L, C, D, g, F
    <2>7. sum < Wrap /\ sum \in 0 .. Wrap - 1
      BY <2>4, <2>5, <2>6, RateAssumption
    <2>8. sum % Wrap = sum
      BY <2>7, RateAssumption
    <2> QED
      BY <2>2, <2>4, <2>8 DEF g
  <1> HIDE DEF r, t, n, L
  <1>5. /\ L * Quantum \in Nat /\ Quantum <= L * Quantum /\ r * Quantum \in Nat /\ r * Quantum <= L * Quantum
    <2>1. Quantum * 1 <= Quantum * L /\ Quantum * r <= Quantum * L
      BY <1>1, ProductsOrdered
    <2>2. Quantum * L = L * Quantum /\ Quantum * r = r * Quantum /\ Quantum * 1 = Quantum
      BY <1>1, Distributes
    <2> QED
      BY <1>1, <2>1, <2>2
  <1>6. LargestGrowth \in Nat /\ Quantum <= LargestGrowth
    BY <1>1, <1>3, <1>5
  <1>7. CASE t < 1
    <2>1. 1 <= n * 1
      BY <1>1
    <2>2. 1 \div n \in Nat /\ 1 \div n <= 1
      BY <1>1, <2>1, QuotientAtMost
    <2> DEFINE q == 1 \div n
    <2>3. Growth(c, u) = q * Quantum /\ q \in {0, 1}
      BY <1>2, <1>7, <2>2
    <2> HIDE DEF q
    <2>4. q * Quantum <= Quantum
      BY <1>1, <2>3
    <2> QED
      BY <1>1, <1>6, <2>3, <2>4
  <1>8. CASE ~(t < 1)
    <2> DEFINE x == r * Quantum
    <2>0. t \in Nat \ {0} /\ x \in Nat /\ Growth(c, u) = x \div t
      BY <1>1, <1>2, <1>5, <1>8
    <2>1. CASE L * Cardinality(Up) < Wrap
      <3>1. r <= t
        BY <1>1, <1>4, <1>8, <2>1
      <3>2. Quantum * r <= Quantum * t /\ Quantum * r = r * Quantum /\ Quantum * t = t * Quantum
        BY <1>1, <3>1, ProductsOrdered, Distributes
      <3>3. x <= t * Quantum
        BY <3>2
      <3> HIDE DEF x
      <3>4. x \div t <= Quantum
        BY <1>1, <2>0, <3>3, QuotientAtMost
      <3> QED
        BY <1>1, <1>3, <2>0, <2>1, <3>4
    <2>2. CASE ~(L * Cardinality(Up) < Wrap)
      <3>1. x <= L * Quantum
        BY <1>5
      <3> HIDE DEF x
      <3> DEFINE y == L * Quantum
      <3>2. y \in Nat /\ x <= y
        BY <1>5, <3>1
      <3> HIDE DEF y
      <3>3. x <= t * y
        <4>1. y * 1 <= y * t /\ y * t = t * y
          BY <1>1, <2>0, <3>2, ProductsOrdered, Distributes
        <4> QED
          BY <1>1, <2>0, <3>2, <4>1
      <3>4. x \div t <= y
        BY <2>0, <3>2, <3>3, QuotientAtMost
      <3> QED
        BY <1>3, <1>6, <2>0, <2>2, <3>4 DEF y
    <2> QED
      BY <2>1, <2>2
  <1> QED
    BY <1>6, <1>7, <1>8
(* The strengthening of CreditBounded: a face that the selection has passed  *)
(* in this round has no more than the largest packet takes.                 *)
High(u) == LargestGrowth + (IF u \in Down THEN BalanceCap - 1 ELSE Max(Dsz))
Low(u) == IF u \in Down THEN High(u) ELSE Max(Dsz)

Credit(c) ==
    /\ Usual(c)
    /\ \A i \in 0 .. Len(c.items) - 1 : c.balance[At(c, i)] <= IF i < c.next THEN Low(At(c, i)) ELSE High(At(c, i))

(* What a pass before the last has left to a face Interests do not come      *)
(* from is too little for the packet.                                      *)
LEMMA NotTaken ==
    ASSUME NEW c, GoodRrt(c), Credit(c), NEW size \in Dsz, NEW ingress \in Down,
           NEW i \in 0 .. Len(c.items) - 1, At(c, i) \notin Down,
           NEW j \in Nat, ~(i \in Positions(c, j) /\ CanTake(c, i, j, size, ingress))
    PROVE  Refilled(c, At(c, i), j) <= Max(Dsz)
  <1> DEFINE u == At(c, i)
             r == Refilled(c, u, j)
             M == Max(Dsz)
  <1>1. /\ u \in Faces(c) /\ c.balance[u] \in Nat /\ M \in Nat
        /\ size \in Nat /\ size <= M /\ c.next \in Nat /\ i \in Nat /\ i < Len(c.items) /\ Len(c.items) \in Nat
    BY ListFacts, LargestSizeIs
  <1>2. r \in Nat
    BY <1>1, RefilledIs
  <1>3. CASE i \in Positions(c, j)
    <2>1. ~(r > size)
      BY <1>3 DEF CanTake
    <2> HIDE DEF r, M
    <2>2. r <= M
      BY <1>1, <1>2, <2>1
    <2> QED
      BY <2>2 DEF r, M
  <1>4. CASE i \notin Positions(c, j)
    <2>1. j = 0 /\ i < c.next
      BY <1>1, <1>4 DEF Positions
    <2>2. c.balance[u] <= M
      BY <2>1 DEF Credit, Low
    <2>3. Refilled(c, u, 0) = c.balance[u]
      BY <1>1, RefilledIs
    <2> QED
      BY <2>1, <2>2, <2>3
  <1> QED
    BY <1>3, <1>4

LEMMA PassedOver ==
    ASSUME NEW c, GoodRrt(c), Credit(c), NEW size \in Dsz, NEW ingress \in Down,
           NEW k, Ending(c, size, ingress, k), k # 0,
           NEW i \in 0 .. Len(c.items) - 1, At(c, i) \notin Down
    PROVE  k - 1 \in Nat /\ Refilled(c, At(c, i), k - 1) <= Max(Dsz)
  <1> DEFINE j == k - 1
  <1>1. c.next \in Nat /\ Len(c.items) \in Nat /\ i \in Nat /\ i < Len(c.items) /\ BalanceCap \in Nat
    BY ListFacts, LargestSizeIs
  <1>2. k \in Nat /\ k \in Passes(c)
    BY <1>1 DEF Ending, Passes, FirstPass
  <1>3. j \in Nat /\ j + 1 = k /\ j < k
    BY <1>2
  <1> HIDE DEF j
  <1>4. ~(i \in Positions(c, j) /\ CanTake(c, i, j, size, ingress))
    <2> SUFFICES ASSUME i \in Positions(c, j), CanTake(c, i, j, size, ingress) PROVE FALSE
      OBVIOUS
    <2>1. j = 0 => c.next <= i
      BY <1>1 DEF Positions
    <2>2. j \in Passes(c)
      BY <1>1, <1>2, <1>3, <2>1 DEF Passes, FirstPass
    <2>3. ~EndsAt(c, j, size, ingress)
      BY <1>3, <2>2 DEF Ending
    <2> QED
      BY <2>3 DEF EndsAt, Takes
  <1>5. Refilled(c, At(c, i), j) <= Max(Dsz)
    BY <1>3, <1>4, NotTaken
  <1> QED
    BY <1>3, <1>5 DEF j

(* What passes before the last have left.                                   *)
LEMMA CreditBefore ==
    ASSUME NEW c, GoodRrt(c), Credit(c), NEW size \in Dsz, NEW ingress \in Down,
           NEW k, Ending(c, size, ingress, k),
           NEW i \in 0 .. Len(c.items) - 1
    PROVE  LET u == At(c, i)
           IN  /\ Refilled(c, u, k) \in Nat
               /\ Refilled(c, u, k) <= High(u)
               /\ ~(i \in Positions(c, k) /\ CanTake(c, i, k, size, ingress))
                    => Refilled(c, u, k) <= Low(u)
  <1> DEFINE u == At(c, i)
             b == c.balance[u]
             M == Max(Dsz)
             L == LargestGrowth
             g == Growth(c, u)
             R(j) == Refilled(c, u, j)
  <1>1. /\ u \in Faces(c) /\ b \in Nat /\ M \in Nat /\ M < BalanceCap /\ BalanceCap \in Nat
        /\ size \in Nat /\ size <= M /\ c.next \in Nat /\ i \in Nat /\ i < Len(c.items) /\ Len(c.items) \in Nat
    BY ListFacts, LargestSizeIs
  <1>2. g \in Nat /\ g <= L /\ L \in Nat
    BY <1>1, GrowthIs, GrowthBounded DEF Credit
  <1>3. k \in Nat /\ k \in Passes(c)
    BY <1>1 DEF Ending, Passes, FirstPass
  <1>4. \A j \in Nat : /\ R(j) \in Nat /\ R(0) = b /\ (R(j) < BalanceCap + g \/ R(j) = b)
                       /\ R(j + 1) <= R(j) + g
    BY <1>1, RefilledIs
  <1>5. /\ u \in Down => b <= L + BalanceCap - 1
        /\ u \notin Down => b <= L + M
        /\ u \notin Down /\ i < c.next => b <= M
    <2>1. b <= IF i < c.next THEN Low(u) ELSE High(u)
      BY DEF Credit
    <2>2. CASE u \in Down
      BY <2>1, <2>2 DEF Low, High
    <2>3. CASE u \notin Down /\ i < c.next
      BY <1>1, <1>2, <2>1, <2>3 DEF Low, High
    <2>4. CASE u \notin Down /\ ~(i < c.next)
      BY <2>1, <2>4 DEF Low, High
    <2> QED
      BY <2>2, <2>3, <2>4
  <1> HIDE DEF R, b, M, L, g
  <1>6. CASE u \in Down
    <2>1. Low(u) = L + BalanceCap - 1 /\ High(u) = L + BalanceCap - 1
      BY <1>6 DEF Low, High, L
    <2>2. R(k) \in Nat /\ R(k) <= L + BalanceCap - 1
      <3> DEFINE r == R(k)
      <3>1. r \in Nat /\ (r < BalanceCap + g \/ r = b)
        BY <1>3, <1>4
      <3>2. b <= L + BalanceCap - 1
        BY <1>5, <1>6
      <3> HIDE DEF r
      <3>3. r <= L + BalanceCap - 1
        BY <1>1, <1>2, <3>1, <3>2
      <3> QED
        BY <3>1, <3>3 DEF r
    <2> QED
      BY <2>1, <2>2 DEF R
  <1>7. CASE u \notin Down
    <2>1. Low(u) = M /\ High(u) = L + M /\ b <= L + M
      <3>1. Low(u) = M /\ High(u) = L + M
        BY <1>7 DEF Low, High, L, M
      <3> QED
        BY <1>5, <1>7, <3>1
    <2>2. R(k) <= L + M
      <3>1. CASE k = 0
        BY <1>4, <2>1, <3>1
      <3>2. CASE k # 0
        <4> DEFINE j == k - 1
        <4>1. j \in Nat /\ j + 1 = k
          BY <1>3, <3>2
        <4>2. R(j) <= M
          BY <1>7, <3>2, PassedOver DEF R, M
        <4> HIDE DEF j
        <4>3. R(k) <= R(j) + g /\ R(j) \in Nat /\ R(k) \in Nat
          BY <1>3, <1>4, <4>1
        <4> QED
          BY <1>1, <1>2, <4>2, <4>3
      <3> QED
        BY <3>1, <3>2
    <2>3. ~(i \in Positions(c, k) /\ CanTake(c, i, k, size, ingress)) => R(k) <= M
      BY <1>3, <1>7, NotTaken DEF R, M
    <2>4. R(k) \in Nat
      BY <1>3, <1>4
    <2> QED
      BY <2>1, <2>2, <2>3, <2>4 DEF R
  <1> QED
    BY <1>6, <1>7
LEMMA LargestGrowthIs == LargestGrowth \in Nat /\ LargestGrowth > 0
  <1>1. Quantum \in Nat \ {0} /\ LargestRate \in Nat \ {0}
    BY LargestRateIs, RateAssumption, SelectAssumption
  <1>2. LargestRate * Quantum \in Nat /\ LargestRate * Quantum > 0
    <2>1. Quantum * 1 <= Quantum * LargestRate
      BY <1>1, ProductsOrdered
    <2> QED
      BY <1>1, <2>1, Distributes
  <1> QED
    BY <1>1, <1>2 DEF LargestGrowth

LEMMA BoundIs ==
    ASSUME NEW u
    PROVE  Low(u) \in Nat /\ High(u) \in Nat
  <1>1. /\ LargestGrowth \in Nat /\ LargestGrowth > 0
        /\ Max(Dsz) \in Nat /\ Max(Dsz) < BalanceCap /\ BalanceCap \in Nat
    BY LargestGrowthIs, LargestSizeIs
  <1>2. High(u) \in Nat
    BY <1>1 DEF High
  <1> QED
    BY <1>1, <1>2 DEF Low

LEMMA SelectionCredit ==
    ASSUME NEW c, GoodRrt(c), Credit(c), Len(c.items) > 0, NEW size \in Dsz, NEW ingress \in Down,
           NEW d, d = SelectNextFace(c, size, ingress).table
    PROVE  GoodRrt(d) /\ Credit(d)
  <1> DEFINE n == Len(c.items)
             full(k) == FullAt(c, k)
  <1>1. /\ n \in Nat /\ c.next \in 0 .. n /\ \A i \in 0 .. n - 1 : At(c, i) \in Faces(c)
        /\ \A i, j \in 0 .. n - 1 : At(c, i) = At(c, j) => i = j
        /\ \A u \in Faces(c) : \E i \in 0 .. n - 1 : At(c, i) = u
    BY ListFacts
  <1>2. size \in Nat /\ Max(Dsz) \in Nat
    BY LargestSizeIs
  <1>3. PICK k : /\ Ending(c, size, ingress, k)
                 /\ \/ \E i : /\ TakesAt(c, size, ingress, k, i)
                              /\ Left(c, d, i, [FullAt(c, k) EXCEPT ![At(c, i)] = @ - size])
                    \/ ~Takes(c, k, size, ingress) /\ Left(c, d, n, FullAt(c, k))
    BY Outcome
  <1>4. \A i \in 0 .. n - 1 :
            /\ Refilled(c, At(c, i), k) \in Nat
            /\ Refilled(c, At(c, i), k) <= High(At(c, i))
            /\ ~(i \in Positions(c, k) /\ CanTake(c, i, k, size, ingress))
                 => Refilled(c, At(c, i), k) <= Low(At(c, i))
    BY <1>3, CreditBefore
  <1>5. full(k) \in [Faces(c) -> Nat] /\ \A u \in Faces(c) : full(k)[u] = Refilled(c, u, k)
    BY <1>1, <1>4 DEF FullAt
  <1>6. Usual(c)
    BY DEF Credit
  <1>7. ASSUME NEW i, TakesAt(c, size, ingress, k, i),
               Left(c, d, i, [full(k) EXCEPT ![At(c, i)] = @ - size])
        PROVE  GoodRrt(d) /\ Credit(d)
    <2> DEFINE b == [full(k) EXCEPT ![At(c, i)] = @ - size]
    <2>1. /\ i \in 0 .. n - 1 /\ i \in Positions(c, k) /\ CanTake(c, i, k, size, ingress)
          /\ \A j \in Positions(c, k) : j < i => ~CanTake(c, j, k, size, ingress)
      <3>1. i \in Positions(c, k) => i \in 0 .. n - 1
        BY <1>1 DEF Positions
      <3> QED
        BY <1>7, <3>1 DEF TakesAt
    <2>2. Refilled(c, At(c, i), k) > size /\ Refilled(c, At(c, i), k) \in Nat
      BY <1>4, <2>1 DEF CanTake
    <2>3. b \in [Faces(c) -> Nat]
      <3>1. Refilled(c, At(c, i), k) - size \in Nat
        BY <1>2, <2>2
      <3> QED
        BY <1>1, <1>5, <2>1, <3>1
    <2>4. \A j \in 0 .. n - 1 : b[At(c, j)] \in Nat /\ b[At(c, j)] <= Refilled(c, At(c, j), k)
      <3> SUFFICES ASSUME NEW j \in 0 .. n - 1
                   PROVE  b[At(c, j)] \in Nat /\ b[At(c, j)] <= Refilled(c, At(c, j), k)
        OBVIOUS
      <3>1. At(c, j) \in Faces(c) /\ Refilled(c, At(c, j), k) \in Nat /\ b[At(c, j)] \in Nat
        BY <1>1, <1>4, <2>3
      <3>2. b[At(c, j)] = IF At(c, j) = At(c, i) THEN Refilled(c, At(c, j), k) - size ELSE Refilled(c, At(c, j), k)
        BY <1>5, <3>1
      <3> QED
        BY <1>2, <3>1, <3>2
    <2> HIDE DEF b, full
    <2>5. Left(c, d, i, b)
      BY <1>7 DEF b
    <2>6. GoodRrt(d) /\ Faces(d) = Faces(c)
      <3>1. i \in 0 .. Len(c.items)
        BY <1>1, <2>1
      <3> QED
        BY <2>3, <2>5, <3>1, LeftGood
    <2>7. d.rate = c.rate /\ d.items = c.items /\ d.balance = b /\ d.next = i
      BY <2>5 DEF Left
    <2>8. Usual(d)
      BY <1>6, <2>6, <2>7 DEF Usual
    <2>9. ASSUME NEW j \in 0 .. n - 1
          PROVE  b[At(c, j)] <= IF j < i THEN Low(At(c, j)) ELSE High(At(c, j))
      <3>1. CASE j < i
        <4>1. ~(j \in Positions(c, k) /\ CanTake(c, j, k, size, ingress))
          BY <2>1, <3>1
        <4>2. Refilled(c, At(c, j), k) \in Nat /\ Refilled(c, At(c, j), k) <= Low(At(c, j))
          BY <1>4, <4>1
        <4>3. Low(At(c, j)) \in Nat
          BY BoundIs
        <4> QED
          BY <2>4, <3>1, <4>2, <4>3
      <3>2. CASE ~(j < i)
        <4>1. Refilled(c, At(c, j), k) \in Nat /\ Refilled(c, At(c, j), k) <= High(At(c, j))
          BY <1>4
        <4>2. High(At(c, j)) \in Nat
          BY BoundIs
        <4> QED
          BY <2>4, <3>2, <4>1, <4>2
      <3> QED
        BY <3>1, <3>2
    <2>10. \A j : At(d, j) = At(c, j)
      BY <2>7 DEF At
    <2>11. Credit(d)
      BY <2>7, <2>8, <2>9, <2>10 DEF Credit
    <2> QED
      BY <2>6, <2>11
  <1>8. ASSUME ~Takes(c, k, size, ingress), Left(c, d, n, full(k))
        PROVE  GoodRrt(d) /\ Credit(d)
    <2>1. GoodRrt(d) /\ Faces(d) = Faces(c)
      <3> DEFINE b == full(k)
      <3>1. n \in 0 .. Len(c.items) /\ b \in [Faces(c) -> Nat] /\ Left(c, d, n, b)
        BY <1>1, <1>5, <1>8
      <3> HIDE DEF b
      <3> QED
        BY <3>1, LeftGood
    <2>2. d.rate = c.rate /\ d.items = c.items /\ d.balance = full(k) /\ d.next = n
      BY <1>8 DEF Left
    <2>3. Usual(d)
      BY <1>6, <2>1, <2>2 DEF Usual
    <2>4. ASSUME NEW j \in 0 .. n - 1
          PROVE  j < n /\ d.balance[At(c, j)] <= Low(At(c, j))
      <3>1. ~(j \in Positions(c, k) /\ CanTake(c, j, k, size, ingress))
        BY <1>8 DEF Takes
      <3>2. Refilled(c, At(c, j), k) <= Low(At(c, j)) /\ j < n
        BY <1>1, <1>4, <3>1
      <3>3. d.balance[At(c, j)] = Refilled(c, At(c, j), k)
        BY <1>1, <1>5, <2>2
      <3> QED
        BY <3>2, <3>3
    <2>5. \A j : At(d, j) = At(c, j)
      BY <2>2 DEF At
    <2>6. Credit(d)
      BY <2>2, <2>3, <2>4, <2>5 DEF Credit
    <2> QED
      BY <2>1, <2>6
  <1> QED
    BY <1>3, <1>7, <1>8

LEMMA RecommendCredit ==
    ASSUME NEW c, GoodRrt(c), Credit(c), NEW f \in Up, NEW r \in 0 .. Wrap - 1, r <= LargestRate,
           NEW d, d = Recommend(c, f, r)
    PROVE  GoodRrt(d) /\ Credit(d)
  <1>1. /\ GoodRrt(d) /\ Faces(d) = Faces(c) \cup {f}
        /\ d.rate = [g \in Faces(c) \cup {f} |-> IF g = f THEN r ELSE c.rate[g]]
        /\ d.items = ItemsAfter(c, f) /\ d.next = c.next
        /\ d.balance = [g \in Faces(c) \cup {f} |-> IF g \in Faces(c) THEN c.balance[g] ELSE 0]
    BY RecommendGood
  <1>2. Usual(d)
    BY <1>1 DEF Usual, Credit
  <1> DEFINE n == Len(c.items)
  <1>3. /\ n \in Nat /\ c.items \in Seq(Up) /\ \A i \in 0 .. n - 1 : At(c, i) \in Faces(c)
        /\ c.balance \in [Faces(c) -> Nat] /\ c.next \in 0 .. n
    BY ListFacts
  <1>4. ASSUME NEW i \in 0 .. n - 1, At(d, i) = At(c, i)
        PROVE  d.balance[At(d, i)] <= IF i < d.next THEN Low(At(d, i)) ELSE High(At(d, i))
    BY <1>1, <1>3, <1>4 DEF Credit
  <1>5. CASE f \in Faces(c)
    <2>1. d.items = c.items
      BY <1>1, <1>5 DEF ItemsAfter
    <2>2. \A i \in 0 .. n - 1 : At(d, i) = At(c, i)
      BY <2>1 DEF At
    <2> QED
      BY <1>1, <1>2, <1>4, <2>1, <2>2 DEF Credit
  <1>6. CASE f \notin Faces(c)
    <2>1. d.items = Append(c.items, f)
      BY <1>1, <1>6 DEF ItemsAfter
    <2>2. Len(d.items) = n + 1 /\ d.items[n + 1] = f /\ \A i \in 1 .. n : d.items[i] = c.items[i]
      BY <1>3, <2>1
    <2> HIDE DEF n
    <2>3. At(d, n) = f /\ \A i \in 0 .. n - 1 : At(d, i) = At(c, i)
      BY <1>3, <2>2 DEF At
    <2>4. d.balance[f] = 0
      BY <1>1, <1>6
    <2>5. Low(f) \in Nat /\ High(f) \in Nat
      BY BoundIs
    <2>6. \A i \in 0 .. Len(d.items) - 1 : i = n \/ i \in 0 .. n - 1
      BY <1>3, <2>2
    <2>7. \A i \in 0 .. Len(d.items) - 1 : d.balance[At(d, i)] <= IF i < d.next THEN Low(At(d, i)) ELSE High(At(d, i))
      BY <1>4, <2>3, <2>4, <2>5, <2>6
    <2> QED
      BY <1>1, <1>2, <2>7 DEF Credit
  <1> QED
    BY <1>5, <1>6

LEMMA ResetCredit ==
    ASSUME NEW c, GoodRrt(c), Credit(c), NEW d, d = ResetSilent(c)
    PROVE  GoodRrt(d) /\ Credit(d)
  <1>1. /\ GoodRrt(d) /\ d.items = c.items /\ d.balance = c.balance /\ d.next = c.next
        /\ Faces(d) = Faces(c)
        /\ \A f \in Faces(c) : d.rate[f] \in {c.rate[f], DefaultRate}
    BY ResetGood
  <1>2. Usual(d)
    BY <1>1, LargestRateIs DEF Usual, Credit
  <1>3. \A i : At(d, i) = At(c, i)
    BY <1>1 DEF At
  <1> QED
    BY <1>1, <1>2, <1>3 DEF Credit

LEMMA PreparedCredit ==
    ASSUME NEW c, GoodRrt(c), Credit(c)
    PROVE  GoodRrt(Prepared(c)) /\ Credit(Prepared(c))
  <1> DEFINE d == Prepared(c)
  <1>1. GoodRrt(d) /\ (d = c \/ d \in Fresh)
    BY PreparedGood
  <1> HIDE DEF d
  <1>2. ASSUME d \in Fresh PROVE Credit(d)
    <2>1. \A u \in Faces(d) : d.rate[u] = DefaultRate /\ d.balance[u] = 0
      BY <1>2 DEF Fresh
    <2>2. Usual(d)
      BY <2>1, LargestRateIs DEF Usual
    <2>3. \A i \in 0 .. Len(d.items) - 1 : /\ d.balance[At(d, i)] = 0
                                               /\ Low(At(d, i)) \in Nat /\ High(At(d, i)) \in Nat
      BY <1>1, <2>1, ListFacts, BoundIs
    <2> QED
      BY <2>2, <2>3 DEF Credit
  <1> QED
    BY <1>1, <1>2 DEF d
-----------------------------------------------------------------------------
(* The theorems.                                                           *)

IInv == GoodArt(art) /\ GoodRrt(rrt) /\ Credit(rrt)

LEMMA SelectFaceGood ==
    ASSUME GoodRrt(rrt), Credit(rrt), NEW ingress \in Down, NEW size \in Dsz,
           NEW d, d = SelectFaceByRatio(ingress, size).table
    PROVE  GoodRrt(d) /\ Credit(d)
  <1> DEFINE c == Prepared(rrt)
  <1>1. GoodRrt(c) /\ Credit(c)
    BY PreparedCredit
  <1>2. \/ d = c
        \/ Len(c.items) # 0 /\ d = SelectNextFace(c, size, ingress).table
    BY DEF SelectFaceByRatio
  <1> HIDE DEF c
  <1>3. Len(c.items) \in Nat
    BY <1>1, ListFacts
  <1>4. CASE d = c
    BY <1>1, <1>4
  <1>5. CASE Len(c.items) # 0 /\ d = SelectNextFace(c, size, ingress).table
    <2>1. Len(c.items) > 0
      BY <1>3, <1>5
    <2> QED
      BY <1>1, <1>5, <2>1, SelectionCredit
  <1> QED
    BY <1>2, <1>4, <1>5

LEMMA InitIInv == Init => IInv
  <1> SUFFICES ASSUME Init PROVE IInv
    OBVIOUS
  <1>1. GoodArt(art) /\ GoodRrt(rrt)
    BY InitGood
  <1>2. Faces(rrt) = {} /\ Len(rrt.items) = 0
    BY DEF Init, Faces
  <1>3. Credit(rrt)
    BY <1>2 DEF Credit, Usual
  <1> QED
    BY <1>1, <1>3 DEF IInv

LEMMA NextIInv == IInv /\ [Next]_vars => IInv'
  <1> SUFFICES ASSUME IInv, [Next]_vars PROVE IInv'
    OBVIOUS
  <1>0. GoodArt(art) /\ GoodRrt(rrt) /\ Credit(rrt)
    BY DEF IInv
  <1> SUFFICES GoodArt(art') /\ GoodRrt(rrt') /\ Credit(rrt')
    BY DEF IInv, GoodArt, GoodRrt, ART, RRT, Kept, Listed, Credit, Usual, Faces, At
  <1>1. ASSUME NEW f \in Down, NEW r \in Rate, NEW s \in Dsz, AfterReceiveInterest(f, r, s)
        PROVE  GoodArt(art') /\ GoodRrt(rrt') /\ Credit(rrt')
    <2>1. r \in 0 .. Wrap - 1
      BY RateAssumption
    <2>2. GoodArt(art')
      BY <1>0, <1>1, <2>1, AddOrUpdateGood DEF AfterReceiveInterest
    <2>3. rrt' = SelectFaceByRatio(f, s).table
      BY <1>1 DEF AfterReceiveInterest
    <2>4. GoodRrt(rrt') /\ Credit(rrt')
      BY <1>0, <2>3, SelectFaceGood
    <2> QED
      BY <2>2, <2>4
  <1>2. ASSUME NEW f \in Up, NEW r \in Rate, BeforeSatisfyInterest(f, r)
        PROVE  GoodArt(art') /\ GoodRrt(rrt') /\ Credit(rrt')
    <2>1. r \in 0 .. Wrap - 1 /\ r <= LargestRate
      BY LargestRateIs
    <2>2. rrt' = Recommend(rrt, f, r) /\ art' = art
      BY <1>2 DEF BeforeSatisfyInterest
    <2>3. GoodRrt(rrt') /\ Credit(rrt')
      BY <1>0, <2>1, <2>2, RecommendCredit
    <2> QED
      BY <1>0, <2>2, <2>3
  <1>3. ASSUME PeriodicCleaning
        PROVE  GoodArt(art') /\ GoodRrt(rrt') /\ Credit(rrt')
    <2>1. art' = EraseSilent(art) /\ rrt' = ResetSilent(rrt)
      BY <1>3 DEF PeriodicCleaning
    <2>2. GoodArt(art')
      BY <1>0, <2>1, EraseGood
    <2>3. GoodRrt(rrt') /\ Credit(rrt')
      BY <1>0, <2>1, ResetCredit
    <2> QED
      BY <2>2, <2>3
  <1>4. CASE UNCHANGED vars
    BY <1>0, <1>4 DEF vars
  <1> QED
    BY <1>1, <1>2, <1>3, <1>4 DEF Next

(* The tables keep what they say of each other, whatever is done to them.    *)
THEOREM Invariant == Spec => []IInv
  BY InitIInv, NextIInv, PTL DEF Spec

(* The two tables keep their shape: each face of the RRT has one place in    *)
(* items and a balance that is not negative.                                *)
THEOREM TypeCorrect == Spec => []TypeOK
  <1>1. IInv => TypeOK
    <2> SUFFICES ASSUME IInv PROVE TypeOK
      OBVIOUS
    <2>1. art \in ART /\ rrt \in RRT /\ Listed(rrt)
      BY DEF IInv, GoodArt, GoodRrt
    <2> QED
      BY <2>1 DEF TypeOK, ART, RRT, Listed
  <1> QED
    BY <1>1, Invariant, PTL

(* totalRate of both tables is the sum of the rates in it, modulo 2^32,      *)
(* whatever addOrUpdateRate and doPeriodicCleaning did before.              *)
THEOREM TotalsAreExact == Spec => []TotalsExact
  <1>1. IInv => TotalsExact
    BY DEF IInv, GoodArt, GoodRrt, Kept, TotalsExact
  <1> QED
    BY <1>1, Invariant, PTL

(* selectNextFace returns: its recursion is at most as deep as the cap of    *)
(* the balances is high.                                                    *)
THEOREM SelectionsEnd == Spec => []SelectionEnds
  <1>1. IInv => SelectionEnds
    <2> SUFFICES ASSUME IInv, NEW f \in Down, NEW s \in Dsz,
                        Len(Prepared(rrt).items) > 1
                 PROVE  \E k \in Passes(Prepared(rrt)) : EndsAt(Prepared(rrt), k, s, f)
      BY DEF SelectionEnds
    <2> DEFINE c == Prepared(rrt)
    <2>1. GoodRrt(c)
      BY PreparedGood DEF IInv
    <2>2. Len(c.items) \in Nat /\ Len(c.items) > 1
      BY <2>1, ListFacts
    <2> HIDE DEF c
    <2>3. Len(c.items) > 0
      BY <2>2
    <2> QED
      BY <2>1, <2>3, Ends DEF c
  <1> QED
    BY <1>1, Invariant, PTL

(* selectFaceByRatio refuses an Interest only if no other face can grow.     *)
THEOREM OnlyHopelessRefused == Spec => []RefusedOnlyHopeless
  <1>1. IInv => RefusedOnlyHopeless
    <2> SUFFICES ASSUME IInv, NEW f \in Down, NEW s \in Dsz,
                        SelectFaceByRatio(f, s).face = NoFace,
                        NEW d, d = SelectFaceByRatio(f, s).table,
                        NEW u \in Faces(d) \ {f}
                 PROVE  Growth(d, u) = 0
      BY DEF RefusedOnlyHopeless
    <2> DEFINE c == Prepared(rrt)
               n == Len(c.items)
    <2>1. GoodRrt(c)
      BY PreparedGood DEF IInv
    <2>2. /\ n = 0 => d = c
          /\ n = 1 => d = c /\ (At(c, 0) = f \/ At(c, 0) = NoFace)
          /\ n # 0 /\ n # 1 => d = SelectNextFace(c, s, f).table /\ SelectNextFace(c, s, f).face = NoFace
      BY DEF SelectFaceByRatio
    <2> HIDE DEF c
    <2>3. /\ n \in Nat /\ \A i \in 0 .. n - 1 : At(c, i) \in Faces(c)
          /\ Faces(c) \subseteq Up /\ \A v \in Faces(c) : \E i \in 0 .. n - 1 : At(c, i) = v
      BY <2>1, ListFacts
    <2>4. NoFace \notin Faces(c)
      BY <2>3, FaceAssumption DEF Face
    <2>5. CASE n = 0
      BY <2>2, <2>3, <2>5
    <2>6. CASE n = 1
      <3>1. PICK i \in 0 .. n - 1 : At(c, i) = u
        BY <2>2, <2>3, <2>6
      <3>2. i = 0
        BY <2>6, <3>1
      <3> QED
        BY <2>2, <2>4, <2>6, <3>1, <3>2
    <2>7. CASE n # 0 /\ n # 1
      <3>0. n > 0
        BY <2>3, <2>7
      <3>1. PICK k : /\ Ending(c, s, f, k)
                     /\ \/ \E i : TakesAt(c, s, f, k, i) /\ NoFace = At(c, i)
                        \/ GivesUp(c, k, f) /\ Left(c, d, n, FullAt(c, k))
        BY <2>1, <2>2, <2>7, <3>0, Outcome
      <3>2. ~ \E i : TakesAt(c, s, f, k, i) /\ NoFace = At(c, i)
        <4> SUFFICES ASSUME NEW i, i \in Positions(c, k), NoFace = At(c, i) PROVE FALSE
          BY DEF TakesAt
        <4>1. i \in 0 .. n - 1
          BY <2>1, ListFacts DEF Positions
        <4> QED
          BY <2>3, <2>4, <4>1
      <3>3. GivesUp(c, k, f) /\ d.rate = c.rate /\ d.total = c.total /\ d.items = c.items
        BY <3>1, <3>2 DEF Left
      <3>4. \A i \in 0 .. n - 1 : Excepted(c, i, f)
        <4> DEFINE E == {i \in Positions(c, k) : Excepted(c, i, f)}
        <4>1. E \in SUBSET (0 .. n - 1)
          BY <2>1, ListFacts DEF Positions
        <4>2. Cardinality(E) = n
          BY <3>3 DEF GivesUp
        <4>3. IsFiniteSet(0 .. n - 1) /\ Cardinality(0 .. n - 1) = n
          BY <2>3, <3>0, FS_Interval
        <4>4. E = 0 .. n - 1
          <5> DEFINE N == 0 .. n - 1
          <5>1. IsFiniteSet(N) /\ Cardinality(N) = n /\ E \in SUBSET N
            BY <4>1, <4>3
          <5> HIDE DEF E, N
          <5>2. E = N
            BY <4>2, <5>1, FS_Subset
          <5> QED
            BY <5>2 DEF N
        <4> QED
          BY <4>4
      <3>5. Faces(d) = Faces(c)
        BY <3>3 DEF Faces
      <3>6. PICK i \in 0 .. n - 1 : At(c, i) = u
        BY <2>3, <3>5
      <3>7. Growth(c, u) = 0
        BY <3>4, <3>6 DEF Excepted
      <3> QED
        BY <3>3, <3>7 DEF Growth
    <2> QED
      BY <2>5, <2>6, <2>7
  <1> QED
    BY <1>1, Invariant, PTL

LEMMA CreditMeans ==
    ASSUME NEW c, GoodRrt(c), Credit(c), NEW u \in Faces(c)
    PROVE  c.balance[u] < LargestGrowth + (IF u \in Down THEN BalanceCap ELSE Max(Dsz) + 1)
  <1> DEFINE M == Max(Dsz)
             L == LargestGrowth
             b == c.balance[u]
  <1>1. PICK i \in 0 .. Len(c.items) - 1 : At(c, i) = u
    BY ListFacts
  <1>2. b <= Low(u) \/ b <= High(u)
    BY <1>1 DEF Credit
  <1>3. b \in Nat /\ M \in Nat /\ L \in Nat /\ L > 0 /\ BalanceCap \in Nat
    BY ListFacts, LargestGrowthIs, LargestSizeIs
  <1>4. CASE u \in Down
    <2>1. Low(u) = L + (BalanceCap - 1) /\ High(u) = L + (BalanceCap - 1)
      BY <1>4 DEF Low, High
    <2> HIDE DEF M, L, b
    <2>2. b < L + BalanceCap
      BY <1>2, <1>3, <2>1
    <2> QED
      BY <1>4, <2>2 DEF L, b
  <1>5. CASE u \notin Down
    <2>1. Low(u) = M /\ High(u) = L + M
      BY <1>5 DEF Low, High
    <2> HIDE DEF M, L, b
    <2>2. b < L + (M + 1)
      BY <1>2, <1>3, <2>1
    <2> QED
      BY <1>5, <2>2 DEF M, L, b
  <1> QED
    BY <1>4, <1>5

(* No balance of the RRT is more than a refill above what a packet needs,    *)
(* or, for a face that Interests come from, above the cap.                  *)
THEOREM CreditIsBounded == Spec => []CreditBounded
  <1>1. IInv => CreditBounded
    BY CreditMeans DEF IInv, CreditBounded
  <1> QED
    BY <1>1, Invariant, PTL

-----------------------------------------------------------------------------
(* How two faces share the Interests.                                      *)

(* A refill that does not reach the cap is all of the growth.               *)
LEMMA RefillExact ==
    ASSUME NEW b \in Nat, NEW g \in Nat, NEW j \in Nat, RefillOf(b, g, j) < BalanceCap
    PROVE  RefillOf(b, g, j + 1) = b + (j + 1) * g
  <1>0. BalanceCap \in Nat
    BY SelectAssumption
  <1>1. CASE g = 0
    <2>1. (j + 1) * 0 = 0
      OBVIOUS
    <2> QED
      BY <1>1, <2>1 DEF RefillOf
  <1>2. CASE g # 0 /\ b >= BalanceCap
    BY <1>0, <1>2 DEF RefillOf
  <1>3. CASE g # 0 /\ ~(b >= BalanceCap)
    <2> DEFINE q == CeilDiv(BalanceCap - b, g)
    <2>1. q \in Nat /\ g * q >= BalanceCap - b
      <3> DEFINE m == BalanceCap - b
      <3>1. m \in Nat \ {0} /\ g \in Nat \ {0}
        BY <1>0, <1>3
      <3> HIDE DEF m
      <3>2. CeilDiv(m, g) \in 1 .. m /\ g * CeilDiv(m, g) >= m
        BY <3>1, CeilDivIs
      <3> QED
        BY <3>1, <3>2 DEF m
    <2>2. \A i \in Nat : RefillOf(b, g, i) = b + g * Min({i, q})
      BY <1>3 DEF RefillOf
    <2> HIDE DEF q
    <2>3. ASSUME NEW i \in Nat
          PROVE  Min({i, q}) = IF i <= q THEN i ELSE q
      <3> DEFINE S == {i, q}
                 m == Min(S)
      <3>1. S \subseteq Nat /\ S # {} /\ i \in S /\ q \in S
        BY <2>1
      <3> HIDE DEF S
      <3>2. m \in S /\ \A y \in S : m <= y
        BY <3>1, MinIsLeast
      <3> HIDE DEF m
      <3>3. m = IF i <= q THEN i ELSE q
        <4>1. m = i \/ m = q
          BY <3>2 DEF S
        <4>2. m <= i /\ m <= q
          BY <3>1, <3>2
        <4> QED
          BY <2>1, <4>1, <4>2
      <3> QED
        BY <3>3 DEF m, S
    <2>4. j < q
      <3> SUFFICES ASSUME ~(j < q) PROVE FALSE
        OBVIOUS
      <3>1. Min({j, q}) = q
        BY <2>1, <2>3
      <3>2. RefillOf(b, g, j) = b + g * q
        BY <2>2, <3>1
      <3> QED
        BY <1>0, <2>1, <3>2
    <2>5. Min({j + 1, q}) = j + 1
      BY <2>1, <2>3, <2>4
    <2>6. RefillOf(b, g, j + 1) = b + g * (j + 1)
      <3>1. j + 1 \in Nat
        OBVIOUS
      <3> QED
        BY <2>2, <2>5, <3>1
    <2>7. g * (j + 1) = (j + 1) * g
      OBVIOUS
    <2> QED
      BY <2>6, <2>7
  <1> QED
    BY <1>1, <1>2, <1>3

(* So a selection refills faces that Interests do not come from by the same  *)
(* number of growths, whatever the cap.                                    *)
LEMMA RefilledExact ==
    ASSUME NEW c, GoodRrt(c), Credit(c), NEW size \in Dsz, NEW ingress \in Down,
           NEW k, Ending(c, size, ingress, k),
           NEW u \in Faces(c), u \notin Down
    PROVE  k \in Nat /\ Refilled(c, u, k) = c.balance[u] + k * Growth(c, u)
  <1> DEFINE b == c.balance[u]
             g == Growth(c, u)
  <1>1. b \in Nat /\ g \in Nat /\ k \in Nat
    <2>1. k \in Nat
      BY ListFacts, LargestSizeIs DEF Ending, Passes, FirstPass
    <2> QED
      BY <2>1, ListFacts, GrowthIs
  <1>2. \A j : Refilled(c, u, j) = RefillOf(b, g, j)
    BY DEF Refilled, RefillOf
  <1>3. PICK i \in 0 .. Len(c.items) - 1 : At(c, i) = u
    BY ListFacts
  <1>4. CASE k = 0
    <2>1. Refilled(c, u, 0) = b
      BY <1>1, RefilledIs
    <2>2. 0 * g = 0 /\ b + 0 = b
      BY <1>1
    <2> QED
      BY <1>1, <1>4, <2>1, <2>2
  <1>5. CASE k # 0
    <2> DEFINE j == k - 1
    <2>1. j \in Nat /\ j + 1 = k
      BY <1>1, <1>5
    <2>2. Refilled(c, u, j) <= Max(Dsz)
      BY <1>3, <1>5, PassedOver
    <2>3. Refilled(c, u, j) \in Nat
      BY <2>1, RefilledIs
    <2> HIDE DEF j, b, g
    <2>4. RefillOf(b, g, j) < BalanceCap
      <3> DEFINE r == RefillOf(b, g, j)
      <3>1. r \in Nat /\ r <= Max(Dsz)
        BY <1>2, <2>2, <2>3
      <3> HIDE DEF r
      <3>2. r < BalanceCap
        BY <3>1, LargestSizeIs
      <3> QED
        BY <3>2 DEF r
    <2>5. RefillOf(b, g, j + 1) = b + (j + 1) * g
      BY <1>1, <2>1, <2>4, RefillExact
    <2> QED
      BY <1>1, <1>2, <2>1, <2>5 DEF b, g
  <1> QED
    BY <1>1, <1>4, <1>5

(* What a selection does to the balances of such faces.                     *)
Shifted(c, r, k, size) ==
    /\ r.table.rate = c.rate /\ r.table.total = c.total /\ r.table.items = c.items
    /\ r.face = NoFace \/ r.face \in Faces(c)
    /\ \A u \in Faces(c) : r.table.balance[u]
           = (c.balance[u] + k * Growth(c, u)) - (IF u = r.face THEN size ELSE 0)

LEMMA SelectionShifts ==
    ASSUME NEW c, GoodRrt(c), Credit(c), Len(c.items) > 0, Faces(c) \cap Down = {},
           NEW size \in Dsz, NEW ingress \in Down,
           NEW r, r = SelectNextFace(c, size, ingress)
    PROVE  \E k \in Nat : Shifted(c, r, k, size)
  <1>1. PICK k : /\ Ending(c, size, ingress, k)
                 /\ \/ \E i : /\ TakesAt(c, size, ingress, k, i)
                              /\ r.face = At(c, i)
                              /\ Left(c, r.table, i, [FullAt(c, k) EXCEPT ![At(c, i)] = @ - size])
                    \/ r.face = NoFace /\ Left(c, r.table, Len(c.items), FullAt(c, k))
    BY Outcome
  <1>2. ASSUME NEW u \in Faces(c)
        PROVE  k \in Nat /\ Refilled(c, u, k) = c.balance[u] + k * Growth(c, u)
    <2>1. u \notin Down
      BY <1>2
    <2> QED
      BY <1>1, <2>1, RefilledExact
  <1>3. /\ Len(c.items) \in Nat /\ c.next \in Nat /\ Faces(c) \subseteq Up
        /\ \A i \in 0 .. Len(c.items) - 1 : At(c, i) \in Faces(c)
    BY ListFacts
  <1>4. k \in Nat /\ NoFace \notin Faces(c)
    <2>1. At(c, 0) \in Faces(c)
      BY <1>3
    <2> QED
      BY <1>2, <1>3, <2>1, FaceAssumption DEF Face
  <1>5. FullAt(c, k) = [u \in Faces(c) |-> c.balance[u] + k * Growth(c, u)]
    BY <1>2 DEF FullAt
  <1>6. \A u \in Faces(c) : c.balance[u] + k * Growth(c, u) \in Int
    <2> SUFFICES ASSUME NEW u \in Faces(c) PROVE c.balance[u] + k * Growth(c, u) \in Int
      OBVIOUS
    <2>1. c.balance[u] \in Nat /\ Growth(c, u) \in Nat
      BY ListFacts, GrowthIs
    <2> QED
      BY <1>4, <2>1, Distributes
  <1> DEFINE e(u) == c.balance[u] + k * Growth(c, u)
             full == [u \in Faces(c) |-> e(u)]
  <1>7. FullAt(c, k) = full /\ \A u \in Faces(c) : full[u] = e(u) /\ e(u) \in Int
    BY <1>5, <1>6
  <1> HIDE DEF e
  <1>8. ASSUME NEW i, TakesAt(c, size, ingress, k, i), r.face = At(c, i),
               Left(c, r.table, i, [full EXCEPT ![At(c, i)] = @ - size])
        PROVE  Shifted(c, r, k, size)
    <2>1. i \in 0 .. Len(c.items) - 1
      BY <1>3, <1>8 DEF TakesAt, Positions
    <2>2. r.face \in Faces(c)
      BY <1>3, <1>8, <2>1
    <2>3. size \in Nat
      BY LargestSizeIs
    <2>4. \A u \in Faces(c) : r.table.balance[u] = e(u) - (IF u = r.face THEN size ELSE 0)
      BY <1>7, <1>8, <2>2, <2>3 DEF Left
    <2>5. r.table.rate = c.rate /\ r.table.total = c.total /\ r.table.items = c.items
      BY <1>8 DEF Left
    <2> QED
      BY <2>2, <2>4, <2>5 DEF Shifted, e
  <1>9. ASSUME r.face = NoFace, Left(c, r.table, Len(c.items), full)
        PROVE  Shifted(c, r, k, size)
    <2>1. \A u \in Faces(c) : u # r.face /\ r.table.balance[u] = e(u) /\ e(u) - 0 = e(u)
      BY <1>4, <1>7, <1>9 DEF Left
    <2>2. \A u \in Faces(c) : r.table.balance[u] = e(u) - (IF u = r.face THEN size ELSE 0)
      BY <2>1
    <2>3. r.table.rate = c.rate /\ r.table.total = c.total /\ r.table.items = c.items
      BY <1>9 DEF Left
    <2> QED
      BY <1>9, <2>2, <2>3 DEF Shifted, e
  <1> QED
    BY <1>1, <1>4, <1>7, <1>8, <1>9
(* A balance times the growth of the other face, less the same with the     *)
(* faces exchanged: a refill of both does not change it.                    *)
Offset(c) == c.balance[First] * Growth(c, Second) - c.balance[Second] * Growth(c, First)

(* What was asked for since the rates changed, and the balances that are    *)
(* left, add up to the balances there were then.                           *)
SharesBalance(c, l) ==
    Faces(c) = Up =>
        \E x, y \in 0 .. Max(Dsz) + Quantum :
            l + Offset(c) = x * Growth(c, Second) - y * Growth(c, First)

LEMMA HopsOf ==
    ASSUME TwoHops, NEW c, GoodRrt(c), Credit(c), Faces(c) = Up
    PROVE  /\ First \in Faces(c) /\ Second \in Faces(c) /\ \A u \in Faces(c) : u = First \/ u = Second
           /\ Len(c.items) \in Nat /\ Len(c.items) > 1 /\ Faces(c) \cap Down = {}
           /\ \A u \in Faces(c) : Growth(c, u) \in Nat /\ c.balance[u] \in 0 .. Max(Dsz) + Quantum
  <1>1. First \in Up /\ Second \in Up /\ \A u \in Up : u = First \/ u = Second
    <2>1. DOMAIN NextHops = {1, 2}
      BY FaceAssumption DEF TwoHops
    <2> QED
      BY <2>1 DEF Up, Range, First, Second
  <1>2. Len(c.items) \in Nat /\ Len(c.items) > 1
    <2>1. PICK i \in 0 .. Len(c.items) - 1 : At(c, i) = First
      BY <1>1, ListFacts
    <2>2. PICK j \in 0 .. Len(c.items) - 1 : At(c, j) = Second
      BY <1>1, ListFacts
    <2>3. i # j
      BY <2>1, <2>2 DEF TwoHops
    <2>4. Len(c.items) \in Nat
      BY ListFacts
    <2> QED
      BY <2>3, <2>4
  <1>3. ASSUME NEW u \in Faces(c)
        PROVE  Growth(c, u) \in Nat /\ c.balance[u] \in 0 .. Max(Dsz) + Quantum
    <2>1. u \notin Down
      BY <1>3 DEF TwoHops
    <2>2. c.balance[u] < LargestGrowth + (Max(Dsz) + 1)
      BY <2>1, CreditMeans
    <2>3. LargestGrowth = Quantum
      BY DEF LargestGrowth, TwoHops
    <2>4. c.balance[u] \in Nat /\ Quantum \in Nat /\ Max(Dsz) \in Nat
      BY ListFacts, LargestSizeIs, SelectAssumption
    <2>5. c.balance[u] \in 0 .. Max(Dsz) + Quantum
      <3> DEFINE b == c.balance[u]
                 M == Max(Dsz)
      <3>1. b \in Nat /\ Quantum \in Nat /\ M \in Nat /\ b < Quantum + (M + 1)
        BY <2>2, <2>3, <2>4
      <3> HIDE DEF b, M
      <3>2. b \in 0 .. M + Quantum
        BY <3>1
      <3> QED
        BY <3>2 DEF b, M
    <2> QED
      BY <2>5, GrowthIs
  <1> QED
    BY <1>1, <1>2, <1>3 DEF TwoHops

LEMMA SharesStart ==
    ASSUME TwoHops, NEW c, GoodRrt(c), Credit(c)
    PROVE  SharesBalance(c, 0)
  <1> SUFFICES ASSUME Faces(c) = Up
               PROVE  \E x, y \in 0 .. Max(Dsz) + Quantum :
                          0 + Offset(c) = x * Growth(c, Second) - y * Growth(c, First)
    BY DEF SharesBalance
  <1>1. /\ c.balance[First] \in 0 .. Max(Dsz) + Quantum /\ c.balance[Second] \in 0 .. Max(Dsz) + Quantum
        /\ Growth(c, First) \in Nat /\ Growth(c, Second) \in Nat
    BY HopsOf
  <1>2. Offset(c) \in Int /\ 0 + Offset(c) = Offset(c)
    <2> DEFINE a == c.balance[First] * Growth(c, Second)
               b == c.balance[Second] * Growth(c, First)
    <2>1. a \in Int /\ b \in Int
      BY <1>1, LargestSizeIs, SelectAssumption, Distributes
    <2>2. Offset(c) = a - b
      BY DEF Offset
    <2> HIDE DEF a, b
    <2> QED
      BY <2>1, <2>2
  <1> QED
    BY <1>1, <1>2 DEF Offset

(* Growths and balances of faces that stay decide the rest.                 *)
LEMMA SharesSame ==
    ASSUME TwoHops, NEW c, GoodRrt(c), Credit(c), NEW l, SharesBalance(c, l),
           NEW d, d.rate = c.rate, d.total = c.total, d.items = c.items,
           \A u \in Faces(c) : d.balance[u] = c.balance[u]
    PROVE  SharesBalance(d, l)
  <1> SUFFICES ASSUME Faces(d) = Up
               PROVE  \E x, y \in 0 .. Max(Dsz) + Quantum :
                          l + Offset(d) = x * Growth(d, Second) - y * Growth(d, First)
    BY DEF SharesBalance
  <1>1. Faces(c) = Up
    BY DEF Faces
  <1>2. \A u : Growth(d, u) = Growth(c, u)
    BY DEF Growth
  <1>3. Offset(d) = Offset(c)
    BY <1>1, <1>2, HopsOf DEF Offset
  <1> QED
    BY <1>1, <1>2, <1>3 DEF SharesBalance

LEMMA Exchange ==
    ASSUME NEW l \in Int, NEW a \in Int, NEW b \in Int, NEW g \in Int, NEW h \in Int,
           NEW k \in Int, NEW s \in Int, NEW t \in Int
    PROVE  (l + (s * h - t * g)) + (((a + k * g) - s) * h - ((b + k * h) - t) * g)
               = l + (a * h - b * g)
  OBVIOUS

LEMMA SharesShift ==
    ASSUME TwoHops, NEW c, GoodRrt(c), Credit(c), NEW l \in Int, SharesBalance(c, l),
           NEW r, NEW k \in Nat, NEW size \in Dsz, Shifted(c, r, k, size)
    PROVE  LET g == Growth(c, First)
               h == Growth(c, Second)
           IN Faces(c) = Up => SharesBalance(r.table, l + (IF r.face = First THEN size * h
                                      ELSE IF r.face = Second THEN -(size * g) ELSE 0))
  <1> SUFFICES ASSUME Faces(c) = Up
               PROVE  SharesBalance(r.table, l + (IF r.face = First THEN size * Growth(c, Second)
                          ELSE IF r.face = Second THEN -(size * Growth(c, First)) ELSE 0))
    OBVIOUS
  <1> DEFINE g == Growth(c, First)
             h == Growth(c, Second)
             a == c.balance[First]
             b == c.balance[Second]
             d == r.table
             s == IF r.face = First THEN size ELSE 0
             t == IF r.face = Second THEN size ELSE 0
             m == l + (IF r.face = First THEN size * h ELSE IF r.face = Second THEN -(size * g) ELSE 0)
  <1>1. /\ g \in Int /\ h \in Int /\ a \in Int /\ b \in Int /\ size \in Int
        /\ First \in Faces(c) /\ Second \in Faces(c)
    BY HopsOf, LargestSizeIs, SelectAssumption
  <1>2. First # Second
    BY DEF TwoHops
  <1>3. d.balance[First] = (a + k * g) - s /\ d.balance[Second] = (b + k * h) - t
    BY <1>1 DEF Shifted
  <1>4. \A u : Growth(d, u) = Growth(c, u)
    BY DEF Shifted, Growth
  <1>5. s \in Int /\ t \in Int
    BY <1>1
  <1> HIDE DEF g, h, a, b, d
  <1>6. m = l + (s * h - t * g)
    <2>1. 0 * h = 0 /\ 0 * g = 0 /\ size * h \in Int /\ size * g \in Int
      BY <1>1, Distributes
    <2>2. CASE r.face = First
      BY <1>2, <2>1, <2>2
    <2>3. CASE r.face = Second
      BY <1>2, <2>1, <2>3
    <2>4. CASE r.face # First /\ r.face # Second
      BY <2>1, <2>4
    <2> QED
      BY <2>2, <2>3, <2>4
  <1> HIDE DEF s, t, m
  <1>7. m + Offset(d) = l + Offset(c)
    <2>1. Offset(d) = ((a + k * g) - s) * h - ((b + k * h) - t) * g
      BY <1>3, <1>4 DEF Offset, g, h
    <2>2. Offset(c) = a * h - b * g
      BY DEF Offset, a, b, g, h
    <2>3. (l + (s * h - t * g)) + (((a + k * g) - s) * h - ((b + k * h) - t) * g) = l + (a * h - b * g)
      BY <1>1, <1>5, Exchange
    <2> QED
      BY <1>6, <2>1, <2>2, <2>3
  <1>8. PICK x \in 0 .. Max(Dsz) + Quantum, y \in 0 .. Max(Dsz) + Quantum :
            l + Offset(c) = x * Growth(c, Second) - y * Growth(c, First)
    BY DEF SharesBalance
  <1>9. SharesBalance(d, m)
    BY <1>4, <1>7, <1>8 DEF SharesBalance
  <1> QED
    BY <1>9 DEF d, m, g, h
(* The selection of a node that knows both hops is selectNextFace's.        *)
LEMMA ReadySelection ==
    ASSUME TwoHops, GoodRrt(rrt), Credit(rrt), Ready, NEW f, NEW s
    PROVE  SelectFaceByRatio(f, s) = SelectNextFace(rrt, s, f)
  <1> DEFINE n == Len(rrt.items)
  <1>1. n \in Nat /\ n > 1
    BY HopsOf DEF Ready
  <1>2. rrt.items # << >>
    BY <1>1
  <1>3. Prepared(rrt) = rrt
    BY <1>2 DEF Prepared
  <1> HIDE DEF n
  <1>4. n # 0 /\ n # 1
    BY <1>1
  <1>5. ASSUME NEW c, c = rrt
        PROVE  (IF Len(c.items) = 0 THEN [face |-> NoFace, table |-> c]
                ELSE IF Len(c.items) = 1 THEN [face |-> IF At(c, 0) = f THEN NoFace ELSE At(c, 0), table |-> c]
                ELSE SelectNextFace(c, s, f)) = SelectNextFace(rrt, s, f)
    BY <1>4, <1>5 DEF n
  <1> QED
    BY <1>3, <1>5 DEF SelectFaceByRatio

LeadInv == lead \in Int /\ SharesBalance(rrt, lead)

LEMMA LeadInit1 == TwoHops /\ LeadInit => IInv /\ LeadInv
  <1> SUFFICES ASSUME TwoHops, LeadInit PROVE IInv /\ LeadInv
    OBVIOUS
  <1>1. IInv /\ lead = 0
    BY InitIInv DEF LeadInit
  <1>2. SharesBalance(rrt, 0)
    BY <1>1, SharesStart DEF IInv
  <1> QED
    BY <1>1, <1>2 DEF LeadInv

(* A face that has a rate keeps its place and its balance.                  *)
LEMMA RecommendAgain ==
    ASSUME NEW c, GoodRrt(c), NEW f \in Up, NEW r \in 0 .. Wrap - 1,
           NEW d, d = Recommend(c, f, r), Faces(d) = Faces(c)
    PROVE  d.items = c.items /\ \A u \in Faces(c) : d.balance[u] = c.balance[u]
  <1>1. /\ GoodRrt(d) /\ Faces(d) = Faces(c) \cup {f}
        /\ d.rate = [g \in Faces(c) \cup {f} |-> IF g = f THEN r ELSE c.rate[g]]
        /\ d.items = ItemsAfter(c, f) /\ d.next = c.next
        /\ d.balance = [g \in Faces(c) \cup {f} |-> IF g \in Faces(c) THEN c.balance[g] ELSE 0]
    BY RecommendGood
  <1>2. f \in Faces(c)
    BY <1>1
  <1> QED
    BY <1>1, <1>2 DEF ItemsAfter

LEMMA LeadNextIsNext == LeadNext => Next
  BY DEF LeadNext, Next

LEMMA LeadNext1 == TwoHops /\ IInv /\ LeadInv /\ [LeadNext]_<<vars, lead>> => IInv' /\ LeadInv'
  <1> SUFFICES ASSUME TwoHops, IInv, LeadInv, [LeadNext]_<<vars, lead>>
               PROVE  IInv' /\ LeadInv'
    OBVIOUS
  <1>0. GoodRrt(rrt) /\ Credit(rrt) /\ lead \in Int /\ SharesBalance(rrt, lead)
    BY DEF IInv, LeadInv
  <1>1. IInv'
    BY LeadNextIsNext, NextIInv
  <1> DEFINE d == rrt'
  <1>2. GoodRrt(d) /\ Credit(d)
    BY <1>1 DEF IInv, GoodRrt, RRT, Kept, Listed, Credit, Usual, Faces, At
  <1>3. SUFFICES lead' \in Int /\ SharesBalance(d, lead')
    BY <1>1 DEF LeadInv, SharesBalance, Offset, Faces, Growth
  <1>4. ASSUME lead' = 0 PROVE lead' \in Int /\ SharesBalance(d, lead')
    <2> HIDE DEF d
    <2> QED
      BY <1>2, <1>4, SharesStart
  <1>5. ASSUME NEW f \in Down, NEW r \in Rate, NEW s \in Dsz, AfterReceiveInterest(f, r, s),
               lead' = IF Ready THEN Lead(SelectFaceByRatio(f, s).face, s) ELSE 0
        PROVE  lead' \in Int /\ SharesBalance(d, lead')
    <2>1. CASE Ready
      <3> DEFINE q == SelectNextFace(rrt, s, f)
                 g == Growth(rrt, First)
                 h == Growth(rrt, Second)
                 m == lead + (IF q.face = First THEN s * h ELSE IF q.face = Second THEN -(s * g) ELSE 0)
      <3>1. SelectFaceByRatio(f, s) = q
        BY <1>0, <2>1, ReadySelection
      <3>2. Faces(rrt) = Up /\ Len(rrt.items) \in Nat /\ Len(rrt.items) > 1 /\ Faces(rrt) \cap Down = {}
            /\ g \in Int /\ h \in Int
        BY <1>0, <2>1, HopsOf DEF Ready
      <3>3. PICK k \in Nat : Shifted(rrt, q, k, s)
        <4>1. Len(rrt.items) > 0
          BY <3>2
        <4> QED
          BY <1>0, <3>2, <4>1, SelectionShifts
      <3>4. d = q.table
        BY <1>5, <3>1 DEF AfterReceiveInterest
      <3>5. lead' = Lead(q.face, s)
        BY <1>5, <2>1, <3>1
      <3>6. lead' = m /\ m \in Int
        <4>1. s * h \in Int /\ s * g \in Int /\ lead \in Int
          BY <1>0, <3>2, LargestSizeIs, Distributes
        <4>2. lead' = IF q.face = First THEN lead + s * h ELSE IF q.face = Second THEN lead - s * g ELSE lead
          BY <3>5 DEF Lead, TwoHops
        <4> HIDE DEF q, g, h
        <4> QED
          BY <4>1, <4>2
      <3>7. SharesBalance(q.table, m)
        <4> HIDE DEF q
        <4> QED
          BY <1>0, <3>2, <3>3, SharesShift
      <3> QED
        BY <3>4, <3>6, <3>7
    <2>2. CASE ~Ready
      BY <1>4, <1>5, <2>2
    <2> QED
      BY <2>1, <2>2
  <1>6. ASSUME \/ \E f \in Up \ Local, r \in Rate : BeforeSatisfyInterest(f, r)
               \/ PeriodicCleaning,
               lead' = IF rrt'.rate = rrt.rate THEN lead ELSE 0
        PROVE  lead' \in Int /\ SharesBalance(d, lead')
    <2>1. CASE rrt'.rate = rrt.rate
      <3>1. d.rate = rrt.rate /\ Faces(d) = Faces(rrt) /\ lead' = lead
        BY <1>6, <2>1 DEF Faces
      <3>2. d.total = rrt.total
        BY <1>0, <1>2, <3>1 DEF GoodRrt, Kept
      <3>3. d.items = rrt.items /\ \A u \in Faces(rrt) : d.balance[u] = rrt.balance[u]
        <4>1. ASSUME NEW f \in Up, NEW r \in Rate, BeforeSatisfyInterest(f, r)
              PROVE  d.items = rrt.items /\ \A u \in Faces(rrt) : d.balance[u] = rrt.balance[u]
          <5>1. d = Recommend(rrt, f, r) /\ r \in 0 .. Wrap - 1
            BY <4>1, LargestRateIs DEF BeforeSatisfyInterest
          <5> HIDE DEF d
          <5> QED
            BY <1>0, <3>1, <5>1, RecommendAgain
        <4>2. ASSUME PeriodicCleaning
              PROVE  d.items = rrt.items /\ \A u \in Faces(rrt) : d.balance[u] = rrt.balance[u]
          <5>1. d = ResetSilent(rrt)
            BY <4>2 DEF PeriodicCleaning
          <5> HIDE DEF d
          <5> QED
            BY <1>0, <5>1, ResetGood
        <4> QED
          BY <1>6, <4>1, <4>2
      <3> HIDE DEF d
      <3>4. SharesBalance(d, lead)
        BY <1>0, <3>1, <3>2, <3>3, SharesSame
      <3> QED
        BY <1>0, <3>1, <3>4
    <2>2. CASE ~(rrt'.rate = rrt.rate)
      BY <1>4, <1>6, <2>2
    <2> QED
      BY <2>1, <2>2
  <1>7. ASSUME UNCHANGED <<vars, lead>> PROVE lead' \in Int /\ SharesBalance(d, lead')
    BY <1>0, <1>7 DEF vars
  <1> QED
    BY <1>5, <1>6, <1>7 DEF LeadNext

(* x and a within b make a difference of products within b times both.      *)
LEMMA DebtIs ==
    ASSUME NEW l \in Int, NEW b \in Nat, NEW g \in Nat, NEW h \in Nat,
           NEW x \in 0 .. b, NEW y \in 0 .. b, NEW p \in 0 .. b, NEW q \in 0 .. b,
           l + (p * h - q * g) = x * h - y * g
    PROVE  l <= b * g + b * h /\ -l <= b * g + b * h
  <1>1. \A z \in 0 .. b : 0 <= z * h /\ z * h <= b * h /\ 0 <= z * g /\ z * g <= b * g
    <2> SUFFICES ASSUME NEW z \in 0 .. b
                 PROVE  0 <= z * h /\ z * h <= b * h /\ 0 <= z * g /\ z * g <= b * g
      OBVIOUS
    <2>1. h * 0 <= h * z /\ h * z <= h * b /\ g * 0 <= g * z /\ g * z <= g * b
      BY ProductsOrdered
    <2>2. h * 0 = 0 /\ g * 0 = 0 /\ h * z = z * h /\ g * z = z * g /\ h * b = b * h /\ g * b = b * g
      BY Distributes
    <2> QED
      BY <2>1, <2>2
  <1> DEFINE xh == x * h
             yg == y * g
             ph == p * h
             qg == q * g
             bg == b * g
             bh == b * h
  <1>2. /\ xh \in Int /\ yg \in Int /\ ph \in Int /\ qg \in Int /\ bg \in Int /\ bh \in Int
        /\ 0 <= xh /\ xh <= bh /\ 0 <= yg /\ yg <= bg /\ 0 <= ph /\ ph <= bh /\ 0 <= qg /\ qg <= bg
        /\ l + (ph - qg) = xh - yg
    BY <1>1
  <1> HIDE DEF xh, yg, ph, qg, bg, bh
  <1>3. l <= bg + bh /\ -l <= bg + bh
    BY <1>2
  <1> QED
    BY <1>3 DEF bg, bh

(* Two next hops share the Interests in proportion to what they recommend,  *)
(* for all rates, sizes, quanta and caps: neither gets ahead by more than    *)
(* the balances that a refill and a packet can leave.                       *)
THEOREM SplitIsProportional ==
    ASSUME TwoHops
    PROVE  LeadSpec => []ProportionalSplit
  <1>1. LeadInit => IInv /\ LeadInv
    BY LeadInit1
  <1>2. (IInv /\ LeadInv) /\ [LeadNext]_<<vars, lead>> => (IInv /\ LeadInv)'
    BY LeadNext1
  <1>3. IInv /\ LeadInv => ProportionalSplit
    <2> SUFFICES ASSUME IInv, LeadInv, Ready
                 PROVE  /\ lead <= Debt(First, Second) + Debt(Second, First)
                        /\ -lead <= Debt(First, Second) + Debt(Second, First)
      BY DEF ProportionalSplit
    <2> DEFINE B == Max(Dsz) + Quantum
               g == Growth(rrt, First)
               h == Growth(rrt, Second)
               p == rrt.balance[First]
               q == rrt.balance[Second]
    <2>1. GoodRrt(rrt) /\ Credit(rrt) /\ lead \in Int /\ SharesBalance(rrt, lead) /\ Faces(rrt) = Up
      BY DEF IInv, LeadInv, Ready
    <2>2. PICK x \in 0 .. B, y \in 0 .. B : lead + Offset(rrt) = x * h - y * g
      BY <2>1 DEF SharesBalance
    <2>3. g \in Nat /\ h \in Nat /\ p \in 0 .. B /\ q \in 0 .. B
      BY <2>1, HopsOf
    <2>4. B \in Nat
      BY LargestSizeIs, SelectAssumption
    <2>5. Offset(rrt) = p * h - q * g
      BY DEF Offset
    <2>6. Debt(First, Second) = B * g /\ Debt(Second, First) = B * h
      BY DEF Debt
    <2> HIDE DEF B, g, h, p, q
    <2>7. lead <= B * g + B * h /\ -lead <= B * g + B * h
      BY <2>1, <2>2, <2>3, <2>4, <2>5, DebtIs
    <2> QED
      BY <2>6, <2>7
  <1> QED
    BY <1>1, <1>2, <1>3, PTL DEF LeadSpec
=============================================================================
