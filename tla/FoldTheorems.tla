---------------------------- MODULE FoldTheorems ---------------------------
(***************************************************************************)
(* Facts about sums and folds over finite sets.  Induction over a finite    *)
(* set is done by a smallest counterexample (Smallest): a set of subsets    *)
(* that is not empty has an element none of whose proper subsets is in it.  *)
(* That needs no theorem with an operator as parameter.                    *)
(***************************************************************************)
EXTENDS Integers, FiniteSetsExt, Functions, FiniteSetTheorems, TLAPS

(* A set of subsets of a finite set has one that is smallest.               *)
LEMMA Smallest ==
    ASSUME NEW S, IsFiniteSet(S), NEW Bad \in SUBSET SUBSET S, Bad # {}
    PROVE  \E T \in Bad : \A U \in Bad : ~(U \subseteq T /\ U # T)
  <1>1. FiniteSubsetsOf(S) = SUBSET S
    BY FS_FiniteSubsetsOfFinite
  <1>2. IsWellFoundedOn(StrictSubsetOrdering(S), SUBSET S)
    BY <1>1, FS_StrictSubsetOrderingWellFounded
  <1>3. PICK T \in Bad : \A U \in Bad : <<U, T>> \notin StrictSubsetOrdering(S)
    BY <1>2, WFMin
  <1> QED
    BY <1>3 DEF StrictSubsetOrdering

-----------------------------------------------------------------------------
(* The recursive function that SumFunctionOnSet chooses exists.             *)

Pick(T) == CHOOSE x \in T : TRUE
Row(g, t, T) == IF T = {} THEN 0 ELSE g[Pick(T)] + t[T \ {Pick(T)}]
IsTable(g, S, t) == t = [T \in SUBSET S |-> Row(g, t, T)]

LEMMA SumIsChosen ==
    ASSUME NEW g, NEW S
    PROVE  SumFunctionOnSet(g, S) = (CHOOSE t : IsTable(g, S, t))[S]
  BY DEF SumFunctionOnSet, FoldFunctionOnSet, MapThenFoldSet, IsTable, Row, Pick

LEMMA PickIn == ASSUME NEW T, T # {} PROVE Pick(T) \in T
  BY DEF Pick

LEMMA TableRow ==
    ASSUME NEW g, NEW S, NEW t, IsTable(g, S, t), NEW T \in SUBSET S
    PROVE  t[T] = IF T = {} THEN 0 ELSE g[Pick(T)] + t[T \ {Pick(T)}]
  <1>1. t[T] = Row(g, t, T)
    BY DEF IsTable
  <1> QED
    BY <1>1 DEF Row

(* Tables of two sets agree on what both contain.                           *)
LEMMA TablesAgree ==
    ASSUME NEW g, NEW S, NEW R, IsFiniteSet(S), NEW t, NEW u,
           IsTable(g, S, t), IsTable(g, R, u), NEW T, T \subseteq S, T \subseteq R
    PROVE  t[T] = u[T]
  <1> DEFINE Bad == {U \in SUBSET S : U \subseteq R /\ t[U] # u[U]}
  <1> SUFFICES ASSUME Bad # {} PROVE FALSE
    OBVIOUS
  <1>0. Bad \in SUBSET SUBSET S
    OBVIOUS
  <1> HIDE DEF Bad
  <1>1. PICK U \in Bad : \A V \in Bad : ~(V \subseteq U /\ V # U)
    BY <1>0, Smallest
  <1>2. U \subseteq S /\ U \subseteq R /\ t[U] # u[U]
    BY DEF Bad
  <1>3. U # {}
    <2> SUFFICES ASSUME U = {} PROVE FALSE
      OBVIOUS
    <2>1. t[U] = 0
      BY <1>2, TableRow
    <2>2. u[U] = 0
      BY <1>2, TableRow
    <2> QED
      BY <1>2, <2>1, <2>2
  <1> DEFINE V == U \ {Pick(U)}
  <1>4. V \subseteq U /\ V # U
    BY <1>3, PickIn
  <1>5. t[V] = u[V]
    BY <1>1, <1>2, <1>4 DEF Bad
  <1>6. t[U] = g[Pick(U)] + t[V]
    BY <1>2, <1>3, TableRow
  <1>7. u[U] = g[Pick(U)] + u[V]
    BY <1>2, <1>3, TableRow
  <1> QED
    BY <1>2, <1>5, <1>6, <1>7

LEMMA TableExists ==
    ASSUME NEW g, NEW S, IsFiniteSet(S)
    PROVE  \E t : IsTable(g, S, t)
  <1> DEFINE Bad == {T \in SUBSET S : ~ \E t : IsTable(g, T, t)}
  <1> SUFFICES ASSUME Bad # {} PROVE FALSE
    OBVIOUS
  <1>0. Bad \in SUBSET SUBSET S
    OBVIOUS
  <1> HIDE DEF Bad
  <1>1. PICK T \in Bad : \A U \in Bad : ~(U \subseteq T /\ U # T)
    BY <1>0, Smallest
  <1>2. T \subseteq S /\ ~ \E t : IsTable(g, T, t)
    BY DEF Bad
  <1>3. \A U : U \subseteq T /\ U # T => \E t : IsTable(g, U, t)
    BY <1>1, <1>2 DEF Bad
  <1> DEFINE Tab(V) == CHOOSE t : IsTable(g, V, t)
             low == [V \in SUBSET T |-> Tab(V)[V]]
             t == [U \in SUBSET T |-> Row(g, low, U)]
  <1>4. \A V : V \subseteq T /\ V # T => IsTable(g, V, Tab(V))
    BY <1>3
  <1> HIDE DEF Tab
  <1>5. ASSUME NEW V, V \subseteq T, V # T
        PROVE  t[V] = Tab(V)[V]
    <2>1. Tab(V)[V] = IF V = {} THEN 0 ELSE g[Pick(V)] + Tab(V)[V \ {Pick(V)}]
      BY <1>4, <1>5, TableRow
    <2>2. t[V] = IF V = {} THEN 0 ELSE g[Pick(V)] + low[V \ {Pick(V)}]
      BY <1>5 DEF Row
    <2>3. ASSUME V # {} PROVE Tab(V)[V \ {Pick(V)}] = low[V \ {Pick(V)}]
      <3> DEFINE W == V \ {Pick(V)}
      <3>1. W \subseteq V /\ W \subseteq T /\ W # T
        BY <1>5, <2>3, PickIn
      <3>2. IsFiniteSet(V)
        BY <1>2, <1>5, FS_Subset
      <3>3. Tab(V)[W] = Tab(W)[W]
        BY <1>4, <1>5, <3>1, <3>2, TablesAgree
      <3> QED
        BY <3>1, <3>3
    <2> QED
      BY <2>1, <2>2, <2>3
  <1>6. ASSUME NEW U \in SUBSET T PROVE Row(g, low, U) = Row(g, t, U)
    <2>1. CASE U = {}
      BY <2>1 DEF Row
    <2>2. CASE U # {}
      <3>1. U \ {Pick(U)} \subseteq T /\ U \ {Pick(U)} # T
        BY <2>2, PickIn
      <3>2. t[U \ {Pick(U)}] = low[U \ {Pick(U)}]
        BY <1>5, <3>1
      <3> QED
        BY <2>2, <3>2 DEF Row
    <2> QED
      BY <2>1, <2>2
  <1>7. IsTable(g, T, t)
    BY <1>6 DEF IsTable
  <1> QED
    BY <1>2, <1>7

-----------------------------------------------------------------------------
(* What a sum is.                                                          *)

LEMMA SumUnfolds ==
    ASSUME NEW g, NEW S, IsFiniteSet(S), S # {}
    PROVE  SumFunctionOnSet(g, S) = g[Pick(S)] + SumFunctionOnSet(g, S \ {Pick(S)})
  <1> DEFINE tab(T) == CHOOSE t : IsTable(g, T, t)
             R == S \ {Pick(S)}
  <1>1. R \subseteq S /\ IsFiniteSet(R)
    BY FS_Subset
  <1>2. IsTable(g, S, tab(S)) /\ IsTable(g, R, tab(R))
    BY <1>1, TableExists
  <1>3. SumFunctionOnSet(g, S) = tab(S)[S] /\ SumFunctionOnSet(g, R) = tab(R)[R]
    BY SumIsChosen
  <1> HIDE DEF tab
  <1>4. tab(S)[S] = g[Pick(S)] + tab(S)[R]
    BY <1>2, TableRow
  <1>5. tab(S)[R] = tab(R)[R]
    BY <1>1, <1>2, TablesAgree
  <1> QED
    BY <1>3, <1>4, <1>5

(* The empty sum, and the sum with one element more.                        *)
THEOREM SumEmpty == \A g : SumFunctionOnSet(g, {}) = 0
  <1> SUFFICES ASSUME NEW g PROVE SumFunctionOnSet(g, {}) = 0
    OBVIOUS
  <1> DEFINE t == CHOOSE t : IsTable(g, {}, t)
  <1>1. IsTable(g, {}, t)
    BY TableExists, FS_EmptySet
  <1>2. SumFunctionOnSet(g, {}) = t[{}]
    BY SumIsChosen
  <1> HIDE DEF t
  <1> QED
    BY <1>1, <1>2, TableRow

(* A sum of integers is an integer.                                        *)
THEOREM SumInt ==
    ASSUME NEW S, IsFiniteSet(S), NEW g, \A x \in S : g[x] \in Int
    PROVE  SumFunctionOnSet(g, S) \in Int
  <1> DEFINE Bad == {T \in SUBSET S : SumFunctionOnSet(g, T) \notin Int}
  <1> SUFFICES ASSUME Bad # {} PROVE FALSE
    OBVIOUS
  <1>0. Bad \in SUBSET SUBSET S
    OBVIOUS
  <1> HIDE DEF Bad
  <1>1. PICK T \in Bad : \A U \in Bad : ~(U \subseteq T /\ U # T)
    BY <1>0, Smallest
  <1>2. T \subseteq S /\ SumFunctionOnSet(g, T) \notin Int /\ IsFiniteSet(T)
    BY FS_Subset DEF Bad
  <1>3. T # {}
    BY <1>2, SumEmpty
  <1>4. Pick(T) \in T
    BY <1>3, PickIn
  <1>5. SumFunctionOnSet(g, T \ {Pick(T)}) \in Int
    BY <1>1, <1>2, <1>4 DEF Bad
  <1>6. g[Pick(T)] \in Int
    BY <1>2, <1>4
  <1> QED
    BY <1>2, <1>3, <1>5, <1>6, SumUnfolds

(* Any element may be taken out.                                           *)
THEOREM SumRemove ==
    ASSUME NEW S, IsFiniteSet(S), NEW g, \A x \in S : g[x] \in Int, NEW x \in S
    PROVE  SumFunctionOnSet(g, S) = g[x] + SumFunctionOnSet(g, S \ {x})
  <1> DEFINE Bad == {T \in SUBSET S : \E y \in T :
                       SumFunctionOnSet(g, T) # g[y] + SumFunctionOnSet(g, T \ {y})}
  <1> SUFFICES ASSUME Bad # {} PROVE FALSE
    OBVIOUS
  <1>0. Bad \in SUBSET SUBSET S
    OBVIOUS
  <1> HIDE DEF Bad
  <1>1. PICK T \in Bad : \A U \in Bad : ~(U \subseteq T /\ U # T)
    BY <1>0, Smallest
  <1>2. T \subseteq S /\ IsFiniteSet(T)
    BY FS_Subset DEF Bad
  <1>3. PICK y \in T : SumFunctionOnSet(g, T) # g[y] + SumFunctionOnSet(g, T \ {y})
    BY DEF Bad
  <1> DEFINE p == Pick(T)
  <1>4. p \in T
    BY <1>3, PickIn
  <1>5. SumFunctionOnSet(g, T) = g[p] + SumFunctionOnSet(g, T \ {p})
    BY <1>2, <1>3, SumUnfolds
  <1> HIDE DEF p
  <1>6. p # y
    BY <1>3, <1>5
  <1> DEFINE r == SumFunctionOnSet(g, (T \ {p}) \ {y})
  <1>7. SumFunctionOnSet(g, T \ {p}) = g[y] + r
    <2>1. T \ {p} \subseteq T /\ T \ {p} # T /\ y \in T \ {p} /\ T \ {p} \in SUBSET S
      BY <1>2, <1>4, <1>6
    <2>2. T \ {p} \notin Bad
      BY <1>1, <2>1
    <2> QED
      BY <2>1, <2>2 DEF Bad
  <1>8. SumFunctionOnSet(g, T \ {y}) = g[p] + r
    <2>1. (T \ {p}) \ {y} = (T \ {y}) \ {p}
      OBVIOUS
    <2>2. T \ {y} \subseteq T /\ T \ {y} # T /\ p \in T \ {y} /\ T \ {y} \in SUBSET S
      BY <1>2, <1>4, <1>6
    <2>3. T \ {y} \notin Bad
      BY <1>1, <2>2
    <2> QED
      BY <2>1, <2>2, <2>3 DEF Bad
  <1>9. r \in Int /\ g[p] \in Int /\ g[y] \in Int
    <2>1. (T \ {p}) \ {y} \subseteq S /\ IsFiniteSet((T \ {p}) \ {y})
      BY <1>2, FS_Subset
    <2> QED
      BY <1>2, <1>4, <2>1, SumInt
  <1> HIDE DEF r
  <1> QED
    BY <1>3, <1>5, <1>7, <1>8, <1>9

(* A sum over a set that has one element more.                              *)
THEOREM SumAdd ==
    ASSUME NEW T, IsFiniteSet(T), NEW x, x \notin T,
           NEW g, \A y \in T \cup {x} : g[y] \in Int
    PROVE  SumFunctionOnSet(g, T \cup {x}) = g[x] + SumFunctionOnSet(g, T)
  <1>1. IsFiniteSet(T \cup {x}) /\ x \in T \cup {x}
    BY FS_AddElement
  <1>2. (T \cup {x}) \ {x} = T
    OBVIOUS
  <1> QED
    BY <1>1, <1>2, SumRemove

-----------------------------------------------------------------------------
(* Induction with a set in place of a predicate.                           *)

(* What holds of {}, and of T with one more element if of T, holds of S.    *)
THEOREM SetInduction ==
    ASSUME NEW S, IsFiniteSet(S), NEW Good, {} \in Good,
           \A T \in SUBSET S : \A x \in S \ T : T \in Good => T \cup {x} \in Good
    PROVE  S \in Good
  <1> DEFINE Bad == (SUBSET S) \ Good
  <1> SUFFICES ASSUME Bad # {} PROVE FALSE
    OBVIOUS
  <1>0. Bad \in SUBSET SUBSET S
    OBVIOUS
  <1> HIDE DEF Bad
  <1>1. PICK T \in Bad : \A U \in Bad : ~(U \subseteq T /\ U # T)
    BY <1>0, Smallest
  <1>2. T \in SUBSET S /\ T \notin Good
    BY DEF Bad
  <1>3. PICK x \in T : TRUE
    BY <1>2
  <1>4. T \ {x} \in SUBSET S /\ x \in S \ (T \ {x}) /\ T \ {x} # T
    BY <1>2
  <1>5. T \ {x} \in Good
    BY <1>1, <1>4 DEF Bad
  <1>6. (T \ {x}) \cup {x} = T
    OBVIOUS
  <1>7. (T \ {x}) \cup {x} \in Good
    BY <1>4, <1>5
  <1> QED
    BY <1>2, <1>6, <1>7

(* What holds of 0, and of n + 1 if of n, holds of every number.            *)
THEOREM NumberInduction ==
    ASSUME NEW Good, 0 \in Good, \A n \in Nat : n \in Good => n + 1 \in Good
    PROVE  \A n \in Nat : n \in Good
  <1> DEFINE Bad == Nat \ Good
  <1> SUFFICES ASSUME Bad # {} PROVE FALSE
    OBVIOUS
  <1>0. Bad \subseteq Nat
    OBVIOUS
  <1> HIDE DEF Bad
  <1>1. PICK n \in Bad : \A m \in Bad : <<m, n>> \notin OpToRel(<, Nat)
    BY <1>0, NatLessThanWellFounded, WFMin
  <1>2. n \in Nat /\ n \notin Good
    BY DEF Bad
  <1>3. n # 0 /\ n - 1 \in Nat /\ n - 1 < n /\ (n - 1) + 1 = n
    BY <1>2
  <1>4. n - 1 \in Good
    <2>1. n - 1 \in Bad => <<n - 1, n>> \in OpToRel(<, Nat)
      BY <1>2, <1>3 DEF OpToRel
    <2> QED
      BY <1>1, <1>3, <2>1 DEF Bad
  <1> QED
    BY <1>2, <1>3, <1>4

-----------------------------------------------------------------------------
(* Sums compared.                                                          *)

(* h is g times k plus f, element by element; so are their sums.            *)
THEOREM SumLinear ==
    ASSUME NEW S, IsFiniteSet(S), NEW f, NEW g, NEW h, NEW k \in Int,
           \A x \in S : f[x] \in Int /\ g[x] \in Int /\ h[x] = k * g[x] + f[x]
    PROVE  SumFunctionOnSet(h, S) = k * SumFunctionOnSet(g, S) + SumFunctionOnSet(f, S)
  <1> DEFINE sf(T) == SumFunctionOnSet(f, T)
             sg(T) == SumFunctionOnSet(g, T)
             sh(T) == SumFunctionOnSet(h, T)
             Good == {T \in SUBSET S : sh(T) = k * sg(T) + sf(T)}
  <1>0. \A x \in S : h[x] \in Int
    OBVIOUS
  <1>1. {} \in Good
    BY SumEmpty
  <1>2. ASSUME NEW T \in SUBSET S, NEW x \in S \ T, T \in Good
        PROVE  T \cup {x} \in Good
    <2>1. IsFiniteSet(T) /\ sf(T) \in Int /\ sg(T) \in Int
      BY FS_Subset, SumInt
    <2>2. /\ sf(T \cup {x}) = f[x] + sf(T)
          /\ sg(T \cup {x}) = g[x] + sg(T)
          /\ sh(T \cup {x}) = h[x] + sh(T)
      BY <1>0, <2>1, SumAdd
    <2>3. sh(T) = k * sg(T) + sf(T)
      BY <1>2
    <2> DEFINE u == sf(T)
               v == sg(T)
               w == sh(T)
    <2>4. h[x] = k * g[x] + f[x] /\ g[x] \in Int /\ f[x] \in Int
      OBVIOUS
    <2>5. ASSUME u \in Int, v \in Int, w = k * v + u
          PROVE  h[x] + w = k * (g[x] + v) + (f[x] + u)
      <3> HIDE DEF u, v, w
      <3>1. k * (g[x] + v) = k * g[x] + k * v /\ k * v \in Int /\ k * g[x] \in Int
        BY <2>4, <2>5
      <3> QED
        BY <2>4, <2>5, <3>1
    <2>6. T \cup {x} \in SUBSET S
      OBVIOUS
    <2> QED
      BY <2>1, <2>2, <2>3, <2>5, <2>6
  <1> HIDE DEF Good
  <1>3. S \in Good
    BY <1>1, <1>2, SetInduction
  <1> QED
    BY <1>3 DEF Good

(* Functions that agree on a set have the same sum there.                   *)
THEOREM SumEqual ==
    ASSUME NEW S, IsFiniteSet(S), NEW g, NEW h, \A x \in S : g[x] \in Int /\ h[x] = g[x]
    PROVE  SumFunctionOnSet(h, S) = SumFunctionOnSet(g, S)
  <1> DEFINE zero == [x \in S |-> 0]
             sz == SumFunctionOnSet(zero, S)
             sg == SumFunctionOnSet(g, S)
             sh == SumFunctionOnSet(h, S)
  <1>1. sg = 0 * sg + sg
    BY SumInt
  <1>2. \A x \in S : zero[x] \in Int /\ h[x] = 1 * g[x] + zero[x] /\ zero[x] = 0 * g[x] + zero[x]
                    /\ zero[x] = 1 * zero[x] + zero[x]
    OBVIOUS
  <1> HIDE DEF zero
  <1>3. sg \in Int /\ sz \in Int
    BY <1>2, SumInt
  <1>4. sh = 1 * sg + sz
    BY <1>2, SumLinear
  <1>5. sz = 1 * sz + sz
    BY <1>2, SumLinear
  <1> HIDE DEF sz, sg, sh
  <1>6. sh = sg
    BY <1>3, <1>4, <1>5
  <1> QED
    BY <1>6 DEF sg, sh

(* Sums of numbers are numbers.                                            *)
THEOREM SumNat ==
    ASSUME NEW S, IsFiniteSet(S), NEW g, \A x \in S : g[x] \in Nat
    PROVE  SumFunctionOnSet(g, S) \in Nat
  <1> DEFINE Good == {T \in SUBSET S : SumFunctionOnSet(g, T) \in Nat}
  <1>1. {} \in Good
    BY SumEmpty
  <1>2. ASSUME NEW T \in SUBSET S, NEW x \in S \ T, T \in Good
        PROVE  T \cup {x} \in Good
    <2>1. IsFiniteSet(T) /\ SumFunctionOnSet(g, T) \in Nat
      BY <1>2, FS_Subset
    <2>2. SumFunctionOnSet(g, T \cup {x}) = g[x] + SumFunctionOnSet(g, T)
      <3>1. x \notin T /\ \A y \in T \cup {x} : g[y] \in Int
        OBVIOUS
      <3> QED
        BY <2>1, <3>1, SumAdd
    <2> QED
      BY <2>1, <2>2
  <1> HIDE DEF Good
  <1>3. S \in Good
    BY <1>1, <1>2, SetInduction
  <1> QED
    BY <1>3 DEF Good

(* If no term of g is above that of h, neither is the sum.                  *)
THEOREM SumAtMost ==
    ASSUME NEW S, IsFiniteSet(S), NEW g, NEW h,
           \A x \in S : g[x] \in Int /\ h[x] \in Int /\ g[x] <= h[x]
    PROVE  SumFunctionOnSet(g, S) <= SumFunctionOnSet(h, S)
  <1> DEFINE d == [x \in S |-> h[x] - g[x]]
             sd == SumFunctionOnSet(d, S)
             sg == SumFunctionOnSet(g, S)
             sh == SumFunctionOnSet(h, S)
  <1>1. /\ \A x \in S : d[x] \in Nat
        /\ \A x \in S : d[x] \in Int /\ g[x] \in Int /\ h[x] = 1 * g[x] + d[x]
    OBVIOUS
  <1> HIDE DEF d
  <1>2. sd \in Nat /\ sg \in Int /\ sh \in Int
    BY <1>1, SumNat, SumInt
  <1>3. sh = 1 * sg + sd
    BY <1>1, SumLinear
  <1> HIDE DEF sd, sg, sh
  <1>4. sg <= sh
    BY <1>2, <1>3
  <1> QED
    BY <1>4 DEF sg, sh

(* The sum over a set is that over a part of it and that over the rest.      *)
THEOREM SumSplit ==
    ASSUME NEW S, IsFiniteSet(S), NEW R, R \subseteq S, NEW g, \A x \in S : g[x] \in Int
    PROVE  SumFunctionOnSet(g, S) = SumFunctionOnSet(g, R) + SumFunctionOnSet(g, S \ R)
  <1> DEFINE s(T) == SumFunctionOnSet(g, T)
             Good == {T \in SUBSET R : s(S) = s(T) + s(S \ T)}
  <1>0. IsFiniteSet(R)
    BY FS_Subset
  <1>1. {} \in Good
    <2>1. S \ {} = S /\ s(S) \in Int
      BY SumInt
    <2> QED
      BY <2>1, SumEmpty
  <1>2. ASSUME NEW T \in SUBSET R, NEW x \in R \ T, T \in Good
        PROVE  T \cup {x} \in Good
    <2> DEFINE U == S \ T
    <2>1. IsFiniteSet(T) /\ IsFiniteSet(U) /\ IsFiniteSet(U \ {x}) /\ x \in U /\ S \ (T \cup {x}) = U \ {x}
      BY <1>2, FS_Subset
    <2>2. s(T \cup {x}) = g[x] + s(T)
      BY <2>1, SumAdd
    <2>3. s(U) = g[x] + s(U \ {x})
      BY <2>1, SumRemove
    <2>4. s(T) \in Int /\ s(U \ {x}) \in Int /\ g[x] \in Int
      BY <2>1, SumInt
    <2>5. s(S) = s(T) + s(U)
      BY <1>2
    <2> HIDE DEF s, U
    <2>6. s(S) = s(T \cup {x}) + s(U \ {x})
      BY <2>2, <2>3, <2>4, <2>5
    <2> QED
      BY <2>1, <2>6 DEF s
  <1> HIDE DEF Good
  <1>3. R \in Good
    BY <1>0, <1>1, <1>2, SetInduction
  <1> QED
    BY <1>3 DEF Good

(* No term is above the sum of numbers.                                    *)
THEOREM SumTerm ==
    ASSUME NEW S, IsFiniteSet(S), NEW g, \A x \in S : g[x] \in Nat, NEW x \in S
    PROVE  g[x] <= SumFunctionOnSet(g, S)
  <1>1. IsFiniteSet(S \ {x})
    BY FS_Subset
  <1>2. SumFunctionOnSet(g, S \ {x}) \in Nat
    BY <1>1, SumNat
  <1>3. SumFunctionOnSet(g, S) = g[x] + SumFunctionOnSet(g, S \ {x})
    BY SumRemove
  <1> QED
    BY <1>2, <1>3

(* A sum of ones counts.                                                   *)
THEOREM SumOnes ==
    ASSUME NEW S, IsFiniteSet(S), NEW g, \A x \in S : g[x] = 1
    PROVE  SumFunctionOnSet(g, S) = Cardinality(S)
  <1> DEFINE Good == {T \in SUBSET S : SumFunctionOnSet(g, T) = Cardinality(T)}
  <1>1. {} \in Good
    BY SumEmpty, FS_EmptySet
  <1>2. ASSUME NEW T \in SUBSET S, NEW x \in S \ T, T \in Good
        PROVE  T \cup {x} \in Good
    <2>1. IsFiniteSet(T) /\ SumFunctionOnSet(g, T) = Cardinality(T)
      BY <1>2, FS_Subset
    <2>2. SumFunctionOnSet(g, T \cup {x}) = g[x] + SumFunctionOnSet(g, T)
      <3>1. x \notin T /\ \A y \in T \cup {x} : g[y] \in Int
        OBVIOUS
      <3> QED
        BY <2>1, <3>1, SumAdd
    <2>3. Cardinality(T) \in Nat /\ Cardinality(T \cup {x}) = Cardinality(T) + 1
      BY <2>1, FS_AddElement, FS_CardinalityType
    <2> QED
      BY <2>1, <2>2, <2>3
  <1> HIDE DEF Good
  <1>3. S \in Good
    BY <1>1, <1>2, SetInduction
  <1> QED
    BY <1>3 DEF Good

-----------------------------------------------------------------------------
(* Folds.  A fold over a set takes out one element, pick[T], after another;  *)
(* its result is an entry of a table of all subsets.                        *)

FoldRow(o, base, pick, t, T) == IF T = {} THEN base ELSE o[<<t[T \ {pick[T]}], pick[T]>>]

IsFold(o, base, pick, S, t) ==
    \A T \in SUBSET S : t[T] = FoldRow(o, base, pick, t, T)

PicksFrom(pick, S) == \A T \in SUBSET S : T # {} => pick[T] \in T

LEMMA FoldsAgree ==
    ASSUME NEW S, IsFiniteSet(S), NEW R \in SUBSET S, NEW o, NEW base, NEW pick, PicksFrom(pick, S),
           NEW t, NEW u, IsFold(o, base, pick, S, t), IsFold(o, base, pick, R, u)
    PROVE  \A T \in SUBSET R : t[T] = u[T]
  <1> DEFINE Bad == {U \in SUBSET R : t[U] # u[U]}
  <1> SUFFICES ASSUME Bad # {} PROVE FALSE
    OBVIOUS
  <1>0. Bad \in SUBSET SUBSET R /\ IsFiniteSet(R)
    BY FS_Subset
  <1> HIDE DEF Bad
  <1>1. PICK U \in Bad : \A V \in Bad : ~(V \subseteq U /\ V # U)
    BY <1>0, Smallest
  <1>2. U \in SUBSET R /\ U \in SUBSET S /\ t[U] # u[U]
    BY DEF Bad
  <1>3. t[U] = FoldRow(o, base, pick, t, U) /\ u[U] = FoldRow(o, base, pick, u, U)
    BY <1>2 DEF IsFold
  <1>4. U # {}
    BY <1>2, <1>3 DEF FoldRow
  <1> DEFINE V == U \ {pick[U]}
  <1>5. V \subseteq U /\ V # U /\ V \in SUBSET R
    BY <1>2, <1>4 DEF PicksFrom
  <1>6. t[V] = u[V]
    BY <1>1, <1>5 DEF Bad
  <1> QED
    BY <1>2, <1>3, <1>4, <1>6 DEF FoldRow

(* Every set fold of a finite set has a value to be chosen.                 *)
THEOREM FoldExists ==
    ASSUME NEW S, IsFiniteSet(S), NEW D, NEW o \in [D \X S -> D], NEW base \in D,
           NEW pick, PicksFrom(pick, S)
    PROVE  \E t \in [SUBSET S -> D] : IsFold(o, base, pick, S, t)
  <1> DEFINE Has(T) == \E t \in [SUBSET T -> D] : IsFold(o, base, pick, T, t)
             Bad == {T \in SUBSET S : ~Has(T)}
  <1> SUFFICES ASSUME Bad # {} PROVE FALSE
    OBVIOUS
  <1>0. Bad \in SUBSET SUBSET S
    OBVIOUS
  <1> HIDE DEF Bad
  <1>1. PICK T \in Bad : \A U \in Bad : ~(U \subseteq T /\ U # T)
    BY <1>0, Smallest
  <1>2. T \in SUBSET S /\ ~Has(T)
    BY DEF Bad
  <1>3. \A U : U \subseteq T /\ U # T => Has(U)
    BY <1>1, <1>2 DEF Bad
  <1> DEFINE tab(V) == CHOOSE t \in [SUBSET V -> D] : IsFold(o, base, pick, V, t)
             low == [V \in SUBSET T |-> tab(V)[V]]
             t == [U \in SUBSET T |-> FoldRow(o, base, pick, low, U)]
  <1>4. ASSUME NEW V, V \subseteq T, V # T
        PROVE  tab(V) \in [SUBSET V -> D] /\ IsFold(o, base, pick, V, tab(V))
    BY <1>3, <1>4
  <1> HIDE DEF tab
  <1>5. ASSUME NEW U \in SUBSET T, U # {}
        PROVE  /\ pick[U] \in U /\ pick[U] \in S
               /\ U \ {pick[U]} \subseteq T /\ U \ {pick[U]} # T
               /\ low[U \ {pick[U]}] \in D
    <2>1. pick[U] \in U /\ pick[U] \in S
      BY <1>2, <1>5 DEF PicksFrom
    <2>2. U \ {pick[U]} \subseteq T /\ U \ {pick[U]} # T
      BY <2>1
    <2>3. tab(U \ {pick[U]}) \in [SUBSET (U \ {pick[U]}) -> D]
      BY <1>4, <2>2
    <2> QED
      BY <2>1, <2>2, <2>3
  <1>6. ASSUME NEW V \in SUBSET T, V # T
        PROVE  t[V] = low[V]
    <2>1. tab(V)[V] = FoldRow(o, base, pick, tab(V), V)
      BY <1>4, <1>6 DEF IsFold
    <2>2. t[V] = FoldRow(o, base, pick, low, V)
      OBVIOUS
    <2>3. ASSUME V # {} PROVE tab(V)[V \ {pick[V]}] = low[V \ {pick[V]}]
      <3> DEFINE W == V \ {pick[V]}
      <3>1. W \subseteq T /\ W # T /\ W \in SUBSET V
        BY <1>5, <2>3
      <3>2. IsFiniteSet(V) /\ PicksFrom(pick, V)
        BY <1>2, <1>6, FS_Subset DEF PicksFrom
      <3>3. IsFold(o, base, pick, V, tab(V)) /\ IsFold(o, base, pick, W, tab(W))
        BY <1>4, <1>6, <3>1
      <3>4. ASSUME NEW a, NEW b, IsFold(o, base, pick, V, a), IsFold(o, base, pick, W, b)
            PROVE  a[W] = b[W]
        <4> HIDE DEF W
        <4>1. \A U \in SUBSET W : a[U] = b[U]
          BY <3>1, <3>2, <3>4, FoldsAgree
        <4> QED
          BY <4>1
      <3> QED
        BY <3>1, <3>3, <3>4
    <2> QED
      BY <2>1, <2>2, <2>3 DEF FoldRow
  <1>7. ASSUME NEW U \in SUBSET T
        PROVE  t[U] \in D /\ t[U] = FoldRow(o, base, pick, t, U)
    <2>1. t[U] = FoldRow(o, base, pick, low, U)
      OBVIOUS
    <2>2. CASE U = {}
      BY <2>1, <2>2 DEF FoldRow
    <2>3. CASE U # {}
      <3> DEFINE V == U \ {pick[U]}
      <3>1. t[V] = low[V] /\ low[V] \in D /\ pick[U] \in S
        BY <1>5, <1>6, <2>3
      <3>2. o[<<low[V], pick[U]>>] \in D
        BY <3>1
      <3> QED
        BY <2>1, <2>3, <3>1, <3>2 DEF FoldRow
    <2> QED
      BY <2>2, <2>3
  <1>8. t \in [SUBSET T -> D] /\ IsFold(o, base, pick, T, t)
    BY <1>7 DEF IsFold
  <1> QED
    BY <1>2, <1>8

-----------------------------------------------------------------------------
(* Least and greatest elements, and remainders.                            *)

(* Min and Max of sets of integers, and the lower one of two.               *)
THEOREM MinIsLeast ==
    ASSUME NEW S, S \subseteq Nat, S # {}
    PROVE  Min(S) \in S /\ \A y \in S : Min(S) <= y
  <1>1. PICK n \in S : \A m \in S : <<m, n>> \notin OpToRel(<, Nat)
    BY NatLessThanWellFounded, WFMin
  <1>2. ASSUME NEW m \in S, m < n PROVE FALSE
    <2>1. <<m, n>> \in OpToRel(<, Nat)
      BY <1>2 DEF OpToRel
    <2> QED
      BY <1>1, <2>1
  <1>3. n \in S /\ \A y \in S : n <= y
    BY <1>2
  <1> QED
    BY <1>3 DEF Min

(* What is below all numbers of a set is below its Min.                     *)
THEOREM BelowMin ==
    ASSUME NEW S, S \subseteq Nat, S # {}
    PROVE  Min(S) \in S /\ \A y \in Nat : y < Min(S) => y \notin S
  <1> DEFINE m == Min(S)
  <1>1. m \in S /\ \A y \in S : m <= y
    BY MinIsLeast
  <1> HIDE DEF m
  <1>2. ASSUME NEW y \in S, y < m PROVE FALSE
    BY <1>1, <1>2
  <1> QED
    BY <1>1, <1>2 DEF m

(* Max is in its set and above the rest.                                    *)
THEOREM MaxIsGreatest ==
    ASSUME NEW S, S \subseteq Nat, S # {}, NEW b \in Nat, \A x \in S : x <= b
    PROVE  Max(S) \in S /\ \A y \in S : Max(S) >= y
  <1> DEFINE R == {b - x : x \in S}
  <1>1. R \subseteq Nat /\ R # {}
    <2>1. \A x \in S : b - x \in Nat
      OBVIOUS
    <2> QED
      BY <2>1
  <1>2. Min(R) \in R /\ \A y \in R : Min(R) <= y
    BY <1>1, MinIsLeast
  <1>3. PICK x \in S : Min(R) = b - x
    BY <1>2
  <1>4. \A y \in S : b - x <= b - y
    BY <1>2, <1>3
  <1> HIDE DEF R
  <1>5. \A y \in S : x >= y
    BY <1>4
  <1> QED
    BY <1>5 DEF Max

(* The facts about products and quotients that the solver needs by name.    *)
THEOREM QuotientOf ==
    ASSUME NEW w \in Nat \ {0}, NEW x \in Int
    PROVE  /\ x \div w \in Int /\ x % w \in 0 .. w - 1
           /\ x = w * (x \div w) + (x % w)
  OBVIOUS

(* Products distribute over sums.                                          *)
THEOREM Distributes ==
    ASSUME NEW a \in Int, NEW b \in Int, NEW c \in Int
    PROVE  /\ a * b \in Int /\ a * c \in Int
           /\ a * (b + c) = a * b + a * c /\ a * (b - c) = a * b - a * c
           /\ a * b = b * a
  OBVIOUS

(* Products keep the order of a factor.                                    *)
THEOREM ProductsOrdered ==
    ASSUME NEW k \in Nat, NEW a \in Int, NEW b \in Int, a <= b
    PROVE  k * a <= k * b
  <1>1. k * (b - a) >= 0
    OBVIOUS
  <1> QED
    BY <1>1, Distributes

(* A quotient is at most what its divisor times it is.                     *)
THEOREM QuotientAtMost ==
    ASSUME NEW w \in Nat \ {0}, NEW x \in Nat, NEW y \in Int, x <= w * y
    PROVE  x \div w \in Nat /\ x \div w <= y
  <1> DEFINE q == x \div w
  <1>1. q \in Int /\ w * q <= x /\ x < w * q + w
    BY QuotientOf
  <1> HIDE DEF q
  <1>2. q >= 0
    <2> SUFFICES ASSUME q <= -1 PROVE FALSE
      BY <1>1
    <2>1. w * q <= w * (-1) /\ w * (-1) = -w
      BY <1>1, ProductsOrdered
    <2> QED
      BY <1>1, <2>1
  <1>3. q <= y
    <2> SUFFICES ASSUME y + 1 <= q PROVE FALSE
      BY <1>1
    <2>1. w * (y + 1) <= w * q /\ w * (y + 1) = w * y + w * 1 /\ w * 1 = w /\ w * y \in Int
      BY <1>1, ProductsOrdered, Distributes
    <2> QED
      BY <1>1, <2>1
  <1> QED
    BY <1>1, <1>2, <1>3 DEF q

(* A sum of as many terms as S has, none above m.                           *)
THEOREM SumBounded ==
    ASSUME NEW S, IsFiniteSet(S), NEW m \in Nat, NEW g, \A x \in S : g[x] \in Int /\ g[x] <= m
    PROVE  SumFunctionOnSet(g, S) <= m * Cardinality(S)
  <1> DEFINE Good == {T \in SUBSET S : SumFunctionOnSet(g, T) <= m * Cardinality(T)}
  <1>1. {} \in Good
    <2>1. Cardinality({}) = 0 /\ m * 0 = 0
      BY FS_EmptySet
    <2> QED
      BY <2>1, SumEmpty
  <1>2. ASSUME NEW T \in SUBSET S, NEW x \in S \ T, T \in Good
        PROVE  T \cup {x} \in Good
    <2> DEFINE n == Cardinality(T)
    <2>1. IsFiniteSet(T) /\ SumFunctionOnSet(g, T) <= m * n
      BY <1>2, FS_Subset
    <2>2. SumFunctionOnSet(g, T \cup {x}) = g[x] + SumFunctionOnSet(g, T)
      <3>1. x \notin T /\ \A y \in T \cup {x} : g[y] \in Int
        BY <1>2
      <3> QED
        BY <2>1, <3>1, SumAdd
    <2>3. n \in Nat /\ Cardinality(T \cup {x}) = n + 1
      BY <1>2, <2>1, FS_AddElement, FS_CardinalityType
    <2>4. SumFunctionOnSet(g, T) \in Int /\ g[x] \in Int /\ g[x] <= m
      BY <1>2, <2>1, SumInt
    <2> HIDE DEF n
    <2>5. m * (n + 1) = m * n + m /\ m * n \in Int
      BY <2>3, Distributes
    <2>6. SumFunctionOnSet(g, T \cup {x}) <= m * Cardinality(T \cup {x})
      BY <2>1, <2>2, <2>3, <2>4, <2>5
    <2> QED
      BY <1>2, <2>6
  <1> HIDE DEF Good
  <1>3. S \in Good
    BY <1>1, <1>2, SetInduction
  <1> QED
    BY <1>3 DEF Good

(* A number below w is its own remainder, whatever multiple of w is added.   *)
THEOREM RemainderOf ==
    ASSUME NEW w \in Nat \ {0}, NEW r \in 0 .. w - 1, NEW q \in Int
    PROVE  (w * q + r) % w = r
  <1> DEFINE x == w * q + r
             p == x \div w
             s == x % w
  <1>1. x \in Int /\ p \in Int /\ s \in 0 .. w - 1 /\ w * p + s = w * q + r
    BY QuotientOf
  <1> HIDE DEF x, p, s
  <1>2. w * (p - q) = r - s
    BY <1>1, Distributes
  <1>3. r - s < w /\ r - s > -w
    BY <1>1
  <1> DEFINE d == p - q
  <1>4. d \in Int /\ w * d < w /\ w * d > -w
    BY <1>1, <1>2, <1>3
  <1> HIDE DEF d
  <1>5. d = 0
    <2>1. CASE d >= 1
      <3>1. w * 1 <= w * d
        BY <1>4, <2>1, ProductsOrdered
      <3> QED
        BY <1>4, <3>1
    <2>2. CASE d <= -1
      <3>1. w * d <= w * (-1)
        BY <1>4, <2>2, ProductsOrdered
      <3> QED
        BY <1>4, <3>1
    <2> QED
      BY <1>4, <2>1, <2>2
  <1>6. r = s
    BY <1>1, <1>2, <1>5 DEF d
  <1> QED
    BY <1>6 DEF s, x

(* Remainders may be taken early.                                          *)
THEOREM RemainderOfSum ==
    ASSUME NEW w \in Nat \ {0}, NEW x \in Int, NEW y \in Int
    PROVE  ((x % w) + y) % w = (x + y) % w
  <1> DEFINE q == x \div w
             z == (x % w) + y
             p == z \div w
             r == z % w
  <1>1. q \in Int /\ x % w \in Int /\ x = w * q + (x % w)
    BY QuotientOf
  <1>2. z \in Int /\ p \in Int /\ r \in 0 .. w - 1 /\ z = w * p + r
    <2>1. z \in Int
      BY <1>1
    <2> HIDE DEF z
    <2> QED
      BY <2>1, QuotientOf
  <1>3. x + y = w * (q + p) + r
    <2>1. x + y = w * q + z
      BY <1>1
    <2> HIDE DEF q, z, p, r
    <2>2. w * (q + p) = w * q + w * p /\ w * q \in Int /\ w * p \in Int
      BY <1>1, <1>2, Distributes
    <2> QED
      BY <1>1, <1>2, <2>1, <2>2
  <1>4. q + p \in Int
    BY <1>1, <1>2
  <1>5. (w * (q + p) + r) % w = r
    BY <1>2, <1>4, RemainderOf
  <1> QED
    BY <1>3, <1>5 DEF r, z

(* A sum of equal terms.                                                    *)
THEOREM SumConstant ==
    ASSUME NEW S, IsFiniteSet(S), NEW m \in Int, NEW g, \A x \in S : g[x] = m
    PROVE  SumFunctionOnSet(g, S) = m * Cardinality(S)
  <1> DEFINE one == [x \in S |-> 1]
             zero == [x \in S |-> 0]
  <1>1. \A x \in S : one[x] = 1 /\ zero[x] = 0
    OBVIOUS
  <1> HIDE DEF one, zero
  <1>2. SumFunctionOnSet(one, S) = Cardinality(S)
    BY <1>1, SumOnes
  <1>3. SumFunctionOnSet(zero, S) = 0
    <2>1. SumFunctionOnSet(zero, S) \in Nat
      BY <1>1, SumNat
    <2>2. SumFunctionOnSet(zero, S) <= 0 * Cardinality(S)
      BY <1>1, SumBounded
    <2>3. Cardinality(S) \in Nat /\ 0 * Cardinality(S) = 0
      BY FS_CardinalityType
    <2> QED
      BY <2>1, <2>2, <2>3
  <1>4. SumFunctionOnSet(g, S) = m * SumFunctionOnSet(one, S) + SumFunctionOnSet(zero, S)
    <2>1. \A x \in S : zero[x] \in Int /\ one[x] \in Int /\ g[x] = m * one[x] + zero[x]
      BY <1>1
    <2> QED
      BY <2>1, SumLinear
  <1> DEFINE n == Cardinality(S)
  <1>5. n \in Nat
    BY FS_CardinalityType
  <1>6. SumFunctionOnSet(g, S) = m * n + 0
    BY <1>2, <1>3, <1>4
  <1> HIDE DEF n
  <1> QED
    BY <1>5, <1>6 DEF n

(* A common factor of the terms.                                            *)
THEOREM SumScaled ==
    ASSUME NEW S, IsFiniteSet(S), NEW k \in Int, NEW g, NEW h,
           \A x \in S : g[x] \in Int /\ h[x] = k * g[x]
    PROVE  /\ SumFunctionOnSet(h, S) = k * SumFunctionOnSet(g, S)
           /\ SumFunctionOnSet(g, S) \in Int /\ SumFunctionOnSet(h, S) \in Int
  <1> DEFINE zero == [x \in S |-> 0]
  <1>1. \A x \in S : zero[x] = 0
    OBVIOUS
  <1> HIDE DEF zero
  <1>2. SumFunctionOnSet(zero, S) = 0 * Cardinality(S)
    BY <1>1, SumConstant
  <1>3. SumFunctionOnSet(zero, S) = 0
    <2>1. Cardinality(S) \in Nat
      BY FS_CardinalityType
    <2> QED
      BY <1>2, <2>1
  <1>4. SumFunctionOnSet(h, S) = k * SumFunctionOnSet(g, S) + SumFunctionOnSet(zero, S)
    <2>1. \A x \in S : zero[x] \in Int /\ g[x] \in Int /\ h[x] = k * g[x] + zero[x]
      BY <1>1
    <2> QED
      BY <2>1, SumLinear
  <1> DEFINE s == SumFunctionOnSet(g, S)
  <1>5. s \in Int
    BY SumInt
  <1>6. SumFunctionOnSet(h, S) = k * s + 0
    BY <1>3, <1>4
  <1> HIDE DEF s
  <1>7. k * s \in Int
    BY <1>5
  <1> QED
    BY <1>5, <1>6, <1>7 DEF s

(* The sum over the values of an injective function is that over its        *)
(* arguments.                                                              *)
THEOREM SumReindexed ==
    ASSUME NEW S, IsFiniteSet(S), NEW f, \A x, y \in S : f[x] = f[y] => x = y,
           NEW g, NEW h, \A x \in S : g[f[x]] \in Int /\ h[x] = g[f[x]]
    PROVE  SumFunctionOnSet(h, S) = SumFunctionOnSet(g, {f[x] : x \in S})
  <1> DEFINE Image(T) == {f[x] : x \in T}
             Good == {T \in SUBSET S : /\ IsFiniteSet(Image(T))
                                       /\ SumFunctionOnSet(h, T) = SumFunctionOnSet(g, Image(T))}
  <1>1. {} \in Good
    <2>1. Image({}) = {}
      OBVIOUS
    <2>2. {} \in SUBSET S
      OBVIOUS
    <2> HIDE DEF Image
    <2> QED
      BY <2>1, <2>2, SumEmpty, FS_EmptySet
  <1>2. ASSUME NEW T \in SUBSET S, NEW y \in S \ T, T \in Good
        PROVE  T \cup {y} \in Good
    <2> DEFINE I == Image(T)
    <2>1. Image(T \cup {y}) = I \cup {f[y]}
      OBVIOUS
    <2>2. f[y] \notin I /\ \A z \in I \cup {f[y]} : g[z] \in Int
      BY <1>2
    <2>3. IsFiniteSet(I) /\ IsFiniteSet(T) /\ SumFunctionOnSet(h, T) = SumFunctionOnSet(g, I)
      BY <1>2, FS_Subset
    <2> HIDE DEF I
    <2>4. SumFunctionOnSet(g, I \cup {f[y]}) = g[f[y]] + SumFunctionOnSet(g, I)
      BY <2>2, <2>3, SumAdd
    <2>5. SumFunctionOnSet(h, T \cup {y}) = h[y] + SumFunctionOnSet(h, T)
      <3>1. y \notin T /\ \A x \in T \cup {y} : h[x] \in Int
        BY <1>2
      <3> QED
        BY <2>3, <3>1, SumAdd
    <2>6. h[y] = g[f[y]]
      BY <1>2
    <2>7. IsFiniteSet(I \cup {f[y]})
      BY <2>3, FS_AddElement
    <2>8. T \cup {y} \in SUBSET S
      BY <1>2
    <2> HIDE DEF Image
    <2> QED
      BY <2>1, <2>3, <2>4, <2>5, <2>6, <2>7, <2>8
  <1> HIDE DEF Good
  <1>3. S \in Good
    BY <1>1, <1>2, SetInduction
  <1> QED
    BY <1>3 DEF Good

(* A factor of both sides of an order may be left out.                      *)
THEOREM ProductsCancel ==
    ASSUME NEW k \in Nat \ {0}, NEW a \in Int, NEW b \in Int, k * a <= k * b
    PROVE  a <= b
  <1> SUFFICES ASSUME b + 1 <= a PROVE FALSE
    OBVIOUS
  <1>1. k * (b + 1) <= k * a /\ k * (b + 1) = k * b + k * 1 /\ k * 1 = k /\ k * b \in Int /\ k * a \in Int
    BY ProductsOrdered, Distributes
  <1> QED
    BY <1>1
=============================================================================
