--------------------------- MODULE RecursionProofs ---------------------------
(***************************************************************************)
(* Induction for the recursive functions of the models, in first-order     *)
(* form: what is proved by induction is membership in a set.               *)
(*   - a loop over 1 .. n exists when its step maps some set into itself,  *)
(*     and stays in any set its start is in and every round keeps;         *)
(*   - a sum over a finite set exists and is an integer, and changes by    *)
(*     the difference when one summand does; the sums of two disjoint      *)
(*     parts are the sum of both.                                          *)
(***************************************************************************)
EXTENDS Integers, FiniteSets, FiniteSetsExt, FiniteSetTheorems, WellFoundedInduction, TLAPS

\* A set of natural numbers that is not empty has a least element.
LEMMA LeastNatural ==
  ASSUME NEW T \in SUBSET Nat, T # {}
  PROVE  \E k \in T : \A m \in T : k <= m
<1>1. PICK k \in T : \A m \in T : <<m, k>> \notin OpToRel(<, Nat)
  BY NatLessThanWellFounded, WFMin
<1>2. ASSUME NEW m \in T PROVE k <= m
  <2>1. ~ (m < k)
    BY <1>1 DEF OpToRel
  <2> QED BY <2>1
<1> QED BY <1>2

\* Induction up to n.
LEMMA Induction ==
  ASSUME NEW n \in Nat, NEW P, 0 \in P, \A k \in 1 .. n : k - 1 \in P => k \in P
  PROVE  \A k \in 0 .. n : k \in P
<1> DEFINE Bad == {k \in 0 .. n : k \notin P}
<1> SUFFICES ASSUME Bad # {} PROVE FALSE
  OBVIOUS
<1>1. Bad \in SUBSET Nat
  OBVIOUS
<1> HIDE DEF Bad
<1>2. PICK k \in Bad : \A m \in Bad : k <= m
  BY <1>1, LeastNatural
<1> USE DEF Bad
<1>3. k \in 1 .. n
  OBVIOUS
<1>4. k - 1 \notin Bad /\ k - 1 \in 0 .. n
  BY <1>2, <1>3
<1> QED BY <1>3, <1>4

-----------------------------------------------------------------------------
(* Loops                                                                     *)

\* What the loop has computed up to the i-th round.
Rounds(g, n, start, step) ==
  g[0] = start /\ \A i \in 1 .. n : g[i] = step[<<i, g[i - 1]>>]

\* The k-th round follows when all before it are there.
LEMMA OneMoreRound ==
  ASSUME NEW V, NEW n \in Nat, NEW start \in V, NEW step \in [(1 .. n) \X V -> V],
         NEW k \in 1 .. n, NEW g \in [0 .. k - 1 -> V], Rounds(g, k - 1, start, step)
  PROVE  \E h \in [0 .. k -> V] : Rounds(h, k, start, step)
<1> DEFINE h == [i \in 0 .. k |-> IF i = k THEN step[<<k, g[k - 1]>>] ELSE g[i]]
<1>1. step[<<k, g[k - 1]>>] \in V
  OBVIOUS
<1>2. h \in [0 .. k -> V]
  BY <1>1
<1>3. \A i \in 0 .. k - 1 : h[i] = g[i]
  OBVIOUS
<1>4. h[k] = step[<<k, g[k - 1]>>]
  OBVIOUS
<1> HIDE DEF h
<1>5. ASSUME NEW i \in 1 .. k PROVE h[i] = step[<<i, h[i - 1]>>]
  <2>1. CASE i = k
    BY <1>3, <1>4, <2>1
  <2>2. CASE i # k
    <3>1. i \in 1 .. k - 1 /\ i - 1 \in 0 .. k - 1
      BY <2>2
    <3> QED BY <1>3, <3>1 DEF Rounds
  <2> QED BY <2>1, <2>2
<1> QED BY <1>2, <1>3, <1>5 DEF Rounds

\* The loop has a result in V after every number of rounds.
LEMMA LoopExists ==
  ASSUME NEW V, NEW n \in Nat, NEW start \in V, NEW step \in [(1 .. n) \X V -> V]
  PROVE  \E g \in [0 .. n -> V] : Rounds(g, n, start, step)
<1> DEFINE Good(k) == \E g \in [0 .. k -> V] : Rounds(g, k, start, step)
           P == {k \in 0 .. n : Good(k)}
<1>1. Good(0)
  <2> DEFINE g == [i \in 0 .. 0 |-> start]
  <2>1. g \in [0 .. 0 -> V] /\ Rounds(g, 0, start, step)
    BY DEF Rounds
  <2> QED BY <2>1
<1>2. ASSUME NEW k \in 1 .. n, Good(k - 1) PROVE Good(k)
  BY <1>2, OneMoreRound
<1> HIDE DEF Good
<1>3. 0 \in P /\ \A k \in 1 .. n : k - 1 \in P => k \in P
  BY <1>1, <1>2
<1> HIDE DEF P
<1>4. n \in P
  BY <1>3, Induction
<1> QED BY <1>4 DEF P, Good

\* What holds before the loop and is kept by every round holds after it.
LEMMA LoopInvariant ==
  ASSUME NEW V, NEW n \in Nat, NEW g, g[0] \in V,
         \A i \in 1 .. n : g[i - 1] \in V => g[i] \in V
  PROVE  \A i \in 0 .. n : g[i] \in V
<1> DEFINE P == {i \in 0 .. n : g[i] \in V}
<1>1. 0 \in P /\ \A i \in 1 .. n : i - 1 \in P => i \in P
  OBVIOUS
<1> HIDE DEF P
<1>2. \A i \in 0 .. n : i \in P
  BY <1>1, Induction
<1> QED BY <1>2 DEF P

-----------------------------------------------------------------------------
(* Sums                                                                      *)

Total(f, S) == MapThenSumSet(LAMBDA x : f[x], S)

\* The element the sum takes next.
Pick(s) == CHOOSE x \in s : TRUE
SmallSubsets(S, k) == {s \in SUBSET S : Cardinality(s) <= k}

\* g sums f over every subset of S.
Sums(g, f, S) ==
  \A s \in SUBSET S : g[s] = IF s = {} THEN 0 ELSE f[Pick(s)] + g[s \ {Pick(s)}]

\* g sums f over the small subsets.
Partial(g, f, S, k) ==
  \A s \in SmallSubsets(S, k) :
    g[s] = IF s = {} THEN 0 ELSE f[Pick(s)] + g[s \ {Pick(s)}]

\* Without its next element a set is smaller by one.
LEMMA PickLess ==
  ASSUME NEW S, IsFiniteSet(S), NEW s \in SUBSET S, s # {}
  PROVE  /\ Pick(s) \in s /\ IsFiniteSet(s)
         /\ s \ {Pick(s)} \in SUBSET S
         /\ Cardinality(s) \in Nat
         /\ Cardinality(s \ {Pick(s)}) = Cardinality(s) - 1
<1>1. Pick(s) \in s
  BY DEF Pick
<1>2. IsFiniteSet(s)
  BY FS_Subset
<1> QED BY <1>1, <1>2, FS_RemoveElement, FS_CardinalityType

LEMMA SumExists ==
  ASSUME NEW S, IsFiniteSet(S), NEW f \in [S -> Int]
  PROVE  \E g \in [SUBSET S -> Int] : Sums(g, f, S)
<1> DEFINE n == Cardinality(S)
           Good(k) == \E g \in [SmallSubsets(S, k) -> Int] : Partial(g, f, S, k)
           P == {k \in 0 .. n : Good(k)}
<1>1. n \in Nat /\ SmallSubsets(S, n) = SUBSET S
  BY FS_CardinalityType, FS_Subset DEF SmallSubsets
<1>2. Good(0)
  <2>1. SmallSubsets(S, 0) = {{}}
    <3>1. \A s \in SUBSET S : Cardinality(s) \in Nat /\ (Cardinality(s) = 0 <=> s = {})
      BY FS_Subset, FS_CardinalityType, FS_EmptySet
    <3> QED BY <3>1 DEF SmallSubsets
  <2> DEFINE g == [s \in {{}} |-> 0]
  <2>2. g \in [SmallSubsets(S, 0) -> Int] /\ Partial(g, f, S, 0)
    BY <2>1 DEF Partial
  <2> QED BY <2>2
<1>3. ASSUME NEW k \in 1 .. n, Good(k - 1) PROVE Good(k)
  <2>1. PICK g \in [SmallSubsets(S, k - 1) -> Int] : Partial(g, f, S, k - 1)
    BY <1>3
  <2> DEFINE next(s) == f[Pick(s)] + g[s \ {Pick(s)}]
             h == [s \in SmallSubsets(S, k) |-> IF Cardinality(s) <= k - 1 THEN g[s] ELSE next(s)]
  <2>2. k \in Nat /\ k - 1 \in Nat
    BY <1>1
  <2>3. ASSUME NEW s \in SmallSubsets(S, k), s # {}
        PROVE  /\ Pick(s) \in S /\ s \ {Pick(s)} \in SmallSubsets(S, k - 1)
               /\ Cardinality(s) \in Nat
    <3>1. s \in SUBSET S /\ Cardinality(s) <= k /\ s # {}
      BY <2>3 DEF SmallSubsets
    <3>2. /\ Pick(s) \in s /\ s \ {Pick(s)} \in SUBSET S /\ Cardinality(s) \in Nat
          /\ Cardinality(s \ {Pick(s)}) = Cardinality(s) - 1
      BY <3>1, PickLess
    <3>3. Cardinality(s \ {Pick(s)}) <= k - 1
      BY <2>2, <3>1, <3>2
    <3> QED BY <3>1, <3>2, <3>3 DEF SmallSubsets
  <2>4. ASSUME NEW s \in SmallSubsets(S, k), ~ (Cardinality(s) <= k - 1)
        PROVE  s # {} /\ next(s) \in Int
    <3>1. s # {}
      BY <2>2, <2>4, FS_EmptySet
    <3> QED BY <2>1, <2>3, <3>1
  <2>5. \A s \in SmallSubsets(S, k) : Cardinality(s) <= k - 1 => s \in SmallSubsets(S, k - 1)
    BY DEF SmallSubsets
  <2>6. h \in [SmallSubsets(S, k) -> Int]
    BY <2>1, <2>4, <2>5
  <2>7. \A s \in SmallSubsets(S, k - 1) : s \in SmallSubsets(S, k) /\ h[s] = g[s]
    <3>1. \A s \in SmallSubsets(S, k - 1) : Cardinality(s) \in Nat /\ Cardinality(s) <= k - 1
      BY FS_Subset, FS_CardinalityType DEF SmallSubsets
    <3>2. SmallSubsets(S, k - 1) \in SUBSET SmallSubsets(S, k)
      BY <2>2, <3>1 DEF SmallSubsets
    <3> QED BY <3>1, <3>2
  <2>8. \A s \in SmallSubsets(S, k) : ~ (Cardinality(s) <= k - 1) => h[s] = next(s)
    OBVIOUS
  <2> HIDE DEF h
  <2>9. ASSUME NEW s \in SmallSubsets(S, k)
        PROVE  h[s] = IF s = {} THEN 0 ELSE f[Pick(s)] + h[s \ {Pick(s)}]
    <3>1. CASE Cardinality(s) <= k - 1
      <4>1. s \in SmallSubsets(S, k - 1)
        BY <2>5, <3>1
      <4>2. g[s] = IF s = {} THEN 0 ELSE f[Pick(s)] + g[s \ {Pick(s)}]
        BY <2>1, <4>1 DEF Partial
      <4> QED BY <2>3, <2>7, <4>1, <4>2
    <3>2. CASE ~ (Cardinality(s) <= k - 1)
      BY <2>3, <2>4, <2>7, <2>8, <3>2
    <3> QED BY <3>1, <3>2
  <2> QED BY <2>6, <2>9 DEF Partial
<1> HIDE DEF Good
<1>4. 0 \in P /\ \A k \in 1 .. n : k - 1 \in P => k \in P
  BY <1>1, <1>2, <1>3
<1> HIDE DEF P
<1>5. n \in P
  BY <1>1, <1>4, Induction
<1> QED BY <1>1, <1>5 DEF P, Good, Partial, Sums

\* Induction over the subsets of a finite set, in the order a sum takes them.
LEMMA SubsetInduction ==
  ASSUME NEW S, IsFiniteSet(S), NEW P, {} \in P,
         \A s \in SUBSET S : s # {} /\ s \ {Pick(s)} \in P => s \in P
  PROVE  \A s \in SUBSET S : s \in P
<1> DEFINE n == Cardinality(S)
           Q == {k \in 0 .. n : SmallSubsets(S, k) \subseteq P}
<1>1. /\ n \in Nat
      /\ \A s \in SUBSET S : IsFiniteSet(s) /\ Cardinality(s) \in Nat /\ Cardinality(s) <= n
                             /\ (Cardinality(s) = 0 <=> s = {})
  BY FS_Subset, FS_CardinalityType, FS_EmptySet
<1>2. 0 \in Q
  <2>1. SmallSubsets(S, 0) \subseteq {{}}
    BY <1>1 DEF SmallSubsets
  <2>2. SmallSubsets(S, 0) \subseteq P
    BY <2>1
  <2> QED BY <1>1, <2>2
<1>3. ASSUME NEW k \in 1 .. n, k - 1 \in Q PROVE k \in Q
  <2>1. ASSUME NEW s \in SUBSET S, Cardinality(s) <= k PROVE s \in P
    <3>1. CASE s = {}
      BY <3>1
    <3>2. CASE s # {}
      <4>1. s \ {Pick(s)} \in SUBSET S /\ Cardinality(s \ {Pick(s)}) = Cardinality(s) - 1
        BY <3>2, PickLess
      <4>2. Cardinality(s \ {Pick(s)}) <= k - 1
        BY <1>1, <2>1, <4>1
      <4>3. s \ {Pick(s)} \in P
        BY <1>3, <4>1, <4>2 DEF SmallSubsets
      <4> QED BY <3>2, <4>3
    <3> QED BY <3>1, <3>2
  <2> QED BY <2>1 DEF SmallSubsets
<1> HIDE DEF Q
<1>4. n \in Q
  BY <1>1, <1>2, <1>3, Induction
<1> QED BY <1>1, <1>4 DEF Q, SmallSubsets

LEMMA TotalIsSum ==
  ASSUME NEW S, IsFiniteSet(S), NEW f \in [S -> Int]
  PROVE  \E g : Sums(g, f, S) /\ Total(f, S) = g[S]
<1>1. PICK g \in [SUBSET S -> Int] : Sums(g, f, S)
  BY SumExists
<1> DEFINE Is(h) == h = [s \in SUBSET S |->
                          IF s = {} THEN 0 ELSE f[Pick(s)] + h[s \ {Pick(s)}]]
           iter == CHOOSE h : Is(h)
<1>2. Is(g)
  BY <1>1 DEF Sums
<1>3. Is(iter)
  BY <1>2
<1>4. Total(f, S) = iter[S]
  BY DEF Total, MapThenSumSet, MapThenFoldSet, Pick
<1> HIDE DEF iter
<1>5. Sums(iter, f, S)
  BY <1>3 DEF Sums
<1> QED BY <1>4, <1>5

LEMMA SumsType ==
  ASSUME NEW S, IsFiniteSet(S), NEW f \in [S -> Int], NEW g, Sums(g, f, S)
  PROVE  \A s \in SUBSET S : g[s] \in Int
<1> DEFINE P == {s \in SUBSET S : g[s] \in Int}
<1>1. {} \in P
  <2>1. {} \in SUBSET S /\ g[{}] = 0
    BY DEF Sums
  <2> QED BY <2>1
<1>2. ASSUME NEW s \in SUBSET S, s # {}, s \ {Pick(s)} \in P PROVE s \in P
  <2>1. f[Pick(s)] \in Int
    BY <1>2, PickLess
  <2>2. g[s] = f[Pick(s)] + g[s \ {Pick(s)}] /\ g[s \ {Pick(s)}] \in Int
    BY <1>2 DEF Sums
  <2> QED BY <2>1, <2>2
<1> HIDE DEF P
<1>3. \A s \in SUBSET S : s \in P
  BY <1>1, <1>2, SubsetInduction
<1> QED BY <1>3 DEF P

LEMMA SumsChange ==
  ASSUME NEW S, IsFiniteSet(S), NEW f \in [S -> Int], NEW e \in [S -> Int], NEW a \in S,
         \A x \in S : x # a => e[x] = f[x],
         NEW g, Sums(g, f, S), NEW h, Sums(h, e, S)
  PROVE  h[S] = g[S] - f[a] + e[a]
<1> DEFINE P == {s \in SUBSET S : h[s] = g[s] + (IF a \in s THEN e[a] - f[a] ELSE 0)}
<1>1. \A s \in SUBSET S : g[s] \in Int /\ h[s] \in Int
  BY SumsType
<1>2. {} \in P
  <2>1. {} \in SUBSET S /\ g[{}] = 0 /\ h[{}] = 0
    BY DEF Sums
  <2> QED BY <2>1
<1>3. ASSUME NEW s \in SUBSET S, s # {}, s \ {Pick(s)} \in P PROVE s \in P
  <2> DEFINE x == Pick(s)
             r == s \ {x}
  <2>1. x \in s /\ x \in S /\ r \in SUBSET S
    BY <1>3, PickLess
  <2>2. g[s] = f[x] + g[r] /\ h[s] = e[x] + h[r]
    BY <1>3 DEF Sums
  <2>3. h[r] = g[r] + (IF a \in r THEN e[a] - f[a] ELSE 0)
    BY <1>3
  <2>4. g[r] \in Int /\ h[r] \in Int /\ f[x] \in Int /\ e[x] \in Int /\ f[a] \in Int /\ e[a] \in Int
    BY <1>1, <2>1
  <2>5. CASE x = a
    <3>1. a \notin r /\ a \in s
      BY <2>1, <2>5
    <3>2. h[r] = g[r]
      BY <2>3, <2>4, <3>1
    <3> HIDE DEF x, r
    <3>3. h[s] = g[s] + (e[a] - f[a])
      BY <2>2, <2>4, <2>5, <3>2
    <3> QED BY <3>1, <3>3
  <2>6. CASE x # a
    <3>1. e[x] = f[x] /\ (a \in r <=> a \in s)
      BY <2>1, <2>6
    <3> HIDE DEF x, r
    <3> QED BY <2>2, <2>3, <2>4, <3>1
  <2> QED BY <2>5, <2>6
<1> HIDE DEF P
<1>4. \A s \in SUBSET S : s \in P
  BY <1>2, <1>3, SubsetInduction
<1>5. h[S] = g[S] + (e[a] - f[a])
  BY <1>4 DEF P
<1> QED BY <1>1, <1>5

\* A sum over a finite set is an integer.
LEMMA TotalType ==
  ASSUME NEW S, IsFiniteSet(S), NEW f \in [S -> Int]
  PROVE  Total(f, S) \in Int
<1>1. PICK g : Sums(g, f, S) /\ Total(f, S) = g[S]
  BY TotalIsSum
<1> QED BY <1>1, SumsType

\* One summand changes, and the sum changes by as much.
LEMMA TotalChange ==
  ASSUME NEW S, IsFiniteSet(S), NEW f \in [S -> Int], NEW e \in [S -> Int], NEW a \in S,
         \A x \in S : x # a => e[x] = f[x]
  PROVE  Total(e, S) = Total(f, S) - f[a] + e[a]
<1>1. PICK g : Sums(g, f, S) /\ Total(f, S) = g[S]
  BY TotalIsSum
<1>2. PICK h : Sums(h, e, S) /\ Total(e, S) = h[S]
  BY TotalIsSum
<1> QED BY <1>1, <1>2, SumsChange

LEMMA TotalZero ==
  ASSUME NEW S, IsFiniteSet(S)
  PROVE  Total([x \in S |-> 0], S) = 0
<1> DEFINE f == [x \in S |-> 0]
<1>1. f \in [S -> Int] /\ \A x \in S : f[x] = 0
  OBVIOUS
<1> HIDE DEF f
<1>2. PICK g : Sums(g, f, S) /\ Total(f, S) = g[S]
  BY <1>1, TotalIsSum
<1> DEFINE P == {s \in SUBSET S : g[s] = 0}
<1>3. {} \in P
  <2>1. {} \in SUBSET S /\ g[{}] = 0
    BY <1>2 DEF Sums
  <2> QED BY <2>1
<1>4. ASSUME NEW s \in SUBSET S, s # {}, s \ {Pick(s)} \in P PROVE s \in P
  <2>1. Pick(s) \in S
    BY <1>4, PickLess
  <2>2. g[s] = f[Pick(s)] + g[s \ {Pick(s)}] /\ g[s \ {Pick(s)}] = 0
    BY <1>2, <1>4 DEF Sums
  <2> QED BY <1>1, <2>1, <2>2
<1> HIDE DEF P
<1>5. \A s \in SUBSET S : s \in P
  BY <1>3, <1>4, SubsetInduction
<1> QED BY <1>2, <1>5 DEF P, f

-----------------------------------------------------------------------------
(* Sums over parts of a set                                                  *)

\* Whichever element is set aside, the sum is its value and that of the others.
LEMMA SumsRemove ==
  ASSUME NEW S, IsFiniteSet(S), NEW f \in [S -> Int], NEW g, Sums(g, f, S)
  PROVE  \A s \in SUBSET S : \A x \in s : g[s] = f[x] + g[s \ {x}]
<1> DEFINE n == Cardinality(S)
           Splits(s) == \A x \in s : g[s] = f[x] + g[s \ {x}]
           P == {k \in 0 .. n : \A s \in SmallSubsets(S, k) : Splits(s)}
<1>1. /\ n \in Nat
      /\ \A s \in SUBSET S : IsFiniteSet(s) /\ Cardinality(s) \in Nat /\ Cardinality(s) <= n
                             /\ (Cardinality(s) = 0 <=> s = {})
  BY FS_Subset, FS_CardinalityType, FS_EmptySet
<1>2. \A s \in SUBSET S : g[s] \in Int
  BY SumsType
<1>3. 0 \in P
  <2>1. \A s \in SmallSubsets(S, 0) : s = {}
    BY <1>1 DEF SmallSubsets
  <2> QED BY <1>1, <2>1
<1>4. ASSUME NEW k \in 1 .. n, k - 1 \in P PROVE k \in P
  <2>1. ASSUME NEW s \in SUBSET S, Cardinality(s) <= k, NEW x \in s
        PROVE  g[s] = f[x] + g[s \ {x}]
    <3> DEFINE y == Pick(s)
    <3>1. /\ y \in s /\ s # {} /\ s \ {y} \in SUBSET S
          /\ Cardinality(s \ {y}) = Cardinality(s) - 1
      BY PickLess
    <3>2. g[s] = f[y] + g[s \ {y}]
      BY <3>1 DEF Sums
    <3> HIDE DEF y
    <3>3. CASE x = y
      BY <3>2, <3>3
    <3>4. CASE x # y
      <4>1. /\ s \ {x} \in SUBSET S /\ Cardinality(s \ {x}) = Cardinality(s) - 1
            /\ x \in s \ {y} /\ y \in s \ {x}
        BY <1>1, <3>1, <3>4, FS_RemoveElement
      <4>2. s \ {x} \in SmallSubsets(S, k - 1) /\ s \ {y} \in SmallSubsets(S, k - 1)
        BY <1>1, <2>1, <3>1, <4>1 DEF SmallSubsets
      <4>3. Splits(s \ {x}) /\ Splits(s \ {y})
        BY <1>4, <4>2
      <4>4. (s \ {x}) \ {y} = (s \ {y}) \ {x} /\ (s \ {x}) \ {y} \in SUBSET S
        OBVIOUS
      <4>5. g[s \ {x}] = f[y] + g[(s \ {x}) \ {y}] /\ g[s \ {y}] = f[x] + g[(s \ {x}) \ {y}]
        BY <4>1, <4>3, <4>4
      <4>6. f[x] \in Int /\ f[y] \in Int /\ g[(s \ {x}) \ {y}] \in Int
        BY <1>2, <3>1, <4>4
      <4> QED BY <3>2, <4>5, <4>6
    <3> QED BY <3>3, <3>4
  <2> QED BY <2>1 DEF SmallSubsets
<1> HIDE DEF P
<1>5. n \in P
  BY <1>1, <1>3, <1>4, Induction
<1>6. SmallSubsets(S, n) = SUBSET S
  BY <1>1 DEF SmallSubsets
<1> QED BY <1>5, <1>6 DEF P

\* The sum of two disjoint parts is that of their union.
LEMMA SumsUnion ==
  ASSUME NEW S, IsFiniteSet(S), NEW f \in [S -> Int], NEW g, Sums(g, f, S),
         NEW A \in SUBSET S, NEW B \in SUBSET S, A \cap B = {}
  PROVE  g[A \cup B] = g[A] + g[B]
<1> DEFINE P == {s \in SUBSET S : A \cap s = {} => g[A \cup s] = g[A] + g[s]}
<1>1. \A s \in SUBSET S : g[s] \in Int
  BY SumsType
<1>2. {} \in P
  <2>1. g[{}] = 0 /\ A \cup {} = A
    BY DEF Sums
  <2> QED BY <1>1, <2>1
<1>3. ASSUME NEW s \in SUBSET S, s # {}, s \ {Pick(s)} \in P PROVE s \in P
  <2> SUFFICES ASSUME A \cap s = {} PROVE g[A \cup s] = g[A] + g[s]
    OBVIOUS
  <2> DEFINE x == Pick(s)
             r == s \ {x}
             all == A \cup s
             rest == A \cup r
  <2>1. x \in s /\ x \in S /\ r \in SUBSET S /\ all \in SUBSET S /\ rest \in SUBSET S
    BY <1>3, PickLess
  <2>2. g[rest] = g[A] + g[r]
    BY <1>3
  <2>3. x \in all /\ all \ {x} = rest
    BY <2>1
  <2>4. g[s] = f[x] + g[r]
    BY <2>1, SumsRemove
  <2> HIDE DEF x, r, all, rest
  <2>5. g[all] = f[x] + g[all \ {x}]
    BY <2>1, <2>3, SumsRemove
  <2>6. g[A] \in Int /\ g[r] \in Int /\ f[x] \in Int
    BY <1>1, <2>1
  <2>7. f[x] + (g[A] + g[r]) = g[A] + (f[x] + g[r])
    BY <2>6
  <2>8. g[all] = g[A] + g[s]
    BY <2>2, <2>3, <2>4, <2>5, <2>7
  <2> QED BY <2>8 DEF all
<1> HIDE DEF P
<1>4. \A s \in SUBSET S : s \in P
  BY <1>2, <1>3, SubsetInduction
<1> QED BY <1>4 DEF P
=============================================================================
