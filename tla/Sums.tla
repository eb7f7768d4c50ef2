-------------------------------- MODULE Sums --------------------------------
(***************************************************************************)
(* Facts about SumFunctionOnSet, the sum of a function over a finite set,  *)
(* and about loops over an index.                                          *)
(*                                                                         *)
(* The community modules define it by recursion over subsets, removing an  *)
(* arbitrary element each time. Subsets of a finite set are well founded   *)
(* under strict inclusion; what is needed of induction here is that a      *)
(* nonempty collection of them has a minimal member. Induction on the      *)
(* naturals is stated for sets in the same way.                            *)
(***************************************************************************)
EXTENDS Integers, Sequences, FiniteSets, Functions, FiniteSetTheorems, TLAPS

\* The element the recursion removes from s.
Pick(s) == CHOOSE x \in s : TRUE

\* it solves the recursive equation of the sum of f on the subsets of S.
Solves(it, f, S) ==
  it = [s \in SUBSET S |-> IF s = {} THEN 0 ELSE f[Pick(s)] + it[s \ {Pick(s)}]]

Sum(f, S) == SumFunctionOnSet(f, S)

-----------------------------------------------------------------------------
\* The community definition, with its operator arguments filled in.
LEMMA SumUnfolds ==
  ASSUME NEW f, NEW S
  PROVE  Sum(f, S) = (CHOOSE it : Solves(it, f, S))[S]
BY DEF Sum, SumFunctionOnSet, FoldFunctionOnSet, MapThenFoldSet, Solves, Pick

\* A collection that contains every subset of S all of whose strict subsets
\* it contains, contains them all.
LEMMA SubsetInduction ==
  ASSUME NEW S, IsFiniteSet(S), NEW T,
         \A t \in SUBSET S : (\A u \in SUBSET t : u # t => u \in T) => t \in T
  PROVE  SUBSET S \subseteq T
<1> DEFINE Bad == (SUBSET S) \ T
<1> SUFFICES ASSUME Bad # {} PROVE FALSE
  OBVIOUS
<1>1. FiniteSubsetsOf(S) = SUBSET S
  BY FS_FiniteSubsetsOfFinite
<1>2. IsWellFoundedOn(StrictSubsetOrdering(S), SUBSET S)
  <2>1. IsWellFoundedOn(StrictSubsetOrdering(S), FiniteSubsetsOf(S))
    BY FS_StrictSubsetOrderingWellFounded
  <2> QED BY <1>1, <2>1, Zenon
<1>3. \E t \in Bad : \A u \in Bad : ~(<<u, t>> \in StrictSubsetOrdering(S))
  <2>1. Bad \subseteq SUBSET S
    OBVIOUS
  <2> HIDE DEF Bad
  <2> QED BY <1>2, <2>1, WFMin
<1> QED BY <1>3 DEF StrictSubsetOrdering

\* The element taken off a set is one of it.
LEMMA PickIn == ASSUME NEW s, s # {} PROVE Pick(s) \in s
BY DEF Pick

\* Two solutions agree on the sets both are defined on.
LEMMA SolutionsAgree ==
  ASSUME NEW f, NEW S, NEW R, IsFiniteSet(S), NEW a, NEW b,
         Solves(a, f, S), Solves(b, f, R), NEW s \in SUBSET S, s \in SUBSET R
  PROVE  a[s] = b[s]
<1> DEFINE T == {t \in SUBSET s : a[t] = b[t]}
<1>1. IsFiniteSet(s)
  BY FS_Subset
<1>2. ASSUME NEW t \in SUBSET s, \A u \in SUBSET t : u # t => u \in T
      PROVE  t \in T
  <2>1. t \in SUBSET S /\ t \in SUBSET R
    OBVIOUS
  <2>2. CASE t = {}
    BY <2>1, <2>2 DEF Solves
  <2>3. CASE t # {}
    <3>1. t \ {Pick(t)} \in SUBSET t /\ t \ {Pick(t)} # t
      BY <2>3, PickIn
    <3>2. a[t \ {Pick(t)}] = b[t \ {Pick(t)}]
      BY <1>2, <3>1
    <3> QED BY <2>1, <2>3, <3>2 DEF Solves
  <2> QED BY <2>2, <2>3
<1> HIDE DEF T
<1>3. SUBSET s \subseteq T
  BY <1>1, <1>2, SubsetInduction
<1> QED BY <1>3 DEF T

\* The recursion has a solution on every finite set.
LEMMA SolutionExists ==
  ASSUME NEW f, NEW S, IsFiniteSet(S)
  PROVE  \E it : Solves(it, f, S)
<1> DEFINE T == {t \in SUBSET S : \E it : Solves(it, f, t)}
<1>1. ASSUME NEW t \in SUBSET S, \A u \in SUBSET t : u # t => u \in T
      PROVE  t \in T
  <2> DEFINE V(u) == (CHOOSE it : Solves(it, f, u))[u]
             next == [s \in SUBSET t |-> IF s = {} THEN 0 ELSE f[Pick(s)] + V(s \ {Pick(s)})]
  <2>1. ASSUME NEW u \in SUBSET t, u # t
        PROVE  V(u) = IF u = {} THEN 0 ELSE f[Pick(u)] + V(u \ {Pick(u)})
    <3> DEFINE I(w) == CHOOSE it : Solves(it, f, w)
               w == u \ {Pick(u)}
    <3>1. Solves(I(u), f, u) 
      BY <1>1, <2>1
    <3>2. CASE u = {}
      BY <3>1, <3>2 DEF Solves
    <3>3. CASE u # {}
      <4>1. w \in SUBSET u /\ w # u
        BY <3>3, PickIn
      <4>2. Solves(I(w), f, w)
        BY <1>1, <4>1
      <4>3. I(u)[u] = f[Pick(u)] + I(u)[w]
        BY <3>1, <3>3 DEF Solves
      <4>4. IsFiniteSet(u)
        BY FS_Subset
      <4>5. I(u)[w] = I(w)[w]
        <5> HIDE DEF I, w
        <5> QED BY <3>1, <4>1, <4>2, <4>4, SolutionsAgree
      <4> QED BY <3>3, <4>3, <4>5
    <3> QED BY <3>2, <3>3
  <2>2. ASSUME NEW s \in SUBSET t, s # {}
        PROVE  next[s \ {Pick(s)}] = V(s \ {Pick(s)})
    <3> DEFINE u == s \ {Pick(s)}
    <3>1. u \in SUBSET t /\ u # t
      BY <2>2, PickIn
    <3> HIDE DEF u, V
    <3>2. next[u] = V(u)
      BY <2>1, <3>1
    <3> QED BY <3>2 DEF u
  <2> HIDE DEF V
  <2>3. Solves(next, f, t)
    BY <2>2 DEF Solves
  <2> QED BY <2>3
<1> HIDE DEF T
<1>2. SUBSET S \subseteq T
  BY <1>1, SubsetInduction
<1> QED BY <1>2 DEF T

\* The sum takes one element off at a time.
LEMMA SumEquation ==
  ASSUME NEW f, NEW S, IsFiniteSet(S)
  PROVE  Sum(f, S) = IF S = {} THEN 0 ELSE f[Pick(S)] + Sum(f, S \ {Pick(S)})
<1> DEFINE I(w) == CHOOSE it : Solves(it, f, w)
           w == S \ {Pick(S)}
<1>1. IsFiniteSet(w)
  BY FS_Subset
<1>2. Solves(I(S), f, S) /\ Solves(I(w), f, w)
  BY <1>1, SolutionExists
<1>3. Sum(f, S) = I(S)[S] /\ Sum(f, w) = I(w)[w]
  BY SumUnfolds
<1>4. I(S)[S] = IF S = {} THEN 0 ELSE f[Pick(S)] + I(S)[w]
  BY <1>2 DEF Solves
<1>5. I(S)[w] = I(w)[w]
  <2>1. w \in SUBSET S /\ w \in SUBSET w
    OBVIOUS
  <2> HIDE DEF I, w
  <2> QED BY <1>2, <2>1, SolutionsAgree
<1> QED BY <1>3, <1>4, <1>5

-----------------------------------------------------------------------------
\* The empty sum.
LEMMA SumEmpty == ASSUME NEW f PROVE Sum(f, {}) = 0
BY SumEquation, FS_EmptySet

\* A sum of integers is an integer, and any element can be taken off it.
LEMMA SumTakesOff ==
  ASSUME NEW S, IsFiniteSet(S), NEW f, \A x \in S : f[x] \in Int
  PROVE  /\ Sum(f, S) \in Int
         /\ \A x \in S : Sum(f, S) = f[x] + Sum(f, S \ {x})
<1> DEFINE T == {t \in SUBSET S : /\ Sum(f, t) \in Int
                                 /\ \A x \in t : Sum(f, t) = f[x] + Sum(f, t \ {x})}
<1>1. ASSUME NEW t \in SUBSET S, \A u \in SUBSET t : u # t => u \in T
      PROVE  t \in T
  <2>1. CASE t = {}
    BY <2>1, SumEmpty
  <2>2. CASE t # {}
    <3> DEFINE y == Pick(t)
    <3>1. y \in t /\ IsFiniteSet(t)
      BY <2>2, PickIn, FS_Subset
    <3>2. Sum(f, t) = f[y] + Sum(f, t \ {y})
      BY <2>2, <3>1, SumEquation
    <3>3. \A x \in t : t \ {x} \in T
      BY <1>1
    <3>4. \A x \in t : Sum(f, t \ {x}) \in Int /\ f[x] \in Int
      BY <3>3
    <3>5. ASSUME NEW x \in t, x # y PROVE Sum(f, t) = f[x] + Sum(f, t \ {x})
      <4>1. Sum(f, t \ {y}) = f[x] + Sum(f, (t \ {y}) \ {x})
        BY <3>1, <3>3, <3>5
      <4>2. Sum(f, t \ {x}) = f[y] + Sum(f, (t \ {x}) \ {y})
        BY <3>1, <3>3, <3>5
      <4>3. (t \ {y}) \ {x} = (t \ {x}) \ {y}
        OBVIOUS
      <4>4. Sum(f, (t \ {x}) \ {y}) \in Int
        <5>1. (t \ {x}) \ {y} \in SUBSET t /\ (t \ {x}) \ {y} # t
          BY <3>1
        <5> QED BY <1>1, <5>1
      <4>5. \A p, q, r \in Int : p + (q + r) = q + (p + r)
        OBVIOUS
      <4> DEFINE r == Sum(f, (t \ {x}) \ {y})
      <4>6. Sum(f, t) = f[y] + (f[x] + r) /\ Sum(f, t \ {x}) = f[y] + r
        BY <3>2, <4>1, <4>2, <4>3, Zenon
      <4>7. f[x] \in Int /\ f[y] \in Int /\ r \in Int
        BY <3>1, <3>4, <4>4
      <4> HIDE DEF y, r
      <4> QED BY <4>5, <4>6, <4>7
    <3> HIDE DEF y
    <3>6. \A x \in t : Sum(f, t) = f[x] + Sum(f, t \ {x})
      BY <3>2, <3>5
    <3>7. Sum(f, t) \in Int
      BY <3>1, <3>2, <3>4
    <3> QED BY <3>6, <3>7
  <2> QED BY <2>1, <2>2
<1> HIDE DEF T
<1>2. SUBSET S \subseteq T
  BY <1>1, SubsetInduction
<1> QED BY <1>2 DEF T

\* The same for naturals.
LEMMA SumSplits ==
  ASSUME NEW S, IsFiniteSet(S), NEW f, \A x \in S : f[x] \in Nat
  PROVE  /\ Sum(f, S) \in Nat
         /\ \A x \in S : Sum(f, S) = f[x] + Sum(f, S \ {x})
<1> DEFINE T == {t \in SUBSET S : Sum(f, t) \in Nat}
<1>1. ASSUME NEW t \in SUBSET S, \A u \in SUBSET t : u # t => u \in T
      PROVE  t \in T
  <2>1. CASE t = {}
    BY <2>1, SumEmpty
  <2>2. CASE t # {}
    <3>1. IsFiniteSet(t) /\ Pick(t) \in t
      BY <2>2, FS_Subset, PickIn
    <3>2. Sum(f, t \ {Pick(t)}) \in Nat /\ f[Pick(t)] \in Nat
      BY <1>1, <3>1
    <3>3. Sum(f, t) = f[Pick(t)] + Sum(f, t \ {Pick(t)})
      BY <2>2, <3>1, SumEquation
    <3> QED BY <3>2, <3>3
  <2> QED BY <2>1, <2>2
<1> HIDE DEF T
<1>2. SUBSET S \subseteq T
  BY <1>1, SubsetInduction
<1>3. Sum(f, S) \in Nat
  BY <1>2 DEF T
<1>4. \A x \in S : Sum(f, S) = f[x] + Sum(f, S \ {x})
  BY SumTakesOff
<1> QED BY <1>3, <1>4

\* Sums over the same set compare as their terms do.
LEMMA SumMonotone ==
  ASSUME NEW S, IsFiniteSet(S), NEW f, NEW g,
         \A x \in S : f[x] \in Nat /\ g[x] \in Nat /\ f[x] <= g[x]
  PROVE  Sum(f, S) <= Sum(g, S)
<1> DEFINE T == {t \in SUBSET S : Sum(f, t) <= Sum(g, t)}
<1>1. ASSUME NEW t \in SUBSET S, \A u \in SUBSET t : u # t => u \in T
      PROVE  t \in T
  <2>1. CASE t = {}
    BY <2>1, SumEmpty
  <2>2. CASE t # {}
    <3>1. PICK x \in t : TRUE
      BY <2>2
    <3>2. IsFiniteSet(t) /\ IsFiniteSet(t \ {x})
      BY FS_Subset
    <3>3. /\ Sum(f, t) = f[x] + Sum(f, t \ {x}) /\ Sum(f, t \ {x}) \in Nat
          /\ Sum(g, t) = g[x] + Sum(g, t \ {x}) /\ Sum(g, t \ {x}) \in Nat
      BY <3>2, SumSplits
    <3>4. Sum(f, t \ {x}) <= Sum(g, t \ {x})
      BY <1>1
    <3> QED BY <3>3, <3>4
  <2> QED BY <2>1, <2>2
<1> HIDE DEF T
<1>2. SUBSET S \subseteq T
  BY <1>1, SubsetInduction
<1> QED BY <1>2 DEF T

\* The sum depends only on the terms that are summed.
LEMMA SumSame ==
  ASSUME NEW S, IsFiniteSet(S), NEW f, NEW g, \A x \in S : g[x] = f[x]
  PROVE  Sum(f, S) = Sum(g, S)
<1> DEFINE T == {t \in SUBSET S : Sum(f, t) = Sum(g, t)}
<1>1. ASSUME NEW t \in SUBSET S, \A u \in SUBSET t : u # t => u \in T
      PROVE  t \in T
  <2>1. CASE t = {}
    BY <2>1, SumEmpty
  <2>2. CASE t # {}
    <3>1. IsFiniteSet(t) /\ Pick(t) \in t
      BY <2>2, FS_Subset, PickIn
    <3>2. Sum(f, t \ {Pick(t)}) = Sum(g, t \ {Pick(t)}) /\ f[Pick(t)] = g[Pick(t)]
      BY <1>1, <3>1
    <3>3. /\ Sum(f, t) = f[Pick(t)] + Sum(f, t \ {Pick(t)})
          /\ Sum(g, t) = g[Pick(t)] + Sum(g, t \ {Pick(t)})
      BY <2>2, <3>1, SumEquation
    <3> QED BY <3>2, <3>3
  <2> QED BY <2>1, <2>2
<1> HIDE DEF T
<1>2. SUBSET S \subseteq T
  BY <1>1, SubsetInduction
<1> QED BY <1>2 DEF T

\* A sum of zeros is zero.
LEMMA SumZero ==
  ASSUME NEW S, IsFiniteSet(S), NEW f, \A x \in S : f[x] = 0
  PROVE  Sum(f, S) = 0
<1> DEFINE T == {t \in SUBSET S : Sum(f, t) = 0}
<1>1. ASSUME NEW t \in SUBSET S, \A u \in SUBSET t : u # t => u \in T
      PROVE  t \in T
  <2>1. CASE t = {}
    BY <2>1, SumEmpty
  <2>2. CASE t # {}
    <3>1. IsFiniteSet(t) /\ Pick(t) \in t
      BY <2>2, FS_Subset, PickIn
    <3>2. Sum(f, t \ {Pick(t)}) = 0
      BY <1>1, <3>1
    <3> QED BY <2>2, <3>1, <3>2, SumEquation
  <2> QED BY <2>1, <2>2
<1> HIDE DEF T
<1>2. SUBSET S \subseteq T
  BY <1>1, SubsetInduction
<1> QED BY <1>2 DEF T

\* Changing one term changes the sum by as much.
LEMMA SumUpdate ==
  ASSUME NEW S, IsFiniteSet(S), NEW f, NEW g, NEW x \in S,
         \A y \in S : f[y] \in Nat /\ g[y] \in Nat,
         \A y \in S \ {x} : g[y] = f[y]
  PROVE  /\ Sum(f, S) \in Nat /\ Sum(g, S) \in Nat
         /\ Sum(g, S) = Sum(f, S) + g[x] - f[x]
<1>1. IsFiniteSet(S \ {x})
  BY FS_Subset
<1>2. Sum(f, S \ {x}) = Sum(g, S \ {x})
  BY <1>1, SumSame
<1>3. /\ Sum(f, S) \in Nat /\ Sum(f, S) = f[x] + Sum(f, S \ {x})
      /\ Sum(g, S) \in Nat /\ Sum(g, S) = g[x] + Sum(g, S \ {x})
      /\ Sum(f, S \ {x}) \in Nat
  BY <1>1, SumSplits
<1> QED BY <1>2, <1>3

-----------------------------------------------------------------------------
(* Induction on the naturals, and loops *)

\* A nonempty set of naturals has a least element.
LEMMA LeastNat ==
  ASSUME NEW I, I \subseteq Nat, I # {}
  PROVE  \E i \in I : \A j \in I : i <= j
<1>1. IsWellFoundedOn(OpToRel(<, Nat), Nat)
  BY NatLessThanWellFounded
<1>2. PICK R : R = OpToRel(<, Nat)
  OBVIOUS
<1>3. \A i, j \in Nat : <<i, j>> \in R <=> i < j
  BY <1>2 DEF OpToRel
<1>4. \E i \in I : \A j \in I : ~(<<j, i>> \in R)
  <2>1. IsWellFoundedOn(R, Nat)
    BY <1>1, <1>2
  <2> QED BY <2>1, WFMin
<1>5. PICK i \in I : \A j \in I : ~(<<j, i>> \in R)
  BY <1>4
<1>6. ASSUME NEW j \in I PROVE i <= j
  <2>1. i \in Nat /\ j \in Nat /\ ~(<<j, i>> \in R)
    BY <1>5
  <2>2. ~(j < i)
    BY <1>3, <2>1
  <2> QED BY <2>1, <2>2
<1> QED BY <1>6

\* A set with 0 and every successor contains every natural.
LEMMA Induction ==
  ASSUME NEW T, 0 \in T, \A n \in Nat : n \in T => n + 1 \in T
  PROVE  Nat \subseteq T
<1> DEFINE I == Nat \ T
<1> SUFFICES ASSUME I # {} PROVE FALSE
  OBVIOUS
<1>1. I \subseteq Nat
  OBVIOUS
<1> HIDE DEF I
<1>2. PICK i \in I : \A j \in I : i <= j
  BY <1>1, LeastNat
<1>3. i \in Nat /\ i \notin T /\ i # 0
  BY <1>2 DEF I
<1>4. i - 1 \in Nat /\ ~(i <= i - 1)
  BY <1>3
<1>5. i - 1 \in T
  BY <1>2, <1>4 DEF I
<1>6. (i - 1) + 1 = i
  BY <1>3
<1> QED BY <1>3, <1>4, <1>5, <1>6

\* A function on 1..n is a sequence, and stays it with << >> put before it.
LEMMA FunctionIsSeq ==
  ASSUME NEW S, NEW n \in Nat, NEW f \in [1..n -> S]
  PROVE  f \in Seq(S) /\ Len(f) = n /\ << >> \o f = f
<1>1. f \in Seq(S) /\ Len(f) = n
  OBVIOUS
<1> QED BY <1>1

\* A loop of n rounds: round k makes F[k][a] of a, beginning with base.
Rounds(v, n, base, F) == v = [k \in 0..n |-> IF k = 0 THEN base ELSE F[k][v[k - 1]]]

\* Every loop has a run.
LEMMA LoopHasRun ==
  ASSUME NEW A, NEW base \in A, NEW n \in Nat, NEW F \in [1..n -> [A -> A]]
  PROVE  \E v \in [0..n -> A] : Rounds(v, n, base, F)
<1> DEFINE R(v, k) == v \in [0..k -> A] /\ \A j \in 0..k : v[j] = IF j = 0 THEN base ELSE F[j][v[j - 1]]
<1> DEFINE T == {k \in Nat : k <= n => \E v : R(v, k)}
<1>1. 0 \in T
  <2> PICK v : v = [j \in 0..0 |-> base]
    OBVIOUS
  <2>1. \A j \in 0..0 : j = 0
    OBVIOUS
  <2>2. R(v, 0)
    BY <2>1
  <2> QED BY <2>2
<1>2. ASSUME NEW k \in Nat, k \in T PROVE k + 1 \in T
  <2> HIDE DEF R
  <2> SUFFICES ASSUME k + 1 <= n PROVE \E v : R(v, k + 1)
    OBVIOUS
  <2> USE DEF R
  <2>1. k <= n /\ k + 1 \in 1..n /\ k \in 0..k
    OBVIOUS
  <2>2. PICK v : R(v, k)
    BY <1>2, <2>1
  <2>3. PICK b : b = F[k + 1][v[k]]
    OBVIOUS
  <2>4. b \in A
    <3>1. v[k] \in A
      BY <2>1, <2>2
    <3> HIDE DEF R
    <3> QED BY <2>1, <2>3, <3>1
  <2>5. PICK w : w = [j \in 0..(k + 1) |-> IF j = k + 1 THEN b ELSE v[j]]
    OBVIOUS
  <2>6. \A j \in 0..(k + 1) : j # k + 1 => j \in 0..k
    OBVIOUS
  <2>7. w \in [0..(k + 1) -> A]
    BY <2>2, <2>4, <2>5, <2>6
  <2>8. ASSUME NEW j \in 0..(k + 1) PROVE w[j] = IF j = 0 THEN base ELSE F[j][w[j - 1]]
    <3>1. CASE j = k + 1
      <4>1. j # 0 /\ j - 1 = k /\ k \in 0..(k + 1) /\ k # k + 1
        BY <3>1
      <4>2. w[j] = b /\ w[j - 1] = v[k]
        BY <2>5, <3>1, <4>1
      <4> QED BY <2>3, <3>1, <4>1, <4>2
    <3>2. CASE j # k + 1 /\ j = 0
      <4>1. w[j] = v[j] /\ j \in 0..k
        BY <2>5, <2>6, <3>2
      <4> QED BY <2>2, <3>2, <4>1
    <3>3. CASE j # k + 1 /\ j # 0
      <4>1. j \in 0..k /\ j - 1 \in 0..(k + 1) /\ j - 1 # k + 1
        BY <3>3
      <4>2. w[j] = v[j] /\ w[j - 1] = v[j - 1]
        BY <2>5, <3>3, <4>1
      <4> QED BY <2>2, <3>3, <4>1, <4>2
    <3> QED BY <3>1, <3>2, <3>3
  <2> QED BY <2>7, <2>8
<1> HIDE DEF T
<1>3. n \in T
  BY <1>1, <1>2, Induction
<1>4. \E v : R(v, n)
  <2> HIDE DEF R
  <2> QED BY <1>3 DEF T
<1> PICK v : R(v, n)
  BY <1>4
<1>5. Rounds(v, n, base, F)
  BY DEF Rounds
<1> QED BY <1>5
=============================================================================
