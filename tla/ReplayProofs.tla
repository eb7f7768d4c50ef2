----------------------------- MODULE ReplayProofs -----------------------------
(***************************************************************************)
(* Proofs about hids_replay and its oracle: any models, headers and rows,  *)
(* any number of files and rows.                                           *)
(*                                                                         *)
(* CountInv: the counters of a tool add up to the rows read, and its table *)
(* to the counters. SameInv: besides, both tools have found the same model *)
(* and columns, and the dumps agree. What each loop of one tool and the    *)
(* corresponding matrix operation of the other compute comes first.        *)
(***************************************************************************)
EXTENDS Replay, Sums, SequenceTheorems

-----------------------------------------------------------------------------
(* The confusion matrix *)

Supports(a) == [c \in DOMAIN a |-> SumFunction(a[c])]
Missed(a)   == [c \in DOMAIN a |-> SumFunction(a[c]) - a[c][c]]
Wrong(a)    == [c \in DOMAIN a |-> SumFunction([r \in DOMAIN a |-> a[r][c]]) - a[c][c]]

\* The sums of a function are sums over its domain.
LEMMA SumFunctionIsSum ==
  ASSUME NEW D, NEW f, DOMAIN f = D
  PROVE  SumFunction(f) = Sum(f, D)
BY DEF SumFunction, Sum

\* Changing one value of a function of naturals changes its sum by as much.
LEMMA SumChanges ==
  ASSUME NEW D, IsFiniteSet(D), NEW f \in [D -> Nat], NEW g \in [D -> Nat], NEW x \in D,
         \A z \in D \ {x} : g[z] = f[z]
  PROVE  SumFunction(f) \in Nat /\ SumFunction(g) = SumFunction(f) + (g[x] - f[x])
<1>1. SumFunction(f) = Sum(f, D) /\ SumFunction(g) = Sum(g, D)
  BY SumFunctionIsSum
<1>2. /\ Sum(f, D) \in Nat /\ Sum(g, D) \in Nat
      /\ Sum(g, D) = Sum(f, D) + g[x] - f[x]
  BY SumUpdate
<1>3. f[x] \in Nat /\ g[x] \in Nat
  OBVIOUS
<1> QED BY <1>1, <1>2, <1>3

\* One value of a family of counters grows by n, and so does their sum.
LEMMA SumGrows ==
  ASSUME NEW D, IsFiniteSet(D), NEW f \in [D -> Nat], NEW g \in [D -> Nat], NEW x \in D,
         NEW n \in Nat, g[x] = f[x] + n, \A z \in D \ {x} : g[z] = f[z]
  PROVE  SumFunction(f) \in Nat /\ SumFunction(g) = SumFunction(f) + n
<1>1. SumFunction(f) \in Nat /\ SumFunction(g) = SumFunction(f) + (g[x] - f[x])
  BY SumChanges
<1>2. f[x] \in Nat
  OBVIOUS
<1>3. g[x] - f[x] = n
  BY <1>2
<1> QED BY <1>1, <1>3

\* What is left of a sum without one of its terms.
LEMMA SumLess ==
  ASSUME NEW D, IsFiniteSet(D), NEW f \in [D -> Nat], NEW x \in D
  PROVE  SumFunction(f) \in Nat /\ SumFunction(f) - f[x] \in Nat
<1>1. SumFunction(f) = Sum(f, D)
  BY SumFunctionIsSum
<1>2. IsFiniteSet(D \ {x})
  BY FS_Subset
<1>3. /\ Sum(f, D) \in Nat /\ Sum(f, D) = f[x] + Sum(f, D \ {x})
      /\ Sum(f, D \ {x}) \in Nat /\ f[x] \in Nat
  BY <1>2, SumSplits
<1> QED BY <1>1, <1>3

\* Supports, false negatives and false positives are naturals.
LEMMA MarginTypes ==
  ASSUME NEW D, IsFiniteSet(D), NEW a \in [D -> [D -> Nat]]
  PROVE  Supports(a) \in [D -> Nat] /\ Missed(a) \in [D -> Nat] /\ Wrong(a) \in [D -> Nat]
<1>1. DOMAIN a = D
  OBVIOUS
<1>2. \A c \in D : SumFunction(a[c]) \in Nat /\ SumFunction(a[c]) - a[c][c] \in Nat
  BY SumLess
<1>3. ASSUME NEW c \in D PROVE SumFunction([r \in D |-> a[r][c]]) - a[c][c] \in Nat
  <2> DEFINE f == [r \in D |-> a[r][c]]
  <2>1. f \in [D -> Nat] /\ f[c] = a[c][c]
    OBVIOUS
  <2> HIDE DEF f
  <2>2. SumFunction(f) - f[c] \in Nat
    BY <2>1, SumLess
  <2> QED BY <2>1, <2>2 DEF f
<1> QED BY <1>1, <1>2, <1>3 DEF Supports, Missed, Wrong

\* b is the matrix a with one more row of label y and class p, k one more
\* error.
Bumped(D, a, b, y, p, k) ==
  /\ a \in [D -> [D -> Nat]] /\ b \in [D -> [D -> Nat]]
  /\ b[y][p] = a[y][p] + 1 /\ \A z \in D \ {p} : b[y][z] = a[y][z]
  /\ \A c \in D \ {y} : b[c] = a[c]
  /\ k = IF y = p THEN 0 ELSE 1

MoreIn(a, y, p) == [a EXCEPT ![y][p] = @ + 1]

\* One more row of class y predicted as p adds one to a cell of the table.
LEMMA BumpedBy ==
  ASSUME NEW D, NEW a \in [D -> [D -> Nat]], NEW y \in D, NEW p \in D
  PROVE  /\ MoreIn(a, y, p) \in [D -> [D -> Nat]]
         /\ Bumped(D, a, MoreIn(a, y, p), y, p, IF y = p THEN 0 ELSE 1)
<1>1. PICK b : b = MoreIn(a, y, p)
  OBVIOUS
<1>2. b \in [D -> [D -> Nat]]
  BY <1>1 DEF MoreIn
<1>3. /\ b[y][p] = a[y][p] + 1 /\ \A z \in D \ {p} : b[y][z] = a[y][z]
      /\ \A c \in D \ {y} : b[c] = a[c]
  BY <1>1 DEF MoreIn
<1>4. PICK k : k = IF y = p THEN 0 ELSE 1
  OBVIOUS
<1>5. Bumped(D, a, b, y, p, k)
  BY <1>2, <1>3, <1>4 DEF Bumped
<1> QED BY <1>1, <1>2, <1>4, <1>5

\* The diagonal of the matrix holds the correct rows.
LEMMA Diagonal ==
  ASSUME NEW D, IsFiniteSet(D), NEW a, NEW b, NEW y \in D, NEW p \in D,
         NEW k \in Nat, Bumped(D, a, b, y, p, k)
  PROVE  /\ \A c \in D : a[c][c] \in Nat
         /\ b[y][y] = a[y][y] + 1 - k /\ b[p][p] = a[p][p] + 1 - k
         /\ \A c \in D : c # y \/ c # p => b[c][c] = a[c][c]
<1>1. \A c \in D : a[c][c] \in Nat
  BY DEF Bumped
<1>2. CASE y = p
  <2>1. k = 0 /\ b[y][y] = a[y][y] + 1 /\ \A c \in D \ {y} : b[c] = a[c]
    BY <1>2 DEF Bumped
  <2> QED BY <1>1, <1>2, <2>1
<1>3. CASE y # p
  <2>1. k = 1 /\ b[y][y] = a[y][y] /\ b[p][p] = a[p][p]
    BY <1>3 DEF Bumped
  <2>2. \A c \in D : b[c][c] = a[c][c]
    BY <2>1 DEF Bumped
  <2> QED BY <1>1, <2>1, <2>2
<1> QED BY <1>2, <1>3

\* The supports.
LEMMA SupportsGrow ==
  ASSUME NEW D, IsFiniteSet(D), NEW a, NEW b, NEW y \in D, NEW p \in D,
         NEW k \in Nat, Bumped(D, a, b, y, p, k)
  PROVE  /\ SumFunction(a[y]) \in Nat /\ SumFunction(b[y]) = SumFunction(a[y]) + 1
         /\ SumFunction(Supports(a)) \in Nat
         /\ SumFunction(Supports(b)) = SumFunction(Supports(a)) + 1
<1>1. SumFunction(a[y]) \in Nat /\ SumFunction(b[y]) = SumFunction(a[y]) + 1
  <2> PICK f, g : f = a[y] /\ g = b[y]
    OBVIOUS
  <2>1. f \in [D -> Nat] /\ g \in [D -> Nat] /\ g[p] = f[p] + 1 /\ \A z \in D \ {p} : g[z] = f[z]
    BY DEF Bumped
  <2>2. SumFunction(f) \in Nat /\ SumFunction(g) = SumFunction(f) + 1
    BY <2>1, SumGrows
  <2> QED BY <2>2
<1>2. Supports(a) \in [D -> Nat] /\ Supports(b) \in [D -> Nat]
  BY MarginTypes DEF Bumped
<1>3. Supports(b)[y] = Supports(a)[y] + 1 /\ \A z \in D \ {y} : Supports(b)[z] = Supports(a)[z]
  BY <1>1 DEF Supports, Bumped
<1>4. SumFunction(Supports(a)) \in Nat /\ SumFunction(Supports(b)) = SumFunction(Supports(a)) + 1
  <2> PICK f, g : f = Supports(a) /\ g = Supports(b)
    OBVIOUS
  <2>1. f \in [D -> Nat] /\ g \in [D -> Nat] /\ g[y] = f[y] + 1 /\ \A z \in D \ {y} : g[z] = f[z]
    BY <1>2, <1>3
  <2>2. SumFunction(f) \in Nat /\ SumFunction(g) = SumFunction(f) + 1
    BY <2>1, SumGrows
  <2> QED BY <2>2
<1> QED BY <1>1, <1>4

\* The false negatives.
LEMMA MissedGrow ==
  ASSUME NEW D, IsFiniteSet(D), NEW a, NEW b, NEW y \in D, NEW p \in D,
         NEW k \in Nat, Bumped(D, a, b, y, p, k)
  PROVE  SumFunction(Missed(a)) \in Nat /\ SumFunction(Missed(b)) = SumFunction(Missed(a)) + k
<1>1. Missed(a) \in [D -> Nat] /\ Missed(b) \in [D -> Nat]
  BY MarginTypes DEF Bumped
<1>2. Missed(b)[y] = Missed(a)[y] + k
  <2>1. Missed(a)[y] = SumFunction(a[y]) - a[y][y] /\ Missed(b)[y] = SumFunction(b[y]) - b[y][y]
    BY DEF Missed, Bumped
  <2> PICK s, t, d, e : s = SumFunction(a[y]) /\ t = SumFunction(b[y]) /\ d = a[y][y] /\ e = b[y][y]
    OBVIOUS
  <2>2. s \in Nat /\ t = s + 1 /\ d \in Nat /\ e = d + 1 - k
    BY SupportsGrow, Diagonal
  <2>3. t - e = s - d + k
    BY <2>2
  <2> QED BY <2>1, <2>3
<1>3. \A z \in D \ {y} : Missed(b)[z] = Missed(a)[z]
  <2>1. \A z \in D \ {y} : b[z] = a[z]
    BY DEF Bumped
  <2> QED BY <2>1 DEF Missed, Bumped
<1> PICK f, g : f = Missed(a) /\ g = Missed(b)
  OBVIOUS
<1>4. f \in [D -> Nat] /\ g \in [D -> Nat] /\ g[y] = f[y] + k /\ \A z \in D \ {y} : g[z] = f[z]
  BY <1>1, <1>2, <1>3
<1>5. SumFunction(f) \in Nat /\ SumFunction(g) = SumFunction(f) + k
  BY <1>4, SumGrows
<1> QED BY <1>5

\* The false positives.
LEMMA WrongGrow ==
  ASSUME NEW D, IsFiniteSet(D), NEW a, NEW b, NEW y \in D, NEW p \in D,
         NEW k \in Nat, Bumped(D, a, b, y, p, k)
  PROVE  SumFunction(Wrong(a)) \in Nat /\ SumFunction(Wrong(b)) = SumFunction(Wrong(a)) + k
<1>1. /\ \A c \in D : a[c][c] \in Nat
      /\ b[y][y] = a[y][y] + 1 - k /\ b[p][p] = a[p][p] + 1 - k
      /\ \A c \in D : c # y \/ c # p => b[c][c] = a[c][c]
  BY Diagonal
<1> DEFINE column(q, c) == [r \in D |-> q[r][c]]
<1>2. Wrong(a) \in [D -> Nat] /\ Wrong(b) \in [D -> Nat]
  BY MarginTypes DEF Bumped
<1>3. /\ column(a, p) \in [D -> Nat] /\ column(b, p) \in [D -> Nat]
      /\ column(b, p)[y] = column(a, p)[y] + 1
      /\ \A r \in D \ {y} : column(b, p)[r] = column(a, p)[r]
  BY DEF Bumped
<1>4. ASSUME NEW c \in D \ {p} PROVE column(b, c) = column(a, c)
  <2>1. \A r \in D : b[r][c] = a[r][c]
    BY <1>4 DEF Bumped
  <2> QED BY <2>1
<1>5. \A c \in D : /\ Wrong(a)[c] = SumFunction(column(a, c)) - a[c][c]
                   /\ Wrong(b)[c] = SumFunction(column(b, c)) - b[c][c]
  BY DEF Wrong, Bumped
<1> HIDE DEF column
<1>6. SumFunction(column(a, p)) \in Nat /\ SumFunction(column(b, p)) = SumFunction(column(a, p)) + 1
  <2> PICK f, g : f = column(a, p) /\ g = column(b, p)
    OBVIOUS
  <2>1. f \in [D -> Nat] /\ g \in [D -> Nat] /\ g[y] = f[y] + 1 /\ \A z \in D \ {y} : g[z] = f[z]
    BY <1>3
  <2>2. SumFunction(f) \in Nat /\ SumFunction(g) = SumFunction(f) + 1
    BY <2>1, SumGrows
  <2> QED BY <2>2
<1>7. Wrong(b)[p] = Wrong(a)[p] + k
  <2> PICK s, t, d, e : s = SumFunction(column(a, p)) /\ t = SumFunction(column(b, p))
                        /\ d = a[p][p] /\ e = b[p][p]
    OBVIOUS
  <2>1. s \in Nat /\ t = s + 1 /\ d \in Nat /\ e = d + 1 - k
    BY <1>6, <1>1
  <2>2. t - e = s - d + k
    BY <2>1
  <2> QED BY <1>5, <2>2
<1>8. ASSUME NEW c \in D \ {p} PROVE Wrong(b)[c] = Wrong(a)[c]
  <2>1. b[c][c] = a[c][c]
    BY <1>1
  <2> QED BY <1>4, <1>5, <2>1
<1> PICK f, g : f = Wrong(a) /\ g = Wrong(b)
  OBVIOUS
<1>9. f \in [D -> Nat] /\ g \in [D -> Nat] /\ g[p] = f[p] + k /\ \A z \in D \ {p} : g[z] = f[z]
  BY <1>2, <1>7, <1>8
<1>10. SumFunction(f) \in Nat /\ SumFunction(g) = SumFunction(f) + k
  BY <1>9, SumGrows
<1> QED BY <1>10

-----------------------------------------------------------------------------
(* The loops of predict() *)

\* Min returns the least element of a set of naturals.
LEMMA MinIsLeast ==
  ASSUME NEW I, I \subseteq Nat, I # {}
  PROVE  Min(I) \in I /\ \A j \in I : Min(I) <= j
BY LeastNat DEF Min

\* p is the first of the greatest among the first n numbers of z.
Greatest(z, n, p) == p \in 1..n /\ \A q \in 1..n : z[q] < z[p] \/ (z[q] = z[p] /\ p <= q)

\* best is a run of the loop of predict() over z.
Loop(best, z) ==
  best = [i \in 1..Len(z) |->
            IF i = 1 THEN 1 ELSE LET b == best[i - 1] IN IF Beats(z[i], z[b]) THEN i ELSE b]

\* At most one place is the first greatest.
LEMMA GreatestUnique ==
  ASSUME NEW z \in Seq(Int), NEW n \in 1..Len(z), NEW p, NEW q, Greatest(z, n, p), Greatest(z, n, q)
  PROVE  p = q
<1>1. p \in 1..n /\ q \in 1..n /\ p \in Int /\ q \in Int
  BY DEF Greatest
<1>2. z[p] \in Int /\ z[q] \in Int
  BY <1>1
<1>3. z[q] < z[p] \/ (z[q] = z[p] /\ p <= q)
  BY <1>1 DEF Greatest
<1>4. z[p] < z[q] \/ (z[p] = z[q] /\ q <= p)
  BY <1>1 DEF Greatest
<1> QED BY <1>1, <1>2, <1>3, <1>4

\* One more logit keeps the place found so far or beats it.
LEMMA GreatestStep ==
  ASSUME NEW z \in Seq(Int), NEW n \in Nat \ {0}, n + 1 <= Len(z), NEW p, Greatest(z, n, p)
  PROVE  Greatest(z, n + 1, IF z[n + 1] > z[p] THEN n + 1 ELSE p)
<1>1. /\ p \in 1..n /\ p \in 1..(n + 1) /\ n + 1 \in 1..(n + 1) /\ p <= n + 1
      /\ \A q \in 1..(n + 1) : q \in 1..n \/ q = n + 1
      /\ \A q \in 1..(n + 1) : q \in 1..Len(z) /\ q \in Int
  BY DEF Greatest
<1>2. \A q \in 1..(n + 1) : z[q] \in Int
  BY <1>1
<1>3. \A q \in 1..n : z[q] < z[p] \/ (z[q] = z[p] /\ p <= q)
  BY DEF Greatest
<1>4. CASE z[n + 1] > z[p]
  <2>1. ASSUME NEW q \in 1..n PROVE z[q] < z[n + 1]
    <3>1. z[q] \in Int /\ z[p] \in Int /\ z[n + 1] \in Int
      BY <1>1, <1>2
    <3>2. z[q] <= z[p]
      BY <1>3, <3>1
    <3> QED BY <1>4, <3>1, <3>2
  <2>2. ASSUME NEW q \in 1..(n + 1)
        PROVE  z[q] < z[n + 1] \/ (z[q] = z[n + 1] /\ n + 1 <= q)
    <3>1. CASE q \in 1..n
      BY <2>1, <3>1
    <3>2. CASE q = n + 1
      BY <3>2
    <3> QED BY <1>1, <3>1, <3>2
  <2> QED BY <1>1, <1>4, <2>2 DEF Greatest
<1>5. CASE ~(z[n + 1] > z[p])
  <2>1. z[n + 1] < z[p] \/ z[n + 1] = z[p]
    BY <1>1, <1>2, <1>5
  <2>2. ASSUME NEW q \in 1..(n + 1)
        PROVE  z[q] < z[p] \/ (z[q] = z[p] /\ p <= q)
    <3>1. CASE q \in 1..n
      BY <1>3, <3>1
    <3>2. CASE q = n + 1
      BY <1>1, <2>1, <3>2
    <3> QED BY <1>1, <3>1, <3>2
  <2> QED BY <1>1, <1>5, <2>2 DEF Greatest
<1> QED BY <1>4, <1>5

\* By induction on the number of logits, there is such a place.
LEMMA GreatestExists ==
  ASSUME NEW z \in Seq(Int), NEW n \in 1..Len(z)
  PROVE  \E p : Greatest(z, n, p)
<1> DEFINE T == {k \in Nat : k + 1 <= Len(z) => \E p : Greatest(z, k + 1, p)}
<1>1. Len(z) \in Nat
  OBVIOUS
<1>2. 0 \in T
  <2>1. ASSUME 1 <= Len(z) PROVE Greatest(z, 1, 1)
    <3>1. \A q \in 1..1 : q = 1
      OBVIOUS
    <3> QED BY <3>1 DEF Greatest
  <2> QED BY <2>1
<1>3. ASSUME NEW k \in Nat, k \in T PROVE k + 1 \in T
  <2>1. SUFFICES ASSUME k + 1 + 1 <= Len(z) PROVE \E p : Greatest(z, k + 1 + 1, p)
    OBVIOUS
  <2>2. k + 1 <= Len(z) /\ k + 1 \in Nat \ {0}
    BY <1>1, <2>1
  <2>3. PICK p : Greatest(z, k + 1, p)
    BY <1>3, <2>2
  <2>4. PICK j : j = k + 1
    OBVIOUS
  <2>5. Greatest(z, j + 1, IF z[j + 1] > z[p] THEN j + 1 ELSE p)
    BY <2>1, <2>2, <2>3, <2>4, GreatestStep
  <2> QED BY <2>4, <2>5
<1> HIDE DEF T
<1>4. Nat \subseteq T
  BY <1>2, <1>3, Induction
<1>5. n - 1 \in Nat /\ (n - 1) + 1 = n /\ n <= Len(z)
  BY <1>1
<1>6. n - 1 \in T
  BY <1>4, <1>5
<1> QED BY <1>5, <1>6 DEF T

\* The loop has a run, and each round leaves the first of the greatest.
LEMMA LoopRuns ==
  ASSUME NEW z \in Seq(Int)
  PROVE  \E best : Loop(best, z)
<1> DEFINE G(n)  == CHOOSE p : Greatest(z, n, p)
           best  == [i \in 1..Len(z) |-> G(i)]
<1>1. \A n \in 1..Len(z) : Greatest(z, n, G(n))
  BY GreatestExists
<1>2. \A i \in 1..Len(z) : best[i] = G(i)
  OBVIOUS
<1>3. ASSUME NEW i \in 1..Len(z)
      PROVE  G(i) = IF i = 1 THEN 1 ELSE IF Beats(z[i], z[best[i - 1]]) THEN i ELSE best[i - 1]
  <2> HIDE DEF G
  <2>1. CASE i = 1
    <3>1. G(1) \in 1..1
      BY <1>1, <2>1 DEF Greatest
    <3> QED BY <2>1, <3>1
  <2>2. CASE i # 1
    <3> PICK n : n = i - 1
      OBVIOUS
    <3>1. n \in Nat \ {0} /\ n \in 1..Len(z) /\ n + 1 = i /\ n + 1 <= Len(z)
      BY <2>2
    <3>2. Greatest(z, n, G(n)) /\ Greatest(z, i, G(i)) /\ best[n] = G(n)
      BY <1>1, <1>2, <3>1
    <3>3. Greatest(z, i, IF z[i] > z[G(n)] THEN i ELSE G(n))
      BY <3>1, <3>2, GreatestStep
    <3>4. G(i) = IF z[i] > z[G(n)] THEN i ELSE G(n)
      BY <3>2, <3>3, GreatestUnique
    <3> QED BY <2>2, <3>2, <3>4 DEF Beats
  <2> QED BY <2>1, <2>2
<1> HIDE DEF G
<1>4. Loop(best, z)
  BY <1>3 DEF Loop
<1> QED BY <1>4

\* The same induction on the loop of predict(): best[n] is the place among the
\* first n logits.
LEMMA LoopFinds ==
  ASSUME NEW z \in Seq(Int), NEW best, Loop(best, z), NEW n \in 1..Len(z)
  PROVE  Greatest(z, n, best[n])
<1> DEFINE T == {k \in Nat : k + 1 <= Len(z) => Greatest(z, k + 1, best[k + 1])}
<1>1. Len(z) \in Nat
  OBVIOUS
<1>2. \A i \in 1..Len(z) :
        best[i] = IF i = 1 THEN 1 ELSE IF z[i] > z[best[i - 1]] THEN i ELSE best[i - 1]
  BY DEF Loop, Beats
<1>3. 0 \in T
  <2>1. ASSUME 1 <= Len(z) PROVE Greatest(z, 1, best[1])
    <3>1. \A q \in 1..1 : q = 1
      OBVIOUS
    <3>2. best[1] = 1
      BY <1>1, <1>2, <2>1
    <3> QED BY <3>1, <3>2 DEF Greatest
  <2> QED BY <2>1
<1>4. ASSUME NEW k \in Nat, k \in T PROVE k + 1 \in T
  <2>1. SUFFICES ASSUME k + 1 + 1 <= Len(z) PROVE Greatest(z, k + 1 + 1, best[k + 1 + 1])
    OBVIOUS
  <2>2. PICK j : j = k + 1
    OBVIOUS
  <2>3. /\ j <= Len(z) /\ j \in Nat \ {0} /\ j + 1 <= Len(z)
        /\ j + 1 \in 1..Len(z) /\ j + 1 # 1 /\ (j + 1) - 1 = j
    BY <1>1, <2>1, <2>2
  <2>4. Greatest(z, j, best[j])
    BY <1>4, <2>2, <2>3
  <2>5. Greatest(z, j + 1, IF z[j + 1] > z[best[j]] THEN j + 1 ELSE best[j])
    BY <2>3, <2>4, GreatestStep
  <2>6. best[j + 1] = IF z[j + 1] > z[best[j]] THEN j + 1 ELSE best[j]
    BY <1>2, <2>3
  <2> QED BY <2>2, <2>5, <2>6
<1> HIDE DEF T
<1>5. Nat \subseteq T
  BY <1>3, <1>4, Induction
<1>6. n - 1 \in Nat /\ (n - 1) + 1 = n /\ n <= Len(z)
  BY <1>1
<1>7. n - 1 \in T
  BY <1>5, <1>6
<1> QED BY <1>6, <1>7 DEF T

\* predict()'s loop finds the first of the greatest logits, which is what
\* argmax of NumPy is defined to be.
LEMMA ArgMaxIsFirst ==
  ASSUME NEW z \in Seq(Int), z # << >>
  PROVE  ArgMax(z) \in 1..Len(z) /\ ArgMax(z) = argmax(z)
<1>1. Len(z) \in 1..Len(z) /\ DOMAIN z = 1..Len(z)
  OBVIOUS
<1>2. ArgMax(z) = (CHOOSE best : Loop(best, z))[Len(z)]
  BY DEF ArgMax, Loop
<1>3. Loop(CHOOSE best : Loop(best, z), z)
  BY LoopRuns
<1>4. Greatest(z, Len(z), ArgMax(z))
  BY <1>1, <1>2, <1>3, LoopFinds
<1>5. \A p : Greatest(z, Len(z), p) => p = ArgMax(z)
  BY <1>1, <1>4, GreatestUnique
<1>6. argmax(z) = CHOOSE p \in 1..Len(z) : \A q \in 1..Len(z) : z[q] < z[p] \/ (z[q] = z[p] /\ p <= q)
  BY <1>1 DEF argmax
<1>7. \E p \in 1..Len(z) : \A q \in 1..Len(z) : z[q] < z[p] \/ (z[q] = z[p] /\ p <= q)
  BY <1>4 DEF Greatest
<1>8. Greatest(z, Len(z), argmax(z))
  BY <1>6, <1>7 DEF Greatest
<1> QED BY <1>4, <1>5, <1>8 DEF Greatest

\* s adds g[1], g[2], ... to c, one after the other.
Adds(s, n, g, c) == s = [j \in 0..n |-> IF j = 0 THEN c ELSE s[j - 1] + g[j]]

\* Adding in turn gives the sum, whatever the order a sum is taken in.
LEMMA LoopAdds ==
  ASSUME NEW n \in Nat, NEW g, \A j \in 1..n : g[j] \in Int, NEW c \in Int
  PROVE  /\ \E s : Adds(s, n, g, c)
         /\ \A s : Adds(s, n, g, c) => s[n] = c + Sum(g, 1..n)
         /\ Sum(g, 1..n) \in Int
<1> DEFINE P(k) == Sum(g, 1..k)
<1>1. P(0) = 0
  <2>1. 1..0 = {}
    OBVIOUS
  <2> QED BY <2>1, SumEmpty
<1>2. ASSUME NEW k \in 1..n PROVE P(k) \in Int /\ P(k - 1) \in Int /\ P(k) = P(k - 1) + g[k]
  <2>1. IsFiniteSet(1..k) /\ IsFiniteSet(1..(k - 1))
    BY FS_Interval
  <2>2. (1..k) \ {k} = 1..(k - 1) /\ k \in 1..k
    OBVIOUS
  <2>3. \A j \in 1..k : g[j] \in Int
    OBVIOUS
  <2>4. \A j \in 1..(k - 1) : g[j] \in Int
    OBVIOUS
  <2>5. P(k) \in Int /\ P(k) = g[k] + P(k - 1)
    BY <2>1, <2>2, <2>3, SumTakesOff
  <2>6. P(k - 1) \in Int
    BY <2>1, <2>4, SumTakesOff
  <2>7. g[k] \in Int
    OBVIOUS
  <2> HIDE DEF P
  <2> QED BY <2>5, <2>6, <2>7
<1> HIDE DEF P
<1>3. \E s : Adds(s, n, g, c)
  <2> DEFINE s == [j \in 0..n |-> c + P(j)]
  <2>1. ASSUME NEW j \in 0..n PROVE s[j] = IF j = 0 THEN c ELSE s[j - 1] + g[j]
    <3>1. CASE j = 0
      BY <1>1, <3>1
    <3>2. CASE j # 0
      <4>1. j \in 1..n /\ j - 1 \in 0..n
        BY <3>2
      <4>2. P(j) \in Int /\ P(j - 1) \in Int /\ P(j) = P(j - 1) + g[j]
        BY <1>2, <4>1
      <4>3. s[j] = c + P(j) /\ s[j - 1] = c + P(j - 1)
        BY <4>1
      <4>4. g[j] \in Int
        BY <4>1
      <4> HIDE DEF s
      <4>5. c + (P(j - 1) + g[j]) = (c + P(j - 1)) + g[j]
        BY <4>2, <4>4
      <4> QED BY <3>2, <4>2, <4>3, <4>5
    <3> QED BY <3>1, <3>2
  <2>2. Adds(s, n, g, c)
    BY <2>1 DEF Adds
  <2> QED BY <2>2
<1>4. ASSUME NEW s, Adds(s, n, g, c) PROVE s[n] = c + P(n)
  <2> DEFINE T == {k \in Nat : k <= n => s[k] = c + P(k)}
  <2>1. \A j \in 0..n : s[j] = IF j = 0 THEN c ELSE s[j - 1] + g[j]
    BY <1>4 DEF Adds
  <2>2. 0 \in T
    BY <1>1, <2>1
  <2>3. ASSUME NEW k \in Nat, k \in T PROVE k + 1 \in T
    <3> SUFFICES ASSUME k + 1 <= n PROVE s[k + 1] = c + P(k + 1)
      OBVIOUS
    <3>1. k <= n /\ k + 1 \in 1..n /\ k + 1 \in 0..n /\ (k + 1) - 1 = k /\ k + 1 # 0
      OBVIOUS
    <3>2. s[k] = c + P(k)
      BY <2>3, <3>1
    <3>3. s[k + 1] = s[k] + g[k + 1]
      BY <2>1, <3>1
    <3>4. P(k) \in Int /\ P(k + 1) = P(k) + g[k + 1] /\ g[k + 1] \in Int
      BY <1>2, <3>1
    <3>5. (c + P(k)) + g[k + 1] = c + (P(k) + g[k + 1])
      BY <3>4
    <3> QED BY <3>2, <3>3, <3>4, <3>5
  <2> HIDE DEF T
  <2>4. Nat \subseteq T
    BY <2>2, <2>3, Induction
  <2>5. n \in T
    BY <2>4
  <2> QED BY <2>5 DEF T
<1>5. P(n) \in Int
  BY <1>1, <1>2
<1> QED BY <1>3, <1>4, <1>5 DEF P

\* s is a run of the loop of one neuron.
Fires(s, W, b, x, i) ==
  s = [j \in 0..Len(x) |-> IF j = 0 THEN Unit * b[i] ELSE s[j - 1] + W[(i - 1) * Len(x) + j] * x[j]]

\* A neuron over the flat array computes a row of the matrix times x, plus
\* the bias.
LEMMA NeuronIsAffine ==
  ASSUME NEW W, NEW M, NEW b, NEW x \in Seq(Int), NEW i, b[i] \in Int,
         \A j \in 1..Len(x) : M[i][j] \in Int /\ W[(i - 1) * Len(x) + j] = M[i][j]
  PROVE  /\ Neuron(W, b, x, i) = SumFunction([j \in DOMAIN x |-> M[i][j] * x[j]]) + Unit * b[i]
         /\ Neuron(W, b, x, i) \in Int
<1> PICK n, g, c : n = Len(x) /\ g = [j \in DOMAIN x |-> M[i][j] * x[j]] /\ c = Unit * b[i]
  OBVIOUS
<1>1. n \in Nat /\ DOMAIN x = 1..n /\ \A j \in 1..n : x[j] \in Int
  OBVIOUS
<1>2. c \in Int
  BY ModelAssumption
<1>3. \A j \in 1..n : g[j] = M[i][j] * x[j] /\ g[j] \in Int
  BY <1>1
<1>4. SumFunction(g) = Sum(g, 1..n)
  BY <1>1, SumFunctionIsSum
<1>5. ASSUME NEW s PROVE Fires(s, W, b, x, i) <=> Adds(s, n, g, c)
  <2>1. \A j \in 0..n : j # 0 => W[(i - 1) * Len(x) + j] * x[j] = g[j]
    <3>1. \A j \in 0..n : j # 0 => j \in 1..n
      BY <1>1
    <3> QED BY <1>3, <3>1
  <2> PICK h : h = [j \in 0..n |-> W[(i - 1) * Len(x) + j] * x[j]]
    OBVIOUS
  <2>2. Fires(s, W, b, x, i) <=> s = [j \in 0..n |-> IF j = 0 THEN c ELSE s[j - 1] + h[j]]
    BY DEF Fires
  <2>3. \A j \in 0..n : j # 0 => h[j] = g[j]
    BY <2>1
  <2>4. [j \in 0..n |-> IF j = 0 THEN c ELSE s[j - 1] + h[j]]
          = [j \in 0..n |-> IF j = 0 THEN c ELSE s[j - 1] + g[j]]
    BY <2>3
  <2> QED BY <2>2, <2>4 DEF Adds
<1>6. Neuron(W, b, x, i) = (CHOOSE s : Fires(s, W, b, x, i))[Len(x)]
  BY DEF Neuron, Fires
<1>7. /\ \E s : Adds(s, n, g, c)
      /\ \A s : Adds(s, n, g, c) => s[n] = c + Sum(g, 1..n)
      /\ Sum(g, 1..n) \in Int
  <2>1. n \in Nat /\ \A j \in 1..n : g[j] \in Int
    BY <1>1, <1>3, Zenon
  <2> QED BY <1>2, <2>1, LoopAdds, Zenon
<1>8. Fires(CHOOSE s : Fires(s, W, b, x, i), W, b, x, i)
  BY <1>5, <1>7
<1>9. Neuron(W, b, x, i) = c + Sum(g, 1..n)
  BY <1>5, <1>6, <1>7, <1>8
<1>10. Sum(g, 1..n) + c = c + Sum(g, 1..n) /\ c + Sum(g, 1..n) \in Int
  BY <1>2, <1>7
<1> QED BY <1>4, <1>9, <1>10

\* Rectification, as a comparison and as a maximum.
LEMMA SameReLU ==
  ASSUME NEW v \in Int
  PROVE  (CHOOSE w \in {v, 0} : w >= v /\ w >= 0) = ReLU(v) /\ ReLU(v) \in Int
<1>1. \E w \in {v, 0} : w >= v /\ w >= 0
  OBVIOUS
<1>2. PICK w : w = CHOOSE u \in {v, 0} : u >= v /\ u >= 0
  OBVIOUS
<1>3. w \in {v, 0} /\ w >= v /\ w >= 0
  BY <1>1, <1>2
<1>4. w = ReLU(v) /\ ReLU(v) \in Int
  BY <1>3 DEF ReLU
<1> QED BY <1>2, <1>4

\* The entries of M are those of the flat array W, row by row.
Flat(W, M, r, cols) ==
  \A i \in 1..r : \A j \in 1..cols : M[i][j] \in Int /\ W[(i - 1) * cols + j] = M[i][j]

\* One layer: the loops of predict() and the matrix product of the oracle.
LEMMA SameAffine ==
  ASSUME NEW W, NEW M, NEW b \in Seq(Int), NEW x \in Seq(Int), Flat(W, M, Len(b), Len(x))
  PROVE  /\ Affine(M, x, b) \in Seq(Int) /\ Len(Affine(M, x, b)) = Len(b)
         /\ Affine(M, x, b) = << >> \o [i \in 1..Len(b) |-> Neuron(W, b, x, i)]
         /\ \A i \in 1..Len(b) : /\ Affine(M, x, b)[i] = Neuron(W, b, x, i)
                                 /\ Neuron(W, b, x, i) \in Int
<1> DEFINE A(i) == SumFunction([j \in DOMAIN x |-> M[i][j] * x[j]]) + Unit * b[i]
           f    == [i \in DOMAIN b |-> A(i)]
<1>1. Len(b) \in Nat /\ DOMAIN b = 1..Len(b) /\ \A i \in 1..Len(b) : b[i] \in Int
  OBVIOUS
<1>2. ASSUME NEW i \in 1..Len(b) PROVE A(i) = Neuron(W, b, x, i) /\ Neuron(W, b, x, i) \in Int
  <2>1. \A j \in 1..Len(x) : M[i][j] \in Int /\ W[(i - 1) * Len(x) + j] = M[i][j]
    BY DEF Flat
  <2>2. b[i] \in Int
    OBVIOUS
  <2> HIDE DEF A
  <2>3. /\ Neuron(W, b, x, i) = SumFunction([j \in DOMAIN x |-> M[i][j] * x[j]]) + Unit * b[i]
        /\ Neuron(W, b, x, i) \in Int
    BY <2>1, <2>2, NeuronIsAffine
  <2> QED BY <2>3 DEF A
<1>3. Affine(M, x, b) = << >> \o f
  BY DEF Affine
<1> HIDE DEF A
<1>4. f = [i \in 1..Len(b) |-> Neuron(W, b, x, i)] /\ f \in [1..Len(b) -> Int]
  BY <1>1, <1>2
<1>5. f \in Seq(Int) /\ Len(f) = Len(b) /\ << >> \o f = f
  BY <1>1, <1>4, FunctionIsSeq
<1>6. \A i \in 1..Len(b) : f[i] = Neuron(W, b, x, i)
  BY <1>4
<1> HIDE DEF f
<1> QED BY <1>2, <1>3, <1>4, <1>5, <1>6

\* Both tools compute the same hidden layer.
LEMMA SameHidden ==
  ASSUME NEW W, NEW M, NEW b \in Seq(Int), NEW x \in Seq(Int), Flat(W, M, Len(b), Len(x))
  PROVE  /\ Hidden(W, b, x) = maximum(Affine(M, x, b))
         /\ Hidden(W, b, x) \in Seq(Int) /\ Len(Hidden(W, b, x)) = Len(b)
<1> PICK z : z = Affine(M, x, b)
  OBVIOUS
<1>1. /\ z \in Seq(Int) /\ Len(z) = Len(b)
      /\ \A i \in 1..Len(b) : z[i] = Neuron(W, b, x, i) /\ Neuron(W, b, x, i) \in Int
  <2>1. /\ Affine(M, x, b) \in Seq(Int) /\ Len(Affine(M, x, b)) = Len(b)
        /\ Affine(M, x, b) = << >> \o [i \in 1..Len(b) |-> Neuron(W, b, x, i)]
        /\ \A i \in 1..Len(b) : /\ Affine(M, x, b)[i] = Neuron(W, b, x, i)
                                /\ Neuron(W, b, x, i) \in Int
    BY SameAffine
  <2> QED BY <2>1
<1>2. Len(b) \in Nat /\ DOMAIN z = 1..Len(b)
  BY <1>1
<1> DEFINE h == [i \in 1..Len(b) |-> ReLU(Neuron(W, b, x, i))]
           g == [i \in DOMAIN z |-> CHOOSE v \in {z[i], 0} : v >= z[i] /\ v >= 0]
<1>3. Hidden(W, b, x) = << >> \o h /\ maximum(z) = << >> \o g
  BY DEF Hidden, maximum
<1>4. \A i \in 1..Len(b) : /\ ReLU(Neuron(W, b, x, i)) \in Int
                           /\ (CHOOSE v \in {z[i], 0} : v >= z[i] /\ v >= 0) = ReLU(Neuron(W, b, x, i))
  BY <1>1, SameReLU
<1>5. h = g /\ h \in [1..Len(b) -> Int]
  BY <1>2, <1>4
<1> HIDE DEF h, g
<1>6. h \in Seq(Int) /\ Len(h) = Len(b) /\ << >> \o h = h
  BY <1>2, <1>5, FunctionIsSeq
<1> QED BY <1>3, <1>5, <1>6

-----------------------------------------------------------------------------
(* The two readings of model.bin *)

\* len words of the file, from one on.
LEMMA Slice ==
  ASSUME NEW w \in Seq(Int), NEW from \in Nat \ {0}, NEW len \in Nat, from + len - 1 <= Len(w)
  PROVE  /\ SubSeq(w, from, from + len - 1) \in Seq(Int)
         /\ Len(SubSeq(w, from, from + len - 1)) = len
         /\ \A k \in 1..len : /\ SubSeq(w, from, from + len - 1)[k] = w[from + k - 1]
                              /\ w[from + k - 1] \in Int
<1>1. Len(w) \in Nat /\ \A i \in from..(from + len - 1) : i \in 1..Len(w)
  OBVIOUS
<1>2. \A i \in from..(from + len - 1) : w[i] \in Int
  BY <1>1
<1>3. from \in Int /\ from + len - 1 \in Int
  OBVIOUS
<1>4. PICK to : to = from + len - 1
  OBVIOUS
<1>5. /\ SubSeq(w, from, to) \in Seq(Int)
      /\ Len(SubSeq(w, from, to)) = (IF from <= to THEN to - from + 1 ELSE 0)
      /\ \A i \in 1..(to - from + 1) : SubSeq(w, from, to)[i] = w[from + i - 1]
  BY <1>2, <1>3, <1>4, SubSeqProperties
<1>6. to - from + 1 = len /\ (IF from <= to THEN to - from + 1 ELSE 0) = len
  BY <1>4
<1>7. \A k \in 1..len : from + k - 1 \in from..to
  BY <1>4
<1> QED BY <1>2, <1>4, <1>5, <1>6, <1>7

\* Position of an entry of a matrix with r rows that is stored row by row.
LEMMA RowMajor ==
  ASSUME NEW r \in Nat, NEW cols \in Nat, NEW i \in 1..r, NEW j \in 1..cols, NEW a, NEW b, NEW c,
         a = (i - 1) * cols, b = i * cols, c = r * cols
  PROVE  a \in Nat /\ b \in Nat /\ c \in Nat /\ b = a + cols /\ a + j \in 1..c /\ b <= c
<1>1. i \in Nat /\ i - 1 \in Nat /\ r - i \in Nat
  OBVIOUS
<1>2. a \in Nat /\ b \in Nat /\ c \in Nat
  BY <1>1
<1>3. b = a + cols
  BY <1>1
<1>4. (r - i) * cols \in Nat /\ r * cols = i * cols + (r - i) * cols
  BY <1>1
<1>5. b <= c
  BY <1>2, <1>4
<1> QED BY <1>2, <1>3, <1>5

\* The flat array and the oracle's reshaped one.
LEMMA FlatIsReshaped ==
  ASSUME NEW w \in Seq(Int), NEW first \in Nat \ {0}, NEW r \in Nat, NEW cols \in Nat,
         NEW size \in Nat, size = r * cols, first + size - 1 <= Len(w)
  PROVE  Flat(SubSeq(w, first, first + size - 1), reshape(w, first, r, cols), r, cols)
<1> SUFFICES ASSUME NEW i \in 1..r, NEW j \in 1..cols
             PROVE  /\ reshape(w, first, r, cols)[i][j] \in Int
                    /\ SubSeq(w, first, first + size - 1)[(i - 1) * cols + j]
                         = reshape(w, first, r, cols)[i][j]
  BY DEF Flat
<1> PICK a, b : a = (i - 1) * cols /\ b = i * cols
  OBVIOUS
<1>1. a \in Nat /\ b = a + cols /\ a + j \in 1..size /\ b <= size
  BY RowMajor
<1>2. reshape(w, first, r, cols)[i] = SubSeq(w, first + a, first + b - 1)
  BY DEF reshape
<1>3. PICK from : from = first + a
  OBVIOUS
<1>4. from \in Nat \ {0} /\ first + b - 1 = from + cols - 1 /\ from + cols - 1 <= Len(w)
  BY <1>1, <1>3
<1>5. SubSeq(w, from, from + cols - 1)[j] = w[from + j - 1] /\ w[from + j - 1] \in Int
  BY <1>4, Slice
<1>6. SubSeq(w, first, first + size - 1)[a + j] = w[first + (a + j) - 1]
  BY <1>1, Slice
<1>7. first + (a + j) - 1 = from + j - 1
  BY <1>1, <1>3
<1> QED BY <1>2, <1>3, <1>4, <1>5, <1>6, <1>7

\* a, in hids_replay, and b, in the oracle, are the same network.
SameNet(a, b) ==
  /\ a.ok /\ a.n_in \in Nat \ {0} /\ a.n_out \in Nat \ {0} /\ b.n_in = a.n_in /\ b.n_out = a.n_out
  /\ a.feature_min \in Seq(Int) /\ a.feature_max \in Seq(Int)
  /\ Len(a.feature_min) = a.n_in /\ Len(a.feature_max) = a.n_in
  /\ b.fmin = a.feature_min /\ b.fmax = a.feature_max
  /\ a.b1 \in Seq(Int) /\ a.b2 \in Seq(Int) /\ a.b3 \in Seq(Int) /\ Len(a.b3) = a.n_out
  /\ b.b1 = a.b1 /\ b.b2 = a.b2 /\ b.b3 = a.b3
  /\ Flat(a.W1, b.W1, Len(a.b1), a.n_in)
  /\ Flat(a.W2, b.W2, Len(a.b2), Len(a.b1))
  /\ Flat(a.W3, b.W3, Len(a.b3), Len(a.b2))

\* load() with its local names.
Reads(f, w, end) ==
  IF Len(w) < 4 \/ \E i \in 1..4 : w[i] <= 0 THEN Rejected
  ELSE IF (\E i \in 1..8 : ShortRead(w, end, i)) \/ Trailing(f, end[9]) THEN Rejected
  ELSE [ok |-> TRUE, n_in |-> w[1], h1 |-> w[2], h2 |-> w[3], n_out |-> w[4],
        feature_min |-> read_floats(w, end, 1), feature_max |-> read_floats(w, end, 2),
        W1 |-> read_floats(w, end, 3), b1 |-> read_floats(w, end, 4),
        W2 |-> read_floats(w, end, 5), b2 |-> read_floats(w, end, 6),
        W3 |-> read_floats(w, end, 7), b3 |-> read_floats(w, end, 8)]

\* load() is Reads, once its local names are given.
LEMMA LoadReads ==
  ASSUME NEW f, NEW w, NEW end, w = f.words, end = Layout(w[1], w[2], w[3], w[4])
  PROVE  load(f) = Reads(f, w, end)
BY Zenon DEF load, Reads

\* load() and load_bin() find the same numbers in a file load() accepts.
LEMMA LoadsAgree ==
  ASSUME NEW f, f.words \in Seq(Int), Len(f.words) >= 4, load(f).ok
  PROVE  SameNet(load(f), load_bin(f))
<1>1. PICK w, n, h1, h2, k : /\ w = f.words
                             /\ n = w[1] /\ h1 = w[2] /\ h2 = w[3] /\ k = w[4]
  OBVIOUS
<1>2. PICK a, b, d : a = h1 * n /\ b = h2 * h1 /\ d = k * h2
  OBVIOUS
<1>3. PICK p1, p2, p3 : p1 = 5 + 2 * n /\ p2 = p1 + a + h1 /\ p3 = p2 + b + h2
  OBVIOUS
<1>4. PICK end : end = Layout(n, h1, h2, k)
  OBVIOUS
<1>5. w \in Seq(Int) /\ Len(w) \in Nat /\ Len(w) >= 4
  BY <1>1
<1>6. /\ ~(\E i \in 1..4 : w[i] <= 0) /\ ~(\E i \in 1..8 : ShortRead(w, end, i))
      /\ load(f) = [ok |-> TRUE, n_in |-> w[1], h1 |-> w[2], h2 |-> w[3], n_out |-> w[4],
                    feature_min |-> read_floats(w, end, 1), feature_max |-> read_floats(w, end, 2),
                    W1 |-> read_floats(w, end, 3), b1 |-> read_floats(w, end, 4),
                    W2 |-> read_floats(w, end, 5), b2 |-> read_floats(w, end, 6),
                    W3 |-> read_floats(w, end, 7), b3 |-> read_floats(w, end, 8)]
  <2>1. Rejected.ok = FALSE
    BY DEF Rejected
  <2>2. load(f) # Rejected
    BY <2>1
  <2>3. load(f) = Reads(f, w, end)
    <3>1. w = f.words /\ end = Layout(w[1], w[2], w[3], w[4])
      BY <1>1, <1>4, Zenon
    <3> QED BY <3>1, LoadReads
  <2> QED BY <2>2, <2>3, Zenon DEF Reads
<1>7. n \in Nat \ {0} /\ h1 \in Nat \ {0} /\ h2 \in Nat \ {0} /\ k \in Nat \ {0}
  <2>1. n \in Int /\ h1 \in Int /\ h2 \in Int /\ k \in Int
    BY <1>1, <1>5
  <2>2. 1 \in 1..4 /\ 2 \in 1..4 /\ 3 \in 1..4 /\ 4 \in 1..4
    OBVIOUS
  <2>3. ~(n <= 0) /\ ~(h1 <= 0) /\ ~(h2 <= 0) /\ ~(k <= 0)
    BY <1>1, <1>6, <2>2, Zenon
  <2> QED BY <2>1, <2>3
<1>8. a \in Nat /\ b \in Nat /\ d \in Nat
  BY <1>2, <1>7
<1>9. /\ p1 \in Nat \ {0} /\ p2 \in Nat \ {0} /\ p3 \in Nat \ {0} /\ n + 5 \in Nat \ {0}
  BY <1>3, <1>7, <1>8
<1>10. end = <<4, 4 + n, p1 - 1, p1 + a - 1, p1 + a + h1 - 1, p2 + b - 1, p2 + b + h2 - 1,
               p3 + d - 1, p3 + d + k - 1>>
  <2>1. PICK q1, q2, q3 : q1 = 4 + 2 * n /\ q2 = q1 + a + h1 /\ q3 = q2 + b + h2
    OBVIOUS
  <2>2. end = <<4, 4 + n, q1, q2 - h1, q2, q3 - h2, q3, q3 + d, q3 + d + k>>
    BY <1>2, <1>4, <2>1, Zenon DEF Layout
  <2>3. /\ q1 = p1 - 1 /\ q2 - h1 = p1 + a - 1 /\ q2 = p1 + a + h1 - 1
        /\ q3 - h2 = p2 + b - 1 /\ q3 = p2 + b + h2 - 1
        /\ q3 + d = p3 + d - 1 /\ q3 + d + k = p3 + d + k - 1
    BY <1>3, <1>7, <1>8, <2>1
  <2> QED BY <2>2, <2>3, Zenon
<1>11. PICK c1, c2, c3, last : /\ c1 = p1 + a /\ c2 = p2 + b /\ c3 = p3 + d
                               /\ last = c3 + k - 1
  OBVIOUS
<1>12. /\ c1 \in Nat \ {0} /\ c2 \in Nat \ {0} /\ c3 \in Nat \ {0} /\ last \in Nat
       /\ p2 = c1 + h1 /\ p3 = c2 + h2
  BY <1>3, <1>7, <1>8, <1>9, <1>11
<1>13. /\ end[1] + 1 = 5 /\ end[2] = 5 + n - 1
       /\ end[2] + 1 = 5 + n /\ end[3] = (5 + n) + n - 1
       /\ end[3] + 1 = p1 /\ end[4] = p1 + a - 1
       /\ end[4] + 1 = c1 /\ end[5] = c1 + h1 - 1
       /\ end[5] + 1 = p2 /\ end[6] = p2 + b - 1
       /\ end[6] + 1 = c2 /\ end[7] = c2 + h2 - 1
       /\ end[7] + 1 = p3 /\ end[8] = p3 + d - 1
       /\ end[8] + 1 = c3 /\ end[9] = c3 + k - 1
  <2>1. /\ end[1] = 4 /\ end[2] = 4 + n /\ end[3] = p1 - 1 /\ end[4] = p1 + a - 1
        /\ end[5] = p1 + a + h1 - 1 /\ end[6] = p2 + b - 1 /\ end[7] = p2 + b + h2 - 1
        /\ end[8] = p3 + d - 1 /\ end[9] = p3 + d + k - 1
    BY <1>10
  <2> QED BY <1>3, <1>7, <1>8, <1>9, <1>11, <1>12, <2>1
<1>14. last <= Len(w)
  <2>1. 8 \in 1..8 /\ 8 + 1 = 9
    OBVIOUS
  <2>2. ~(end[9] > Len(w))
    BY <1>6, <2>1 DEF ShortRead
  <2> QED BY <1>5, <1>11, <1>12, <1>13, <2>2
<1>15. /\ 5 + n - 1 <= Len(w) /\ (5 + n) + n - 1 <= Len(w)
       /\ p1 + a - 1 <= Len(w) /\ c1 + h1 - 1 <= Len(w)
       /\ p2 + b - 1 <= Len(w) /\ c2 + h2 - 1 <= Len(w)
       /\ p3 + d - 1 <= Len(w) /\ c3 + k - 1 <= Len(w)
  BY <1>3, <1>5, <1>7, <1>8, <1>9, <1>11, <1>12, <1>14
<1>16. PICK m1, m2, w1, b1, w2, b2, w3, b3 :
         /\ m1 = SubSeq(w, 5, 5 + n - 1) /\ m2 = SubSeq(w, 5 + n, (5 + n) + n - 1)
         /\ w1 = SubSeq(w, p1, p1 + a - 1) /\ b1 = SubSeq(w, c1, c1 + h1 - 1)
         /\ w2 = SubSeq(w, p2, p2 + b - 1) /\ b2 = SubSeq(w, c2, c2 + h2 - 1)
         /\ w3 = SubSeq(w, p3, p3 + d - 1) /\ b3 = SubSeq(w, c3, c3 + k - 1)
  OBVIOUS
<1>17. load(f) = [ok |-> TRUE, n_in |-> n, h1 |-> h1, h2 |-> h2, n_out |-> k,
                  feature_min |-> m1, feature_max |-> m2,
                  W1 |-> w1, b1 |-> b1, W2 |-> w2, b2 |-> b2, W3 |-> w3, b3 |-> b3]
  <2>1. /\ 1 + 1 = 2 /\ 2 + 1 = 3 /\ 3 + 1 = 4 /\ 4 + 1 = 5 /\ 5 + 1 = 6 /\ 6 + 1 = 7
        /\ 7 + 1 = 8 /\ 8 + 1 = 9
    OBVIOUS
  <2>2. /\ read_floats(w, end, 1) = m1 /\ read_floats(w, end, 2) = m2
        /\ read_floats(w, end, 3) = w1 /\ read_floats(w, end, 4) = b1
        /\ read_floats(w, end, 5) = w2 /\ read_floats(w, end, 6) = b2
        /\ read_floats(w, end, 7) = w3 /\ read_floats(w, end, 8) = b3
    BY <1>13, <1>16, <2>1, Zenon DEF read_floats
  <2> QED BY <1>1, <1>6, <2>2, Zenon
<1>18. load_bin(f) = [n_in |-> n, n_out |-> k, fmin |-> m1, fmax |-> m2,
                      W1 |-> reshape(w, p1, h1, n), b1 |-> b1, W2 |-> reshape(w, p2, h2, h1), b2 |-> b2,
                      W3 |-> reshape(w, p3, k, h2), b3 |-> b3]
  <2>1. load_bin(f) = [n_in |-> n, n_out |-> k,
           fmin |-> SubSeq(w, 5, 4 + n), fmax |-> SubSeq(w, 5 + n, 4 + 2 * n),
           W1 |-> reshape(w, p1, h1, n),  b1 |-> SubSeq(w, p2 - h1, p2 - 1),
           W2 |-> reshape(w, p2, h2, h1), b2 |-> SubSeq(w, p3 - h2, p3 - 1),
           W3 |-> reshape(w, p3, k, h2),  b3 |-> SubSeq(w, p3 + d, p3 + d + k - 1)]
    BY <1>1, <1>2, <1>3, Zenon DEF load_bin
  <2>2. /\ 4 + n = 5 + n - 1 /\ 4 + 2 * n = (5 + n) + n - 1
        /\ p2 - h1 = c1 /\ p2 - 1 = c1 + h1 - 1 /\ p3 - h2 = c2 /\ p3 - 1 = c2 + h2 - 1
        /\ p3 + d = c3 /\ p3 + d + k - 1 = c3 + k - 1
    BY <1>7, <1>8, <1>9, <1>11, <1>12
  <2> QED BY <1>16, <2>1, <2>2, Zenon
<1>19. 5 \in Nat \ {0} /\ 5 + n \in Nat \ {0} /\ n \in Nat /\ h1 \in Nat /\ h2 \in Nat /\ k \in Nat
  BY <1>7
<1>20. /\ m1 \in Seq(Int) /\ Len(m1) = n /\ m2 \in Seq(Int) /\ Len(m2) = n
       /\ b1 \in Seq(Int) /\ Len(b1) = h1 /\ b2 \in Seq(Int) /\ Len(b2) = h2
       /\ b3 \in Seq(Int) /\ Len(b3) = k
  <2>1. ASSUME NEW from \in Nat \ {0}, NEW len \in Nat, from + len - 1 <= Len(w)
        PROVE  /\ SubSeq(w, from, from + len - 1) \in Seq(Int)
               /\ Len(SubSeq(w, from, from + len - 1)) = len
    BY <1>5, <2>1, Slice
  <2>2. m1 \in Seq(Int) /\ Len(m1) = n /\ m2 \in Seq(Int) /\ Len(m2) = n
    BY <1>15, <1>16, <1>19, <2>1, Zenon
  <2>3. b1 \in Seq(Int) /\ Len(b1) = h1 /\ b2 \in Seq(Int) /\ Len(b2) = h2
    BY <1>12, <1>15, <1>16, <1>19, <2>1, Zenon
  <2>4. b3 \in Seq(Int) /\ Len(b3) = k
    BY <1>12, <1>15, <1>16, <1>19, <2>1, Zenon
  <2> QED BY <2>2, <2>3, <2>4
<1>21. /\ Flat(w1, reshape(w, p1, h1, n), h1, n)
       /\ Flat(w2, reshape(w, p2, h2, h1), h2, h1)
       /\ Flat(w3, reshape(w, p3, k, h2), k, h2)
  BY <1>2, <1>5, <1>8, <1>9, <1>15, <1>16, <1>19, FlatIsReshaped
<1>22. PICK s, t : s = load(f) /\ t = load_bin(f)
  OBVIOUS
<1>23. /\ s.ok = TRUE /\ s.n_in = n /\ s.n_out = k /\ s.feature_min = m1 /\ s.feature_max = m2
       /\ s.W1 = w1 /\ s.b1 = b1 /\ s.W2 = w2 /\ s.b2 = b2 /\ s.W3 = w3 /\ s.b3 = b3
  BY <1>17, <1>22
<1>24. /\ t.n_in = n /\ t.n_out = k /\ t.fmin = m1 /\ t.fmax = m2
       /\ t.W1 = reshape(w, p1, h1, n) /\ t.b1 = b1 /\ t.W2 = reshape(w, p2, h2, h1) /\ t.b2 = b2
       /\ t.W3 = reshape(w, p3, k, h2) /\ t.b3 = b3
  BY <1>18, <1>22
<1> QED BY <1>7, <1>20, <1>21, <1>22, <1>23, <1>24, Zenon DEF SameNet

-----------------------------------------------------------------------------
(* Predictions *)

\* The forward pass of the oracle on normalized inputs.
Forward(b, x) ==
  argmax(Affine(b.W3, maximum(Affine(b.W2, maximum(Affine(b.W1, x, b.b1)), b.b2)), b.b3)) - 1

\* predict() returns a class, the one the oracle's matrices give.
LEMMA SameForward ==
  ASSUME NEW a, NEW b, SameNet(a, b), NEW x \in Seq(Int), Len(x) = a.n_in
  PROVE  predict(a, x) \in 0..(a.n_out - 1) /\ predict(a, x) = Forward(b, x)
<1>1. /\ a.n_out \in Nat \ {0} /\ a.b1 \in Seq(Int) /\ a.b2 \in Seq(Int) /\ a.b3 \in Seq(Int)
      /\ Len(a.b3) = a.n_out /\ b.b1 = a.b1 /\ b.b2 = a.b2 /\ b.b3 = a.b3
      /\ Flat(a.W1, b.W1, Len(a.b1), Len(x))
      /\ Flat(a.W2, b.W2, Len(a.b2), Len(a.b1))
      /\ Flat(a.W3, b.W3, Len(a.b3), Len(a.b2))
  BY DEF SameNet
<1>2. PICK u, v : u = Hidden(a.W1, a.b1, x) /\ v = Hidden(a.W2, a.b2, u)
  OBVIOUS
<1>3. u = maximum(Affine(b.W1, x, b.b1)) /\ u \in Seq(Int) /\ Len(u) = Len(a.b1)
  <2>1. /\ Hidden(a.W1, a.b1, x) = maximum(Affine(b.W1, x, a.b1))
        /\ Hidden(a.W1, a.b1, x) \in Seq(Int) /\ Len(Hidden(a.W1, a.b1, x)) = Len(a.b1)
    BY <1>1, SameHidden
  <2> QED BY <1>1, <1>2, <2>1, Zenon
<1>4. v = maximum(Affine(b.W2, u, b.b2)) /\ v \in Seq(Int) /\ Len(v) = Len(a.b2)
  <2>1. /\ Hidden(a.W2, a.b2, u) = maximum(Affine(b.W2, u, a.b2))
        /\ Hidden(a.W2, a.b2, u) \in Seq(Int) /\ Len(Hidden(a.W2, a.b2, u)) = Len(a.b2)
    BY <1>1, <1>3, SameHidden
  <2> QED BY <1>1, <1>2, <2>1, Zenon
<1>5. PICK z : z = Affine(b.W3, v, a.b3)
  OBVIOUS
<1>6. /\ z \in Seq(Int) /\ Len(z) = Len(a.b3)
      /\ z = << >> \o [i \in 1..Len(a.b3) |-> Neuron(a.W3, a.b3, v, i)]
  <2>1. /\ Affine(b.W3, v, a.b3) \in Seq(Int) /\ Len(Affine(b.W3, v, a.b3)) = Len(a.b3)
        /\ Affine(b.W3, v, a.b3) = << >> \o [i \in 1..Len(a.b3) |-> Neuron(a.W3, a.b3, v, i)]
        /\ \A i \in 1..Len(a.b3) : /\ Affine(b.W3, v, a.b3)[i] = Neuron(a.W3, a.b3, v, i)
                                   /\ Neuron(a.W3, a.b3, v, i) \in Int
    <3>1. Flat(a.W3, b.W3, Len(a.b3), Len(v)) /\ a.b3 \in Seq(Int) /\ v \in Seq(Int)
      BY <1>1, <1>4
    <3> QED BY <3>1, SameAffine
  <2> QED BY <1>5, <2>1
<1>7. z # << >> /\ Len(z) = a.n_out
  BY <1>1, <1>6
<1>8. ArgMax(z) \in 1..Len(z) /\ ArgMax(z) = argmax(z)
  BY <1>6, <1>7, ArgMaxIsFirst
<1>9. z = << >> \o [i \in 1..a.n_out |-> Neuron(a.W3, a.b3, v, i)]
  BY <1>1, <1>6, Zenon
<1>10. predict(a, x) = ArgMax(z) - 1
  BY <1>2, <1>9, Zenon DEF predict
<1>11. Forward(b, x) = argmax(z) - 1
  BY <1>1, <1>3, <1>4, <1>5, Zenon DEF Forward
<1>12. ArgMax(z) - 1 \in 0..(a.n_out - 1)
  BY <1>1, <1>7, <1>8
<1> QED BY <1>8, <1>10, <1>11, <1>12

\* A list of n numbers has a number at each place.
LEMMA NumberAt ==
  ASSUME NEW n, NEW s \in Seq(Int), Len(s) = n, NEW j \in 1..n
  PROVE  s[j] \in Int
OBVIOUS

\* normalize() returns as many numbers as the network has inputs.
LEMMA NormalizeTypes ==
  ASSUME NEW a, NEW b, SameNet(a, b), NEW x \in Seq(Int), Len(x) = a.n_in
  PROVE  normalize(a, x) \in Seq(Int) /\ Len(normalize(a, x)) = a.n_in
<1> DEFINE d(j) == a.feature_max[j] - a.feature_min[j]
           e(j) == Clamp(IF d(j) > 0 THEN (Unit * (x[j] - a.feature_min[j])) \div d(j) ELSE 0)
           g    == [j \in 1..a.n_in |-> e(j)]
<1>1. a.n_in \in Nat /\ Unit \in Nat \ {0}
  BY ModelAssumption DEF SameNet
<1>2. normalize(a, x) = << >> \o g
  BY DEF normalize
<1>3. ASSUME NEW j \in 1..a.n_in PROVE e(j) \in Int
  <2>1. a.feature_max[j] \in Int /\ a.feature_min[j] \in Int /\ x[j] \in Int
    <3>1. /\ a.feature_min \in Seq(Int) /\ Len(a.feature_min) = a.n_in
          /\ a.feature_max \in Seq(Int) /\ Len(a.feature_max) = a.n_in
      BY Zenon DEF SameNet
    <3> QED BY <3>1, NumberAt, Zenon
  <2>2. PICK c, v : c = d(j) /\ v = Unit * (x[j] - a.feature_min[j])
    OBVIOUS
  <2>3. c \in Int /\ v \in Int
    BY <1>1, <2>1, <2>2
  <2>4. c > 0 => v \div c \in Int
    BY <2>3
  <2>5. PICK u : u = IF c > 0 THEN v \div c ELSE 0
    OBVIOUS
  <2>6. u \in Int
    BY <2>4, <2>5
  <2>7. Clamp(u) \in Int
    BY <1>1, <2>6 DEF Clamp
  <2> QED BY <2>2, <2>5, <2>7, Zenon
<1> HIDE DEF e
<1>4. g \in [1..a.n_in -> Int]
  BY <1>3
<1> HIDE DEF g
<1>5. g \in Seq(Int) /\ Len(g) = a.n_in /\ << >> \o g = g
  BY <1>1, <1>4, FunctionIsSeq
<1> QED BY <1>2, <1>5, Zenon

-----------------------------------------------------------------------------
(* The counters of one tool *)

Entry == Nat \X Int \X Int

Matrix(K) == [0..(K - 1) -> [0..(K - 1) -> Nat]]

\* What either tool keeps, for a model with K classes.
Tool(K) ==
  [state : {"load", "between", "reading", "ended"}, status : {"none", "0", "1"},
   total : Nat, correct : Nat, bad : Nat, unlabeled : Nat, gidx : Nat,
   cm : Matrix(K), dump : Seq(Entry)]

\* The table and the dump agree with the counters.
Tabled(t) ==
  /\ t.total = SumFunction(Supports(t.cm))
  /\ t.total - t.correct = SumFunction(Wrong(t.cm))
  /\ t.total - t.correct = SumFunction(Missed(t.cm))
  /\ t.gidx = Len(t.dump)

Seen(t) == t.total + t.unlabeled + t.bad

\* Fields of a tool's state, and states from fields.
LEMMA ToolFields ==
  ASSUME NEW K, NEW t \in Tool(K)
  PROVE  /\ t.state \in {"load", "between", "reading", "ended"} /\ t.status \in {"none", "0", "1"}
         /\ t.total \in Nat /\ t.correct \in Nat /\ t.bad \in Nat /\ t.unlabeled \in Nat
         /\ t.gidx \in Nat /\ t.cm \in Matrix(K) /\ t.dump \in Seq(Entry)
         /\ t = [state |-> t.state, status |-> t.status, total |-> t.total, correct |-> t.correct,
                 bad |-> t.bad, unlabeled |-> t.unlabeled, gidx |-> t.gidx, cm |-> t.cm, dump |-> t.dump]
BY DEF Tool

\* The updates a tool makes, field by field.
WithRow(t, e)     == [t EXCEPT !.gidx = @ + 1, !.dump = Append(@, e)]
WithCell(t, y, p) == [t EXCEPT !.cm[y][p] = @ + 1, !.total = @ + 1,
                               !.correct = IF y = p THEN @ + 1 ELSE @]
WithUnlabeled(t)  == [t EXCEPT !.unlabeled = @ + 1]

\* What a row with a number in the dump changes.
LEMMA Numbered ==
  ASSUME NEW K, NEW t \in Tool(K), NEW e \in Entry, NEW u, u = WithRow(t, e)
  PROVE  /\ u \in Tool(K) /\ u.gidx = t.gidx + 1 /\ u.dump = Append(t.dump, e)
         /\ u.state = t.state /\ u.status = t.status
         /\ u.total = t.total /\ u.correct = t.correct /\ u.unlabeled = t.unlabeled
         /\ u.bad = t.bad /\ u.cm = t.cm
<1>1. t.gidx \in Nat /\ t.dump \in Seq(Entry)
  BY DEF Tool
<1>2. t.gidx + 1 \in Nat /\ Append(t.dump, e) \in Seq(Entry)
  BY <1>1
<1>3. u = [t EXCEPT !.gidx = t.gidx + 1, !.dump = Append(t.dump, e)]
  BY DEF WithRow
<1>4. PICK g, d : g = t.gidx + 1 /\ d = Append(t.dump, e)
  OBVIOUS
<1>5. g \in Nat /\ d \in Seq(Entry) /\ u = [t EXCEPT !.gidx = g, !.dump = d]
  BY <1>2, <1>3, <1>4
<1>6. u \in Tool(K)
  BY <1>5 DEF Tool
<1>7. /\ u.gidx = g /\ u.dump = d /\ u.state = t.state /\ u.status = t.status
      /\ u.total = t.total /\ u.correct = t.correct /\ u.unlabeled = t.unlabeled
      /\ u.bad = t.bad /\ u.cm = t.cm
  BY <1>5 DEF Tool
<1> QED BY <1>4, <1>6, <1>7

\* What a row without a label changes.
LEMMA Unlabeled ==
  ASSUME NEW K, NEW u \in Tool(K), NEW v, v = WithUnlabeled(u)
  PROVE  /\ v \in Tool(K) /\ v.unlabeled = u.unlabeled + 1
         /\ v.gidx = u.gidx /\ v.dump = u.dump /\ v.state = u.state /\ v.status = u.status
         /\ v.total = u.total /\ v.correct = u.correct /\ v.bad = u.bad /\ v.cm = u.cm
BY DEF Tool, WithUnlabeled

\* What a malformed row changes.
LEMMA OneBad ==
  ASSUME NEW K, NEW u \in Tool(K), NEW v, v = Bad(u)
  PROVE  /\ v \in Tool(K) /\ v.bad = u.bad + 1
         /\ v.gidx = u.gidx /\ v.dump = u.dump /\ v.state = u.state /\ v.status = u.status
         /\ v.total = u.total /\ v.correct = u.correct /\ v.unlabeled = u.unlabeled /\ v.cm = u.cm
BY DEF Tool, Bad

\* What a row of class y, predicted as p, changes.
LEMMA Labeled ==
  ASSUME NEW K, NEW u \in Tool(K), NEW y \in 0..(K - 1), NEW p \in 0..(K - 1), NEW v,
         v = WithCell(u, y, p)
  PROVE  /\ v \in Tool(K) /\ v.cm = MoreIn(u.cm, y, p) /\ v.total = u.total + 1
         /\ v.correct = (IF y = p THEN u.correct + 1 ELSE u.correct)
         /\ v.gidx = u.gidx /\ v.dump = u.dump /\ v.state = u.state /\ v.status = u.status
         /\ v.bad = u.bad /\ v.unlabeled = u.unlabeled
<1>1. PICK b, tot, cor : /\ b = MoreIn(u.cm, y, p) /\ tot = u.total + 1
                         /\ cor = IF y = p THEN u.correct + 1 ELSE u.correct
  OBVIOUS
<1>2. u.cm \in Matrix(K) /\ u.total \in Nat /\ u.correct \in Nat
  BY DEF Tool
<1>3. b \in Matrix(K)
  <2>1. PICK D, a : D = 0..(K - 1) /\ a = u.cm
    OBVIOUS
  <2>2. a \in [D -> [D -> Nat]] /\ y \in D /\ p \in D
    BY <1>2, <2>1 DEF Matrix
  <2>3. b \in [D -> [D -> Nat]]
    BY <1>1, <2>1, <2>2, BumpedBy
  <2> QED BY <2>1, <2>3 DEF Matrix
<1>4. tot \in Nat /\ cor \in Nat
  BY <1>1, <1>2
<1>5. v = [u EXCEPT !.cm = b, !.total = tot, !.correct = cor]
  BY <1>1 DEF WithCell, MoreIn
<1>6. v \in Tool(K)
  BY <1>3, <1>4, <1>5 DEF Tool
<1>7. /\ v.cm = b /\ v.total = tot /\ v.correct = cor
      /\ v.gidx = u.gidx /\ v.dump = u.dump /\ v.state = u.state /\ v.status = u.status
      /\ v.bad = u.bad /\ v.unlabeled = u.unlabeled
  BY <1>5 DEF Tool
<1> QED BY <1>1, <1>6, <1>7

\* A tool starts with an empty table.
LEMMA FreshTabled ==
  ASSUME NEW K \in Nat
  PROVE  Fresh(K) \in Tool(K) /\ Tabled(Fresh(K)) /\ Seen(Fresh(K)) = 0
<1> DEFINE D == 0..(K - 1)
           a == [y \in D |-> [p \in D |-> 0]]
<1>1. Fresh(K) \in Tool(K)
  BY DEF Fresh, Tool, Matrix
<1>2. /\ Fresh(K).total = 0 /\ Fresh(K).correct = 0 /\ Fresh(K).unlabeled = 0 /\ Fresh(K).bad = 0
      /\ Fresh(K).cm = a /\ Fresh(K).gidx = 0 /\ Fresh(K).dump = << >>
  BY DEF Fresh
<1>3. IsFiniteSet(D)
  BY FS_Interval
<1>4. ASSUME NEW g, DOMAIN g = D, \A x \in D : g[x] = 0 PROVE SumFunction(g) = 0
  <2> HIDE DEF D
  <2> QED BY <1>3, <1>4, SumZero, SumFunctionIsSum
<1>5. \A c \in D : a[c] = [p \in D |-> 0] /\ a[c][c] = 0
  OBVIOUS
<1>6. \A c \in D : SumFunction(a[c]) = 0
  BY <1>4
<1>7. \A c \in D : SumFunction([r \in D |-> a[r][c]]) = 0
  BY <1>4
<1>8. DOMAIN a = D
  OBVIOUS
<1> HIDE DEF D, a
<1>9. SumFunction(Supports(a)) = 0
  <2>1. DOMAIN Supports(a) = D /\ \A c \in D : Supports(a)[c] = 0
    BY <1>6, <1>8 DEF Supports
  <2> QED BY <1>4, <2>1
<1>10. SumFunction(Missed(a)) = 0
  <2>1. DOMAIN Missed(a) = D /\ \A c \in D : Missed(a)[c] = 0
    BY <1>5, <1>6, <1>8 DEF Missed
  <2> QED BY <1>4, <2>1
<1>11. SumFunction(Wrong(a)) = 0
  <2>1. DOMAIN Wrong(a) = D /\ \A c \in D : Wrong(a)[c] = 0
    BY <1>5, <1>7, <1>8 DEF Wrong
  <2> QED BY <1>4, <2>1
<1> QED BY <1>1, <1>2, <1>9, <1>10, <1>11 DEF Tabled, Seen

\* A row that does not parse is counted and not numbered.
LEMMA BadCounts ==
  ASSUME NEW K \in Nat, NEW t \in Tool(K), Tabled(t)
  PROVE  /\ Bad(t) \in Tool(K) /\ Tabled(Bad(t)) /\ Seen(Bad(t)) = Seen(t) + 1
         /\ Bad(t).state = t.state /\ Bad(t).status = t.status
         /\ Bad(t).dump = t.dump /\ Bad(t).gidx = t.gidx
<1>1. /\ Bad(t) \in Tool(K) /\ Bad(t).bad = t.bad + 1
      /\ Bad(t).gidx = t.gidx /\ Bad(t).dump = t.dump
      /\ Bad(t).state = t.state /\ Bad(t).status = t.status
      /\ Bad(t).total = t.total /\ Bad(t).correct = t.correct /\ Bad(t).unlabeled = t.unlabeled
      /\ Bad(t).cm = t.cm
  BY OneBad
<1>2. t.total \in Nat /\ t.unlabeled \in Nat /\ t.bad \in Nat
  BY DEF Tool
<1>3. Seen(Bad(t)) = Seen(t) + 1
  BY <1>1, <1>2 DEF Seen
<1>4. Tabled(Bad(t))
  BY <1>1 DEF Tabled
<1> QED BY <1>1, <1>3, <1>4

\* One more row in the matrix.
LEMMA MatrixGrows ==
  ASSUME NEW K \in Nat, NEW a \in Matrix(K), NEW y \in 0..(K - 1), NEW p \in 0..(K - 1)
  PROVE  \E b \in Matrix(K), k \in {0, 1} :
           /\ b = MoreIn(a, y, p) /\ k = (IF y = p THEN 0 ELSE 1)
           /\ SumFunction(Supports(b)) = SumFunction(Supports(a)) + 1
           /\ SumFunction(Missed(b)) = SumFunction(Missed(a)) + k
           /\ SumFunction(Wrong(b)) = SumFunction(Wrong(a)) + k
<1>1. PICK D : D = 0..(K - 1)
  OBVIOUS
<1>2. y \in D /\ p \in D /\ a \in [D -> [D -> Nat]]
  BY <1>1 DEF Matrix
<1>3. IsFiniteSet(D)
  BY <1>1, FS_Interval
<1>4. PICK b, k : b = MoreIn(a, y, p) /\ k = IF y = p THEN 0 ELSE 1
  OBVIOUS
<1>5. b \in [D -> [D -> Nat]] /\ Bumped(D, a, b, y, p, k)
  BY <1>2, <1>4, BumpedBy, Zenon
<1>6. k \in {0, 1} /\ k \in Nat
  BY <1>4
<1>7. SumFunction(Supports(b)) = SumFunction(Supports(a)) + 1
  BY <1>2, <1>3, <1>5, <1>6, SupportsGrow
<1>8. SumFunction(Missed(b)) = SumFunction(Missed(a)) + k
  BY <1>2, <1>3, <1>5, <1>6, MissedGrow
<1>9. SumFunction(Wrong(b)) = SumFunction(Wrong(a)) + k
  BY <1>2, <1>3, <1>5, <1>6, WrongGrow
<1>10. b \in Matrix(K)
  BY <1>1, <1>5 DEF Matrix
<1> QED BY <1>4, <1>6, <1>7, <1>8, <1>9, <1>10, Zenon

\* A row that parses is numbered, and counted by its label.
LEMMA TallyCounts ==
  ASSUME NEW K \in Nat, NEW t \in Tool(K), Tabled(t),
         NEW y \in {-1, -2} \cup 0..(K - 1), NEW p \in 0..(K - 1)
  PROVE  /\ Tallied(t, y, p) \in Tool(K) /\ Tabled(Tallied(t, y, p))
         /\ Seen(Tallied(t, y, p)) = Seen(t) + 1
         /\ Tallied(t, y, p).state = t.state /\ Tallied(t, y, p).status = t.status
         /\ Tallied(t, y, p).dump = Append(t.dump, <<t.gidx + 1, y, p>>)
         /\ Tallied(t, y, p).gidx = t.gidx + 1
<1>1. PICK e : e = <<t.gidx + 1, y, p>>
  OBVIOUS
<1>2. /\ t.total \in Nat /\ t.correct \in Nat /\ t.unlabeled \in Nat /\ t.bad \in Nat
      /\ t.gidx \in Nat /\ t.dump \in Seq(Entry) /\ t.cm \in Matrix(K)
  BY ToolFields
<1>3. e \in Entry
  <2>1. y \in Int /\ p \in Int
    OBVIOUS
  <2>2. t.gidx + 1 \in Nat
    BY <1>2
  <2> QED BY <1>1, <2>1, <2>2 DEF Entry
<1>4. PICK u : u = WithRow(t, e)
  OBVIOUS
<1>5. /\ u \in Tool(K) /\ u.gidx = t.gidx + 1 /\ u.dump = Append(t.dump, e)
      /\ u.state = t.state /\ u.status = t.status
      /\ u.total = t.total /\ u.correct = t.correct /\ u.unlabeled = t.unlabeled
      /\ u.bad = t.bad /\ u.cm = t.cm
  BY <1>3, <1>4, Numbered
<1>6. u.gidx = Len(u.dump)
  <2>1. Len(Append(t.dump, e)) = Len(t.dump) + 1
    BY <1>2, <1>3
  <2> QED BY <1>5, <2>1 DEF Tabled
<1>7. PICK v : v = Tallied(t, y, p)
  OBVIOUS
<1>8. v = CASE y = -1 -> WithUnlabeled(u) [] y = -2 -> Bad(u) [] OTHER -> WithCell(u, y, p)
  BY <1>1, <1>4, <1>7 DEF Tallied, WithUnlabeled, Bad, WithCell, WithRow
<1>9. \A i, j, k \in Nat : /\ (i + 1) + j + k = (i + j + k) + 1
                          /\ i + (j + 1) + k = (i + j + k) + 1
                          /\ i + j + (k + 1) = (i + j + k) + 1
  OBVIOUS
<1>10. CASE y = -1
  <2>1. v = WithUnlabeled(u)
    BY <1>8, <1>10
  <2>2. /\ v \in Tool(K) /\ v.unlabeled = u.unlabeled + 1
        /\ v.gidx = u.gidx /\ v.dump = u.dump /\ v.state = u.state /\ v.status = u.status
        /\ v.total = u.total /\ v.correct = u.correct /\ v.bad = u.bad /\ v.cm = u.cm
    BY <1>5, <2>1, Unlabeled
  <2>3. Tabled(v)
    BY <1>5, <1>6, <2>2 DEF Tabled
  <2>4. Seen(v) = Seen(t) + 1
    <3>1. PICK i, j, k : i = t.total /\ j = t.unlabeled /\ k = t.bad
      OBVIOUS
    <3>2. i \in Nat /\ j \in Nat /\ k \in Nat
      BY <1>2, <3>1
    <3>3. Seen(v) = i + (j + 1) + k /\ Seen(t) = i + j + k
      BY <1>5, <2>2, <3>1 DEF Seen
    <3> QED BY <1>9, <3>2, <3>3
  <2> QED BY <1>1, <1>5, <1>7, <2>2, <2>3, <2>4
<1>11. CASE y = -2
  <2>1. v = Bad(u)
    BY <1>8, <1>11
  <2>2. /\ v \in Tool(K) /\ v.bad = u.bad + 1
        /\ v.gidx = u.gidx /\ v.dump = u.dump /\ v.state = u.state /\ v.status = u.status
        /\ v.total = u.total /\ v.correct = u.correct /\ v.unlabeled = u.unlabeled /\ v.cm = u.cm
    BY <1>5, <2>1, OneBad
  <2>3. Tabled(v)
    BY <1>5, <1>6, <2>2 DEF Tabled
  <2>4. Seen(v) = Seen(t) + 1
    <3>1. PICK i, j, k : i = t.total /\ j = t.unlabeled /\ k = t.bad
      OBVIOUS
    <3>2. i \in Nat /\ j \in Nat /\ k \in Nat
      BY <1>2, <3>1
    <3>3. Seen(v) = i + j + (k + 1) /\ Seen(t) = i + j + k
      BY <1>5, <2>2, <3>1 DEF Seen
    <3> QED BY <1>9, <3>2, <3>3
  <2> QED BY <1>1, <1>5, <1>7, <2>2, <2>3, <2>4
<1>12. CASE y \in 0..(K - 1)
  <2>1. v = WithCell(u, y, p)
    BY <1>8, <1>12
  <2>2. /\ v \in Tool(K) /\ v.cm = MoreIn(u.cm, y, p) /\ v.total = u.total + 1
        /\ v.correct = (IF y = p THEN u.correct + 1 ELSE u.correct)
        /\ v.gidx = u.gidx /\ v.dump = u.dump /\ v.state = u.state /\ v.status = u.status
        /\ v.bad = u.bad /\ v.unlabeled = u.unlabeled
    <3>1. u \in Tool(K) /\ p \in 0..(K - 1) /\ y \in 0..(K - 1)
      BY <1>5, <1>12, Zenon
    <3> QED BY <2>1, <3>1, Labeled
  <2>3. PICK b \in Matrix(K), k \in {0, 1} :
           /\ b = MoreIn(t.cm, y, p) /\ k = (IF y = p THEN 0 ELSE 1)
           /\ SumFunction(Supports(b)) = SumFunction(Supports(t.cm)) + 1
           /\ SumFunction(Missed(b)) = SumFunction(Missed(t.cm)) + k
           /\ SumFunction(Wrong(b)) = SumFunction(Wrong(t.cm)) + k
    BY <1>2, <1>12, MatrixGrows, Zenon
  <2>4. /\ v.cm = b
        /\ SumFunction(Supports(v.cm)) = t.total + 1
        /\ SumFunction(Missed(v.cm)) = t.total - t.correct + k
        /\ SumFunction(Wrong(v.cm)) = t.total - t.correct + k
    BY <1>5, <2>2, <2>3, Zenon DEF Tabled
  <2>5. v.total = t.total + 1 /\ v.total - v.correct = t.total - t.correct + k
    <3>1. v.total = t.total + 1 /\ v.correct = t.correct + 1 - k
      BY <1>2, <1>5, <2>2, <2>3
    <3>2. PICK i, j, l : i = t.total /\ j = t.correct /\ l = v.correct
      OBVIOUS
    <3>3. i \in Nat /\ j \in Nat /\ l = j + 1 - k
      BY <1>2, <3>1, <3>2
    <3>4. (i + 1) - l = i - j + k
      BY <3>3
    <3> QED BY <3>1, <3>2, <3>4
  <2>6. Tabled(v)
    BY <1>5, <1>6, <2>2, <2>4, <2>5 DEF Tabled
  <2>7. Seen(v) = Seen(t) + 1
    <3>1. PICK i, j, n : i = t.total /\ j = t.unlabeled /\ n = t.bad
      OBVIOUS
    <3>2. i \in Nat /\ j \in Nat /\ n \in Nat
      BY <1>2, <3>1
    <3>3. Seen(v) = (i + 1) + j + n /\ Seen(t) = i + j + n
      BY <1>5, <2>2, <3>1 DEF Seen
    <3> QED BY <1>9, <3>2, <3>3
  <2> QED BY <1>1, <1>5, <1>7, <2>2, <2>6, <2>7
<1> QED BY <1>10, <1>11, <1>12

-----------------------------------------------------------------------------
(* The columns of a row *)

Cell == [form : Forms, value : Int]

\* The columns with a name.
Named(n) == {i \in 1..Len(header) : header[i] = n}

\* hids_replay finds a column of every name in the header, and none else.
LEMMA CppColumnFinds ==
  ASSUME Len(header) \in Nat, NEW n
  PROVE  /\ CppColumn(n) \in 0..Len(header)
         /\ CppColumn(n) # 0 => CppColumn(n) \in Named(n)
         /\ CppColumn(n) = 0 => Named(n) = {}
<1>1. CppColumn(n) = IF Named(n) # {} THEN Min(Named(n)) ELSE 0
  BY DEF CppColumn, SelectInSeq, Named
<1>2. Named(n) \subseteq Nat /\ Named(n) \subseteq 1..Len(header)
  BY DEF Named
<1>3. Named(n) # {} => Min(Named(n)) \in Named(n)
  BY <1>2, MinIsLeast
<1>4. \A i \in Named(n) : i # 0 /\ i \in 0..Len(header)
  BY <1>2
<1> QED BY <1>1, <1>3, <1>4

\* Both tools find the same one when no name occurs twice.
LEMMA SameColumn ==
  ASSUME Len(header) \in Nat, \A i, j \in 1..Len(header) : header[i] = header[j] => i = j, NEW n
  PROVE  PyColumn(n) = CppColumn(n)
<1>1. CppColumn(n) = IF Named(n) # {} THEN Min(Named(n)) ELSE 0
  BY DEF CppColumn, SelectInSeq, Named
<1>2. PyColumn(n) = IF Named(n) # {} THEN Max(Named(n)) ELSE 0
  BY DEF PyColumn, SelectLastInSeq, Named
<1>3. ASSUME NEW i \in Named(n) PROVE Min(Named(n)) = i /\ Max(Named(n)) = i
  <2>1. Named(n) = {i} /\ i \in Int
    BY DEF Named
  <2>2. Min({i}) = i /\ Max({i}) = i
    BY <2>1 DEF Min, Max
  <2> QED BY <2>1, <2>2
<1> QED BY <1>1, <1>2, <1>3

\* The cells split() leaves out are none that hids_replay accepts.
LEMMA SplitKeeps ==
  ASSUME NEW r \in Seq(Cell), r # << >>
  PROVE  /\ Split(r) \in Seq(Cell)
         /\ \A i \in 1..Len(Split(r)) : i \in 1..Len(r) /\ Split(r)[i] = r[i]
         /\ \A i \in 1..Len(r) : r[i].form # "empty" => i \in 1..Len(Split(r))
<1>1. Len(r) \in Nat \ {0} /\ Len(r) - 1 \in Nat
  OBVIOUS
<1>2. PICK n : n = Len(r) - 1
  OBVIOUS
<1>3. CASE Last(r).form = "empty"
  <2>1. Split(r) = SubSeq(r, 1, n)
    BY <1>2, <1>3 DEF Split, Front
  <2>2. r[n + 1].form = "empty"
    BY <1>1, <1>2, <1>3 DEF Last
  <2>3. \A i \in 1..n : r[i] \in Cell
    BY <1>1, <1>2
  <2>4. /\ SubSeq(r, 1, n) \in Seq(Cell) /\ Len(SubSeq(r, 1, n)) = n
        /\ \A i \in 1..n : SubSeq(r, 1, n)[i] = r[i]
    <3>1. /\ SubSeq(r, 1, n) \in Seq(Cell)
          /\ Len(SubSeq(r, 1, n)) = (IF 1 <= n THEN n - 1 + 1 ELSE 0)
          /\ \A i \in 1..(n - 1 + 1) : SubSeq(r, 1, n)[i] = r[1 + i - 1]
      BY <1>1, <1>2, <2>3, SubSeqProperties
    <3>2. n - 1 + 1 = n /\ (IF 1 <= n THEN n - 1 + 1 ELSE 0) = n /\ \A i \in 1..n : 1 + i - 1 = i
      BY <1>1, <1>2
    <3> QED BY <3>1, <3>2
  <2>5. \A i \in 1..Len(r) : i \in 1..n \/ i = n + 1
    BY <1>1, <1>2
  <2>6. \A i \in 1..n : i \in 1..Len(r)
    BY <1>1, <1>2
  <2> QED BY <2>1, <2>2, <2>4, <2>5, <2>6
<1>4. CASE Last(r).form # "empty"
  BY <1>4 DEF Split
<1> QED BY <1>3, <1>4

\* What process_file has established when it reads a row.
Opened ==
  /\ SameNet(model, m) /\ header \in Headers
  /\ \A j \in 1..model.n_in : Contains(header, FEATURE_ORDER[j])

\* The columns and the classes of an opened file.
LEMMA OpenedTypes ==
  ASSUME Opened
  PROVE  /\ Len(header) \in Nat /\ model.n_in \in Nat \ {0} /\ model.n_out \in Nat \ {0}
         /\ m.n_in = model.n_in /\ m.n_out = model.n_out
<1>1. header \in Seq(ToSet(header))
  BY ReplayAssumption DEF Opened
<1>2. Len(header) \in Nat
  BY <1>1
<1> QED BY <1>2 DEF Opened, SameNet

\* Every input of the model has a column.
LEMMA FeaturesFound ==
  ASSUME Opened
  PROVE  /\ CppFeatCol \in Seq(1..Len(header)) /\ Len(CppFeatCol) = model.n_in
         /\ \A j \in 1..model.n_in : CppFeatCol[j] = CppColumn(FEATURE_ORDER[j])
<1> DEFINE f == [j \in 1..model.n_in |-> CppColumn(FEATURE_ORDER[j])]
<1>1. Len(header) \in Nat /\ model.n_in \in Nat
  BY OpenedTypes
<1>2. ASSUME NEW j \in 1..model.n_in PROVE CppColumn(FEATURE_ORDER[j]) \in 1..Len(header)
  <2>1. PICK k : k = CppColumn(FEATURE_ORDER[j])
    OBVIOUS
  <2>2. Named(FEATURE_ORDER[j]) # {}
    BY DEF Opened, Contains, Named
  <2>3. k \in 0..Len(header) /\ k # 0
    BY <1>1, <2>1, <2>2, CppColumnFinds
  <2>4. k \in 1..Len(header)
    BY <1>1, <2>3
  <2> QED BY <2>1, <2>4
<1>3. CppFeatCol = << >> \o f
  BY DEF CppFeatCol
<1>4. f \in [1..model.n_in -> 1..Len(header)]
  BY <1>2
<1>5. \A j \in 1..model.n_in : f[j] = CppColumn(FEATURE_ORDER[j])
  OBVIOUS
<1> HIDE DEF f
<1>6. f \in Seq(1..Len(header)) /\ Len(f) = model.n_in /\ << >> \o f = f
  BY <1>1, <1>4, FunctionIsSeq
<1> QED BY <1>3, <1>5, <1>6

\* The numbers in the columns of a row that has them all.
LEMMA ValuesTypes ==
  ASSUME NEW n \in Nat, NEW v \in Seq(Cell), NEW columns \in Seq(1..n),
         \A j \in 1..Len(columns) : columns[j] <= Len(v)
  PROVE  /\ Values(v, columns) \in Seq(Int) /\ Len(Values(v, columns)) = Len(columns)
         /\ Values(v, columns) = << >> \o [j \in 1..Len(columns) |-> v[columns[j]].value]
<1> DEFINE f == [j \in 1..Len(columns) |-> v[columns[j]].value]
<1>1. DOMAIN columns = 1..Len(columns) /\ Len(columns) \in Nat
  OBVIOUS
<1>2. Values(v, columns) = << >> \o f
  BY <1>1 DEF Values
<1>3. \A j \in 1..Len(columns) : columns[j] \in 1..Len(v)
  OBVIOUS
<1>4. \A j \in 1..Len(columns) : v[columns[j]] \in Cell
  BY <1>3
<1>5. \A j \in 1..Len(columns) : v[columns[j]].value \in Int
  BY <1>4 DEF Cell
<1>6. f \in [1..Len(columns) -> Int]
  BY <1>5
<1>7. f \in Seq(Int) /\ Len(f) = Len(columns) /\ << >> \o f = f
  BY <1>1, <1>6, FunctionIsSeq
<1> QED BY <1>2, <1>7

\* hids_replay predicts one of the model's classes.
LEMMA CppPredicts ==
  ASSUME Opened, NEW x \in Seq(Int), Len(x) = model.n_in
  PROVE  CppPredict(x) \in 0..(model.n_out - 1)
<1>1. SameNet(model, m)
  BY DEF Opened
<1>2. PICK z : z = IF raw THEN normalize(model, x) ELSE x
  OBVIOUS
<1>3. normalize(model, x) \in Seq(Int) /\ Len(normalize(model, x)) = model.n_in
  BY <1>1, NormalizeTypes
<1>4. z \in Seq(Int) /\ Len(z) = model.n_in
  BY <1>2, <1>3
<1>5. predict(model, z) \in 0..(model.n_out - 1)
  BY <1>1, <1>4, SameForward
<1> QED BY <1>2, <1>5 DEF CppPredict

\* The cells hids_replay needs of a row.
Needed == (ToSet(CppFeatCol) \cup {CppColumn(Label)}) \ {0}

\* hids_replay accepts the cells of a row.
CppParses(v) == \A i \in Needed : i <= Len(v) /\ v[i].form \in {"numeral", "more"}

\* The needed columns exist, those of the features and the label among them.
LEMMA NeededTypes ==
  ASSUME Opened
  PROVE  /\ \A i \in Needed : i \in 1..Len(header)
         /\ \A j \in 1..model.n_in : CppFeatCol[j] \in Needed
         /\ CppColumn(Label) # 0 => CppColumn(Label) \in Needed
<1>1. CppFeatCol \in Seq(1..Len(header)) /\ Len(CppFeatCol) = model.n_in
  BY FeaturesFound
<1>2. PICK s, n, l : s = CppFeatCol /\ n = Len(header) /\ l = CppColumn(Label)
  OBVIOUS
<1>3. n \in Nat /\ l \in 0..n
  BY <1>2, OpenedTypes, CppColumnFinds
<1>4. s \in Seq(1..n) /\ Len(s) = model.n_in
  BY <1>1, <1>2
<1>5. DOMAIN s = 1..model.n_in /\ \A j \in 1..model.n_in : s[j] \in 1..n /\ s[j] # 0
  BY <1>3, <1>4
<1>6. Needed = ({s[j] : j \in 1..model.n_in} \cup {l}) \ {0}
  BY <1>2, <1>5 DEF Needed, ToSet
<1>7. l # 0 => l \in 1..n
  BY <1>3
<1> QED BY <1>2, <1>5, <1>6, <1>7

\* What hids_replay makes of a row it accepts.
LEMMA CppParsed ==
  ASSUME Opened, NEW v \in Seq(Cell), CppParses(v)
  PROVE  /\ Values(v, CppFeatCol) \in Seq(Int) /\ Len(Values(v, CppFeatCol)) = model.n_in
         /\ CppLabel(v, CppColumn(Label)) \in {-1, -2} \cup 0..(model.n_out - 1)
<1>1. PICK n, s, l : n = Len(header) /\ s = CppFeatCol /\ l = CppColumn(Label)
  OBVIOUS
<1>2. n \in Nat /\ s \in Seq(1..n) /\ Len(s) = model.n_in
  BY <1>1, OpenedTypes, FeaturesFound
<1>3. \A j \in 1..Len(s) : s[j] <= Len(v)
  BY <1>1, <1>2, NeededTypes DEF CppParses
<1>4. Values(v, s) \in Seq(Int) /\ Len(Values(v, s)) = Len(s)
  BY <1>2, <1>3, ValuesTypes
<1>5. PICK y : y = CppLabel(v, l)
  OBVIOUS
<1>6. y \in {-1, -2} \cup 0..(model.n_out - 1)
  <2>1. CASE l = 0
    BY <1>5, <2>1 DEF CppLabel
  <2>2. CASE l # 0
    <3>1. l \in 1..n /\ l <= Len(v)
      BY <1>1, <2>2, NeededTypes DEF CppParses
    <3>2. v[l] \in Cell
      BY <1>2, <3>1
    <3>3. PICK e : e = v[l].value
      OBVIOUS
    <3>4. e \in Int
      BY <3>2, <3>3 DEF Cell
    <3>5. y = IF e < 0 \/ e >= model.n_out THEN -2 ELSE e
      BY <1>5, <2>2, <3>3 DEF CppLabel
    <3>6. model.n_out \in Nat
      BY OpenedTypes
    <3> QED BY <3>4, <3>5, <3>6
  <2> QED BY <2>1, <2>2
<1> QED BY <1>1, <1>2, <1>4, <1>5, <1>6

\* A row is counted once, and printed if its cells parse.
LEMMA CppRowCounts ==
  ASSUME Opened, NEW t \in Tool(model.n_out), Tabled(t), NEW r \in Rows, r # << >>
  PROVE  /\ CppRow(t, r) \in Tool(model.n_out) /\ Tabled(CppRow(t, r))
         /\ Seen(CppRow(t, r)) = Seen(t) + 1
         /\ CppRow(t, r).state = t.state /\ CppRow(t, r).status = t.status
         /\ \/ CppRow(t, r).dump = t.dump
            \/ \E e \in Entry : CppRow(t, r).dump = Append(t.dump, e)
<1>1. PICK K, v : K = model.n_out /\ v = Split(r)
  OBVIOUS
<1>2. K \in Nat /\ t \in Tool(K)
  BY <1>1, OpenedTypes
<1>3. v \in Seq(Cell)
  <2>1. r \in Seq(Cell)
    BY ReplayAssumption DEF Cell
  <2> QED BY <1>1, <2>1, SplitKeeps
<1>4. PICK u : u = CppRow(t, r)
  OBVIOUS
<1>5. u = IF CppParses(v)
          THEN Tallied(t, CppLabel(v, CppColumn(Label)), CppPredict(Values(v, CppFeatCol)))
          ELSE Bad(t)
  BY <1>1, <1>4 DEF CppRow, CppParses, Needed
<1>6. CASE CppParses(v)
  <2>1. PICK y, p : y = CppLabel(v, CppColumn(Label)) /\ p = CppPredict(Values(v, CppFeatCol))
    OBVIOUS
  <2>2. /\ Values(v, CppFeatCol) \in Seq(Int) /\ Len(Values(v, CppFeatCol)) = model.n_in
        /\ CppLabel(v, CppColumn(Label)) \in {-1, -2} \cup 0..(model.n_out - 1)
    BY <1>3, <1>6, CppParsed
  <2>3. y \in {-1, -2} \cup 0..(K - 1) /\ p \in 0..(K - 1)
    BY <1>1, <2>1, <2>2, CppPredicts
  <2>4. /\ Tallied(t, y, p) \in Tool(K) /\ Tabled(Tallied(t, y, p))
        /\ Seen(Tallied(t, y, p)) = Seen(t) + 1
        /\ Tallied(t, y, p).state = t.state /\ Tallied(t, y, p).status = t.status
        /\ Tallied(t, y, p).dump = Append(t.dump, <<t.gidx + 1, y, p>>)
        /\ Tallied(t, y, p).gidx = t.gidx + 1
    BY <1>2, <2>3, TallyCounts
  <2>5. u = Tallied(t, y, p)
    BY <1>5, <1>6, <2>1
  <2>6. <<t.gidx + 1, y, p>> \in Entry
    <3>1. t.gidx + 1 \in Nat
      BY <1>2, ToolFields
    <3>2. y \in Int /\ p \in Int
      BY <1>2, <2>3
    <3> QED BY <3>1, <3>2 DEF Entry
  <2> QED BY <1>1, <1>4, <2>4, <2>5, <2>6
<1>7. CASE ~CppParses(v)
  <2>1. u = Bad(t)
    BY <1>5, <1>7
  <2>2. /\ Bad(t) \in Tool(K) /\ Tabled(Bad(t)) /\ Seen(Bad(t)) = Seen(t) + 1
        /\ Bad(t).state = t.state /\ Bad(t).status = t.status
        /\ Bad(t).dump = t.dump /\ Bad(t).gidx = t.gidx
    BY <1>2, BadCounts
  <2> QED BY <1>1, <1>4, <2>1, <2>2
<1> QED BY <1>6, <1>7

-----------------------------------------------------------------------------
(* Every row is counted *)

\* A tool that goes on to another file, or ends, keeps its counters.
InState(t, s) == [t EXCEPT !.state = s]

\* Going on to another file.
LEMMA StateKeeps ==
  ASSUME NEW K, NEW t \in Tool(K), NEW s \in {"between", "reading"}
  PROVE  /\ InState(t, s) \in Tool(K) /\ (Tabled(t) => Tabled(InState(t, s)))
         /\ Seen(InState(t, s)) = Seen(t) /\ InState(t, s).dump = t.dump
         /\ InState(t, s).state = s /\ InState(t, s).status = t.status
<1>1. PICK u : u = InState(t, s)
  OBVIOUS
<1>2. u \in Tool(K)
  BY <1>1 DEF InState, Tool
<1>3. /\ u.total = t.total /\ u.correct = t.correct /\ u.bad = t.bad /\ u.unlabeled = t.unlabeled
      /\ u.gidx = t.gidx /\ u.cm = t.cm /\ u.dump = t.dump /\ u.state = s /\ u.status = t.status
  BY <1>1 DEF InState, Tool
<1> QED BY <1>1, <1>2, <1>3 DEF Tabled, Seen

\* Ending.
LEMMA EndKeeps ==
  ASSUME NEW K, NEW t \in Tool(K), NEW s \in {"0", "1"}
  PROVE  /\ Ended(t, s) \in Tool(K) /\ (Tabled(t) => Tabled(Ended(t, s)))
         /\ Ended(t, s).dump = t.dump /\ Ended(t, s).state = "ended" /\ Ended(t, s).status = s
<1>1. PICK u : u = Ended(t, s)
  OBVIOUS
<1>2. u \in Tool(K)
  BY <1>1 DEF Ended, Tool
<1>3. /\ u.total = t.total /\ u.correct = t.correct /\ u.bad = t.bad /\ u.unlabeled = t.unlabeled
      /\ u.gidx = t.gidx /\ u.cm = t.cm /\ u.dump = t.dump /\ u.state = "ended" /\ u.status = s
  BY <1>1 DEF Ended, Tool
<1> QED BY <1>1, <1>2, <1>3 DEF Tabled

Classes == IF model.ok THEN model.n_out ELSE 0

\* What hids_replay counts, and what it knows in each of its states.
CountInv ==
  /\ cpp \in Tool(Classes) /\ Tabled(cpp) /\ rows \in Nat
  /\ Running(cpp) => Seen(cpp) = rows
  /\ cpp.state = "load" => rows = 0
  /\ cpp.state = "between" => SameNet(model, m)
  /\ cpp.state = "reading" => Opened
  /\ cpp.state \in {"load", "between"} => py.state # "reading"

\* CountInv holds at the start and after each action.
LEMMA CountInit ==
  ASSUME Init
  PROVE  CountInv
<1>1. Classes = 0 /\ rows = 0 /\ cpp = InState(Fresh(0), "load") /\ py = cpp
  BY DEF Init, Rejected, Classes, InState
<1>2. Fresh(0) \in Tool(0) /\ Tabled(Fresh(0)) /\ Seen(Fresh(0)) = 0
  BY FreshTabled
<1>3. PICK t, u : t = Fresh(0) /\ u = InState(t, "load")
  OBVIOUS
<1>4. t \in Tool(0)
  BY <1>2, <1>3
<1>5. u \in Tool(0)
  BY <1>3, <1>4 DEF InState, Tool
<1>6. /\ u.total = t.total /\ u.correct = t.correct /\ u.bad = t.bad /\ u.unlabeled = t.unlabeled
      /\ u.gidx = t.gidx /\ u.cm = t.cm /\ u.dump = t.dump /\ u.state = "load"
  BY <1>3, <1>4 DEF InState, Tool
<1>7. Tabled(u) /\ Seen(u) = 0
  BY <1>2, <1>3, <1>6 DEF Tabled, Seen
<1> QED BY <1>1, <1>3, <1>5, <1>6, <1>7 DEF CountInv

LEMMA CountLoad ==
  ASSUME CountInv, NEW f \in ModelFiles, LoadModel(f)
  PROVE  CountInv'
<1>1. cpp.state = "load" /\ rows' = 0 /\ rows = 0 /\ py.state # "reading"
  BY DEF LoadModel, CountInv
<1>2. CASE Len(f.words) < 4
  <2>1. cpp' = Ended(cpp, "1") /\ model' = model
    BY <1>2 DEF LoadModel
  <2>2. Classes' = Classes
    BY <2>1 DEF Classes
  <2>3. /\ Ended(cpp, "1") \in Tool(Classes) /\ Tabled(Ended(cpp, "1"))
        /\ Ended(cpp, "1").state = "ended"
    BY EndKeeps DEF CountInv
  <2> QED BY <1>1, <2>1, <2>2, <2>3 DEF CountInv, Running
<1>3. CASE ~(Len(f.words) < 4)
  <2>1. model' = load(f) /\ m' = load_bin(f) /\ cpp' = Fresh(model'.n_out) /\ py' = Fresh(m'.n_out)
    BY <1>3 DEF LoadModel
  <2>2. f.words \in Seq(Int) /\ Len(f.words) >= 4 /\ load(f).ok
    <3>1. f.words \in Seq(Int) /\ (Len(f.words) >= 4 => load(f).ok)
      BY ReplayAssumption
    <3> QED BY <1>3, <3>1
  <2>3. SameNet(load(f), load_bin(f))
    BY <2>2, LoadsAgree
  <2>4. SameNet(model, m)' /\ model'.ok /\ model'.n_out \in Nat
    BY <2>1, <2>3 DEF SameNet
  <2>5. Classes' = model'.n_out
    BY <2>4 DEF Classes
  <2>6. cpp' \in Tool(Classes') /\ Tabled(cpp') /\ Seen(cpp') = 0
    BY <2>1, <2>4, <2>5, FreshTabled
  <2>7. cpp'.state = "between" /\ py'.state = "between"
    BY <2>1 DEF Fresh
  <2> QED BY <1>1, <2>4, <2>6, <2>7 DEF CountInv
<1> QED BY <1>2, <1>3

LEMMA CountOpen ==
  ASSUME CountInv, NEW e \in Entries, NEW h \in Headers, OpenFile(e, h)
  PROVE  CountInv'
<1>1. /\ cpp.state # "load" /\ header' = h /\ cpp' = CppOpen(e) /\ py' = PyOpen(e)
      /\ model' = model /\ m' = m /\ rows' = rows
  BY DEF OpenFile
<1>2. Classes' = Classes /\ (SameNet(model, m) => SameNet(model, m)')
  BY <1>1 DEF Classes
<1>3. CASE ~Running(cpp)
  <2>1. cpp' = cpp
    BY <1>1, <1>3 DEF CppOpen
  <2> QED BY <1>1, <1>2, <1>3, <2>1 DEF CountInv, Running
<1>4. CASE Running(cpp)
  <2>1. /\ cpp \in Tool(Classes) /\ Tabled(cpp) /\ Seen(cpp) = rows /\ SameNet(model, m)
    <3>1. cpp.state \in {"load", "between", "reading", "ended"}
      BY ToolFields DEF CountInv
    <3> QED BY <1>1, <1>4, <3>1 DEF CountInv, Running, Opened
  <2>2. model.n_in \in Nat \ {0} /\ m.n_in = model.n_in
    BY <2>1 DEF SameNet
  <2>3. CASE e = "unreadable" \/ header' = << >>
    <3>1. cpp' = InState(cpp, "between")
      BY <1>1, <1>4, <2>3 DEF CppOpen, InState
    <3>2. /\ cpp' \in Tool(Classes) /\ Tabled(cpp') /\ Seen(cpp') = rows /\ cpp'.state = "between"
      BY <2>1, <3>1, StateKeeps
    <3>3. py'.state # "reading"
      <4>1. header' = << >> => Lacks(m.n_in)
        <5>1. 1 \in 1..m.n_in
          BY <2>2
        <5>2. \A n : ~Contains(<< >>, n)
          BY DEF Contains
        <5> QED BY <5>1, <5>2 DEF Lacks
      <4>2. py' = IF ~Running(py) THEN py ELSE Ended(py, "1")
        BY <1>1, <2>3, <4>1 DEF PyOpen
      <4>3. CASE ~Running(py)
        BY <4>2, <4>3 DEF Running
      <4>4. CASE Running(py)
        <5>1. py' = Ended(py, "1")
          BY <4>2, <4>4
        <5>2. Ended(py, "1").state # "reading"
          BY DEF Ended
        <5> QED BY <5>1, <5>2
      <4> QED BY <4>3, <4>4
    <3> QED BY <1>1, <1>2, <2>1, <3>2, <3>3 DEF CountInv
  <2>4. CASE ~(e = "unreadable" \/ header' = << >>) /\ Lacks(model.n_in)
    <3>1. cpp' = Ended(cpp, "1")
      BY <1>1, <1>4, <2>4 DEF CppOpen
    <3>2. cpp' \in Tool(Classes) /\ Tabled(cpp') /\ cpp'.state = "ended"
      BY <2>1, <3>1, EndKeeps
    <3> QED BY <1>1, <1>2, <3>2 DEF CountInv, Running
  <2>5. CASE ~(e = "unreadable" \/ header' = << >>) /\ ~Lacks(model.n_in)
    <3>1. cpp' = InState(cpp, "reading")
      BY <1>1, <1>4, <2>5 DEF CppOpen, InState
    <3>2. /\ cpp' \in Tool(Classes) /\ Tabled(cpp') /\ Seen(cpp') = rows /\ cpp'.state = "reading"
      BY <2>1, <3>1, StateKeeps
    <3>3. Opened'
      BY <1>1, <2>1, <2>5 DEF Opened, Lacks
    <3> QED BY <1>1, <1>2, <3>2, <3>3 DEF CountInv
  <2> QED BY <2>3, <2>4, <2>5
<1> QED BY <1>3, <1>4

LEMMA CountRow ==
  ASSUME CountInv, NEW r \in Rows, ReadRow(r)
  PROVE  CountInv'
<1>1. /\ model' = model /\ m' = m /\ header' = header
      /\ cpp' = (IF cpp.state = "reading" /\ r # << >> THEN CppRow(cpp, r) ELSE cpp)
      /\ rows' = (IF r # << >> THEN rows + 1 ELSE rows)
      /\ (cpp.state = "reading" \/ py.state = "reading")
  BY DEF ReadRow
<1>2. Classes' = Classes /\ (Opened => Opened')
  BY <1>1 DEF Classes, Opened
<1>3. rows' \in Nat
  BY <1>1 DEF CountInv
<1>4. CASE cpp.state = "reading" /\ r # << >>
  <2>1. Opened /\ Tabled(cpp) /\ Seen(cpp) = rows
    BY <1>4 DEF CountInv, Running
  <2>2. Classes = model.n_out
    BY <2>1 DEF Opened, SameNet, Classes
  <2>3. cpp \in Tool(model.n_out)
    BY <2>2 DEF CountInv
  <2>4. /\ CppRow(cpp, r) \in Tool(model.n_out) /\ Tabled(CppRow(cpp, r))
        /\ Seen(CppRow(cpp, r)) = Seen(cpp) + 1
        /\ CppRow(cpp, r).state = cpp.state /\ CppRow(cpp, r).status = cpp.status
        /\ \/ CppRow(cpp, r).dump = cpp.dump
           \/ \E e \in Entry : CppRow(cpp, r).dump = Append(cpp.dump, e)
    BY <1>4, <2>1, <2>3, CppRowCounts
  <2>5. cpp' \in Tool(Classes') /\ Tabled(cpp') /\ Seen(cpp') = rows' /\ cpp'.state = "reading"
    BY <1>1, <1>2, <1>4, <2>1, <2>2, <2>4
  <2> QED BY <1>2, <1>3, <2>1, <2>5 DEF CountInv
<1>5. CASE cpp.state = "reading" /\ r = << >>
  <2>1. cpp' = cpp /\ rows' = rows
    BY <1>1, <1>5
  <2> QED BY <1>2, <1>5, <2>1 DEF CountInv
<1>6. CASE cpp.state # "reading"
  <2>1. cpp' = cpp
    BY <1>1, <1>6
  <2>2. cpp.state = "ended"
    <3>1. cpp.state \in {"load", "between", "reading", "ended"}
      BY ToolFields DEF CountInv
    <3> QED BY <1>1, <1>6, <3>1 DEF CountInv
  <2> QED BY <1>2, <1>3, <2>1, <2>2 DEF CountInv, Running
<1> QED BY <1>4, <1>5, <1>6

LEMMA CountFinish ==
  ASSUME CountInv, NEW dump \in BOOLEAN, Finish(dump)
  PROVE  CountInv'
<1>1. model' = model /\ m' = m /\ header' = header /\ rows' = rows
  BY DEF Finish
<1>2. Classes' = Classes
  BY <1>1 DEF Classes
<1>3. CASE ~Running(cpp)
  <2>1. cpp' = cpp
    BY <1>3 DEF Finish
  <2> QED BY <1>1, <1>2, <1>3, <2>1 DEF CountInv, Running
<1>4. CASE Running(cpp)
  <2>1. cpp' = Ended(cpp, "1") \/ cpp' = Ended(cpp, "0")
    BY <1>4 DEF Finish
  <2>2. \A s \in {"0", "1"} : /\ Ended(cpp, s) \in Tool(Classes) /\ Tabled(Ended(cpp, s))
                              /\ Ended(cpp, s).state = "ended"
    BY EndKeeps DEF CountInv
  <2>3. cpp' \in Tool(Classes) /\ Tabled(cpp') /\ cpp'.state = "ended"
    BY <2>1, <2>2
  <2> QED BY <1>1, <1>2, <2>3 DEF CountInv, Running
<1> QED BY <1>3, <1>4

\* The invariant implies what the report shows.
LEMMA CountImplies ==
  ASSUME CountInv
  PROVE  EveryRowCounted
<1>1. PICK a : a = cpp.cm
  OBVIOUS
<1>2. Supports(a) = [c \in DOMAIN cpp.cm |-> Support(cpp, c)]
  BY <1>1 DEF Supports, Support
<1>3. Missed(a) = [c \in DOMAIN cpp.cm |-> fn(cpp, c)]
  BY <1>1 DEF Missed, fn, Support
<1>4. Wrong(a) = [c \in DOMAIN cpp.cm |-> fp(cpp, c)]
  BY <1>1 DEF Wrong, fp
<1>5. /\ cpp.total = SumFunction(Supports(a))
      /\ cpp.total - cpp.correct = SumFunction(Wrong(a))
      /\ cpp.total - cpp.correct = SumFunction(Missed(a))
      /\ cpp.gidx = Len(cpp.dump)
  BY <1>1 DEF CountInv, Tabled
<1>6. cpp.state = "reading" => cpp.total + cpp.unlabeled + cpp.bad = rows
  BY DEF CountInv, Running, Seen
<1> QED BY <1>2, <1>3, <1>4, <1>5, <1>6 DEF EveryRowCounted

LEMMA CountNext ==
  ASSUME CountInv, [Next]_vars
  PROVE  CountInv'
<1>1. ASSUME NEW f \in ModelFiles, LoadModel(f) PROVE CountInv'
  BY <1>1, CountLoad
<1>2. ASSUME NEW e \in Entries, NEW h \in Headers, OpenFile(e, h) PROVE CountInv'
  BY <1>2, CountOpen
<1>3. ASSUME NEW r \in Rows, ReadRow(r) PROVE CountInv'
  BY <1>3, CountRow
<1>4. ASSUME NEW dump \in BOOLEAN, Finish(dump) PROVE CountInv'
  BY <1>4, CountFinish
<1>5. CASE UNCHANGED vars
  <2>1. /\ model' = model /\ m' = m /\ header' = header /\ cpp' = cpp /\ py' = py /\ rows' = rows
    BY <1>5 DEF vars
  <2>2. Classes' = Classes /\ (Opened => Opened')
    BY <2>1 DEF Classes, Opened
  <2> QED BY <2>1, <2>2 DEF CountInv
<1> QED BY <1>1, <1>2, <1>3, <1>4, <1>5 DEF Next

\* Every line hids_replay reads is in exactly one of its counters, and the
\* confusion matrix, its margins and the dump agree with them: for any model,
\* any number of classes and any lines, whether or not the oracle agrees.
THEOREM AllRowsCounted == Spec => []EveryRowCounted
<1>1. Init => CountInv
  BY CountInit
<1>2. CountInv /\ [Next]_vars => CountInv'
  BY CountNext
<1>3. CountInv => EveryRowCounted
  BY CountImplies
<1> QED BY <1>1, <1>2, <1>3, PTL DEF Spec

-----------------------------------------------------------------------------
(* The same dump *)

\* The scaler of a model divides by the range of every feature.
Scales(a) == \A j \in 1..a.n_in : a.feature_min[j] < a.feature_max[j]

\* Both tools scale a row alike.
LEMMA SameScaling ==
  ASSUME SameNet(model, m), Scales(model), NEW x \in Seq(Int), Len(x) = model.n_in
  PROVE  Scaled(x) = normalize(model, x)
<1> DEFINE N(j) == LET d == model.feature_max[j] - model.feature_min[j]
                   IN  Clamp(IF d > 0 THEN (Unit * (x[j] - model.feature_min[j])) \div d ELSE 0)
           S(j) == LET d == m.fmax[j] - m.fmin[j]
                       v == (Unit * (x[j] - m.fmin[j])) \div (IF d > 0 THEN d ELSE 1)
                   IN  CASE v < 0 -> 0 [] v > Unit -> Unit [] OTHER -> v
<1>1. model.n_in \in Nat /\ DOMAIN x = 1..model.n_in /\ Unit \in Nat \ {0}
  BY ModelAssumption DEF SameNet
<1>2. ASSUME NEW j \in 1..model.n_in PROVE S(j) = N(j)
  <2>1. PICK a, b, y : a = model.feature_min[j] /\ b = model.feature_max[j] /\ y = x[j]
    OBVIOUS
  <2>2. a \in Int /\ b \in Int /\ y \in Int /\ a < b
    <3>1. /\ model.feature_min \in Seq(Int) /\ model.feature_max \in Seq(Int)
          /\ Len(model.feature_min) = model.n_in /\ Len(model.feature_max) = model.n_in
      BY Zenon DEF SameNet
    <3>2. model.feature_min[j] \in Int /\ model.feature_max[j] \in Int /\ x[j] \in Int
      BY <3>1, NumberAt, Zenon
    <3>3. a < b
      BY <2>1, Zenon DEF Scales
    <3> QED BY <2>1, <3>2, <3>3, Zenon
  <2>3. m.fmin[j] = a /\ m.fmax[j] = b
    BY <2>1 DEF SameNet
  <2>4. PICK d, u : d = b - a /\ u = Unit * (y - a)
    OBVIOUS
  <2>5. d \in Nat \ {0} /\ u \in Int /\ d > 0
    BY <1>1, <2>2, <2>4
  <2>6. PICK v : v = u \div d
    OBVIOUS
  <2>7. v \in Int
    BY <2>5, <2>6
  <2>8. N(j) = Clamp(v)
    BY <2>1, <2>4, <2>5, <2>6, Zenon
  <2>9. S(j) = CASE v < 0 -> 0 [] v > Unit -> Unit [] OTHER -> v
    BY <2>1, <2>3, <2>4, <2>5, <2>6, Zenon
  <2>10. (CASE v < 0 -> 0 [] v > Unit -> Unit [] OTHER -> v) = Clamp(v)
    BY <1>1, <2>7 DEF Clamp
  <2> QED BY <2>8, <2>9, <2>10, Zenon
<1>3. normalize(model, x) = << >> \o [j \in 1..model.n_in |-> N(j)]
  BY DEF normalize
<1>4. Scaled(x) = << >> \o [j \in DOMAIN x |-> S(j)]
  BY Zenon DEF Scaled
<1> HIDE DEF N, S
<1>5. [j \in DOMAIN x |-> S(j)] = [j \in 1..model.n_in |-> N(j)]
  BY <1>1, <1>2
<1> QED BY <1>3, <1>4, <1>5

\* Both tools predict the same class.
LEMMA SamePrediction ==
  ASSUME Opened, Scales(model), NEW x \in Seq(Int), Len(x) = model.n_in
  PROVE  PyPredict(x) = CppPredict(x)
<1>1. SameNet(model, m)
  BY DEF Opened
<1>2. PICK z : z = IF raw THEN normalize(model, x) ELSE x
  OBVIOUS
<1>3. normalize(model, x) \in Seq(Int) /\ Len(normalize(model, x)) = model.n_in
  BY <1>1, NormalizeTypes
<1>4. z \in Seq(Int) /\ Len(z) = model.n_in
  BY <1>2, <1>3
<1>5. Scaled(x) = normalize(model, x)
  BY <1>1, SameScaling
<1>6. (IF raw THEN Scaled(x) ELSE x) = z
  BY <1>2, <1>5
<1>7. PyPredict(x) = Forward(m, z)
  BY <1>6, Zenon DEF PyPredict, Forward
<1>8. CppPredict(x) = predict(model, z)
  BY <1>2 DEF CppPredict
<1>9. predict(model, z) = Forward(m, z)
  BY <1>1, <1>4, SameForward
<1> QED BY <1>7, <1>8, <1>9

\* Both tools look at the same columns.
LEMMA SameColumns ==
  ASSUME Opened, Comparable
  PROVE  PyFeatCol = CppFeatCol /\ PyColumn(Label) = CppColumn(Label)
<1>1. \A i, j \in 1..Len(header) : header[i] = header[j] => i = j
  BY DEF Opened, Comparable
<1>2. ASSUME NEW n PROVE PyColumn(n) = CppColumn(n)
  BY <1>1, OpenedTypes, SameColumn
<1>3. m.n_in = model.n_in
  BY OpenedTypes
<1>4. [j \in 1..m.n_in |-> PyColumn(FEATURE_ORDER[j])] = [j \in 1..model.n_in |-> CppColumn(FEATURE_ORDER[j])]
  BY <1>2, <1>3
<1> QED BY <1>2, <1>4 DEF PyFeatCol, CppFeatCol

\* The oracle accepts the cells of a row.
PyParses(r) == \A i \in Needed : i \in DOMAIN r /\ r[i].form \in {"numeral", "range"}

\* Both tools accept the same rows, and read the same cells of them.
LEMMA SameParse ==
  ASSUME Opened, Comparable, NEW r \in Rows, r # << >>
  PROVE  /\ CppParses(Split(r)) <=> PyParses(r)
         /\ PyParses(r) => \A i \in Needed : i \in 1..Len(r) /\ Split(r)[i] = r[i]
<1>1. PICK v : v = Split(r)
  OBVIOUS
<1>2. r \in Seq(Cell)
  BY ReplayAssumption DEF Cell
<1>3. /\ v \in Seq(Cell)
      /\ \A i \in 1..Len(v) : i \in 1..Len(r) /\ v[i] = r[i]
      /\ \A i \in 1..Len(r) : r[i].form # "empty" => i \in 1..Len(v)
  BY <1>1, <1>2, SplitKeeps
<1>4. DOMAIN r = 1..Len(r) /\ Len(r) \in Nat /\ Len(v) \in Nat
  BY <1>2, <1>3
<1>5. \A i \in 1..Len(r) : r[i].form \notin {"more", "range"}
  BY DEF Comparable
<1>6. \A i \in Needed : i \in 1..Len(header)
  BY NeededTypes
<1>7. Len(header) \in Nat
  BY OpenedTypes
<1>8. ASSUME NEW i \in Needed
      PROVE  /\ i <= Len(v) /\ v[i].form \in {"numeral", "more"}
                  <=> i \in 1..Len(r) /\ r[i].form \in {"numeral", "range"}
             /\ i \in 1..Len(r) /\ r[i].form \in {"numeral", "range"} => v[i] = r[i]
  <2>1. i \in Nat /\ i >= 1
    BY <1>6, <1>7
  <2>2. i <= Len(v) <=> i \in 1..Len(v)
    BY <1>4, <2>1
  <2> QED BY <1>3, <1>5, <2>2
<1> QED BY <1>1, <1>4, <1>8 DEF CppParses, PyParses

\* Both tools make the same of a row.
LEMMA SameRow ==
  ASSUME Opened, Scales(model), Comparable, NEW t, NEW r \in Rows, r # << >>
  PROVE  PyRow(t, r) = CppRow(t, r)
<1>1. PICK v, l, s : v = Split(r) /\ l = CppColumn(Label) /\ s = CppFeatCol
  OBVIOUS
<1>2. PyFeatCol = s /\ PyColumn(Label) = l
  BY <1>1, SameColumns
<1>3. CppRow(t, r) = IF CppParses(v) THEN Tallied(t, CppLabel(v, l), CppPredict(Values(v, s))) ELSE Bad(t)
  BY <1>1 DEF CppRow, CppParses, Needed
<1>4. PyRow(t, r) = IF PyParses(r) THEN Tallied(t, PyLabel(r, l), PyPredict(Values(r, s))) ELSE Bad(t)
  BY <1>1, <1>2 DEF PyRow, PyParses, Needed
<1>5. /\ CppParses(v) <=> PyParses(r)
      /\ PyParses(r) => \A i \in Needed : i \in 1..Len(r) /\ v[i] = r[i]
  BY <1>1, SameParse
<1>6. CASE PyParses(r)
  <2>1. r \in Seq(Cell)
    BY ReplayAssumption DEF Cell
  <2>2. v \in Seq(Cell)
    BY <1>1, <2>1, SplitKeeps
  <2>3. Values(v, s) \in Seq(Int) /\ Len(Values(v, s)) = model.n_in
    BY <1>1, <1>5, <1>6, <2>2, CppParsed
  <2>4. Len(s) = model.n_in /\ DOMAIN s = 1..model.n_in
    BY <1>1, FeaturesFound
  <2>5. \A j \in 1..model.n_in : v[s[j]] = r[s[j]]
    BY <1>1, <1>5, <1>6, NeededTypes
  <2>6. [j \in DOMAIN s |-> v[s[j]].value] = [j \in DOMAIN s |-> r[s[j]].value]
    BY <2>4, <2>5
  <2>7. Values(v, s) = Values(r, s)
    BY <2>6 DEF Values
  <2>8. PyPredict(Values(r, s)) = CppPredict(Values(v, s))
    BY <2>3, <2>7, SamePrediction
  <2>9. PyLabel(r, l) = CppLabel(v, l)
    <3>1. CASE l = 0
      BY <3>1 DEF PyLabel, CppLabel
    <3>2. CASE l # 0
      <4>1. l \in Needed
        BY <1>1, <3>2, NeededTypes
      <4>2. l \in 1..Len(r) /\ v[l] = r[l] /\ l \in 1..Len(header)
        BY <1>5, <1>6, <4>1, NeededTypes
      <4>3. header[l] = Label
        BY <1>1, <3>2, OpenedTypes, CppColumnFinds DEF Named
      <4>4. r[l].value # -1 /\ r[l].form # "range"
        BY <4>2, <4>3 DEF Comparable, Opened
      <4>5. PICK e, K : e = r[l].value /\ K = model.n_out
        OBVIOUS
      <4>6. r[l] \in Cell
        BY <2>1, <4>2
      <4>7. e \in Int /\ K \in Nat /\ e # -1 /\ m.n_out = K
        BY <4>4, <4>5, <4>6, OpenedTypes DEF Cell
      <4>8. CppLabel(v, l) = IF e < 0 \/ e >= K THEN -2 ELSE e
        BY <3>2, <4>2, <4>5 DEF CppLabel
      <4>9. PyLabel(r, l) = IF e >= K \/ e < -1 THEN -2 ELSE e
        BY <3>2, <4>4, <4>5, <4>7 DEF PyLabel
      <4> QED BY <4>7, <4>8, <4>9
    <3> QED BY <3>1, <3>2
  <2> QED BY <1>3, <1>4, <1>5, <1>6, <2>8, <2>9
<1>7. CASE ~PyParses(r)
  BY <1>3, <1>4, <1>5, <1>7
<1> QED BY <1>6, <1>7

\* A dump that has a line more still continues the other.
LEMMA PrefixGrows ==
  ASSUME NEW S, NEW s \in Seq(S), NEW t \in Seq(S), NEW e \in S
  PROVE  IsPrefix(s, s) /\ (IsPrefix(s, t) => IsPrefix(s, Append(t, e)))
<1>1. IsPrefix(s, s)
  BY DEF IsPrefix
<1>2. ASSUME IsPrefix(s, t) PROVE IsPrefix(s, Append(t, e))
  <2>1. PICK n, k : n = Len(s) /\ k = Len(t)
    OBVIOUS
  <2>2. n \in Nat /\ k \in Nat /\ n <= k /\ SubSeq(s, 1, n) = SubSeq(t, 1, n)
    BY <1>2, <2>1 DEF IsPrefix
  <2>3. PICK u : u = Append(t, e)
    OBVIOUS
  <2>4. u \in Seq(S) /\ Len(u) = k + 1 /\ \A i \in 1..k : u[i] = t[i]
    BY <2>1, <2>3
  <2>5. SubSeq(u, 1, n) = SubSeq(t, 1, n)
    BY <2>1, <2>2, <2>4
  <2> QED BY <2>1, <2>2, <2>3, <2>4, <2>5 DEF IsPrefix
<1> QED BY <1>1, <1>2

\* While the oracle runs it is in the same state as hids_replay; when it has
\* failed it has printed less, and when it has finished so has hids_replay.
SameInv ==
  /\ CountInv
  /\ cpp.state \in {"between", "reading"} => Scales(model)
  /\ Running(py) => py = cpp /\ py.status = "none"
  /\ ~Running(py) => py.status \in {"0", "1"}
  /\ cpp.state = "load" => Running(py)
  /\ py.status = "0" => ~Running(cpp)
  /\ py.dump \in Seq(Entry)
  /\ py.status # "1" => cpp.dump = py.dump
  /\ IsPrefix(py.dump, cpp.dump)

\* SameInv holds at the start and after each action.
LEMMA SameInit ==
  ASSUME Init
  PROVE  SameInv
<1>1. CountInv
  BY CountInit
<1>2. cpp.state = "load" /\ cpp.status = "none" /\ cpp.dump = << >> /\ py = cpp
  BY DEF Init, Fresh
<1>3. << >> \in Seq(Entry) /\ IsPrefix(<< >>, << >>)
  BY DEF IsPrefix
<1> QED BY <1>1, <1>2, <1>3 DEF SameInv, Running

LEMMA SameLoad ==
  ASSUME SameInv, Comparable, NEW f \in ModelFiles, LoadModel(f)
  PROVE  SameInv'
<1>1. CountInv'
  BY CountLoad DEF SameInv
<1>2. cpp.state = "load" /\ py = cpp /\ cpp \in Tool(Classes) /\ cpp.dump \in Seq(Entry)
  BY ToolFields DEF LoadModel, SameInv, CountInv
<1>3. CASE Len(f.words) < 4
  <2>1. cpp' = Ended(cpp, "1") /\ py' = Ended(cpp, "1")
    BY <1>2, <1>3 DEF LoadModel
  <2>2. /\ Ended(cpp, "1").dump = cpp.dump /\ Ended(cpp, "1").state = "ended"
        /\ Ended(cpp, "1").status = "1"
    BY <1>2, EndKeeps
  <2>3. IsPrefix(cpp.dump, cpp.dump)
    BY <1>2 DEF IsPrefix
  <2> QED BY <1>1, <1>2, <2>1, <2>2, <2>3 DEF SameInv, Running
<1>4. CASE ~(Len(f.words) < 4)
  <2>1. model' = load(f) /\ m' = load_bin(f) /\ cpp' = Fresh(model'.n_out) /\ py' = Fresh(m'.n_out)
    BY <1>4 DEF LoadModel
  <2>2. cpp'.state = "between" /\ cpp'.status = "none" /\ cpp'.dump = << >>
    BY <2>1 DEF Fresh
  <2>3. SameNet(model, m)'
    BY <1>1, <2>2 DEF CountInv
  <2>4. py' = cpp' /\ model'.ok
    BY <2>1, <2>3 DEF SameNet
  <2>5. Scales(model)'
    BY <2>1, <2>4 DEF Comparable, Scales
  <2>6. << >> \in Seq(Entry) /\ IsPrefix(<< >>, << >>)
    BY DEF IsPrefix
  <2> QED BY <1>1, <2>2, <2>4, <2>5, <2>6 DEF SameInv, Running
<1> QED BY <1>3, <1>4

LEMMA SameOpen ==
  ASSUME SameInv, NEW e \in Entries, NEW h \in Headers, OpenFile(e, h)
  PROVE  SameInv'
<1>1. CountInv'
  BY CountOpen DEF SameInv
<1>2. /\ cpp.state # "load" /\ cpp' = CppOpen(e) /\ py' = PyOpen(e) /\ model' = model /\ m' = m
  BY DEF OpenFile
<1>3. cpp \in Tool(Classes) /\ cpp.dump \in Seq(Entry)
  BY ToolFields DEF SameInv, CountInv
<1>4. /\ InState(cpp, "between").dump = cpp.dump /\ InState(cpp, "between").state = "between"
      /\ InState(cpp, "between").status = cpp.status
      /\ InState(cpp, "reading").dump = cpp.dump /\ InState(cpp, "reading").state = "reading"
      /\ InState(cpp, "reading").status = cpp.status
      /\ Ended(cpp, "1").dump = cpp.dump /\ Ended(cpp, "1").state = "ended"
      /\ Ended(cpp, "1").status = "1"
  BY <1>3, StateKeeps, EndKeeps
<1>5. /\ ~Running(cpp) => cpp' = cpp
      /\ Running(cpp) /\ (e = "unreadable" \/ header' = << >>) => cpp' = InState(cpp, "between")
      /\ Running(cpp) /\ ~(e = "unreadable" \/ header' = << >>) =>
           cpp' = IF Lacks(model.n_in) THEN Ended(cpp, "1") ELSE InState(cpp, "reading")
  BY <1>2 DEF CppOpen, InState
<1>6. Running(cpp) => SameNet(model, m) /\ Scales(model)
  <2>1. cpp.state \in {"load", "between", "reading", "ended"}
    BY <1>3, ToolFields
  <2> QED BY <1>2, <2>1 DEF SameInv, CountInv, Running, Opened
<1>7. cpp'.state \in {"between", "reading"} => Scales(model)'
  <2>1. Scales(model) => Scales(model)'
    BY <1>2 DEF Scales
  <2> QED BY <1>5, <1>6, <2>1 DEF Running
<1>8. cpp'.state # "load" /\ cpp'.dump = cpp.dump
  BY <1>2, <1>4, <1>5
<1>9. CASE ~Running(py)
  <2>1. py' = py
    BY <1>2, <1>9 DEF PyOpen
  <2>2. py.status = "0" => cpp' = cpp
    BY <1>5 DEF SameInv
  <2> QED BY <1>1, <1>7, <1>8, <1>9, <2>1, <2>2 DEF SameInv, Running
<1>10. CASE Running(py)
  <2>1. py = cpp /\ Running(cpp) /\ cpp.status = "none"
    BY <1>10 DEF SameInv
  <2>2. model.n_in \in Nat \ {0} /\ m.n_in = model.n_in
    BY <1>6, <2>1 DEF SameNet
  <2>3. IsPrefix(cpp.dump, cpp.dump)
    BY <1>3 DEF IsPrefix
  <2>4. CASE e = "unreadable" \/ Lacks(m.n_in)
    <3>1. py' = Ended(cpp, "1")
      BY <1>2, <1>10, <2>1, <2>4 DEF PyOpen
    <3> QED BY <1>1, <1>3, <1>4, <1>7, <1>8, <2>3, <3>1 DEF SameInv, Running
  <2>5. CASE ~(e = "unreadable" \/ Lacks(m.n_in))
    <3>1. py' = InState(cpp, "reading")
      BY <1>2, <1>10, <2>1, <2>5 DEF PyOpen, InState
    <3>2. header' # << >>
      <4>1. 1 \in 1..m.n_in
        BY <2>2
      <4>2. \A n : ~Contains(<< >>, n)
        BY DEF Contains
      <4> QED BY <2>5, <4>1, <4>2 DEF Lacks
    <3>3. cpp' = InState(cpp, "reading")
      BY <1>5, <2>1, <2>2, <2>5, <3>2
    <3> QED BY <1>1, <1>3, <1>4, <1>7, <2>1, <2>3, <3>1, <3>3 DEF SameInv, Running
  <2> QED BY <2>4, <2>5
<1> QED BY <1>9, <1>10

LEMMA SameRead ==
  ASSUME SameInv, Comparable, NEW r \in Rows, ReadRow(r)
  PROVE  SameInv'
<1>1. CountInv'
  BY CountRow DEF SameInv
<1>2. /\ model' = model /\ m' = m
      /\ cpp' = (IF cpp.state = "reading" /\ r # << >> THEN CppRow(cpp, r) ELSE cpp)
      /\ py' = (IF py.state = "reading" /\ r # << >> THEN PyRow(py, r) ELSE py)
      /\ (cpp.state = "reading" \/ py.state = "reading")
  BY DEF ReadRow
<1>3. cpp.state = "reading"
  BY <1>2 DEF SameInv, Running
<1>4. Opened /\ Scales(model) /\ Tabled(cpp) /\ cpp \in Tool(Classes)
  BY <1>3 DEF SameInv, CountInv
<1>5. Scales(model)'
  BY <1>2, <1>4 DEF Scales
<1>6. CASE r = << >>
  <2>1. cpp' = cpp /\ py' = py
    BY <1>2, <1>6
  <2> QED BY <1>1, <1>5, <2>1 DEF SameInv, Running
<1>7. CASE r # << >>
  <2>1. PICK u : u = CppRow(cpp, r)
    OBVIOUS
  <2>2. Classes = model.n_out
    BY <1>4 DEF Opened, SameNet, Classes
  <2>3. cpp \in Tool(model.n_out) /\ cpp.dump \in Seq(Entry)
    BY <1>4, <2>2, ToolFields
  <2>4. /\ u \in Tool(model.n_out) /\ Tabled(u) /\ Seen(u) = Seen(cpp) + 1
        /\ u.state = cpp.state /\ u.status = cpp.status
        /\ u.dump = cpp.dump \/ \E e \in Entry : u.dump = Append(cpp.dump, e)
    BY <1>4, <1>7, <2>1, <2>3, CppRowCounts
  <2>5. cpp' = u /\ u.dump \in Seq(Entry)
    BY <1>2, <1>3, <1>7, <2>1, <2>4, ToolFields
  <2>6. CASE Running(py)
    <3>1. py = cpp /\ cpp.status = "none"
      BY <2>6 DEF SameInv
    <3>2. py' = u
      BY <1>2, <1>3, <1>4, <1>7, <2>1, <3>1, SameRow
    <3>3. IsPrefix(u.dump, u.dump)
      BY <2>5 DEF IsPrefix
    <3> QED BY <1>1, <1>3, <1>5, <2>4, <2>5, <3>1, <3>2, <3>3 DEF SameInv, Running
  <2>7. CASE ~Running(py)
    <3>1. py' = py
      BY <1>2, <2>7 DEF Running
    <3>2. py.status = "1" /\ py.dump \in Seq(Entry) /\ IsPrefix(py.dump, cpp.dump)
      BY <1>3, <2>7 DEF SameInv, Running
    <3>3. \A e \in Entry : IsPrefix(py.dump, Append(cpp.dump, e))
      BY <2>3, <3>2, PrefixGrows
    <3>4. IsPrefix(py.dump, u.dump)
      BY <2>4, <3>2, <3>3
    <3> QED BY <1>1, <1>3, <1>5, <2>4, <2>5, <2>7, <3>1, <3>2, <3>4 DEF SameInv, Running
  <2> QED BY <2>6, <2>7
<1> QED BY <1>6, <1>7

LEMMA SameFinish ==
  ASSUME SameInv, NEW dump \in BOOLEAN, Finish(dump)
  PROVE  SameInv'
<1>1. CountInv'
  BY CountFinish DEF SameInv
<1>2. cpp \in Tool(Classes) /\ cpp.dump \in Seq(Entry)
  BY ToolFields DEF SameInv, CountInv
<1>3. \A s \in {"0", "1"} : /\ Ended(cpp, s).dump = cpp.dump /\ Ended(cpp, s).state = "ended"
                            /\ Ended(cpp, s).status = s
  BY <1>2, EndKeeps
<1>4. (cpp' = cpp /\ ~Running(cpp)) \/ cpp' = Ended(cpp, "1") \/ cpp' = Ended(cpp, "0")
  BY DEF Finish
<1>5. cpp'.dump = cpp.dump /\ cpp'.state = "ended"
  BY <1>3, <1>4 DEF Running
<1>6. CASE Running(py)
  <2>1. py = cpp /\ py' = Ended(cpp, "0")
    BY <1>6 DEF Finish, SameInv
  <2>2. IsPrefix(cpp.dump, cpp.dump)
    BY <1>2 DEF IsPrefix
  <2> QED BY <1>1, <1>2, <1>3, <1>5, <2>1, <2>2 DEF SameInv, Running
<1>7. CASE ~Running(py)
  <2>1. py' = py
    BY <1>7 DEF Finish
  <2> QED BY <1>1, <1>5, <1>7, <2>1 DEF SameInv, Running
<1> QED BY <1>6, <1>7

LEMMA SameNext ==
  ASSUME SameInv, Comparable, [Next]_vars
  PROVE  SameInv'
<1>1. ASSUME NEW f \in ModelFiles, LoadModel(f) PROVE SameInv'
  BY <1>1, SameLoad
<1>2. ASSUME NEW e \in Entries, NEW h \in Headers, OpenFile(e, h) PROVE SameInv'
  BY <1>2, SameOpen
<1>3. ASSUME NEW r \in Rows, ReadRow(r) PROVE SameInv'
  BY <1>3, SameRead
<1>4. ASSUME NEW dump \in BOOLEAN, Finish(dump) PROVE SameInv'
  BY <1>4, SameFinish
<1>5. CASE UNCHANGED vars
  <2>1. /\ model' = model /\ cpp' = cpp /\ py' = py
    BY <1>5 DEF vars
  <2>2. CountInv'
    BY <1>5, CountNext DEF SameInv
  <2>3. Scales(model) => Scales(model)'
    BY <2>1 DEF Scales
  <2> QED BY <2>1, <2>2, <2>3 DEF SameInv, Running
<1> QED BY <1>1, <1>2, <1>3, <1>4, <1>5 DEF Next

\* "diff cpp.txt o.txt  # must be empty": on inputs without the four known
\* differences the two tools print the same lines, for any models, columns,
\* rows and number of files.
THEOREM DumpsAgree ==
  ASSUME Comparable
  PROVE  Spec => []SameDump
<1>1. Init => SameInv
  BY SameInit
<1>2. SameInv /\ [Next]_vars => SameInv'
  BY SameNext
<1>3. SameInv => SameDump
  BY DEF SameInv, SameDump
<1> QED BY <1>1, <1>2, <1>3, PTL DEF Spec
=============================================================================
