----------------------- MODULE AsymmetricSolver_proofs -----------------------
(***************************************************************************)
(* The branching rules of the asymmetric solver leave no tour out, for any *)
(* number of vertices and any costs: a tour that obeys a node differs from *)
(* the node's relaxation on the cycle that is broken, and one of the       *)
(* children goes along with that difference.  The record is the length of  *)
(* a tour, from the greedy routes improved by two_opt on, and the search   *)
(* that ends without a signal ends with a shortest one.  At the end, the   *)
(* ant colony: its values are lengths and its answer is the best of all.   *)
(***************************************************************************)
EXTENDS AsymmetricSolver, FiniteSetTheorems, TLAPS

(* The lemmas of TransformNode_proofs on least numbers, finite sets and    *)
(* sums: they say nothing of the parameters of that module.                *)
Data == INSTANCE TransformNode_proofs WITH
  Vertex <- {}, None <- 0, BigValue <- 1, Matrices <- {}, MinVal <- 0, MVal <- 0,
  MaxLevel <- 0, MaxIncluded <- 0, MaxExcluded <- 0,
  rows <- {}, cols <- {}, matrix <- <<>>, pc <- 0, dual_u <- 0, dual_v <- 0, primal <- 0,
  row_ <- 0, pred_ <- 0, pi <- 0, scanned_u <- {}, scanned_v <- {}, labeled_v <- {},
  root <- 0, i <- 0, j <- 0, original <- 0, included <- {}, excluded <- {}, level <- 0

LEMMA SameFinite == \A S : Data!IsFiniteSet(S) <=> IsFiniteSet(S)
BY DEF Data!IsFiniteSet, IsFiniteSet

LEMMA SameSum == \A f, S : Data!SumFunctionOnSet(f, S) = SumFunctionOnSet(f, S)
BY DEF Data!SumFunctionOnSet, Data!FoldFunctionOnSet, Data!MapThenFoldSet,
       SumFunctionOnSet, FoldFunctionOnSet, MapThenFoldSet

LEMMA NoData ==
  Data!VertexAssumption /\ Data!BigAssumption /\ Data!MatrixAssumption /\ Data!LevelAssumption
<1>1. Data!IsFiniteSet({})
  BY FS_EmptySet, SameFinite
<1>2. Data!VertexAssumption /\ Data!BigAssumption
  BY DEF Data!VertexAssumption, Data!BigAssumption
<1>3. Data!MatrixAssumption /\ Data!LevelAssumption
  BY <1>1 DEF Data!MatrixAssumption, Data!LevelAssumption
<1> QED BY <1>2, <1>3

LEMMA LeastNumber ==
  ASSUME NEW T \in SUBSET Nat, T # {}
  PROVE  \E n \in T : \A k \in T : n <= k
BY Data!LeastNumber, NoData

LEMMA InductionOnNat ==
  ASSUME NEW T, 0 \in T, \A n \in Nat : n \in T => n + 1 \in T
  PROVE  Nat \subseteq T
BY Data!InductionOnNat, NoData

LEMMA InductionOnSubsets ==
  ASSUME NEW S, IsFiniteSet(S), NEW F,
         \A T \in SUBSET S : (\A x \in T : T \ {x} \in F) => T \in F
  PROVE  SUBSET S \subseteq F
BY Data!InductionOnSubsets, NoData, SameFinite

LEMMA SumStep ==
  ASSUME NEW S, IsFiniteSet(S), NEW f, \A x \in S : f[x] \in Int
  PROVE  /\ SumFunctionOnSet(f, S) \in Int
         /\ SumFunctionOnSet(f, {}) = 0
         /\ \A x \in S : SumFunctionOnSet(f, S) = f[x] + SumFunctionOnSet(f, S \ {x})
BY Data!SumStep, NoData, SameFinite, SameSum

LEMMA SumMonotone ==
  ASSUME NEW S, IsFiniteSet(S), NEW f, NEW g,
         \A x \in S : f[x] \in Int /\ g[x] \in Int /\ f[x] <= g[x]
  PROVE  SumFunctionOnSet(f, S) <= SumFunctionOnSet(g, S)
BY Data!SumMonotone, NoData, SameFinite, SameSum

LEMMA SumImage ==
  ASSUME NEW S, IsFiniteSet(S), NEW p, \A x, y \in S : p[x] = p[y] => x = y,
         NEW v, NEW w, \A x \in S : v[p[x]] \in Int /\ w[x] = v[p[x]]
  PROVE  SumFunctionOnSet(w, S) = SumFunctionOnSet(v, {p[x] : x \in S})
BY Data!SumImage, NoData, SameFinite, SameSum

LEMMA SumSame ==
  ASSUME NEW S, IsFiniteSet(S), NEW f, NEW g, \A x \in S : f[x] \in Int /\ g[x] = f[x]
  PROVE  SumFunctionOnSet(g, S) = SumFunctionOnSet(f, S)
<1>1. SumFunctionOnSet(f, S) <= SumFunctionOnSet(g, S)
  BY SumMonotone
<1>2. SumFunctionOnSet(g, S) <= SumFunctionOnSet(f, S)
  BY SumMonotone
<1>3. SumFunctionOnSet(f, S) \in Int /\ SumFunctionOnSet(g, S) \in Int
  BY SumStep
<1> QED BY <1>1, <1>2, <1>3

----------------------------------------------------------------------------
(* Functions defined by recursion on a number.                             *)

\* What the first n steps must be.
Steps(S, s0, step, n) ==
  {g \in [Nat -> S] : g[0] = s0 /\ \A k \in 0 .. n - 1 : g[k + 1] = step[k][g[k]]}

LEMMA StepsAgree ==
  ASSUME NEW S, NEW s0, NEW step, NEW n \in Nat,
         NEW g \in Steps(S, s0, step, n), NEW h \in Steps(S, s0, step, n)
  PROVE  \A k \in 0 .. n : g[k] = h[k]
<1> DEFINE T == {k \in Nat : k <= n => g[k] = h[k]}
<1>1. 0 \in T
  BY DEF Steps
<1>2. \A k \in Nat : k \in T => k + 1 \in T
  <2> SUFFICES ASSUME NEW k \in Nat, k \in T, k + 1 <= n PROVE g[k + 1] = h[k + 1]
    OBVIOUS
  <2>1. k \in 0 .. n - 1 /\ g[k] = h[k]
    OBVIOUS
  <2> QED BY <2>1 DEF Steps
<1>3. Nat \subseteq T
  <2> HIDE DEF T
  <2> QED BY <1>1, <1>2, InductionOnNat
<1> QED BY <1>3

\* f goes on from s0 as step says.
Follows(f, S, s0, step) ==
  f \in [Nat -> S] /\ f[0] = s0 /\ \A n \in Nat : f[n + 1] = step[n][f[n]]

LEMMA Recursion ==
  ASSUME NEW S, NEW s0 \in S, NEW step \in [Nat -> [S -> S]]
  PROVE  \E f : Follows(f, S, s0, step)
<1> DEFINE T == {n \in Nat : Steps(S, s0, step, n) # {}}
<1>1. 0 \in T
  <2> DEFINE g == [n \in Nat |-> s0]
  <2>1. g \in Steps(S, s0, step, 0)
    BY DEF Steps
  <2> QED BY <2>1
<1>2. ASSUME NEW n \in Nat, n \in T PROVE n + 1 \in T
  <2>1. PICK g \in Steps(S, s0, step, n) : TRUE
    BY <1>2
  <2> DEFINE h == [g EXCEPT ![n + 1] = step[n][g[n]]]
  <2>2. g \in [Nat -> S] /\ g[0] = s0 /\ \A k \in 0 .. n - 1 : g[k + 1] = step[k][g[k]]
    BY <2>1 DEF Steps
  <2>3. step[n][g[n]] \in S
    BY <2>2
  <2>4. h \in [Nat -> S] /\ h[0] = s0
    BY <2>2, <2>3
  <2>5. \A k \in 0 .. n : h[k + 1] = step[k][h[k]]
    <3> TAKE k \in 0 .. n
    <3>1. h[k] = g[k]
      BY <2>2
    <3>2. CASE k = n
      BY <2>2, <3>1, <3>2
    <3>3. CASE k # n
      <4>1. k \in 0 .. n - 1 /\ h[k + 1] = g[k + 1]
        BY <2>2, <3>3
      <4> QED BY <2>2, <3>1, <4>1
    <3> QED BY <3>2, <3>3
  <2>6. h \in Steps(S, s0, step, n + 1)
    <3>1. 0 .. (n + 1) - 1 = 0 .. n
      OBVIOUS
    <3> HIDE DEF h
    <3> QED BY <2>4, <2>5, <3>1 DEF Steps
  <2> QED BY <2>6
<1>3. \A n \in Nat : Steps(S, s0, step, n) # {}
  <2>1. Nat \subseteq T
    <3> HIDE DEF T
    <3> QED BY <1>1, <1>2, InductionOnNat
  <2> QED BY <2>1
<1> DEFINE G(n) == CHOOSE g \in Steps(S, s0, step, n) : TRUE
           f == [n \in Nat |-> G(n)[n]]
<1>4. \A n \in Nat : G(n) \in Steps(S, s0, step, n)
  BY <1>3
<1>5. \A n \in Nat : G(n) \in [Nat -> S] /\ G(n)[0] = s0
  <2> HIDE DEF G
  <2> QED BY <1>4 DEF Steps
<1>6. f \in [Nat -> S] /\ f[0] = s0
  <2> HIDE DEF G
  <2> QED BY <1>5
<1>7. ASSUME NEW n \in Nat PROVE f[n + 1] = step[n][f[n]]
  <2> HIDE DEF G
  <2>1. G(n + 1) \in Steps(S, s0, step, n)
    BY <1>4 DEF Steps
  <2>2. G(n + 1)[n] = G(n)[n]
    BY <1>4, <2>1, StepsAgree
  <2>3. G(n + 1)[n + 1] = step[n][G(n + 1)[n]]
    <3>1. G(n + 1) \in Steps(S, s0, step, n + 1) /\ n \in 0 .. (n + 1) - 1
      BY <1>4
    <3> QED BY <3>1 DEF Steps
  <2> QED BY <2>2, <2>3
<1> HIDE DEF f
<1> QED BY <1>6, <1>7 DEF Follows

----------------------------------------------------------------------------
(* Cycles of an assignment.                                                *)

LEMMA VertexFinite ==
  /\ IsFiniteSet(Vertex) /\ Cardinality(Vertex) = Size
  /\ Size \in Nat /\ Size > 2 /\ 0 \in Vertex
BY SizeAssumption, FS_Interval DEF Vertex

LEMMA WalkStep ==
  ASSUME NEW f \in [Vertex -> Vertex], NEW v \in Vertex
  PROVE  /\ Walk(f, v) \in [Nat -> Vertex]
         /\ Walk(f, v)[0] = v
         /\ \A k \in Nat : Walk(f, v)[k + 1] = f[Walk(f, v)[k]]
<1> DEFINE step == [k \in Nat |-> f]
           D(at) == at = [k \in Nat |-> IF k = 0 THEN v ELSE f[at[k - 1]]]
<1>1. step \in [Nat -> [Vertex -> Vertex]]
  OBVIOUS
<1>2. PICK g : Follows(g, Vertex, v, step)
  <2> HIDE DEF step, D
  <2> QED BY <1>1, Recursion
<1>3. g \in [Nat -> Vertex] /\ g[0] = v /\ \A k \in Nat : g[k + 1] = f[g[k]]
  BY <1>2 DEF Follows
<1>4. D(g)
  <2>1. \A k \in Nat : g[k] = IF k = 0 THEN v ELSE f[g[k - 1]]
    <3> TAKE k \in Nat
    <3>1. CASE k = 0
      BY <1>3, <3>1
    <3>2. CASE k # 0
      <4>1. k - 1 \in Nat /\ (k - 1) + 1 = k
        BY <3>2
      <4>2. g[(k - 1) + 1] = f[g[k - 1]]
        BY <1>3, <4>1
      <4> QED BY <3>2, <4>1, <4>2
    <3> QED BY <3>1, <3>2
  <2>2. g = [k \in Nat |-> g[k]]
    BY <1>3
  <2> QED BY <2>1, <2>2
<1>5. D(CHOOSE at : D(at))
  <2> HIDE DEF D
  <2> QED BY <1>4
<1>6. Walk(f, v) = CHOOSE at : D(at)
  BY DEF Walk
<1>7. Walk(f, v) = [k \in Nat |-> IF k = 0 THEN v ELSE f[Walk(f, v)[k - 1]]]
  <2>1. D(Walk(f, v))
    <3> HIDE DEF D
    <3> QED BY <1>5, <1>6
  <2> QED BY <2>1
<1> DEFINE w == Walk(f, v)
<1>8. w[0] = v /\ \A k \in Nat : w[k + 1] = f[w[k]]
  <2>1. w = [k \in Nat |-> IF k = 0 THEN v ELSE f[w[k - 1]]]
    BY <1>7
  <2> HIDE DEF w
  <2>2. w[0] = v
    BY <2>1
  <2>3. ASSUME NEW k \in Nat PROVE w[k + 1] = f[w[k]]
    <3>1. k + 1 \in Nat /\ k + 1 # 0 /\ (k + 1) - 1 = k
      OBVIOUS
    <3> QED BY <2>1, <3>1
  <2> QED BY <2>2, <2>3
<1>9. w \in [Nat -> Vertex]
  <2> DEFINE T == {k \in Nat : w[k] \in Vertex}
  <2> HIDE DEF w
  <2>1. 0 \in T /\ \A k \in Nat : k \in T => k + 1 \in T
    BY <1>8
  <2>2. Nat \subseteq T
    <3> HIDE DEF T
    <3> QED BY <2>1, InductionOnNat
  <2>3. w = [k \in Nat |-> w[k]]
    <3>1. w = [k \in Nat |-> IF k = 0 THEN v ELSE f[w[k - 1]]]
      BY <1>7 DEF w
    <3> QED BY <3>1
  <2> QED BY <2>2, <2>3
<1> QED BY <1>8, <1>9

\* A walk that returns to where it has been has returned to where it began.
LEMMA WalkBack ==
  ASSUME NEW f \in Assignments, NEW v \in Vertex, NEW d \in Nat, NEW i \in Nat,
         Walk(f, v)[i + d] = Walk(f, v)[i]
  PROVE  Walk(f, v)[d] = v
<1> DEFINE w == Walk(f, v)
           T == {i_1 \in Nat : w[i_1 + d] = w[i_1] => w[d] = v}
<1>1. f \in [Vertex -> Vertex] /\ \A x, y \in Vertex : f[x] = f[y] => x = y
  BY DEF Assignments
<1>2. w \in [Nat -> Vertex] /\ w[0] = v /\ \A k \in Nat : w[k + 1] = f[w[k]]
  <2>1. f \in [Vertex -> Vertex]
    BY <1>1
  <2> HIDE DEF T
  <2> QED BY <2>1, WalkStep
<1> HIDE DEF w
<1>3. 0 \in T
  BY <1>2
<1>4. ASSUME NEW k \in Nat, k \in T PROVE k + 1 \in T
  <2> SUFFICES ASSUME w[(k + 1) + d] = w[k + 1] PROVE w[d] = v
    OBVIOUS
  <2>1. (k + 1) + d = (k + d) + 1 /\ k + d \in Nat
    OBVIOUS
  <2>2. f[w[k + d]] = f[w[k]] /\ w[k + d] \in Vertex /\ w[k] \in Vertex
    BY <1>2, <2>1
  <2>3. w[k + d] = w[k]
    BY <1>1, <2>2
  <2> QED BY <1>4, <2>3
<1>5. Nat \subseteq T
  <2> HIDE DEF T
  <2> QED BY <1>3, <1>4, InductionOnNat
<1> QED BY <1>5 DEF w

LEMMA CycleLengthType ==
  ASSUME NEW f \in Assignments, NEW v \in Vertex
  PROVE  /\ CycleLength(f, v) \in 1 .. Size
         /\ Walk(f, v)[CycleLength(f, v)] = v
         /\ \A k \in 1 .. CycleLength(f, v) - 1 : Walk(f, v)[k] # v
<1> DEFINE w == Walk(f, v)
           h == [k \in 0 .. Size |-> w[k]]
           T == {k \in 1 .. Size : w[k] = v}
<1>1. w \in [Nat -> Vertex]
  BY WalkStep DEF Assignments
<1>2. IsFiniteSet(0 .. Size) /\ Cardinality(0 .. Size) = Size + 1
  BY VertexFinite, FS_Interval
<1>3. PICK x, y \in 0 .. Size : x # y /\ h[x] = h[y]
  <2>1. h \in [0 .. Size -> Vertex]
    <3> HIDE DEF w
    <3> QED BY <1>1, VertexFinite
  <2> HIDE DEF h
  <2> QED BY <1>2, <2>1, VertexFinite, FS_PigeonHole
<1>4. ASSUME NEW a \in 0 .. Size, NEW b \in 0 .. Size, a < b, w[a] = w[b] PROVE T # {}
  <2>1. b - a \in 1 .. Size /\ b - a \in Nat /\ a \in Nat /\ a + (b - a) = b
    BY <1>4, VertexFinite
  <2>2. w[b - a] = v
    BY <1>4, <2>1, WalkBack
  <2> QED BY <2>1, <2>2
<1>5. T # {}
  <2>1. x < y \/ y < x
    BY <1>3, VertexFinite
  <2>2. w[x] = w[y]
    BY <1>3
  <2> HIDE DEF w, T
  <2> QED BY <1>4, <2>1, <2>2
<1>6. PICK n \in T : \A k \in T : n <= k
  <2>1. T \in SUBSET Nat
    BY VertexFinite
  <2> HIDE DEF T
  <2> QED BY <1>5, <2>1, LeastNumber
<1>7. n \in 1 .. Size /\ w[n] = v /\ \A k \in 1 .. n - 1 : w[k] # v
  <2>1. n \in 1 .. Size /\ w[n] = v
    OBVIOUS
  <2>2. ASSUME NEW k \in 1 .. n - 1, w[k] = v PROVE FALSE
    <3>1. k \in T /\ k < n /\ n \in Nat /\ k \in Nat
      BY <2>1, <2>2, VertexFinite
    <3> QED BY <1>6, <3>1
  <2> HIDE DEF w, T
  <2> QED BY <2>1, <2>2
<1> HIDE DEF w, T
<1> QED BY <1>7 DEF CycleLength, w

\* What a cycle is: its vertices are different, each leads to the next and the last to
\* the first.
Round(f, c) ==
  /\ c \in Seq(Vertex) /\ Len(c) \in 1 .. Size
  /\ \A k, l \in DOMAIN c : c[k] = c[l] => k = l
  /\ \A k \in 1 .. Len(c) - 1 : f[c[k]] = c[k + 1]
  /\ f[c[Len(c)]] = c[1]

LEMMA CycleRound ==
  ASSUME NEW f \in Assignments, NEW v \in Vertex
  PROVE  /\ Round(f, Cycle(f, v))
         /\ Cycle(f, v)[1] = v /\ Len(Cycle(f, v)) = CycleLength(f, v)
         /\ DOMAIN Cycle(f, v) = 1 .. CycleLength(f, v)
<1> DEFINE w == Walk(f, v)
           n == CycleLength(f, v)
           c == Cycle(f, v)
<1>1. w \in [Nat -> Vertex] /\ w[0] = v /\ \A k \in Nat : w[k + 1] = f[w[k]]
  <2>1. f \in [Vertex -> Vertex]
    BY DEF Assignments
  <2> HIDE DEF n, c
  <2> QED BY <2>1, WalkStep
<1>2. n \in 1 .. Size /\ n \in Nat /\ n > 0 /\ w[n] = v /\ \A k \in 1 .. n - 1 : w[k] # v
  BY CycleLengthType, VertexFinite
<1>3. c = [k \in 1 .. n |-> w[k - 1]]
  BY DEF Cycle
<1>4. ASSUME NEW a \in 0 .. n - 1, NEW b \in 0 .. n - 1, a < b PROVE w[a] # w[b]
  <2> SUFFICES ASSUME w[a] = w[b] PROVE FALSE
    OBVIOUS
  <2> HIDE DEF n
  <2>1. b - a \in 1 .. n - 1 /\ b - a \in Nat /\ a \in Nat /\ a + (b - a) = b
    BY <1>2, <1>4
  <2>2. w[b - a] = v
    BY <2>1, WalkBack
  <2> QED BY <1>2, <2>1, <2>2
<1> HIDE DEF w, n, c
<1>5. c \in Seq(Vertex) /\ Len(c) = n /\ DOMAIN c = 1 .. n
  BY <1>1, <1>2, <1>3
<1>6. \A k, l \in 1 .. n : c[k] = c[l] => k = l
  <2> SUFFICES ASSUME NEW k \in 1 .. n, NEW l \in 1 .. n, c[k] = c[l], k # l PROVE FALSE
    OBVIOUS
  <2>1. w[k - 1] = w[l - 1] /\ k - 1 \in 0 .. n - 1 /\ l - 1 \in 0 .. n - 1
    BY <1>2, <1>3
  <2>2. k - 1 < l - 1 \/ l - 1 < k - 1
    BY <1>2
  <2> QED BY <1>4, <2>1, <2>2
<1>7. \A k \in 1 .. n - 1 : f[c[k]] = c[k + 1]
  <2> TAKE k \in 1 .. n - 1
  <2>1. c[k] = w[k - 1] /\ c[k + 1] = w[k] /\ k - 1 \in Nat /\ (k - 1) + 1 = k
    BY <1>2, <1>3
  <2> QED BY <1>1, <2>1
<1>8. f[c[n]] = c[1] /\ c[1] = v
  <2>1. c[n] = w[n - 1] /\ c[1] = w[0] /\ n - 1 \in Nat /\ (n - 1) + 1 = n
    BY <1>2, <1>3
  <2> QED BY <1>1, <1>2, <2>1
<1> QED BY <1>2, <1>5, <1>6, <1>7, <1>8 DEF Round, c, n

LEMMA RoundType ==
  ASSUME NEW f \in Assignments, NEW c, Round(f, c)
  PROVE  /\ Len(c) \in Nat /\ Len(c) > 0 /\ DOMAIN c = 1 .. Len(c)
         /\ \A k \in 1 .. Len(c) : c[k] \in Vertex
         /\ ToSet(c) \subseteq Vertex /\ ToSet(c) # {}
         /\ \A w \in ToSet(c) : f[w] \in ToSet(c)
<1>1. Len(c) \in 1 .. Size /\ c \in Seq(Vertex)
  BY DEF Round
<1>2. Len(c) \in Nat /\ Len(c) > 0 /\ DOMAIN c = 1 .. Len(c)
  BY <1>1, VertexFinite
<1>3. \A k \in 1 .. Len(c) : c[k] \in Vertex
  BY <1>1, <1>2
<1>4. \A k \in 1 .. Len(c) : c[k] \in ToSet(c)
  BY <1>2 DEF ToSet
<1>5. ASSUME NEW w \in ToSet(c) PROVE f[w] \in ToSet(c)
  <2>1. PICK k \in 1 .. Len(c) : w = c[k]
    BY <1>2 DEF ToSet
  <2>2. CASE k = Len(c)
    BY <1>2, <1>4, <2>1, <2>2 DEF Round
  <2>3. CASE k # Len(c)
    <3>1. k \in 1 .. Len(c) - 1 /\ k + 1 \in 1 .. Len(c)
      <4> DEFINE n == Len(c)
      <4>1. n \in Nat /\ k \in 1 .. n /\ k # n
        BY <1>2, <2>3
      <4> HIDE DEF n
      <4>2. k \in 1 .. n - 1 /\ k + 1 \in 1 .. n
        BY <4>1
      <4> QED BY <4>2 DEF n
    <3> QED BY <1>4, <2>1, <3>1 DEF Round
  <2> QED BY <2>2, <2>3
<1>6. ToSet(c) \subseteq Vertex /\ ToSet(c) # {}
  <2>1. 1 \in 1 .. Len(c)
    BY <1>2
  <2> QED BY <1>2, <1>3, <1>4, <2>1 DEF ToSet
<1> QED BY <1>2, <1>3, <1>5, <1>6

\* A set that f does not leave has the rest of a cycle from any vertex on.
LEMMA RoundOn ==
  ASSUME NEW f \in Assignments, NEW c, Round(f, c), NEW S, \A w \in S : f[w] \in S,
         NEW k \in 1 .. Len(c), c[k] \in S
  PROVE  \A l \in k .. Len(c) : c[l] \in S
<1> DEFINE n == Len(c)
           T == {d \in Nat : k + d <= n => c[k + d] \in S}
<1>1. n \in Nat /\ k \in Nat /\ k >= 1
  BY RoundType
<1>2. \A l \in 1 .. n - 1 : f[c[l]] = c[l + 1]
  BY DEF Round
<1> HIDE DEF n
<1>3. 0 \in T
  BY <1>1
<1>4. ASSUME NEW d \in Nat, d \in T PROVE d + 1 \in T
  <2> SUFFICES ASSUME k + (d + 1) <= n PROVE c[k + (d + 1)] \in S
    OBVIOUS
  <2>1. k + d \in 1 .. n - 1 /\ (k + d) + 1 = k + (d + 1) /\ k + d <= n
    BY <1>1
  <2>2. c[k + d] \in S
    BY <1>4, <2>1
  <2>3. f[c[k + d]] = c[(k + d) + 1]
    BY <1>2, <2>1
  <2> QED BY <2>1, <2>2, <2>3
<1>5. Nat \subseteq T
  <2> HIDE DEF T
  <2> QED BY <1>3, <1>4, InductionOnNat
<1>6. ASSUME NEW l \in k .. n PROVE c[l] \in S
  <2>1. l - k \in Nat /\ k + (l - k) = l /\ l <= n
    BY <1>1
  <2>2. l - k \in T
    BY <1>5, <2>1
  <2> QED BY <2>1, <2>2
<1> QED BY <1>6 DEF n

LEMMA RoundReach ==
  ASSUME NEW f \in Assignments, NEW c, Round(f, c), NEW S, \A w \in S : f[w] \in S,
         NEW k \in 1 .. Len(c), c[k] \in S
  PROVE  ToSet(c) \subseteq S
<1>1. Len(c) \in Nat /\ Len(c) > 0 /\ DOMAIN c = 1 .. Len(c) /\ f[c[Len(c)]] = c[1]
  BY RoundType DEF Round
<1>2. c[Len(c)] \in S
  <2>1. Len(c) \in k .. Len(c)
    BY <1>1
  <2> QED BY <2>1, RoundOn
<1>3. c[1] \in S /\ 1 \in 1 .. Len(c)
  BY <1>1, <1>2
<1>4. \A l \in 1 .. Len(c) : c[l] \in S
  BY <1>3, RoundOn
<1> QED BY <1>1, <1>4 DEF ToSet

\* The cycles of a tour have all vertices, and no others have.
LEMMA TourRound ==
  ASSUME NEW f \in Assignments, NEW c, Round(f, c)
  PROVE  f \in Tours <=> ToSet(c) = Vertex
<1>1. ASSUME f \in Tours, ToSet(c) # Vertex PROVE FALSE
  <2>1. ToSet(c) \in (SUBSET Vertex) \ {{}, Vertex}
    BY <1>1, RoundType
  <2>2. PICK v \in ToSet(c) : f[v] \notin ToSet(c)
    BY <1>1, <2>1 DEF Tours
  <2> QED BY <2>2, RoundType
<1>2. ASSUME ToSet(c) = Vertex,
             NEW S \in (SUBSET Vertex) \ {{}, Vertex}, \A v \in S : f[v] \in S
      PROVE  FALSE
  <2>1. PICK w \in S : TRUE
    BY <1>2
  <2>2. PICK k \in 1 .. Len(c) : c[k] = w
    <3>1. w \in ToSet(c)
      BY <1>2, <2>1
    <3> QED BY <3>1, RoundType DEF ToSet
  <2>3. ToSet(c) \subseteq S
    BY <1>2, <2>1, <2>2, RoundReach
  <2> QED BY <1>2, <2>3
<1> QED BY <1>1, <1>2 DEF Tours

LEMMA RoundLength ==
  ASSUME NEW f \in Assignments, NEW c, Round(f, c)
  PROVE  ToSet(c) = Vertex <=> Len(c) = Size
<1>1. Len(c) \in Nat /\ DOMAIN c = 1 .. Len(c) /\ \A k \in 1 .. Len(c) : c[k] \in Vertex
  BY RoundType
<1>2. IsFiniteSet(1 .. Len(c)) /\ Cardinality(1 .. Len(c)) = Len(c)
  BY <1>1, FS_Interval
<1>3. c \in [1 .. Len(c) -> Vertex]
  <2>1. c \in Seq(Vertex)
    BY DEF Round
  <2> QED BY <2>1
<1>4. c \in Injection(1 .. Len(c), Vertex)
  BY <1>1, <1>3 DEF Round, Injection, IsInjective
<1>5. Len(c) = Size <=> c \in Surjection(1 .. Len(c), Vertex)
  BY <1>2, <1>4, VertexFinite, FS_Injection
<1>6. c \in Surjection(1 .. Len(c), Vertex) <=> \A v \in Vertex : \E k \in 1 .. Len(c) : c[k] = v
  BY <1>3 DEF Surjection
<1>7. (\A v \in Vertex : \E k \in 1 .. Len(c) : c[k] = v) <=> ToSet(c) = Vertex
  BY <1>1, RoundType DEF ToSet
<1> QED BY <1>5, <1>6, <1>7

\* has_solution says what it should.
LEMMA HasSolutionTour ==
  ASSUME NEW f \in Assignments
  PROVE  HasSolution(f) <=> f \in Tours
<1>1. Round(f, Cycle(f, 0)) /\ Len(Cycle(f, 0)) = CycleLength(f, 0)
  BY VertexFinite, CycleRound
<1> QED BY <1>1, TourRound, RoundLength DEF HasSolution

LEMMA MincardRound ==
  ASSUME NEW f \in Assignments, \E v \in Vertex : f[v] # v
  PROVE  Round(f, MincardSubtour[f])
<1> DEFINE starts == {v \in Vertex : f[v] # v}
           L == {CycleLength(f, v) : v \in starts}
           Best(v) == \A w \in starts :
               \/ CycleLength(f, v) < CycleLength(f, w)
               \/ CycleLength(f, v) = CycleLength(f, w) /\ v <= w
<1>1. \A v \in starts : CycleLength(f, v) \in Nat /\ v \in Nat
  BY CycleLengthType, VertexFinite DEF Vertex
<1>2. PICK n \in L : \A k \in L : n <= k
  <2>1. L \in SUBSET Nat /\ L # {}
    BY <1>1
  <2> HIDE DEF L
  <2> QED BY <2>1, LeastNumber
<1> DEFINE B == {v \in starts : CycleLength(f, v) = n}
<1>3. PICK v \in B : \A w \in B : v <= w
  <2>1. B \in SUBSET Nat /\ B # {}
    BY <1>1, <1>2
  <2> HIDE DEF B
  <2> QED BY <2>1, LeastNumber
<1>4. Best(v)
  <2> SUFFICES ASSUME NEW w \in starts
               PROVE  \/ CycleLength(f, v) < CycleLength(f, w)
                      \/ CycleLength(f, v) = CycleLength(f, w) /\ v <= w
    OBVIOUS
  <2>1. CycleLength(f, w) \in Nat /\ n <= CycleLength(f, w) /\ CycleLength(f, v) = n /\ n \in Nat
    BY <1>1, <1>2
  <2>2. CycleLength(f, w) = n => v <= w
    BY <1>3
  <2> QED BY <2>1, <2>2
<1>5. \E u \in starts : Best(u)
  BY <1>4
<1> DEFINE u == CHOOSE u \in starts : Best(u)
<1>6. u \in starts
  <2> HIDE DEF Best, starts
  <2> QED BY <1>5
<1>7. MincardSubtour[f] = Cycle(f, u)
  BY <1>6 DEF MincardSubtour
<1> HIDE DEF u
<1> QED BY <1>6, <1>7, CycleRound

----------------------------------------------------------------------------
(* Costs.                                                                  *)

\* The matrix and the rule are those of a problem.
Given == \E p \in Problems : matrix = p[1] /\ rule = p[2]

LEMMA MatrixType ==
  ASSUME Given
  PROVE  /\ MVal \in Nat /\ rule \in 2 .. 5 /\ matrix \in [Cells -> 0 .. MVal]
         /\ \A v, w \in Vertex : matrix[<<v, w>>] \in Nat /\ matrix[<<v, w>>] <= MVal
         /\ \A v \in Vertex : matrix[<<v, v>>] = MVal
         /\ \A v, w \in Vertex : v # w => Size * matrix[<<v, w>>] < MVal
<1>1. PICK p \in Problems : matrix = p[1] /\ rule = p[2]
  BY DEF Given
<1>2. MVal \in Nat /\ rule \in 2 .. 5 /\ matrix \in [Cells -> 0 .. MVal]
  BY <1>1, ProblemAssumption
<1>3. \A v \in Vertex : matrix[<<v, v>>] = MVal
  BY <1>1, ProblemAssumption
<1>4. ASSUME NEW v \in Vertex, NEW w \in Vertex
      PROVE  /\ matrix[<<v, w>>] \in Nat /\ matrix[<<v, w>>] <= MVal
             /\ v # w => Size * matrix[<<v, w>>] < MVal
  <2>1. <<v, w>> \in Cells
    BY DEF Cells
  <2>2. matrix[<<v, w>>] \in 0 .. MVal
    BY <1>2, <2>1
  <2> DEFINE e == <<v, w>>
  <2>3. e \in Cells /\ e[1] = v /\ e[2] = w
    BY <2>1
  <2>4. e[1] # e[2] => Size * matrix[e] < MVal
    <3> HIDE DEF e
    <3> QED BY <1>1, <2>3, ProblemAssumption
  <2> QED BY <1>2, <2>2, <2>3, <2>4
<1> QED BY <1>2, <1>3, <1>4

\* No summand is more than a sum of them.
LEMMA SumOfNaturals ==
  ASSUME NEW S, IsFiniteSet(S), NEW f, \A x \in S : f[x] \in Nat
  PROVE  SumFunctionOnSet(f, S) \in Nat /\ \A x \in S : f[x] <= SumFunctionOnSet(f, S)
<1> DEFINE zero == [x \in S |-> 0]
<1>1. ASSUME NEW T \in SUBSET S PROVE SumFunctionOnSet(f, T) \in Nat
  <2> DEFINE F == {U \in SUBSET S : SumFunctionOnSet(f, U) \in Nat}
  <2>1. ASSUME NEW U \in SUBSET S, \A x \in U : U \ {x} \in F PROVE U \in F
    <3>1. IsFiniteSet(U) /\ \A x \in U : f[x] \in Int /\ f[x] \in Nat
      BY FS_Subset
    <3>2. /\ SumFunctionOnSet(f, {}) = 0
          /\ \A x \in U : SumFunctionOnSet(f, U) = f[x] + SumFunctionOnSet(f, U \ {x})
      BY <3>1, SumStep
    <3>3. CASE U = {}
      BY <3>2, <3>3
    <3>4. CASE U # {}
      <4>1. PICK x \in U : TRUE
        BY <3>4
      <4>2. SumFunctionOnSet(f, U \ {x}) \in Nat
        BY <2>1, <4>1
      <4> QED BY <3>1, <3>2, <4>1, <4>2
    <3> QED BY <3>3, <3>4
  <2>2. T \in F
    <3> HIDE DEF F
    <3> QED BY <2>1, InductionOnSubsets
  <2> QED BY <2>2
<1>2. \A x \in S : SumFunctionOnSet(f, S) = f[x] + SumFunctionOnSet(f, S \ {x})
  BY SumStep
<1>3. ASSUME NEW x \in S PROVE f[x] <= SumFunctionOnSet(f, S)
  <2>1. SumFunctionOnSet(f, S \ {x}) \in Nat /\ f[x] \in Nat
    BY <1>1
  <2> QED BY <1>2, <2>1
<1> QED BY <1>1, <1>3

\* What is left of a bound for the mean.
LEMMA SumMean ==
  ASSUME NEW S, IsFiniteSet(S), NEW f, NEW a \in Nat, NEW b \in Nat,
         \A x \in S : f[x] \in Nat /\ a * f[x] <= b
  PROVE  a * SumFunctionOnSet(f, S) <= Cardinality(S) * b
<1> DEFINE F == {T \in SUBSET S : a * SumFunctionOnSet(f, T) <= Cardinality(T) * b}
<1>1. ASSUME NEW T \in SUBSET S, \A x \in T : T \ {x} \in F PROVE T \in F
  <2>1. /\ IsFiniteSet(T) /\ Cardinality(T) \in Nat
        /\ \A x \in T : f[x] \in Int /\ f[x] \in Nat /\ a * f[x] <= b
    BY FS_Subset, FS_CardinalityType
  <2>2. /\ SumFunctionOnSet(f, {}) = 0
        /\ \A x \in T : SumFunctionOnSet(f, T) = f[x] + SumFunctionOnSet(f, T \ {x})
    BY <2>1, SumStep
  <2>3. CASE T = {}
    <3>1. Cardinality(T) = 0
      BY <2>3, FS_EmptySet
    <3> QED BY <2>2, <2>3, <3>1
  <2>4. CASE T # {}
    <3>1. PICK x \in T : TRUE
      BY <2>4
    <3> DEFINE r == SumFunctionOnSet(f, T \ {x})
               n == Cardinality(T \ {x})
               y == f[x]
    <3>2. a * r <= n * b
      BY <1>1, <3>1
    <3>3. n = Cardinality(T) - 1 /\ n \in Nat
      BY <2>1, <3>1, FS_RemoveElement, FS_CardinalityType
    <3>4. r \in Nat
      <4>1. IsFiniteSet(T \ {x}) /\ \A z \in T \ {x} : f[z] \in Nat
        BY <2>1, FS_Subset
      <4> QED BY <4>1, SumOfNaturals
    <3>5. y \in Nat /\ a * y <= b
      BY <2>1, <3>1
    <3>6. SumFunctionOnSet(f, T) = y + r /\ Cardinality(T) = n + 1
      BY <2>1, <2>2, <3>1, <3>3
    <3> HIDE DEF r, n, y
    <3>7. a * (y + r) <= (n + 1) * b
      <4>1. a * (y + r) = a * y + a * r /\ (n + 1) * b = n * b + b
        BY <3>3, <3>4, <3>5
      <4>2. a * y \in Nat /\ a * r \in Nat /\ n * b \in Nat
        BY <3>3, <3>4, <3>5
      <4> QED BY <3>2, <3>5, <4>1, <4>2
    <3> QED BY <3>6, <3>7
  <2> QED BY <2>3, <2>4
<1>2. S \in F
  <2> HIDE DEF F
  <2> QED BY <1>1, InductionOnSubsets
<1> QED BY <1>2

\* The edge of f from v, and what it costs.
LEMMA CostType ==
  ASSUME Given, NEW f \in [Vertex -> Vertex], NEW exc
  PROVE  /\ Cost(f) \in Nat /\ Weight(matrix, f, exc) \in Nat
         /\ Cost(f) <= Weight(matrix, f, exc)
         /\ \A v \in Vertex : matrix[<<v, f[v]>>] <= Cost(f)
         /\ (\E v \in Vertex : <<v, f[v]>> \in exc) => Weight(matrix, f, exc) >= MVal
         /\ (\A v \in Vertex : <<v, f[v]>> \notin exc) => Weight(matrix, f, exc) = Cost(f)
<1> DEFINE c == [v \in Vertex |-> matrix[<<v, f[v]>>]]
           w == [v \in Vertex |-> IF <<v, f[v]>> \in exc THEN MVal ELSE matrix[<<v, f[v]>>]]
<1>1. /\ Cost(f) = SumFunctionOnSet(c, Vertex)
      /\ Weight(matrix, f, exc) = SumFunctionOnSet(w, Vertex)
  BY DEF Cost, Weight, SumFunction
<1>2. \A v \in Vertex : c[v] \in Nat /\ w[v] \in Nat /\ c[v] <= w[v]
  BY MatrixType
<1>3. \A v \in Vertex : <<v, f[v]>> \in exc => w[v] = MVal
  OBVIOUS
<1>4. (\A v \in Vertex : <<v, f[v]>> \notin exc) => w = c
  OBVIOUS
<1>5. \A v \in Vertex : c[v] = matrix[<<v, f[v]>>]
  OBVIOUS
<1> HIDE DEF c, w
<1>6. /\ SumFunctionOnSet(c, Vertex) \in Nat
      /\ \A v \in Vertex : c[v] <= SumFunctionOnSet(c, Vertex)
  BY <1>2, VertexFinite, SumOfNaturals
<1>7. /\ SumFunctionOnSet(w, Vertex) \in Nat
      /\ \A v \in Vertex : w[v] <= SumFunctionOnSet(w, Vertex)
  BY <1>2, VertexFinite, SumOfNaturals
<1>8. SumFunctionOnSet(c, Vertex) <= SumFunctionOnSet(w, Vertex)
  BY <1>2, VertexFinite, SumMonotone
<1>9. MVal \in Nat
  BY MatrixType
<1> QED BY <1>1, <1>3, <1>4, <1>5, <1>6, <1>7, <1>8, <1>9

LEMMA TourNoLoop ==
  ASSUME NEW f \in Tours, NEW v \in Vertex
  PROVE  f[v] # v
<1>1. {v} \in (SUBSET Vertex) \ {{}, Vertex}
  <2>1. 0 \in Vertex /\ 1 \in Vertex
    BY SizeAssumption DEF Vertex
  <2> QED BY <2>1
<1> QED BY <1>1 DEF Tours

\* A tour is cheaper than one excluded edge.
LEMMA TourCheap ==
  ASSUME Given, NEW f \in Tours
  PROVE  Cost(f) \in Nat /\ Cost(f) < MVal
<1>1. f \in [Vertex -> Vertex]
  BY DEF Tours, Assignments
<1> DEFINE c == [v \in Vertex |-> matrix[<<v, f[v]>>]]
<1>2. Cost(f) = SumFunctionOnSet(c, Vertex)
  BY DEF Cost, SumFunction
<1>3. MVal - 1 \in Nat
  <2>1. matrix[<<0, f[0]>>] \in Nat /\ Size * matrix[<<0, f[0]>>] < MVal
    BY <1>1, MatrixType, TourNoLoop, VertexFinite
  <2>2. Size * matrix[<<0, f[0]>>] \in Nat
    BY <2>1, VertexFinite
  <2> QED BY <2>1, <2>2, MatrixType
<1>4. ASSUME NEW v \in Vertex PROVE c[v] \in Nat /\ Size * c[v] <= MVal - 1
  <2>1. f[v] \in Vertex /\ f[v] # v
    BY <1>1, TourNoLoop
  <2>2. c[v] \in Nat /\ Size * c[v] < MVal
    BY <2>1, MatrixType
  <2>3. Size * c[v] \in Nat
    BY <2>2, VertexFinite
  <2> QED BY <2>2, <2>3, MatrixType
<1> HIDE DEF c
<1>5. Size * SumFunctionOnSet(c, Vertex) <= Size * (MVal - 1)
  BY <1>3, <1>4, VertexFinite, SumMean
<1>6. SumFunctionOnSet(c, Vertex) \in Nat
  BY <1>4, VertexFinite, SumOfNaturals
<1>7. \A a, b \in Nat : Size * a <= Size * b => a <= b
  BY VertexFinite
<1>8. SumFunctionOnSet(c, Vertex) <= MVal - 1
  BY <1>3, <1>5, <1>6, <1>7
<1>9. MVal \in Nat
  BY MatrixType
<1> QED BY <1>2, <1>6, <1>8, <1>9

----------------------------------------------------------------------------
(* Relaxations.                                                            *)

LEMMA RelaxationLeast ==
  ASSUME Given, NEW inc, NEW exc, NEW f \in Relaxations(matrix, inc, exc)
  PROVE  /\ f \in Assignments /\ \A e \in inc : f[e[1]] = e[2]
         /\ \A g \in Assignments : (\A e \in inc : g[e[1]] = e[2])
              => Weight(matrix, f, exc) <= Weight(matrix, g, exc)
<1> DEFINE feasible == {g \in Assignments : \A e \in inc : g[e[1]] = e[2]}
           W == {Weight(matrix, g, exc) : g \in feasible}
<1>1. f \in feasible /\ Weight(matrix, f, exc) = Min(W)
  BY DEF Relaxations
<1>2. \E x \in W : \A y \in W : x <= y
  <2>1. \A g \in feasible : Weight(matrix, g, exc) \in Nat
    BY CostType DEF Assignments
  <2>2. W \in SUBSET Nat /\ W # {}
    BY <1>1, <2>1
  <2> HIDE DEF W
  <2> QED BY <2>2, LeastNumber
<1>3. \A y \in W : Min(W) <= y
  <2> HIDE DEF W
  <2> QED BY <1>2 DEF Min
<1> QED BY <1>1, <1>3

\* A node as branch makes it.
NodeOK(node) ==
  /\ node.primal \in Relaxations(matrix, node.included, node.excluded)
  /\ node.included \in SUBSET Cells
  /\ rule # 3 => node.included = {}

\* If a tour obeys a node, then its relaxation has no excluded edge and none from a
\* vertex to itself, since a tour would be cheaper, and is no dearer than the tour.
LEMMA RelaxationProper ==
  ASSUME Given, NEW inc, NEW exc, NEW f \in Relaxations(matrix, inc, exc), NEW g \in Tours,
         \A e \in inc : g[e[1]] = e[2], \A e \in exc : g[e[1]] # e[2]
  PROVE  /\ \A v \in Vertex : <<v, f[v]>> \notin exc /\ f[v] # v
         /\ Cost(f) <= Cost(g)
<1>1. g \in Assignments /\ f \in Assignments /\ f \in [Vertex -> Vertex] /\ g \in [Vertex -> Vertex]
  BY RelaxationLeast DEF Tours, Assignments
<1>2. Weight(matrix, f, exc) <= Weight(matrix, g, exc)
  BY <1>1, RelaxationLeast
<1>3. Weight(matrix, g, exc) = Cost(g)
  <2>1. \A v \in Vertex : <<v, g[v]>> \notin exc
    <3> SUFFICES ASSUME NEW v \in Vertex, <<v, g[v]>> \in exc PROVE FALSE
      OBVIOUS
    <3> DEFINE e == <<v, g[v]>>
    <3>1. e \in exc /\ e[1] = v /\ e[2] = g[v]
      OBVIOUS
    <3> HIDE DEF e
    <3> QED BY <3>1
  <2> QED BY <1>1, <2>1, CostType
<1>4. Cost(g) \in Nat /\ Cost(g) < MVal
  BY TourCheap
<1>5. Cost(f) \in Nat /\ Weight(matrix, f, exc) \in Nat /\ Cost(f) <= Weight(matrix, f, exc)
  BY <1>1, CostType
<1>6. MVal \in Nat
  BY MatrixType
<1>7. Weight(matrix, f, exc) < MVal /\ Cost(f) < MVal /\ Cost(f) <= Cost(g)
  BY <1>2, <1>3, <1>4, <1>5, <1>6
<1>8. ASSUME NEW v \in Vertex PROVE <<v, f[v]>> \notin exc
  <2>1. <<v, f[v]>> \in exc => Weight(matrix, f, exc) >= MVal
    BY <1>1, CostType
  <2> QED BY <1>5, <1>6, <1>7, <2>1
<1>9. ASSUME NEW v \in Vertex PROVE f[v] # v
  <2>1. matrix[<<v, f[v]>>] <= Cost(f) /\ matrix[<<v, v>>] = MVal
    BY <1>1, CostType, MatrixType
  <2> QED BY <1>5, <1>6, <1>7, <2>1
<1> QED BY <1>7, <1>8, <1>9

----------------------------------------------------------------------------
(* Every rule covers the tours that obey the node.                         *)

Child(node, k) ==
  [included |-> node.included \cup Branching(node)[k].inc,
   excluded |-> node.excluded \cup Branching(node)[k].exc]

\* The only assignment with the included edges is g.
Forced(g, child) ==
  \A f \in Assignments : (\A e \in child.included : f[e[1]] = e[2]) => f = g

LEMMA ObeysChild ==
  ASSUME NEW node, NEW g, Obeys(g, node), NEW k,
         \A e \in Branching(node)[k].inc : g[e[1]] = e[2],
         \A e \in Branching(node)[k].exc : g[e[1]] # e[2]
  PROVE  Obeys(g, Child(node, k))
BY DEF Obeys, Child

\* The cycle that is broken, and a tour that obeys the node.
Broken(node, g) ==
  LET f == node.primal
      c == MincardSubtour[f]
  IN /\ f \in Assignments /\ Round(f, c)
     /\ \A v \in Vertex : f[v] # v /\ <<v, f[v]>> \notin node.excluded
     /\ \A v \in Vertex : g[v] # f[v] => <<v, f[v]>> \notin node.included

LEMMA BrokenHolds ==
  ASSUME Given, NEW node, NodeOK(node), NEW g \in Tours, Obeys(g, node)
  PROVE  Broken(node, g)
<1> DEFINE f == node.primal
<1>1. f \in Relaxations(matrix, node.included, node.excluded)
  BY DEF NodeOK
<1>2. /\ \A e \in node.included : g[e[1]] = e[2]
      /\ \A e \in node.excluded : g[e[1]] # e[2]
  BY DEF Obeys
<1> HIDE DEF f
<1>3. f \in Assignments
  BY <1>1, RelaxationLeast
<1>4. \A v \in Vertex : f[v] # v /\ <<v, f[v]>> \notin node.excluded
  BY <1>1, <1>2, RelaxationProper
<1>5. Round(f, MincardSubtour[f])
  BY <1>3, <1>4, MincardRound, VertexFinite
<1>6. ASSUME NEW v \in Vertex, g[v] # f[v] PROVE <<v, f[v]>> \notin node.included
  <2> DEFINE e == <<v, f[v]>>
  <2>1. e[1] = v /\ e[2] = f[v]
    OBVIOUS
  <2> HIDE DEF e
  <2>2. e \notin node.included
    BY <1>2, <1>6, <2>1
  <2> QED BY <2>2 DEF e
<1> QED BY <1>3, <1>4, <1>5, <1>6 DEF Broken, f

\* An edge of the cycle that the tour does not follow is not decided.
LEMMA NotFollowed ==
  ASSUME NEW node, NEW g, Broken(node, g),
         NEW k \in 1 .. Len(MincardSubtour[node.primal]),
         g[MincardSubtour[node.primal][k]] # node.primal[MincardSubtour[node.primal][k]]
  PROVE  k \in SubtourEdges(node)
<1> DEFINE f == node.primal
           c == MincardSubtour[f]
<1>1. f \in Assignments /\ Round(f, c)
  BY DEF Broken
<1>2. k \in DOMAIN c /\ c[k] \in Vertex
  BY <1>1, RoundType
<1>3. <<c[k], f[c[k]]>> \notin node.excluded /\ <<c[k], f[c[k]]>> \notin node.included
  BY <1>2 DEF Broken
<1> QED BY <1>2, <1>3 DEF SubtourEdges, Edge, Decided

\* If the cycle does not have all vertices the tour leaves it.
LEMMA TourLeaves ==
  ASSUME NEW node, NEW g \in Tours, Broken(node, g), ~HasSolution(node.primal)
  PROVE  \E k \in 1 .. Len(MincardSubtour[node.primal]) :
           g[MincardSubtour[node.primal][k]] \notin ToSet(MincardSubtour[node.primal])
<1> DEFINE f == node.primal
           c == MincardSubtour[f]
<1>1. f \in Assignments /\ Round(f, c) /\ ~HasSolution(f)
  BY DEF Broken
<1> HIDE DEF f, c
<1>2. ToSet(c) # Vertex
  BY <1>1, HasSolutionTour, TourRound
<1>3. ToSet(c) \in (SUBSET Vertex) \ {{}, Vertex}
  BY <1>1, <1>2, RoundType
<1>4. PICK v \in ToSet(c) : g[v] \notin ToSet(c)
  BY <1>3 DEF Tours
<1>5. PICK k \in 1 .. Len(c) : v = c[k]
  <2>1. DOMAIN c = 1 .. Len(c)
    BY <1>1, RoundType
  <2> QED BY <1>4, <2>1 DEF ToSet
<1> QED BY <1>4, <1>5 DEF c, f

LEMMA Rule2Covers ==
  ASSUME Given, rule = 2, NEW node, NodeOK(node), ~HasSolution(node.primal),
         NEW g \in Tours, Obeys(g, node)
  PROVE  \E k \in DOMAIN Branching(node) : Obeys(g, Child(node, k))
<1> DEFINE f == node.primal
           c == MincardSubtour[f]
<1>1. Broken(node, g)
  BY BrokenHolds
<1>2. PICK k \in 1 .. Len(c) : g[c[k]] \notin ToSet(c)
  BY <1>1, TourLeaves
<1>3. f \in Assignments /\ Round(f, c)
  BY <1>1 DEF Broken
<1>4. c[k] \in ToSet(c) /\ f[c[k]] \in ToSet(c)
  BY <1>3, RoundType DEF ToSet
<1>5. g[c[k]] # f[c[k]]
  BY <1>2, <1>4
<1>6. k \in SubtourEdges(node)
  BY <1>1, <1>5, NotFollowed
<1>7. Branching(node) = Rule2(node)
  BY DEF Branching
<1>8. k \in DOMAIN Branching(node) /\ Branching(node)[k] = [inc |-> {}, exc |-> {Edge(node, k)}]
  BY <1>6, <1>7 DEF Rule2
<1>9. \A e \in Branching(node)[k].exc : g[e[1]] # e[2]
  <2>1. Edge(node, k)[1] = c[k] /\ Edge(node, k)[2] = f[c[k]]
    BY DEF Edge
  <2> QED BY <1>5, <1>8, <2>1
<1>10. \A e \in Branching(node)[k].inc : g[e[1]] = e[2]
  BY <1>8
<1> QED BY <1>8, <1>9, <1>10, ObeysChild

\* The first edge of the cycle that the tour does not follow.
LEMMA Rule3Differs ==
  ASSUME Given, rule = 3, NEW node, NodeOK(node), NEW g \in Tours, Obeys(g, node),
         NEW v \in ToSet(MincardSubtour[node.primal]), g[v] # node.primal[v]
  PROVE  \E k \in DOMAIN Branching(node) : Obeys(g, Child(node, k))
<1> DEFINE f == node.primal
           c == MincardSubtour[f]
           T == {k \in 1 .. Len(c) : g[c[k]] # f[c[k]]}
<1>1. Broken(node, g)
  BY BrokenHolds
<1>2. f \in Assignments /\ Round(f, c)
  BY <1>1 DEF Broken
<1>3. Len(c) \in Nat /\ DOMAIN c = 1 .. Len(c)
  BY <1>2, RoundType
<1>4. T # {} /\ T \in SUBSET Nat
  BY <1>3 DEF ToSet
<1>5. PICK k \in T : \A l \in T : k <= l
  <2> HIDE DEF T
  <2> QED BY <1>4, LeastNumber
<1>6. k \in SubtourEdges(node) /\ g[c[k]] # f[c[k]]
  BY <1>1, NotFollowed
<1>7. \A l \in SubtourEdges(node) : l < k => g[c[l]] = f[c[l]]
  <2> SUFFICES ASSUME NEW l \in SubtourEdges(node), l < k, g[c[l]] # f[c[l]] PROVE FALSE
    OBVIOUS
  <2>1. l \in DOMAIN c
    BY DEF SubtourEdges
  <2>2. l \in T
    BY <1>3, <2>1
  <2>3. k <= l /\ k \in Nat /\ l \in Nat
    BY <1>4, <1>5, <2>2
  <2> QED BY <2>3
<1> DEFINE before == {Edge(node, l) : l \in {l \in SubtourEdges(node) : l < k}}
<1>8. k \in DOMAIN Branching(node) /\ Branching(node)[k] = [inc |-> before, exc |-> {Edge(node, k)}]
  BY <1>6 DEF Branching, Rule3
<1>9. \A l : Edge(node, l)[1] = c[l] /\ Edge(node, l)[2] = f[c[l]]
  BY DEF Edge
<1>10. \A e \in before : g[e[1]] = e[2]
  BY <1>7, <1>9
<1> HIDE DEF before
<1>11. \A e \in Branching(node)[k].exc : g[e[1]] # e[2]
  BY <1>6, <1>8, <1>9
<1>12. \A e \in Branching(node)[k].inc : g[e[1]] = e[2]
  BY <1>8, <1>10
<1> QED BY <1>8, <1>11, <1>12, ObeysChild

LEMMA Onto ==
  ASSUME NEW f \in Assignments, NEW w \in Vertex
  PROVE  \E v \in Vertex : f[v] = w
<1>1. f \in Injection(Vertex, Vertex)
  BY DEF Assignments, Injection, IsInjective
<1>2. f \in Surjection(Vertex, Vertex)
  BY <1>1, VertexFinite, FS_Injection
<1> QED BY <1>2 DEF Surjection

\* Assignments that agree on all vertices but one agree.
LEMMA AllButOne ==
  ASSUME NEW f \in Assignments, NEW h \in Assignments, NEW u \in Vertex,
         \A v \in Vertex \ {u} : h[v] = f[v]
  PROVE  h = f
<1>1. /\ f \in [Vertex -> Vertex] /\ \A v, w \in Vertex : f[v] = f[w] => v = w
      /\ h \in [Vertex -> Vertex] /\ \A v, w \in Vertex : h[v] = h[w] => v = w
  BY DEF Assignments
<1>2. PICK v \in Vertex : f[v] = h[u]
  BY <1>1, Onto
<1>3. v = u
  BY <1>1, <1>2
<1>4. \A w \in Vertex : h[w] = f[w]
  BY <1>2, <1>3
<1> QED BY <1>1, <1>4

\* Rule 3 at a root that is a tour: the last child includes all its edges but one.
LEMMA Rule3Forces ==
  ASSUME Given, rule = 3, NEW node, NodeOK(node), node.included = {}, node.excluded = {},
         HasSolution(node.primal), NEW g \in Tours, Obeys(g, node), g = node.primal
  PROVE  \E k \in DOMAIN Branching(node) : Forced(g, Child(node, k))
<1> DEFINE f == node.primal
           c == MincardSubtour[f]
           n == Len(c)
<1>1. f \in Assignments /\ Round(f, c)
  BY BrokenHolds DEF Broken
<1>2. n \in Nat /\ n > 0 /\ DOMAIN c = 1 .. n /\ \A k \in 1 .. n : c[k] \in Vertex
  BY <1>1, RoundType
<1>3. ToSet(c) = Vertex
  BY <1>1, TourRound
<1>4. SubtourEdges(node) = 1 .. n
  BY <1>2 DEF SubtourEdges, Decided
<1> DEFINE before == {Edge(node, l) : l \in {l \in SubtourEdges(node) : l < n}}
<1>5. n \in SubtourEdges(node)
  BY <1>2, <1>4
<1>6. n \in DOMAIN Branching(node) /\ Branching(node)[n].inc = before
  BY <1>5 DEF Branching, Rule3
<1>7. ASSUME NEW h \in Assignments, \A e \in Child(node, n).included : h[e[1]] = e[2]
      PROVE  h = f
  <2>1. \A e \in before : h[e[1]] = e[2]
    <3> HIDE DEF before
    <3> QED BY <1>6, <1>7 DEF Child
  <2>2. \A l : Edge(node, l)[1] = c[l] /\ Edge(node, l)[2] = f[c[l]]
    BY DEF Edge
  <2>3. ASSUME NEW v \in Vertex \ {c[n]} PROVE h[v] = f[v]
    <3>1. PICK l \in 1 .. n : v = c[l]
      BY <1>2, <1>3 DEF ToSet
    <3>2. l \in SubtourEdges(node) /\ l < n
      BY <1>2, <1>4, <3>1
    <3>3. Edge(node, l) \in before
      BY <3>2
    <3> HIDE DEF before
    <3> QED BY <2>1, <2>2, <3>1, <3>3
  <2>4. c[n] \in Vertex
    BY <1>2
  <2> HIDE DEF f, c, n, before
  <2> QED BY <1>1, <1>7, <2>3, <2>4, AllButOne
<1> QED BY <1>6, <1>7 DEF Forced

LEMMA Rule4Covers ==
  ASSUME Given, rule = 4, NEW node, NodeOK(node), ~HasSolution(node.primal),
         NEW g \in Tours, Obeys(g, node)
  PROVE  \E k \in DOMAIN Branching(node) : Obeys(g, Child(node, k))
<1> DEFINE c == MincardSubtour[node.primal]
<1>1. Broken(node, g)
  BY BrokenHolds
<1>2. PICK k \in 1 .. Len(c) : g[c[k]] \notin ToSet(c)
  BY <1>1, TourLeaves
<1>3. k \in DOMAIN c
  BY <1>1, RoundType DEF Broken
<1> DEFINE within == {<<c[k], w>> : w \in ToSet(c) \ {c[k]}} \ Decided(node)
<1>4. k \in DOMAIN Branching(node) /\ Branching(node)[k] = [inc |-> {}, exc |-> within]
  BY <1>3 DEF Branching, Rule4
<1>5. \A e \in within : g[e[1]] # e[2]
  BY <1>2
<1> HIDE DEF within
<1>6. /\ \A e \in Branching(node)[k].exc : g[e[1]] # e[2]
      /\ \A e \in Branching(node)[k].inc : g[e[1]] = e[2]
  BY <1>4, <1>5
<1> QED BY <1>4, <1>6, ObeysChild

\* What rule 5 excludes for the kth vertex of the cycle.
Excluded5(node, k) ==
  LET cycle == MincardSubtour[node.primal]
      inside == ToSet(cycle)
  IN (  {<<cycle[k], w>> : w \in inside \ {cycle[k]}}
        \cup {<<cycle[l], w>> : l \in 1 .. k - 1, w \in Vertex \ inside})
     \ Decided(node)

LEMMA Rule5Child ==
  ASSUME rule = 5, NEW node, NEW k \in DOMAIN MincardSubtour[node.primal],
         Excluded5(node, k) # {}
  PROVE  /\ k \in DOMAIN Branching(node)
         /\ Branching(node)[k] = [inc |-> {}, exc |-> Excluded5(node, k)]
BY DEF Branching, Rule5, Excluded5

LEMMA Rule5Covers ==
  ASSUME Given, rule = 5, NEW node, NodeOK(node), ~HasSolution(node.primal),
         NEW g \in Tours, Obeys(g, node)
  PROVE  \E k \in DOMAIN Branching(node) : Obeys(g, Child(node, k))
<1> DEFINE f == node.primal
           c == MincardSubtour[f]
           T == {k \in 1 .. Len(c) : g[c[k]] \notin ToSet(c)}
<1>1. Broken(node, g)
  BY BrokenHolds
<1>2. f \in Assignments /\ Round(f, c)
  BY <1>1 DEF Broken
<1>3. Len(c) \in Nat /\ DOMAIN c = 1 .. Len(c)
  BY <1>2, RoundType
<1>4. PICK k \in T : \A l \in T : k <= l
  <2>1. T # {} /\ T \in SUBSET Nat
    BY <1>1, <1>3, TourLeaves
  <2> HIDE DEF T
  <2> QED BY <2>1, LeastNumber
<1>5. k \in 1 .. Len(c) /\ k \in Nat /\ g[c[k]] \notin ToSet(c)
  BY <1>3
<1>6. \A l \in 1 .. k - 1 : g[c[l]] \in ToSet(c)
  <2> SUFFICES ASSUME NEW l \in 1 .. k - 1, g[c[l]] \notin ToSet(c) PROVE FALSE
    OBVIOUS
  <2>1. l \in T /\ l < k
    BY <1>3, <1>5
  <2>2. k <= l
    BY <1>4, <2>1
  <2> QED BY <1>5, <2>1, <2>2
<1>7. c[k] \in ToSet(c) /\ f[c[k]] \in ToSet(c) /\ c[k] \in Vertex
  BY <1>2, <1>3, <1>5, RoundType DEF ToSet
<1>8. g[c[k]] # f[c[k]] /\ f[c[k]] # c[k]
  BY <1>1, <1>5, <1>7 DEF Broken
<1>9. <<c[k], f[c[k]]>> \in Excluded5(node, k)
  <2>1. <<c[k], f[c[k]]>> \notin Decided(node)
    BY <1>1, <1>7, <1>8 DEF Broken, Decided
  <2>2. f[c[k]] \in ToSet(c) \ {c[k]}
    BY <1>7, <1>8
  <2> DEFINE e == <<c[k], f[c[k]]>>
  <2>3. e \in {<<c[k], w>> : w \in ToSet(c) \ {c[k]}}
    BY <2>2
  <2>4. e \notin Decided(node)
    BY <2>1
  <2>5. e \in Excluded5(node, k)
    <3> HIDE DEF e
    <3> QED BY <2>3, <2>4 DEF Excluded5
  <2> QED BY <2>5
<1>10. /\ k \in DOMAIN Branching(node)
       /\ Branching(node)[k] = [inc |-> {}, exc |-> Excluded5(node, k)]
  BY <1>3, <1>5, <1>9, Rule5Child
<1>11. ASSUME NEW e \in Excluded5(node, k) PROVE g[e[1]] # e[2]
  <2>1. CASE e \in {<<c[k], w>> : w \in ToSet(c) \ {c[k]}}
    BY <1>5, <2>1
  <2>2. CASE e \in {<<c[l], w>> : l \in 1 .. k - 1, w \in Vertex \ ToSet(c)}
    BY <1>6, <2>2
  <2> QED BY <2>1, <2>2 DEF Excluded5
<1>12. /\ \A e \in Branching(node)[k].exc : g[e[1]] # e[2]
       /\ \A e \in Branching(node)[k].inc : g[e[1]] = e[2]
  BY <1>10, <1>11
<1> QED BY <1>10, <1>12, ObeysChild

----------------------------------------------------------------------------
(* Routes and their lengths.                                               *)

Costs(m) == \A v, w \in Vertex : m[<<v, w>>] \in Int

Legs(m, r) == [k \in 1 .. Len(r) - 1 |-> m[<<r[k], r[k + 1]>>]]

LEMMA RouteLengthType ==
  ASSUME NEW m, Costs(m), NEW r \in Seq(Vertex), Len(r) > 0
  PROVE  /\ IsFiniteSet(1 .. Len(r) - 1)
         /\ RouteLength(m, r) = SumFunctionOnSet(Legs(m, r), 1 .. Len(r) - 1)
         /\ \A k \in 1 .. Len(r) - 1 : Legs(m, r)[k] = m[<<r[k], r[k + 1]>>]
         /\ \A k \in 1 .. Len(r) - 1 : Legs(m, r)[k] \in Int
         /\ RouteLength(m, r) \in Int
<1>1. Len(r) - 1 \in Nat /\ IsFiniteSet(1 .. Len(r) - 1)
  <2>1. Len(r) - 1 \in Nat
    OBVIOUS
  <2> QED BY <2>1, FS_Interval
<1>2. RouteLength(m, r) = SumFunctionOnSet(Legs(m, r), 1 .. Len(r) - 1)
  BY DEF RouteLength, SumFunction, Legs
<1>3. \A k \in 1 .. Len(r) - 1 : Legs(m, r)[k] = m[<<r[k], r[k + 1]>>]
  BY DEF Legs
<1>4. \A k \in 1 .. Len(r) - 1 : r[k] \in Vertex /\ r[k + 1] \in Vertex
  OBVIOUS
<1>5. \A k \in 1 .. Len(r) - 1 : Legs(m, r)[k] \in Int
  BY <1>3, <1>4 DEF Costs
<1>6. SumFunctionOnSet(Legs(m, r), 1 .. Len(r) - 1) \in Int
  BY <1>1, <1>5, SumStep
<1> QED BY <1>1, <1>2, <1>3, <1>5, <1>6

LEMMA RouteLengthAppend ==
  ASSUME NEW m, Costs(m), NEW r \in Seq(Vertex), Len(r) > 0, NEW w \in Vertex
  PROVE  RouteLength(m, Append(r, w)) = RouteLength(m, r) + m[<<r[Len(r)], w>>]
<1> DEFINE s == Append(r, w)
           l == Len(r)
<1>1. /\ l \in Nat /\ l > 0 /\ s \in Seq(Vertex) /\ Len(s) = l + 1
      /\ s[l + 1] = w /\ \A k \in 1 .. l : s[k] = r[k]
  OBVIOUS
<1> HIDE DEF s, l
<1>2. /\ IsFiniteSet(1 .. l)
      /\ RouteLength(m, s) = SumFunctionOnSet(Legs(m, s), 1 .. l)
      /\ \A k \in 1 .. l : Legs(m, s)[k] = m[<<s[k], s[k + 1]>>]
      /\ \A k \in 1 .. l : Legs(m, s)[k] \in Int
  <2>1. Len(s) - 1 = l /\ Len(s) > 0
    BY <1>1
  <2> QED BY <1>1, <2>1, RouteLengthType
<1>3. l \in 1 .. l /\ (1 .. l) \ {l} = 1 .. l - 1
  BY <1>1
<1>4. SumFunctionOnSet(Legs(m, s), 1 .. l)
        = Legs(m, s)[l] + SumFunctionOnSet(Legs(m, s), 1 .. l - 1)
  <2> DEFINE f == Legs(m, s)
  <2>1. \A k \in 1 .. l : f[k] \in Int
    BY <1>2
  <2> HIDE DEF f
  <2>2. \A k \in 1 .. l :
          SumFunctionOnSet(f, 1 .. l) = f[k] + SumFunctionOnSet(f, (1 .. l) \ {k})
    BY <1>2, <2>1, SumStep
  <2>3. SumFunctionOnSet(f, 1 .. l) = f[l] + SumFunctionOnSet(f, (1 .. l) \ {l})
    BY <1>3, <2>2
  <2> QED BY <1>3, <2>3 DEF f
<1>5. /\ IsFiniteSet(1 .. l - 1)
      /\ RouteLength(m, r) = SumFunctionOnSet(Legs(m, r), 1 .. l - 1)
      /\ \A k \in 1 .. l - 1 : Legs(m, r)[k] = m[<<r[k], r[k + 1]>>]
      /\ \A k \in 1 .. l - 1 : Legs(m, r)[k] \in Int
      /\ RouteLength(m, r) \in Int
  BY RouteLengthType DEF l
<1>6. \A k \in 1 .. l - 1 : Legs(m, r)[k] \in Int /\ Legs(m, s)[k] = Legs(m, r)[k]
  <2> TAKE k \in 1 .. l - 1
  <2>1. k \in 1 .. l /\ k + 1 \in 1 .. l
    BY <1>1
  <2> QED BY <1>1, <1>2, <1>5, <2>1
<1>7. SumFunctionOnSet(Legs(m, s), 1 .. l - 1) = SumFunctionOnSet(Legs(m, r), 1 .. l - 1)
  BY <1>5, <1>6, SumSame
<1>8. Legs(m, s)[l] = m[<<r[l], w>>] /\ Legs(m, s)[l] \in Int
  BY <1>1, <1>2, <1>3
<1>9. RouteLength(m, s) = RouteLength(m, r) + m[<<r[l], w>>]
  BY <1>2, <1>4, <1>5, <1>7, <1>8
<1> QED BY <1>9 DEF s, l

LEMMA RouteLengthOne ==
  ASSUME NEW m, Costs(m), NEW v \in Vertex
  PROVE  RouteLength(m, <<v>>) = 0
<1> DEFINE r == <<v>>
           f == Legs(m, r)
<1>1. r \in Seq(Vertex) /\ Len(r) = 1
  OBVIOUS
<1> HIDE DEF r, f
<1>2. IsFiniteSet({}) /\ \A k \in {} : f[k] \in Int
  BY FS_EmptySet
<1>3. RouteLength(m, r) = SumFunctionOnSet(f, 1 .. 1 - 1)
  BY <1>1, RouteLengthType DEF f
<1>4. 1 .. 1 - 1 = {}
  OBVIOUS
<1>5. SumFunctionOnSet(f, {}) = 0
  BY <1>2, SumStep
<1> QED BY <1>3, <1>4, <1>5 DEF r

\* Different vertices in a row, and their length: a walk on its way.
Paths(m) ==
  {sol \in [route : Seq(Vertex), value : Int] :
     /\ Len(sol.route) \in 1 .. Size
     /\ \A k, l \in 1 .. Len(sol.route) : sol.route[k] = sol.route[l] => k = l
     /\ sol.value = RouteLength(m, sol.route)}

\* A walk all of whose vertices are visited has that many.
LEMMA PathOnto ==
  ASSUME NEW m, NEW sol \in Paths(m)
  PROVE  Vertex \subseteq ToSet(sol.route) <=> Len(sol.route) = Size
<1> DEFINE r == sol.route
           l == Len(r)
<1>1. r \in Seq(Vertex) /\ l \in Nat /\ DOMAIN r = 1 .. l
  BY DEF Paths
<1>2. IsFiniteSet(1 .. l) /\ Cardinality(1 .. l) = l
  BY <1>1, FS_Interval
<1>3. r \in [1 .. l -> Vertex]
  BY <1>1
<1>4. r \in Injection(1 .. l, Vertex)
  BY <1>3 DEF Paths, Injection, IsInjective
<1>5. l = Size <=> r \in Surjection(1 .. l, Vertex)
  BY <1>2, <1>4, VertexFinite, FS_Injection
<1>6. r \in Surjection(1 .. l, Vertex) <=> \A v \in Vertex : \E k \in 1 .. l : r[k] = v
  BY <1>3 DEF Surjection
<1>7. ToSet(r) = {r[k] : k \in 1 .. l}
  BY <1>1 DEF ToSet
<1>8. (\A v \in Vertex : \E k \in 1 .. l : r[k] = v) <=> Vertex \subseteq ToSet(r)
  BY <1>7
<1> QED BY <1>5, <1>6, <1>8

LEMMA PathStart ==
  ASSUME NEW m, Costs(m), NEW v \in Vertex
  PROVE  [route |-> <<v>>, value |-> 0] \in Paths(m)
<1> DEFINE r == <<v>>
<1>1. r \in Seq(Vertex) /\ Len(r) = 1 /\ 1 \in 1 .. Size
  BY VertexFinite
<1>2. RouteLength(m, r) = 0
  BY RouteLengthOne
<1> HIDE DEF r
<1>3. \A k, l \in 1 .. Len(r) : r[k] = r[l] => k = l
  BY <1>1
<1>4. [route |-> r, value |-> 0] \in Paths(m)
  <2> DEFINE sol == [route |-> r, value |-> 0]
  <2>1. sol \in [route : Seq(Vertex), value : Int] /\ sol.route = r /\ sol.value = 0
    BY <1>1
  <2> HIDE DEF sol
  <2>2. sol \in Paths(m)
    BY <1>1, <1>2, <1>3, <2>1 DEF Paths
  <2> QED BY <2>2 DEF sol
<1> QED BY <1>4 DEF r

\* On to a vertex that is left.
LEMMA PathAppend ==
  ASSUME NEW m, Costs(m), NEW sol \in Paths(m), NEW w \in Vertex \ ToSet(sol.route)
  PROVE  /\ [route |-> Append(sol.route, w),
             value |-> sol.value + m[<<Last(sol.route), w>>]] \in Paths(m)
         /\ Len(Append(sol.route, w)) = Len(sol.route) + 1
<1> DEFINE r == sol.route
           l == Len(r)
           s == Append(r, w)
           y == sol.value + m[<<Last(r), w>>]
<1>1. /\ r \in Seq(Vertex) /\ l \in Nat /\ l \in 1 .. Size /\ l > 0
      /\ sol.value = RouteLength(m, r) /\ sol.value \in Int
      /\ \A a, b \in 1 .. l : r[a] = r[b] => a = b
  BY VertexFinite DEF Paths
<1>2. s \in Seq(Vertex) /\ Len(s) = l + 1 /\ s[l + 1] = w /\ \A a \in 1 .. l : s[a] = r[a]
  BY <1>1
<1>3. l + 1 \in 1 .. Size
  <2>1. l # Size
    BY PathOnto
  <2> QED BY <1>1, <2>1, VertexFinite
<1>4. \A a \in 1 .. l : r[a] # w
  <2>1. DOMAIN r = 1 .. l
    BY <1>1
  <2> QED BY <2>1 DEF ToSet
<1>5. Last(r) = r[l] /\ r[l] \in Vertex
  BY <1>1 DEF Last
<1>6. y = RouteLength(m, s) /\ y \in Int
  <2>1. m[<<r[l], w>>] \in Int
    BY <1>5 DEF Costs
  <2> QED BY <1>1, <1>5, <2>1, RouteLengthAppend
<1> HIDE DEF r, l, s, y
<1>7. \A a, b \in 1 .. l + 1 : s[a] = s[b] => a = b
  BY <1>1, <1>2, <1>4
<1>8. [route |-> s, value |-> y] \in Paths(m)
  BY <1>2, <1>3, <1>6, <1>7 DEF Paths
<1> QED BY <1>2, <1>8 DEF s, y, r, l

----------------------------------------------------------------------------
(* The greedy route.                                                       *)

NoNegative(m) == \A v, w \in Vertex : m[<<v, w>>] \in Nat

\* Routes with their lengths.
Trips(m) ==
  {sol \in [route : Seq(Vertex), value : Int] :
     IsRoute(sol.route) /\ sol.value = RouteLength(m, sol.route)}

LEMMA NoNegativeCosts ==
  ASSUME NEW m, NoNegative(m)
  PROVE  Costs(m)
<1> SUFFICES ASSUME NEW v \in Vertex, NEW w \in Vertex PROVE m[<<v, w>>] \in Int
  BY DEF Costs
<1>1. m[<<v, w>>] \in Nat
  BY DEF NoNegative
<1> QED BY <1>1

LEMMA NearestType ==
  ASSUME NEW m, NoNegative(m), NEW v \in Vertex, NEW S \in SUBSET Vertex, S # {}
  PROVE  Nearest(m, v, S) \in S
<1> DEFINE L == {m[<<v, w>>] : w \in S}
<1>1. \A w \in S : m[<<v, w>>] \in Nat /\ w \in Nat
  BY VertexFinite DEF NoNegative, Vertex
<1>2. PICK y \in L : \A x \in L : y <= x
  <2>1. L \in SUBSET Nat /\ L # {}
    BY <1>1
  <2> HIDE DEF L
  <2> QED BY <2>1, LeastNumber
<1> DEFINE B == {w \in S : m[<<v, w>>] = y}
<1>3. PICK w \in B : \A x \in B : w <= x
  <2>1. B \in SUBSET Nat /\ B # {}
    BY <1>1, <1>2
  <2> HIDE DEF B
  <2> QED BY <2>1, LeastNumber
<1>4. w \in S /\ \A x \in S :
        m[<<v, w>>] < m[<<v, x>>] \/ (m[<<v, w>>] = m[<<v, x>>] /\ w <= x)
  <2> SUFFICES ASSUME NEW x \in S
               PROVE  m[<<v, w>>] < m[<<v, x>>] \/ (m[<<v, w>>] = m[<<v, x>>] /\ w <= x)
    BY <1>3
  <2>1. m[<<v, x>>] \in Nat /\ y <= m[<<v, x>>] /\ m[<<v, w>>] = y /\ y \in Nat
    BY <1>1, <1>2, <1>3
  <2>2. m[<<v, x>>] = y => w <= x
    BY <1>3
  <2> QED BY <2>1, <2>2
<1> QED BY <1>4 DEF Nearest

LEMMA RoundTripType ==
  ASSUME NEW m, Costs(m), NEW sol \in Paths(m), Len(sol.route) = Size
  PROVE  RoundTrip(m, sol) \in Trips(m)
<1> DEFINE r == sol.route
           s == Append(r, r[1])
           y == sol.value + m[<<Last(r), r[1]>>]
<1>1. /\ r \in Seq(Vertex) /\ Len(r) = Size /\ Size \in Nat /\ Size > 2
      /\ sol.value = RouteLength(m, r) /\ sol.value \in Int
      /\ \A a, b \in 1 .. Size : r[a] = r[b] => a = b
  BY VertexFinite DEF Paths
<1>2. r[1] \in Vertex /\ r[Size] \in Vertex /\ Last(r) = r[Size]
  BY <1>1 DEF Last
<1>3. /\ s \in Seq(Vertex) /\ Len(s) = Size + 1 /\ s[Size + 1] = r[1]
      /\ \A a \in 1 .. Size : s[a] = r[a]
  BY <1>1, <1>2
<1>4. y = RouteLength(m, s) /\ y \in Int
  <2>1. m[<<r[Size], r[1]>>] \in Int
    BY <1>2 DEF Costs
  <2> QED BY <1>1, <1>2, <2>1, RouteLengthAppend
<1>5. RoundTrip(m, sol) = [route |-> s, value |-> y]
  BY DEF RoundTrip
<1> HIDE DEF r, s, y
<1>6. IsRoute(s)
  <2>1. s[Size + 1] = s[1]
    BY <1>1, <1>3
  <2>2. \A k, l \in 1 .. Size : s[k] = s[l] => k = l
    BY <1>1, <1>3
  <2> QED BY <1>3, <2>1, <2>2 DEF IsRoute
<1> QED BY <1>3, <1>4, <1>5, <1>6 DEF Trips

LEMMA GreedyType ==
  ASSUME NEW m, NoNegative(m), NEW start \in Vertex
  PROVE  GreedySolution(m, start) \in Trips(m)
<1> DEFINE s0 == [route |-> <<start>>, value |-> 0]
           On(sol) ==
             LET v == Last(sol.route)
                 vertices == Vertex \ ToSet(sol.route)
                 w == Nearest(m, v, vertices)
             IN IF vertices = {} THEN sol
                ELSE [route |-> Append(sol.route, w), value |-> sol.value + m[<<v, w>>]]
           D(walk) == walk = [k \in Nat |-> IF k = 0 THEN s0 ELSE On(walk[k - 1])]
           on == [sol \in Paths(m) |-> On(sol)]
           step == [k \in Nat |-> on]
<1>1. Costs(m)
  BY NoNegativeCosts
<1>2. s0 \in Paths(m) /\ Len(s0.route) = 1
  BY <1>1, PathStart
<1>3. ASSUME NEW sol \in Paths(m)
      PROVE  /\ On(sol) \in Paths(m)
             /\ Len(sol.route) # Size => Len(On(sol).route) = Len(sol.route) + 1
  <2>1. CASE Vertex \ ToSet(sol.route) = {}
    <3>1. Len(sol.route) = Size
      BY <2>1, PathOnto
    <3> QED BY <2>1, <3>1
  <2>2. CASE Vertex \ ToSet(sol.route) # {}
    <3> DEFINE w == Nearest(m, Last(sol.route), Vertex \ ToSet(sol.route))
    <3>1. Last(sol.route) \in Vertex
      <4>1. sol.route \in Seq(Vertex) /\ Len(sol.route) \in 1 .. Size
        BY DEF Paths
      <4> QED BY <4>1, VertexFinite DEF Last
    <3>2. w \in Vertex \ ToSet(sol.route)
      BY <2>2, <3>1, NearestType
    <3>3. On(sol) = [route |-> Append(sol.route, w),
                     value |-> sol.value + m[<<Last(sol.route), w>>]]
      BY <2>2
    <3> HIDE DEF w, On
    <3> QED BY <1>1, <3>2, <3>3, PathAppend
  <2> QED BY <2>1, <2>2
<1> HIDE DEF On
<1>4. step \in [Nat -> [Paths(m) -> Paths(m)]]
  BY <1>3
<1>5. PICK g : Follows(g, Paths(m), s0, step)
  <2> HIDE DEF s0, step
  <2> QED BY <1>2, <1>4, Recursion
<1>6. g \in [Nat -> Paths(m)] /\ g[0] = s0 /\ \A k \in Nat : g[k + 1] = On(g[k])
  BY <1>5 DEF Follows
<1> DEFINE walk == CHOOSE walk : D(walk)
<1>7. D(g)
  <2> HIDE DEF s0
  <2> SUFFICES ASSUME NEW k \in Nat PROVE g[k] = IF k = 0 THEN s0 ELSE On(g[k - 1])
    BY <1>6
  <2>1. k # 0 => k - 1 \in Nat /\ (k - 1) + 1 = k
    OBVIOUS
  <2> QED BY <1>6, <2>1
<1>8. D(walk)
  <2> HIDE DEF D
  <2> QED BY <1>7
<1>9. walk[0] = s0 /\ \A k \in Nat : walk[k + 1] = On(walk[k])
  <2> HIDE DEF walk, s0
  <2>1. \A k \in Nat : walk[k] = IF k = 0 THEN s0 ELSE On(walk[k - 1])
    BY <1>8
  <2>2. ASSUME NEW k \in Nat PROVE walk[k + 1] = On(walk[k])
    <3>1. k + 1 \in Nat /\ k + 1 # 0 /\ (k + 1) - 1 = k
      OBVIOUS
    <3> QED BY <2>1, <3>1
  <2> QED BY <2>1, <2>2
<1> DEFINE T == {k \in Nat : /\ walk[k] \in Paths(m)
                             /\ k < Size => Len(walk[k].route) = k + 1}
<1>10. 0 \in T
  <2> HIDE DEF s0, walk
  <2> QED BY <1>2, <1>9
<1>11. ASSUME NEW k \in Nat, k \in T PROVE k + 1 \in T
  <2> HIDE DEF s0, walk
  <2>1. walk[k] \in Paths(m) /\ (k < Size => Len(walk[k].route) = k + 1)
    BY <1>11
  <2>2. walk[k + 1] = On(walk[k])
    BY <1>9
  <2>3. /\ On(walk[k]) \in Paths(m)
        /\ Len(walk[k].route) # Size => Len(On(walk[k]).route) = Len(walk[k].route) + 1
    BY <1>3, <2>1
  <2>4. k + 1 < Size => k < Size /\ k + 1 # Size
    BY VertexFinite
  <2> QED BY <2>1, <2>2, <2>3, <2>4
<1>12. Size - 1 \in T
  <2>1. Nat \subseteq T
    <3> HIDE DEF T
    <3> QED BY <1>10, <1>11, InductionOnNat
  <2> HIDE DEF T
  <2> QED BY <2>1, VertexFinite
<1>13. walk[Size - 1] \in Paths(m) /\ Len(walk[Size - 1].route) = Size
  <2> HIDE DEF walk
  <2> QED BY <1>12, VertexFinite
<1>14. GreedySolution(m, start) = RoundTrip(m, walk[Size - 1])
  BY DEF GreedySolution, On
<1> HIDE DEF walk
<1> QED BY <1>1, <1>13, <1>14, RoundTripType

----------------------------------------------------------------------------
(* The exchanges of two_opt.                                               *)

LEMMA SumThree ==
  ASSUME NEW S, IsFiniteSet(S), NEW f, \A u \in S : f[u] \in Int,
         NEW x \in S, NEW y \in S, NEW z \in S, x # y, y # z, x # z
  PROVE  /\ SumFunctionOnSet(f, S \ {x, y, z}) \in Int
         /\ SumFunctionOnSet(f, S) = f[x] + f[y] + f[z] + SumFunctionOnSet(f, S \ {x, y, z})
<1>1. SumFunctionOnSet(f, S) = f[x] + SumFunctionOnSet(f, S \ {x})
  BY SumStep
<1> DEFINE T == S \ {x}
           U == T \ {y}
           V == U \ {z}
<1>2. IsFiniteSet(T) /\ IsFiniteSet(U) /\ IsFiniteSet(V)
  BY FS_Subset
<1>3. /\ y \in T /\ z \in U
      /\ \A u \in T : f[u] \in Int
      /\ \A u \in U : f[u] \in Int
      /\ \A u \in V : f[u] \in Int
  OBVIOUS
<1>4. S \ {x, y, z} = V
  OBVIOUS
<1>5. f[x] \in Int /\ f[y] \in Int /\ f[z] \in Int
  OBVIOUS
<1> HIDE DEF T, U, V
<1>6. SumFunctionOnSet(f, T) = f[y] + SumFunctionOnSet(f, T \ {y})
  BY <1>2, <1>3, SumStep
<1>7. SumFunctionOnSet(f, U) = f[z] + SumFunctionOnSet(f, U \ {z})
  BY <1>2, <1>3, SumStep
<1>8. SumFunctionOnSet(f, V) \in Int
  BY <1>2, <1>3, SumStep
<1>9. S \ {x} = T /\ T \ {y} = U /\ U \ {z} = V
  BY DEF T, U, V
<1>10. /\ SumFunctionOnSet(f, S) = f[x] + SumFunctionOnSet(f, T)
       /\ SumFunctionOnSet(f, T) = f[y] + SumFunctionOnSet(f, U)
       /\ SumFunctionOnSet(f, U) = f[z] + SumFunctionOnSet(f, V)
  BY <1>1, <1>6, <1>7, <1>9
<1>11. SumFunctionOnSet(f, S) = f[x] + f[y] + f[z] + SumFunctionOnSet(f, V)
  BY <1>5, <1>8, <1>10
<1> QED BY <1>4, <1>8, <1>11

LEMMA SequenceOf ==
  ASSUME NEW S, NEW n \in Nat, NEW s \in [1 .. n -> S]
  PROVE  s \in Seq(S) /\ Len(s) = n
OBVIOUS

\* Two vertices change places: the route stays one, and gets shorter by Delta.
LEMMA SwappedRoute ==
  ASSUME NEW m, Costs(m), NEW r, IsRoute(r), NEW k \in Places,
         NEW s, s = [r EXCEPT ![k] = r[k + 1], ![k + 1] = r[k]]
  PROVE  /\ s \in Seq(Vertex) /\ IsRoute(s)
         /\ RouteLength(m, s) = RouteLength(m, r) - Delta(m, r, k)
         /\ RouteLength(m, r) \in Int /\ Delta(m, r, k) \in Int
<1>1. /\ r \in Seq(Vertex) /\ Len(r) = Size + 1 /\ DOMAIN r = 1 .. Size + 1
      /\ r[Size + 1] = r[1] /\ \A a, b \in 1 .. Size : r[a] = r[b] => a = b
      /\ \A a \in 1 .. Size + 1 : r[a] \in Vertex
  BY VertexFinite DEF IsRoute
<1>2. /\ k \in Int /\ Size \in Nat /\ k - 1 \in 1 .. Size /\ k \in 1 .. Size
      /\ k + 1 \in 1 .. Size /\ k + 2 \in 1 .. Size /\ k # 1 /\ k + 1 # Size + 1
      /\ k \in 1 .. Size + 1 /\ k + 1 \in 1 .. Size + 1 /\ (k + 1) + 1 = k + 2 /\ (k - 1) + 1 = k
  BY VertexFinite DEF Places
<1>3. /\ s[k] = r[k + 1] /\ s[k + 1] = r[k]
      /\ \A a \in 1 .. Size + 1 : a # k /\ a # k + 1 => s[a] = r[a]
  BY <1>1, <1>2
<1>4. s \in Seq(Vertex) /\ Len(s) = Size + 1
  <2>1. r[k] \in Vertex /\ r[k + 1] \in Vertex
    BY <1>1, <1>2
  <2>2. s \in [1 .. Size + 1 -> Vertex]
    <3>1. r \in [1 .. Size + 1 -> Vertex]
      BY <1>1
    <3> QED BY <1>2, <2>1, <3>1
  <2>3. Size + 1 \in Nat
    BY VertexFinite
  <2> QED BY <2>2, <2>3, SequenceOf
<1>5. s[Size + 1] = s[1]
  <2>1. /\ 1 \in 1 .. Size + 1 /\ Size + 1 \in 1 .. Size + 1
        /\ 1 # k /\ 1 # k + 1 /\ Size + 1 # k /\ Size + 1 # k + 1
    BY <1>2
  <2> QED BY <1>1, <1>3, <2>1
<1>6. ASSUME NEW a \in 1 .. Size, NEW b \in 1 .. Size, s[a] = s[b] PROVE a = b
  <2>1. a \in 1 .. Size + 1 /\ b \in 1 .. Size + 1
    BY <1>2
  <2>2. CASE a = k
    BY <1>1, <1>2, <1>3, <1>6, <2>1, <2>2
  <2>3. CASE a = k + 1
    BY <1>1, <1>2, <1>3, <1>6, <2>1, <2>3
  <2>4. CASE a # k /\ a # k + 1
    BY <1>1, <1>2, <1>3, <1>6, <2>1, <2>4
  <2> QED BY <2>2, <2>3, <2>4
<1>7. IsRoute(s)
  BY <1>4, <1>5, <1>6 DEF IsRoute
<1> DEFINE f == Legs(m, r)
           g == Legs(m, s)
           S == 1 .. Size
           R == S \ {k - 1, k, k + 1}
<1>8. /\ IsFiniteSet(S) /\ Len(r) - 1 = Size /\ Len(s) - 1 = Size
      /\ Len(r) > 0 /\ Len(s) > 0 /\ k - 1 # k /\ k # k + 1 /\ k - 1 # k + 1
  <2>1. IsFiniteSet(S)
    BY VertexFinite, FS_Interval
  <2>2. k - 1 # k /\ k # k + 1 /\ k - 1 # k + 1
    BY <1>2
  <2>3. Len(r) - 1 = Size /\ Len(s) - 1 = Size /\ Len(r) > 0 /\ Len(s) > 0
    BY <1>1, <1>2, <1>4
  <2> QED BY <2>1, <2>2, <2>3
<1>9. /\ RouteLength(m, r) = SumFunctionOnSet(f, S) /\ RouteLength(m, r) \in Int
      /\ \A a \in S : f[a] = m[<<r[a], r[a + 1]>>] /\ f[a] \in Int
  BY <1>1, <1>8, RouteLengthType
<1>10. /\ RouteLength(m, s) = SumFunctionOnSet(g, S)
       /\ \A a \in S : g[a] = m[<<s[a], s[a + 1]>>] /\ g[a] \in Int
  <2> HIDE DEF g, S
  <2>1. /\ RouteLength(m, s) = SumFunctionOnSet(Legs(m, s), 1 .. Len(s) - 1)
        /\ \A a \in 1 .. Len(s) - 1 : Legs(m, s)[a] = m[<<s[a], s[a + 1]>>]
        /\ \A a \in 1 .. Len(s) - 1 : Legs(m, s)[a] \in Int
    BY <1>4, <1>8, RouteLengthType
  <2>2. 1 .. Len(s) - 1 = S
    BY <1>8 DEF S
  <2> QED BY <2>1, <2>2 DEF g
<1> HIDE DEF f, g
<1>11. /\ SumFunctionOnSet(f, R) \in Int
       /\ SumFunctionOnSet(f, S) = f[k - 1] + f[k] + f[k + 1] + SumFunctionOnSet(f, R)
  <2> DEFINE i == k - 1
             j == k + 1
  <2>1. i \in S /\ k \in S /\ j \in S /\ i # k /\ k # j /\ i # j
    BY <1>2
  <2>2. IsFiniteSet(S) /\ \A a \in S : f[a] \in Int
    BY <1>8, <1>9
  <2>3. R = S \ {i, k, j}
    OBVIOUS
  <2> HIDE DEF S, R, i, j
  <2>4. /\ SumFunctionOnSet(f, S \ {i, k, j}) \in Int
        /\ SumFunctionOnSet(f, S) = f[i] + f[k] + f[j] + SumFunctionOnSet(f, S \ {i, k, j})
    BY <2>1, <2>2, SumThree
  <2> QED BY <2>3, <2>4 DEF i, j
<1>12. SumFunctionOnSet(g, S) = g[k - 1] + g[k] + g[k + 1] + SumFunctionOnSet(g, R)
  <2> DEFINE i == k - 1
             j == k + 1
  <2>1. i \in S /\ k \in S /\ j \in S /\ i # k /\ k # j /\ i # j
    BY <1>2
  <2>2. IsFiniteSet(S) /\ \A a \in S : g[a] \in Int
    BY <1>8, <1>10
  <2>3. R = S \ {i, k, j}
    OBVIOUS
  <2> HIDE DEF S, R, i, j
  <2>4. /\ SumFunctionOnSet(g, S \ {i, k, j}) \in Int
        /\ SumFunctionOnSet(g, S) = g[i] + g[k] + g[j] + SumFunctionOnSet(g, S \ {i, k, j})
    BY <2>1, <2>2, SumThree
  <2> QED BY <2>3, <2>4 DEF i, j
<1>13. SumFunctionOnSet(g, R) = SumFunctionOnSet(f, R)
  <2>1. ASSUME NEW a \in R PROVE f[a] \in Int /\ g[a] = f[a]
    <3>1. a \in S /\ a \in 1 .. Size + 1 /\ a + 1 \in 1 .. Size + 1
      BY <1>2
    <3>2. a # k - 1 /\ a # k /\ a # k + 1 /\ a + 1 # k /\ a + 1 # k + 1
      BY <1>2
    <3>3. s[a] = r[a] /\ s[a + 1] = r[a + 1]
      BY <1>3, <3>1, <3>2
    <3> QED BY <1>9, <1>10, <3>1, <3>3
  <2>2. IsFiniteSet(R)
    BY <1>8, FS_Subset
  <2> HIDE DEF R
  <2> QED BY <2>1, <2>2, SumSame
<1>14. /\ f[k - 1] = m[<<r[k - 1], r[k]>>] /\ f[k] = m[<<r[k], r[k + 1]>>]
       /\ f[k + 1] = m[<<r[k + 1], r[k + 2]>>]
  BY <1>2, <1>9
<1>15. /\ g[k - 1] = m[<<r[k - 1], r[k + 1]>>] /\ g[k] = m[<<r[k + 1], r[k]>>]
       /\ g[k + 1] = m[<<r[k], r[k + 2]>>]
  <2>1. s[k - 1] = r[k - 1] /\ s[k + 2] = r[k + 2]
    <3>1. /\ k - 1 \in 1 .. Size + 1 /\ k + 2 \in 1 .. Size + 1
          /\ k - 1 # k /\ k - 1 # k + 1 /\ k + 2 # k /\ k + 2 # k + 1
      BY <1>2
    <3> QED BY <1>3, <3>1
  <2>2. /\ g[k - 1] = m[<<s[k - 1], s[k]>>] /\ g[k] = m[<<s[k], s[k + 1]>>]
        /\ g[k + 1] = m[<<s[k + 1], s[k + 2]>>]
    BY <1>2, <1>10
  <2> QED BY <1>3, <2>1, <2>2
<1>16. /\ f[k - 1] \in Int /\ f[k] \in Int /\ f[k + 1] \in Int
       /\ g[k - 1] \in Int /\ g[k] \in Int /\ g[k + 1] \in Int
  BY <1>2, <1>9, <1>10
<1>17. Delta(m, r, k) = (f[k - 1] + f[k] + f[k + 1]) - (g[k - 1] + g[k] + g[k + 1])
  BY <1>14, <1>15 DEF Delta
<1> HIDE DEF R, S
<1>18. RouteLength(m, s) = RouteLength(m, r) - Delta(m, r, k)
  BY <1>9, <1>10, <1>11, <1>12, <1>13, <1>16, <1>17
<1>19. Delta(m, r, k) \in Int
  BY <1>16, <1>17
<1> QED BY <1>4, <1>7, <1>9, <1>18, <1>19

LEMMA ExchangedType ==
  ASSUME NEW m, Costs(m), NEW sol \in Trips(m), NEW k \in Places
  PROVE  /\ Exchanged(m, sol, k) \in Trips(m)
         /\ \/ Exchanged(m, sol, k).value < sol.value
            \/ Exchanged(m, sol, k) = sol /\ Delta(m, sol.route, k) <= 0
<1> DEFINE r == sol.route
           s == [r EXCEPT ![k] = r[k + 1], ![k + 1] = r[k]]
           d == Delta(m, r, k)
           e == [route |-> s, value |-> sol.value - d]
<1>1. IsRoute(r) /\ sol.value = RouteLength(m, r) /\ sol.value \in Int
  BY DEF Trips
<1>2. /\ s \in Seq(Vertex) /\ IsRoute(s) /\ RouteLength(m, s) = sol.value - d /\ d \in Int
  <2>1. s = [r EXCEPT ![k] = r[k + 1], ![k + 1] = r[k]]
    OBVIOUS
  <2> HIDE DEF r, s, d
  <2>2. /\ s \in Seq(Vertex) /\ IsRoute(s)
        /\ RouteLength(m, s) = RouteLength(m, r) - Delta(m, r, k) /\ Delta(m, r, k) \in Int
    BY <1>1, <2>1, SwappedRoute
  <2> QED BY <1>1, <2>2 DEF d
<1>3. CASE d > 0
  <2>1. Exchanged(m, sol, k) = e
    BY <1>3 DEF Exchanged
  <2>2. e.route = s /\ e.value = sol.value - d /\ e \in [route : Seq(Vertex), value : Int]
    BY <1>1, <1>2
  <2> HIDE DEF e, s, d, r
  <2>3. e \in Trips(m)
    BY <1>2, <2>2 DEF Trips
  <2>4. e.value < sol.value
    BY <1>1, <1>2, <1>3, <2>2
  <2> QED BY <2>1, <2>3, <2>4
<1>4. CASE ~(d > 0)
  BY <1>2, <1>4 DEF Exchanged
<1> QED BY <1>3, <1>4

\* A pass: either the route gets shorter, or it stays as it is and no exchange that is
\* tried shortens it.
LEMMA PassType ==
  ASSUME NEW m, Costs(m), NEW sol \in Trips(m)
  PROVE  /\ Pass(m, sol) \in Trips(m)
         /\ \/ Pass(m, sol).value < sol.value
            \/ /\ Pass(m, sol) = sol
               /\ \A p \in Places : Delta(m, sol.route, p) <= 0
<1> DEFINE At(s, k) == IF k \in Places THEN Exchanged(m, s, k) ELSE s
           D(tried) == tried = [k \in Nat |-> IF k = 0 THEN sol
                                              ELSE IF k \in Places
                                                   THEN Exchanged(m, tried[k - 1], k)
                                                   ELSE tried[k - 1]]
           step == [k \in Nat |-> [s \in Trips(m) |-> At(s, k + 1)]]
<1>1. ASSUME NEW s \in Trips(m), NEW k
      PROVE  /\ At(s, k) \in Trips(m)
             /\ \/ At(s, k).value < s.value
                \/ At(s, k) = s /\ (k \in Places => Delta(m, s.route, k) <= 0)
  <2>1. CASE k \in Places
    BY <2>1, ExchangedType
  <2>2. CASE k \notin Places
    BY <2>2
  <2> QED BY <2>1, <2>2
<1>2. step \in [Nat -> [Trips(m) -> Trips(m)]]
  <2> HIDE DEF At
  <2> QED BY <1>1
<1>3. PICK g : Follows(g, Trips(m), sol, step)
  <2> HIDE DEF step
  <2> QED BY <1>2, Recursion
<1>4. g \in [Nat -> Trips(m)] /\ g[0] = sol /\ \A k \in Nat : g[k + 1] = At(g[k], k + 1)
  <2> HIDE DEF At
  <2> QED BY <1>3 DEF Follows
<1>5. D(g)
  <2> SUFFICES ASSUME NEW k \in Nat PROVE g[k] = IF k = 0 THEN sol ELSE At(g[k - 1], k)
    BY <1>4
  <2>1. k # 0 => k - 1 \in Nat /\ (k - 1) + 1 = k
    OBVIOUS
  <2> HIDE DEF At
  <2> QED BY <1>4, <2>1
<1> DEFINE tried == CHOOSE tried : D(tried)
<1>6. D(tried)
  <2> HIDE DEF D
  <2> QED BY <1>5
<1>7. tried[0] = sol /\ \A k \in Nat : tried[k + 1] = At(tried[k], k + 1)
  <2>1. \A k \in Nat : tried[k] = IF k = 0 THEN sol ELSE At(tried[k - 1], k)
    <3> HIDE DEF tried
    <3> QED BY <1>6
  <2> HIDE DEF tried, At
  <2>2. ASSUME NEW k \in Nat PROVE tried[k + 1] = At(tried[k], k + 1)
    <3>1. k + 1 \in Nat /\ k + 1 # 0 /\ (k + 1) - 1 = k
      OBVIOUS
    <3> QED BY <2>1, <3>1
  <2> QED BY <2>1, <2>2
<1> HIDE DEF tried, At, D
<1> DEFINE Sound(s, k) ==
             /\ s \in Trips(m)
             /\ \/ s.value < sol.value
                \/ /\ s = sol
                   /\ \A p \in Places : p <= k => Delta(m, sol.route, p) <= 0
           T == {k \in Nat : Sound(tried[k], k)}
<1>8. 0 \in T
  <2>1. \A p \in Places : ~(p <= 0)
    BY VertexFinite DEF Places
  <2> QED BY <1>7, <2>1
<1>9. ASSUME NEW k \in Nat, k \in T PROVE k + 1 \in T
  <2> DEFINE s == tried[k]
             n == At(s, k + 1)
  <2>1. Sound(s, k) /\ tried[k + 1] = n
    BY <1>7, <1>9
  <2> HIDE DEF s, n
  <2>2. /\ n \in Trips(m)
        /\ n.value < s.value \/ (n = s /\ (k + 1 \in Places => Delta(m, s.route, k + 1) <= 0))
    BY <1>1, <2>1 DEF n
  <2>3. n.value \in Int /\ s.value \in Int /\ sol.value \in Int
    BY <2>1, <2>2 DEF Trips
  <2>4. CASE n.value < s.value
    <3>1. s.value <= sol.value
      BY <2>1, <2>3
    <3> QED BY <2>1, <2>2, <2>3, <2>4, <3>1
  <2>5. CASE n = s /\ s.value < sol.value
    BY <2>1, <2>2, <2>5
  <2>6. CASE n = s /\ s = sol /\ (k + 1 \in Places => Delta(m, s.route, k + 1) <= 0)
                   /\ \A p \in Places : p <= k => Delta(m, sol.route, p) <= 0
    <3>1. \A p \in Places : p <= k + 1 => p <= k \/ p = k + 1
      BY VertexFinite DEF Places
    <3> QED BY <2>1, <2>2, <2>6, <3>1
  <2> QED BY <2>1, <2>2, <2>4, <2>5, <2>6
<1>10. Nat \subseteq T
  <2> HIDE DEF T
  <2> QED BY <1>8, <1>9, InductionOnNat
<1>11. Sound(tried[Size], Size)
  BY <1>10, VertexFinite
<1>12. Pass(m, sol) = tried[Size]
  BY DEF Pass, tried, D
<1>13. \A p \in Places : p <= Size
  BY VertexFinite DEF Places
<1> QED BY <1>11, <1>12, <1>13

\* No route is shorter than nothing.
LEMMA TripValue ==
  ASSUME NEW m, NoNegative(m), NEW sol \in Trips(m)
  PROVE  sol.value \in Nat
<1> DEFINE r == sol.route
           f == Legs(m, r)
<1>1. IsRoute(r) /\ sol.value = RouteLength(m, r) /\ r \in Seq(Vertex)
  BY DEF Trips
<1>2. Len(r) = Size + 1 /\ Len(r) > 0
  BY <1>1, VertexFinite DEF IsRoute
<1>3. /\ IsFiniteSet(1 .. Len(r) - 1)
      /\ RouteLength(m, r) = SumFunctionOnSet(f, 1 .. Len(r) - 1)
      /\ \A k \in 1 .. Len(r) - 1 : f[k] = m[<<r[k], r[k + 1]>>]
  BY <1>1, <1>2, NoNegativeCosts, RouteLengthType
<1>4. \A k \in 1 .. Len(r) - 1 : f[k] \in Nat
  <2> TAKE k \in 1 .. Len(r) - 1
  <2>1. r[k] \in Vertex /\ r[k + 1] \in Vertex
    <3> HIDE DEF r
    <3> QED BY <1>1
  <2> QED BY <1>3, <2>1 DEF NoNegative
<1> HIDE DEF f, r
<1> QED BY <1>1, <1>3, <1>4, SumOfNaturals

LEMMA TwoOptType ==
  ASSUME NEW m, NoNegative(m), NEW sol \in Trips(m)
  PROVE  TwoOpt(m, sol) \in Trips(m)
<1> DEFINE D(after) == after = [n \in Nat |-> IF n = 0 THEN sol ELSE Pass(m, after[n - 1])]
           step == [n \in Nat |-> [s \in Trips(m) |-> Pass(m, s)]]
<1>1. /\ Costs(m)
      /\ \A s \in Trips(m) :
           /\ Pass(m, s) \in Trips(m) /\ s.value \in Nat
           /\ Pass(m, s).value < s.value \/ Pass(m, s) = s
  BY NoNegativeCosts, PassType, TripValue
<1>2. step \in [Nat -> [Trips(m) -> Trips(m)]]
  BY <1>1
<1>3. PICK g : Follows(g, Trips(m), sol, step)
  <2> HIDE DEF step
  <2> QED BY <1>2, Recursion
<1>4. g \in [Nat -> Trips(m)] /\ g[0] = sol /\ \A n \in Nat : g[n + 1] = Pass(m, g[n])
  BY <1>3 DEF Follows
<1>5. D(g)
  <2> SUFFICES ASSUME NEW n \in Nat PROVE g[n] = IF n = 0 THEN sol ELSE Pass(m, g[n - 1])
    BY <1>4
  <2>1. n # 0 => n - 1 \in Nat /\ (n - 1) + 1 = n
    OBVIOUS
  <2> QED BY <1>4, <2>1
<1> DEFINE after == CHOOSE after : D(after)
<1>6. D(after)
  <2> HIDE DEF D
  <2> QED BY <1>5
<1>7. after[0] = sol /\ \A n \in Nat : after[n + 1] = Pass(m, after[n])
  <2>1. \A n \in Nat : after[n] = IF n = 0 THEN sol ELSE Pass(m, after[n - 1])
    <3> HIDE DEF after
    <3> QED BY <1>6
  <2> HIDE DEF after
  <2>2. ASSUME NEW n \in Nat PROVE after[n + 1] = Pass(m, after[n])
    <3>1. n + 1 \in Nat /\ n + 1 # 0 /\ (n + 1) - 1 = n
      OBVIOUS
    <3> QED BY <2>1, <3>1
  <2> QED BY <2>1, <2>2
<1>8. TwoOpt(m, sol) = after[CHOOSE n \in 0 .. sol.value : after[n + 1] = after[n]]
  BY DEF TwoOpt
<1> HIDE DEF after, D
<1> DEFINE T == {n \in Nat : after[n] \in Trips(m)}
<1>9. \A n \in Nat : after[n] \in Trips(m)
  <2>1. 0 \in T /\ \A n \in Nat : n \in T => n + 1 \in T
    BY <1>1, <1>7
  <2>2. Nat \subseteq T
    <3> HIDE DEF T
    <3> QED BY <2>1, InductionOnNat
  <2> QED BY <2>2
<1>10. \A n \in Nat :
         after[n].value \in Nat /\ (after[n + 1].value < after[n].value \/ after[n + 1] = after[n])
  BY <1>1, <1>7, <1>9
\* Passes that change something lower the value, which cannot go below zero.
<1>11. \E n \in 0 .. sol.value : after[n + 1] = after[n]
  <2> DEFINE v == sol.value
  <2>1. v \in Nat
    BY <1>1
  <2> HIDE DEF v
  <2> SUFFICES ASSUME \A n \in 0 .. v : after[n + 1] # after[n] PROVE FALSE
    BY DEF v
  <2> DEFINE U == {n \in Nat : n <= v + 1 => after[n].value + n <= v}
  <2>2. 0 \in U
    BY <1>7, <2>1 DEF v
  <2>3. ASSUME NEW n \in Nat, n \in U PROVE n + 1 \in U
    <3> SUFFICES ASSUME n + 1 <= v + 1 PROVE after[n + 1].value + (n + 1) <= v
      OBVIOUS
    <3>1. n \in 0 .. v /\ n <= v + 1
      BY <2>1
    <3>2. after[n].value + n <= v /\ after[n + 1] # after[n]
      BY <2>3, <3>1
    <3>3. after[n + 1].value < after[n].value /\ after[n].value \in Nat /\ after[n + 1].value \in Nat
      BY <1>10, <3>2
    <3> QED BY <2>1, <3>2, <3>3
  <2>4. v + 1 \in U
    <3>1. Nat \subseteq U
      <4> HIDE DEF U
      <4> QED BY <2>2, <2>3, InductionOnNat
    <3> HIDE DEF U
    <3> QED BY <2>1, <3>1
  <2>5. after[v + 1].value + (v + 1) <= v /\ after[v + 1].value \in Nat
    BY <1>10, <2>1, <2>4
  <2> QED BY <2>1, <2>5
<1>12. (CHOOSE n \in 0 .. sol.value : after[n + 1] = after[n]) \in Nat
  <2>1. 0 .. sol.value \subseteq Nat
    BY <1>1
  <2> QED BY <1>11, <2>1
<1> QED BY <1>8, <1>9, <1>12

----------------------------------------------------------------------------
(* The initial record.                                                     *)

\* A route is a tour: from each vertex to the next one of the route.
LEMMA RouteTour ==
  ASSUME Given, NEW sol \in Trips(matrix)
  PROVE  \E f \in Tours : sol.value = Cost(f)
<1> DEFINE r == sol.route
           c == [k \in 1 .. Size |-> r[k]]
           At(v) == CHOOSE k \in 1 .. Size : c[k] = v
           f == [v \in Vertex |-> r[At(v) + 1]]
<1>1. /\ r \in Seq(Vertex) /\ Len(r) = Size + 1 /\ r[Size + 1] = r[1] /\ IsRoute(r)
      /\ \A k, l \in 1 .. Size : r[k] = r[l] => k = l
      /\ sol.value = RouteLength(matrix, r)
      /\ \A k \in 1 .. Size + 1 : r[k] \in Vertex
  BY VertexFinite DEF Trips, IsRoute
<1>2. Size \in Nat /\ Size > 2 /\ \A k \in 1 .. Size : k \in 1 .. Size + 1 /\ k + 1 \in 1 .. Size + 1
  BY VertexFinite
<1> HIDE DEF r
<1>3. /\ c \in [1 .. Size -> Vertex] /\ \A k \in 1 .. Size : c[k] = r[k]
      /\ \A k, l \in 1 .. Size : c[k] = c[l] => k = l
  BY <1>1, <1>2
<1> HIDE DEF c
<1>4. \A v \in Vertex : \E k \in 1 .. Size : c[k] = v
  <2>1. IsFiniteSet(1 .. Size) /\ Cardinality(1 .. Size) = Size
    BY <1>2, FS_Interval
  <2>2. c \in Injection(1 .. Size, Vertex)
    BY <1>3 DEF Injection, IsInjective
  <2>3. c \in Surjection(1 .. Size, Vertex)
    BY <2>1, <2>2, VertexFinite, FS_Injection
  <2> QED BY <2>3 DEF Surjection
<1>5. \A v \in Vertex : At(v) \in 1 .. Size /\ c[At(v)] = v
  BY <1>4
<1>6. \A k \in 1 .. Size : c[k] \in Vertex /\ At(c[k]) = k
  <2> HIDE DEF At
  <2> QED BY <1>3, <1>5
<1> HIDE DEF At
<1>7. f \in [Vertex -> Vertex] /\ \A k \in 1 .. Size : f[c[k]] = r[k + 1]
  BY <1>1, <1>2, <1>5, <1>6
<1> HIDE DEF f
<1>8. f \in Assignments
  <2>1. ASSUME NEW k \in 1 .. Size, NEW l \in 1 .. Size, r[k + 1] = r[l + 1] PROVE k = l
    <3>1. CASE k = Size /\ l = Size
      BY <3>1
    <3>2. CASE k # Size /\ l # Size
      <4>1. k + 1 \in 1 .. Size /\ l + 1 \in 1 .. Size
        BY <1>2, <3>2
      <4>2. k + 1 = l + 1
        BY <1>1, <2>1, <4>1
      <4> QED BY <4>2
    <3>3. CASE k = Size /\ l # Size
      <4>1. l + 1 \in 1 .. Size /\ 1 \in 1 .. Size /\ l + 1 # 1
        BY <1>2, <3>3
      <4> QED BY <1>1, <2>1, <3>3, <4>1
    <3>4. CASE k # Size /\ l = Size
      <4>1. k + 1 \in 1 .. Size /\ 1 \in 1 .. Size /\ k + 1 # 1
        BY <1>2, <3>4
      <4> QED BY <1>1, <2>1, <3>4, <4>1
    <3> QED BY <3>1, <3>2, <3>3, <3>4
  <2>2. ASSUME NEW v \in Vertex, NEW w \in Vertex, f[v] = f[w] PROVE v = w
    <3>1. PICK k \in 1 .. Size : c[k] = v
      BY <1>4
    <3>2. PICK l \in 1 .. Size : c[l] = w
      BY <1>4
    <3>3. r[k + 1] = r[l + 1]
      BY <1>7, <2>2, <3>1, <3>2
    <3> QED BY <2>1, <3>1, <3>2, <3>3
  <2> QED BY <1>7, <2>2 DEF Assignments
<1>9. f \in Tours
  <2>1. c \in Seq(Vertex) /\ Len(c) = Size /\ DOMAIN c = 1 .. Size
    BY <1>2, <1>3, SequenceOf
  <2>2. \A k \in 1 .. Len(c) - 1 : f[c[k]] = c[k + 1]
    <3> TAKE k \in 1 .. Len(c) - 1
    <3>1. k \in 1 .. Size /\ k + 1 \in 1 .. Size
      BY <1>2, <2>1
    <3> QED BY <1>3, <1>7, <3>1
  <2>3. f[c[Len(c)]] = c[1]
    <3>1. Size \in 1 .. Size /\ 1 \in 1 .. Size
      BY <1>2
    <3> QED BY <1>1, <1>3, <1>7, <2>1, <3>1
  <2>4. Round(f, c)
    <3>1. Len(c) \in 1 .. Size
      BY <1>2, <2>1
    <3> QED BY <1>3, <2>1, <2>2, <2>3, <3>1 DEF Round
  <2> QED BY <1>8, <2>1, <2>4, TourRound, RoundLength
<1>10. RouteLength(matrix, r) = Cost(f)
  <2> DEFINE legs == Legs(matrix, r)
             cost == [v \in Vertex |-> matrix[<<v, f[v]>>]]
  <2>1. Costs(matrix)
    <3>1. NoNegative(matrix)
      BY MatrixType DEF NoNegative
    <3> QED BY <3>1, NoNegativeCosts
  <2>2. /\ RouteLength(matrix, r) = SumFunctionOnSet(legs, 1 .. Size)
        /\ \A k \in 1 .. Size : legs[k] = matrix[<<r[k], r[k + 1]>>]
    <3>1. Len(r) - 1 = Size /\ Len(r) > 0
      BY <1>1, <1>2
    <3> QED BY <1>1, <2>1, <3>1, RouteLengthType
  <2>3. Cost(f) = SumFunctionOnSet(cost, Vertex)
    BY DEF Cost, SumFunction
  <2>4. \A k \in 1 .. Size : cost[c[k]] \in Int /\ legs[k] = cost[c[k]]
    <3> TAKE k \in 1 .. Size
    <3>1. cost[c[k]] = matrix[<<c[k], f[c[k]]>>]
      BY <1>6
    <3>2. cost[c[k]] = matrix[<<r[k], r[k + 1]>>]
      BY <1>3, <1>7, <3>1
    <3>3. matrix[<<r[k], r[k + 1]>>] \in Int
      BY <1>1, <1>2, <2>1 DEF Costs
    <3> QED BY <2>2, <3>2, <3>3
  <2>5. IsFiniteSet(1 .. Size)
    BY <1>2, FS_Interval
  <2>6. {c[k] : k \in 1 .. Size} = Vertex
    BY <1>3, <1>4
  <2> HIDE DEF legs, cost
  <2>7. SumFunctionOnSet(legs, 1 .. Size) = SumFunctionOnSet(cost, {c[k] : k \in 1 .. Size})
    <3> DEFINE S == 1 .. Size
    <3>1. IsFiniteSet(S) /\ \A k, l \in S : c[k] = c[l] => k = l
      BY <1>3, <2>5
    <3>2. \A k \in S : cost[c[k]] \in Int /\ legs[k] = cost[c[k]]
      BY <2>4
    <3> HIDE DEF S
    <3>3. SumFunctionOnSet(legs, S) = SumFunctionOnSet(cost, {c[k] : k \in S})
      BY <3>1, <3>2, SumImage
    <3> QED BY <3>3 DEF S
  <2> QED BY <2>2, <2>3, <2>6, <2>7
<1> QED BY <1>1, <1>9, <1>10

\* The search starts with the length of a tour.
LEMMA InitialGenuine ==
  ASSUME Given
  PROVE  \E f \in Tours : InitialValue(matrix) = Cost(f)
<1>1. NoNegative(matrix)
  BY MatrixType DEF NoNegative
<1> DEFINE S(v) == TwoOpt(matrix, GreedySolution(matrix, v))
           values == {S(v).value : v \in Vertex}
<1>2. \A v \in Vertex : S(v) \in Trips(matrix) /\ S(v).value \in Nat
  <2> TAKE v \in Vertex
  <2>1. GreedySolution(matrix, v) \in Trips(matrix)
    BY <1>1, GreedyType
  <2>2. S(v) \in Trips(matrix)
    BY <1>1, <2>1, TwoOptType
  <2> HIDE DEF S
  <2>3. S(v).value \in Nat
    BY <1>1, <2>2, TripValue
  <2> QED BY <2>2, <2>3
<1>3. InitialValue(matrix) = CHOOSE x \in values : \A y \in values : x <= y
  BY DEF InitialValue
<1> HIDE DEF S
<1>4. values \in SUBSET Nat /\ values # {}
  BY <1>2, VertexFinite
<1>5. \E x \in values : \A y \in values : x <= y
  <2> HIDE DEF values
  <2> QED BY <1>4, LeastNumber
<1>6. InitialValue(matrix) \in values
  <2> HIDE DEF values
  <2> QED BY <1>3, <1>5
<1>7. PICK v \in Vertex : InitialValue(matrix) = S(v).value
  BY <1>6
<1> QED BY <1>2, <1>7, RouteTour

----------------------------------------------------------------------------
(* The search.                                                             *)

\* The children still to be looked at: only rule 3 includes edges.
ChildrenOK ==
  /\ DOMAIN new_nodes \subseteq Nat
  /\ \A k \in DOMAIN new_nodes :
       /\ new_nodes[k].included \in SUBSET Cells
       /\ rule # 3 => new_nodes[k].included = {}

\* What holds whether or not the root is a tour.
Basis == Given /\ RecordGenuine /\ (\A node \in open : NodeOK(node)) /\ ChildrenOK

\* The rules break the cycle of a relaxation that is no tour; only rule 3 can do with a
\* root that is one.
Branchable(node) ==
  \/ NodeValue(node) >= record
  \/ ~HasSolution(node.primal)
  \/ rule = 3 /\ node.included = {} /\ node.excluded = {}

\* The tour g is no better than the record, or in an open node or child, or the one
\* assignment that a child leaves room for: transform_node then finds it although the
\* child excludes one of its edges.
Accounted(g) ==
  \/ record <= Cost(g)
  \/ \E node \in open : Obeys(g, node)
  \/ \E k \in DOMAIN new_nodes : Obeys(g, new_nodes[k]) \/ Forced(g, new_nodes[k])

\* Every tour is accounted for, also between two children.
Inv ==
  /\ Basis
  /\ \A node \in open : Branchable(node)
  /\ \A g \in Tours : Accounted(g)

\* The relaxation of the root is no tour, or the rule is one that can do with that.
RootIsNoTour ==
  \A node \in open : rule = 3 \/ ~HasSolution(node.primal) \/ NodeValue(node) >= record

LEMMA Unchanged ==
  ASSUME UNCHANGED <<matrix, rule>>
  PROVE  /\ Given' <=> Given
         /\ \A f : Cost(f)' = Cost(f)
         /\ \A node : (NodeOK(node)' <=> NodeOK(node)) /\ NodeValue(node)' = NodeValue(node)
BY DEF Given, Cost, NodeOK, NodeValue, Relaxations, Weight

LEMMA RecordType ==
  ASSUME Given, RecordGenuine
  PROVE  record \in Nat /\ record < MVal
BY TourCheap DEF RecordGenuine

LEMMA NodeType ==
  ASSUME Given, NEW node, NodeOK(node)
  PROVE  /\ node.primal \in Assignments /\ NodeValue(node) \in Nat
         /\ NodeValue(node) = Cost(node.primal)
         /\ NodeValue(node) < MVal => \A v \in Vertex : node.primal[v] # v
<1> DEFINE f == node.primal
<1>1. f \in Assignments
  BY RelaxationLeast DEF NodeOK
<1>2. NodeValue(node) = Cost(f) /\ Cost(f) \in Nat /\ f \in [Vertex -> Vertex]
  BY <1>1, CostType DEF NodeValue, Assignments
<1>3. ASSUME NEW v \in Vertex, f[v] = v, NodeValue(node) < MVal PROVE FALSE
  <2>1. matrix[<<v, f[v]>>] <= Cost(f) /\ matrix[<<v, v>>] = MVal /\ MVal \in Nat
    BY <1>2, CostType, MatrixType
  <2> QED BY <1>2, <1>3, <2>1
<1> QED BY <1>1, <1>2, <1>3

\* The cycle of a node that is branched.
LEMMA NodeRound ==
  ASSUME Given, RecordGenuine, NEW node, NodeOK(node), NodeValue(node) < record
  PROVE  /\ node.primal \in Assignments /\ \A v \in Vertex : node.primal[v] # v
         /\ Round(node.primal, MincardSubtour[node.primal])
<1>1. node.primal \in Assignments /\ \A v \in Vertex : node.primal[v] # v
  BY NodeType, RecordType, MatrixType
<1> QED BY <1>1, MincardRound, VertexFinite

LEMMA BranchingType ==
  ASSUME Given, NEW node, Round(node.primal, MincardSubtour[node.primal]),
         node.primal \in Assignments
  PROVE  /\ DOMAIN Branching(node) \subseteq DOMAIN MincardSubtour[node.primal]
         /\ DOMAIN Branching(node) \subseteq Nat
         /\ rule # 3 => \A k \in DOMAIN Branching(node) : Branching(node)[k].inc = {}
         /\ \A k \in DOMAIN Branching(node) : Branching(node)[k].inc \in SUBSET Cells
<1> DEFINE c == MincardSubtour[node.primal]
<1>1. DOMAIN c \subseteq Nat
  BY RoundType
<1>0. \A k \in SubtourEdges(node) : Edge(node, k) \in Cells
  <2> TAKE k \in SubtourEdges(node)
  <2>1. k \in 1 .. Len(c)
    BY RoundType DEF SubtourEdges
  <2>2. c[k] \in Vertex /\ node.primal \in [Vertex -> Vertex]
    BY <2>1, RoundType DEF Assignments
  <2> QED BY <2>2 DEF Edge, Cells
<1>2. rule \in 2 .. 5 /\ SubtourEdges(node) \subseteq DOMAIN c
  BY MatrixType DEF SubtourEdges
<1>3. CASE rule = 2
  BY <1>1, <1>2, <1>3 DEF Branching, Rule2
<1>4. CASE rule = 3
  BY <1>0, <1>1, <1>2, <1>4 DEF Branching, Rule3
<1>5. CASE rule = 4
  BY <1>1, <1>2, <1>5 DEF Branching, Rule4
<1>6. CASE rule = 5
  BY <1>1, <1>2, <1>6 DEF Branching, Rule5
<1> QED BY <1>2, <1>3, <1>4, <1>5, <1>6

\* branch prunes a node.
LEMMA PruneStep ==
  ASSUME NEW node \in open, Prune(node), open' = open \ {node},
         UNCHANGED <<matrix, rule, record>>
  PROVE  (Basis => Basis') /\ (Inv => Inv')
<1>1. /\ Given' <=> Given
      /\ \A f : Cost(f)' = Cost(f)
      /\ \A n : (NodeOK(n)' <=> NodeOK(n)) /\ NodeValue(n)' = NodeValue(n)
  BY Unchanged
<1>2. new_nodes' = new_nodes /\ NodeValue(node) >= record
  BY DEF Prune
<1>3. Basis => Basis'
  BY <1>1, <1>2 DEF Basis, RecordGenuine, ChildrenOK
<1>4. ASSUME Inv, NEW n \in open' PROVE Branchable(n)'
  BY <1>1, <1>4 DEF Inv, Branchable
<1>5. ASSUME Inv, NEW g \in Tours PROVE Accounted(g)'
  <2>1. Accounted(g) /\ NodeOK(node) /\ Given /\ RecordGenuine
    BY <1>5 DEF Inv, Basis
  <2>2. CASE Obeys(g, node)
    <3>1. Cost(node.primal) <= Cost(g)
      BY <2>1, <2>2, RelaxationProper DEF NodeOK, Obeys
    <3>2. record <= Cost(g)
      BY <1>2, <2>1, <3>1, NodeType, RecordType, TourCheap
    <3> QED BY <1>1, <3>2 DEF Accounted
  <2>3. CASE ~Obeys(g, node)
    BY <1>1, <1>2, <2>1, <2>3 DEF Accounted
  <2> QED BY <2>2, <2>3
<1> QED BY <1>3, <1>4, <1>5 DEF Inv

\* branch makes the children of a node.
LEMMA ExpandStep ==
  ASSUME DOMAIN new_nodes = {}, NEW node \in open, Expand(node), open' = open \ {node},
         UNCHANGED <<matrix, rule, record>>
  PROVE  (Basis => Basis') /\ (Inv => Inv')
<1>1. /\ Given' <=> Given
      /\ \A f : Cost(f)' = Cost(f)
      /\ \A n : (NodeOK(n)' <=> NodeOK(n)) /\ NodeValue(n)' = NodeValue(n)
  BY Unchanged
<1>2. NodeValue(node) < record /\ new_nodes' = [k \in DOMAIN Branching(node) |-> Child(node, k)]
  BY DEF Expand, Child
<1>3. ASSUME Basis PROVE Basis'
  <2>1. Given /\ NodeOK(node) /\ RecordGenuine
    BY <1>3 DEF Basis
  <2>2. node.primal \in Assignments /\ Round(node.primal, MincardSubtour[node.primal])
    BY <1>2, <2>1, NodeRound
  <2>3. /\ DOMAIN Branching(node) \subseteq Nat
        /\ rule # 3 => \A k \in DOMAIN Branching(node) : Branching(node)[k].inc = {}
        /\ \A k \in DOMAIN Branching(node) : Branching(node)[k].inc \in SUBSET Cells
    BY <2>1, <2>2, BranchingType
  <2>4. ChildrenOK'
    BY <1>2, <2>1, <2>3 DEF ChildrenOK, Child, NodeOK
  <2> QED BY <1>1, <1>3, <2>4 DEF Basis, RecordGenuine
<1>4. ASSUME Inv, NEW n \in open' PROVE Branchable(n)'
  BY <1>1, <1>4 DEF Inv, Branchable
<1>5. ASSUME Inv, NEW g \in Tours PROVE Accounted(g)'
  <2>1. Accounted(g) /\ NodeOK(node) /\ Given /\ RecordGenuine /\ Branchable(node)
    BY <1>5 DEF Inv, Basis
  <2>2. CASE ~Obeys(g, node)
    BY <1>1, <2>1, <2>2 DEF Accounted
  <2>3. CASE Obeys(g, node)
    <3>1. rule \in 2 .. 5
      BY <2>1, MatrixType
    <3>2. HasSolution(node.primal) => rule = 3 /\ node.included = {} /\ node.excluded = {}
      BY <1>2, <2>1, NodeType, RecordType DEF Branchable
    <3>3. ASSUME rule = 3
          PROVE \E k \in DOMAIN Branching(node) : Obeys(g, Child(node, k)) \/ Forced(g, Child(node, k))
      <4> DEFINE f == node.primal
                 c == MincardSubtour[f]
      <4>1. Broken(node, g)
        BY <2>1, <2>3, BrokenHolds
      <4>2. f \in Assignments /\ Round(f, c)
        BY <4>1 DEF Broken
      <4>3. CASE ~HasSolution(f)
        <5>1. PICK k \in 1 .. Len(c) : g[c[k]] \notin ToSet(c)
          BY <4>1, <4>3, TourLeaves
        <5>2. c[k] \in ToSet(c) /\ f[c[k]] \in ToSet(c)
          BY <4>2, RoundType DEF ToSet
        <5> QED BY <2>1, <2>3, <3>3, <5>1, <5>2, Rule3Differs
      <4>4. CASE HasSolution(f) /\ g = f
        BY <2>1, <2>3, <3>2, <3>3, <4>4, Rule3Forces
      <4>5. CASE HasSolution(f) /\ g # f
        <5>1. PICK v \in Vertex : g[v] # f[v]
          BY <4>2, <4>5 DEF Tours, Assignments
        <5>2. ToSet(c) = Vertex
          BY <4>2, <4>5, HasSolutionTour, TourRound
        <5> QED BY <2>1, <2>3, <3>3, <5>1, <5>2, Rule3Differs
      <4> QED BY <4>3, <4>4, <4>5
    <3>4. \E k \in DOMAIN Branching(node) : Obeys(g, Child(node, k)) \/ Forced(g, Child(node, k))
      <4>1. CASE rule = 3
        BY <3>3, <4>1
      <4>2. CASE rule # 3
        <5>1. ~HasSolution(node.primal)
          BY <3>2, <4>2
        <5> QED BY <2>1, <2>3, <3>1, <4>2, <5>1, Rule2Covers, Rule4Covers, Rule5Covers
      <4> QED BY <4>1, <4>2
    <3>5. PICK k \in DOMAIN Branching(node) : Obeys(g, Child(node, k)) \/ Forced(g, Child(node, k))
      BY <3>4
    <3>6. k \in DOMAIN new_nodes' /\ new_nodes'[k] = Child(node, k)
      BY <1>2
    <3> QED BY <3>5, <3>6 DEF Accounted
  <2> QED BY <2>2, <2>3
<1> QED BY <1>3, <1>4, <1>5 DEF Inv

\* branch looks at a child.
LEMMA TransformStep ==
  ASSUME Transform
  PROVE  (Basis => Basis') /\ (Inv => Inv')
<1>1. /\ Given' <=> Given
      /\ \A f : Cost(f)' = Cost(f)
      /\ \A n : (NodeOK(n)' <=> NodeOK(n)) /\ NodeValue(n)' = NodeValue(n)
  BY Unchanged DEF Transform
<1> DEFINE k == Min(DOMAIN new_nodes)
           head == new_nodes[k]
           Kid(f) == [included |-> head.included, excluded |-> head.excluded, primal |-> f]
<1>2. PICK f \in Relaxations(matrix, head.included, head.excluded) :
        /\ record' = IF HasSolution(f) /\ Worthwhile(Kid(f)) THEN NodeValue(Kid(f)) ELSE record
        /\ open' = IF ~HasSolution(f) /\ Worthwhile(Kid(f)) THEN open \cup {Kid(f)} ELSE open
  BY DEF Transform
<1>3. new_nodes' = [l \in DOMAIN new_nodes \ {k} |-> new_nodes[l]]
  BY DEF Transform, Restrict
<1> DEFINE child == Kid(f)
<1>4. NodeValue(child) = Cost(f) /\ (Worthwhile(child) <=> Cost(f) < record)
  BY DEF NodeValue, Worthwhile
<1>5. ASSUME ChildrenOK PROVE k \in DOMAIN new_nodes
  <2>1. DOMAIN new_nodes \in SUBSET Nat /\ DOMAIN new_nodes # {}
    BY <1>5 DEF ChildrenOK, Transform
  <2> QED BY <2>1, LeastNumber DEF Min
<1>6. ASSUME Given PROVE f \in Assignments /\ f \in [Vertex -> Vertex] /\ Cost(f) \in Nat
  <2>1. f \in Assignments
    BY <1>2, <1>6, RelaxationLeast
  <2>2. f \in [Vertex -> Vertex]
    BY <2>1 DEF Assignments
  <2> QED BY <1>6, <2>1, <2>2, CostType
<1>7. ASSUME Basis PROVE NodeOK(child)
  BY <1>2, <1>5, <1>7 DEF Basis, NodeOK, ChildrenOK
<1> HIDE DEF k, Kid
<1>8. ASSUME Basis PROVE Basis'
  <2>1. Given /\ f \in Assignments
    BY <1>6, <1>8 DEF Basis
  <2>2. RecordGenuine'
    <3>1. CASE HasSolution(f) /\ Worthwhile(child)
      <4>1. f \in Tours /\ record' = Cost(f)
        BY <1>2, <1>4, <2>1, <3>1, HasSolutionTour
      <4> QED BY <1>1, <4>1 DEF RecordGenuine
    <3>2. CASE ~(HasSolution(f) /\ Worthwhile(child))
      BY <1>1, <1>2, <1>8, <3>2 DEF Basis, RecordGenuine
    <3> QED BY <3>1, <3>2
  <2>3. \A n \in open' : NodeOK(n)'
    BY <1>1, <1>2, <1>7, <1>8 DEF Basis
  <2>4. ChildrenOK'
    <3>1. rule' = rule
      BY DEF Transform
    <3> QED BY <1>3, <1>8, <3>1 DEF Basis, ChildrenOK
  <2> QED BY <1>1, <2>1, <2>2, <2>3, <2>4 DEF Basis
<1>9. ASSUME Inv PROVE record \in Nat /\ record' \in Nat /\ record' <= record
  <2>1. record \in Nat /\ Cost(f) \in Nat
    BY <1>6, <1>9, RecordType DEF Inv, Basis
  <2> QED BY <1>2, <1>4, <2>1
<1>10. ASSUME Inv, NEW n \in open' PROVE Branchable(n)'
  <2>1. CASE n \in open
    <3>1. Branchable(n) /\ NodeValue(n) \in Nat
      BY <1>10, <2>1, NodeType DEF Inv, Basis
    <3>2. rule' = rule
      BY DEF Transform
    <3> QED BY <1>1, <1>9, <1>10, <3>1, <3>2 DEF Branchable
  <2>2. CASE n \notin open
    <3>1. n = child /\ ~HasSolution(f) /\ n.primal = f
      BY <1>2, <1>10, <2>2 DEF Kid
    <3> QED BY <3>1 DEF Branchable
  <2> QED BY <2>1, <2>2
<1>11. ASSUME Inv, NEW g \in Tours PROVE Accounted(g)'
  <2>1. /\ Given /\ Accounted(g) /\ f \in Assignments /\ Cost(f) \in Nat /\ Cost(g) \in Nat
        /\ record \in Nat /\ record' \in Nat /\ record' <= record
    BY <1>6, <1>9, <1>11, TourCheap DEF Inv, Basis
  <2>2. record' <= Cost(g) => Accounted(g)'
    BY <1>1 DEF Accounted
  <2>3. CASE record <= Cost(g)
    BY <2>1, <2>2, <2>3
  <2>4. CASE \E n \in open : Obeys(g, n)
    BY <1>2, <2>4 DEF Accounted
  <2>5. CASE \E l \in DOMAIN new_nodes \ {k} : Obeys(g, new_nodes[l]) \/ Forced(g, new_nodes[l])
    <3>1. PICK l \in DOMAIN new_nodes \ {k} : Obeys(g, new_nodes[l]) \/ Forced(g, new_nodes[l])
      BY <2>5
    <3>2. l \in DOMAIN new_nodes' /\ new_nodes'[l] = new_nodes[l]
      BY <1>3, <3>1
    <3> QED BY <3>1, <3>2 DEF Accounted
  <2>6. CASE Forced(g, head)
    <3>1. f = g
      BY <1>2, <2>1, <2>6, RelaxationLeast DEF Forced
    <3>2. HasSolution(f)
      BY <2>1, <3>1, HasSolutionTour
    <3> QED BY <1>2, <1>4, <2>1, <2>2, <3>1, <3>2
  <2>7. CASE Obeys(g, head)
    <3>1. Cost(f) <= Cost(g)
      BY <1>2, <2>1, <2>7, RelaxationProper DEF Obeys
    <3>2. CASE ~Worthwhile(child) \/ HasSolution(f)
      BY <1>2, <1>4, <2>1, <2>2, <3>1, <3>2
    <3>3. CASE Worthwhile(child) /\ ~HasSolution(f)
      <4>1. child \in open' /\ Obeys(g, child)
        BY <1>2, <2>7, <3>3 DEF Obeys, Kid
      <4> QED BY <4>1 DEF Accounted
    <3> QED BY <3>2, <3>3
  <2> QED BY <2>1, <2>3, <2>4, <2>5, <2>6, <2>7 DEF Accounted
<1> QED BY <1>8, <1>10, <1>11 DEF Inv

LEMMA InitBasis ==
  ASSUME Init
  PROVE  Basis
<1>1. PICK p \in Problems :
        /\ matrix = p[1] /\ rule = p[2] /\ record = InitialValue(p[1])
        /\ \E f \in Relaxations(p[1], {}, {}) :
             open = {[included |-> {}, excluded |-> {}, primal |-> f]}
  BY DEF Init
<1>2. Given
  BY <1>1 DEF Given
<1>3. RecordGenuine
  BY <1>1, <1>2, InitialGenuine DEF RecordGenuine
<1>4. \A node \in open : NodeOK(node)
  BY <1>1 DEF NodeOK
<1>5. ChildrenOK
  BY DEF Init, ChildrenOK
<1> QED BY <1>2, <1>3, <1>4, <1>5 DEF Basis

LEMMA InitInv ==
  ASSUME Init, RootIsNoTour
  PROVE  Inv
<1>1. Basis
  BY InitBasis
<1>2. PICK f : open = {[included |-> {}, excluded |-> {}, primal |-> f]}
  BY DEF Init
<1>3. \A node \in open : Branchable(node)
  <2> TAKE node \in open
  <2>1. node.included = {} /\ node.excluded = {}
    BY <1>2
  <2>2. NodeValue(node) >= record \/ ~HasSolution(node.primal) \/ rule = 3
    BY DEF RootIsNoTour
  <2> QED BY <2>1, <2>2 DEF Branchable
<1>4. \A g \in Tours : Accounted(g)
  <2> TAKE g \in Tours
  <2> DEFINE root == [included |-> {}, excluded |-> {}, primal |-> f]
  <2>1. root \in open /\ root.included = {} /\ root.excluded = {}
    BY <1>2
  <2> HIDE DEF root
  <2> QED BY <2>1 DEF Accounted, Obeys
<1> QED BY <1>1, <1>3, <1>4 DEF Inv

LEMMA NextStep ==
  ASSUME [Next]_vars
  PROVE  (Basis => Basis') /\ (Inv => Inv')
<1>1. CASE Branch
  <2>1. PICK node \in open : (Prune(node) \/ Expand(node)) /\ open' = open \ {node}
    BY <1>1 DEF Branch
  <2>2. DOMAIN new_nodes = {} /\ UNCHANGED <<matrix, rule, record>>
    BY <1>1 DEF Branch
  <2>3. CASE Prune(node)
    BY <2>1, <2>2, <2>3, PruneStep
  <2>4. CASE Expand(node)
    BY <2>1, <2>2, <2>4, ExpandStep
  <2> QED BY <2>1, <2>3, <2>4
<1>2. CASE Transform
  BY <1>2, TransformStep
<1>3. CASE UNCHANGED vars
  <2>1. /\ Given' <=> Given
        /\ \A f : Cost(f)' = Cost(f)
        /\ \A n : (NodeOK(n)' <=> NodeOK(n)) /\ NodeValue(n)' = NodeValue(n)
    BY <1>3, Unchanged DEF vars
  <2>2. open' = open /\ new_nodes' = new_nodes /\ record' = record /\ rule' = rule
    BY <1>3 DEF vars
  <2>3. Basis => Basis'
    BY <2>1, <2>2 DEF Basis, RecordGenuine, ChildrenOK
  <2>4. Inv => Inv'
    BY <2>1, <2>2, <2>3 DEF Inv, Branchable, Accounted
  <2> QED BY <2>3, <2>4
<1> QED BY <1>1, <1>2, <1>3 DEF Next

\* Between two calls of branch every tour is covered.
LEMMA InvCoverage ==
  ASSUME Inv
  PROVE  Coverage
BY DEF Inv, Accounted, Coverage

\* In the end there is no open node to account for a shorter tour.
Optimal ==
  Done => \E f \in Tours : record = Cost(f) /\ \A g \in Tours : record <= Cost(g)

LEMMA InvOptimal ==
  ASSUME Inv
  PROVE  Optimal
BY DEF Inv, Basis, RecordGenuine, Accounted, Done, Optimal

\* A node that is branched has a cycle, and what the rules make of it.
LEMMA BasisProper ==
  ASSUME Basis
  PROVE  ChildrenProper
<1> SUFFICES ASSUME NEW node \in open, NodeValue(node) < record
             PROVE  /\ MincardSubtour[node.primal] # <<>>
                    /\ \A k \in DOMAIN Branching(node) :
                         LET c == Branching(node)[k]
                         IN /\ \A e \in c.exc, f \in node.included \cup c.inc :
                                 e[1] # f[1] /\ e[2] # f[2]
                            /\ rule # 4 => ~(c.inc \cup c.exc \subseteq Decided(node))
  BY DEF ChildrenProper
<1> DEFINE p == node.primal
           cycle == MincardSubtour[p]
<1>1. Given /\ RecordGenuine /\ NodeOK(node)
  BY DEF Basis
<1>2. p \in Assignments /\ Round(p, cycle)
  BY <1>1, NodeRound
<1>3. /\ p \in [Vertex -> Vertex] /\ \A v, w \in Vertex : p[v] = p[w] => v = w
      /\ DOMAIN cycle = 1 .. Len(cycle) /\ Len(cycle) \in Nat /\ Len(cycle) > 0
      /\ \A k \in 1 .. Len(cycle) : cycle[k] \in Vertex
      /\ \A k, l \in 1 .. Len(cycle) : cycle[k] = cycle[l] => k = l
  BY <1>2, RoundType DEF Assignments, Round
<1>4. cycle # <<>>
  BY <1>3
<1>5. rule \in 2 .. 5 /\ (rule # 3 => node.included = {})
  BY <1>1, MatrixType DEF NodeOK
<1>6. node.included \in SUBSET Cells /\ \A e \in node.included : p[e[1]] = e[2]
  BY <1>1, RelaxationLeast DEF NodeOK
<1> HIDE DEF p, cycle
<1>7. \A k \in SubtourEdges(node) :
        /\ k \in 1 .. Len(cycle) /\ k \in Nat
        /\ Edge(node, k) = <<cycle[k], p[cycle[k]]>> /\ Edge(node, k) \notin Decided(node)
  BY <1>3 DEF SubtourEdges, Edge, cycle, p
<1> SUFFICES ASSUME NEW k \in DOMAIN Branching(node)
             PROVE  LET c == Branching(node)[k]
                    IN /\ \A e \in c.exc, f \in node.included \cup c.inc :
                            e[1] # f[1] /\ e[2] # f[2]
                       /\ rule # 4 => ~(c.inc \cup c.exc \subseteq Decided(node))
  BY <1>4 DEF cycle, p
<1>8. CASE rule = 2
  <2>1. k \in SubtourEdges(node) /\ Branching(node)[k] = [inc |-> {}, exc |-> {Edge(node, k)}]
    BY <1>8 DEF Branching, Rule2
  <2> QED BY <1>5, <1>7, <1>8, <2>1
<1>9. CASE rule = 3
  <2>1. /\ k \in SubtourEdges(node)
        /\ Branching(node)[k] =
             [inc |-> {Edge(node, l) : l \in {l \in SubtourEdges(node) : l < k}},
              exc |-> {Edge(node, k)}]
    BY <1>9 DEF Branching, Rule3
  <2> DEFINE e == Edge(node, k)
  <2>2. e[1] = cycle[k] /\ e[2] = p[cycle[k]] /\ cycle[k] \in Vertex /\ e \notin Decided(node)
    BY <1>3, <1>7, <2>1
  <2>3. ASSUME NEW f \in node.included PROVE e[1] # f[1] /\ e[2] # f[2]
    <3>1. f = <<f[1], f[2]>> /\ f[1] \in Vertex /\ p[f[1]] = f[2]
      BY <1>6 DEF Cells
    <3>2. e = <<cycle[k], p[cycle[k]]>>
      BY <1>7, <2>1
    <3>3. e # f
      BY <2>2 DEF Decided
    <3>4. cycle[k] # f[1]
      BY <3>1, <3>2, <3>3
    <3>5. p[cycle[k]] # p[f[1]]
      BY <1>3, <2>2, <3>1, <3>4
    <3> QED BY <2>2, <3>1, <3>4, <3>5
  <2>4. ASSUME NEW l \in SubtourEdges(node), l < k
        PROVE  e[1] # Edge(node, l)[1] /\ e[2] # Edge(node, l)[2]
    <3>1. /\ Edge(node, l)[1] = cycle[l] /\ Edge(node, l)[2] = p[cycle[l]]
          /\ cycle[l] \in Vertex /\ l \in 1 .. Len(cycle) /\ k \in 1 .. Len(cycle)
      BY <1>3, <1>7, <2>1
    <3>2. cycle[k] # cycle[l]
      BY <1>3, <2>4, <3>1
    <3>3. p[cycle[k]] # p[cycle[l]]
      BY <1>3, <2>2, <3>1, <3>2
    <3> QED BY <2>2, <3>1, <3>2, <3>3
  <2> QED BY <1>9, <2>1, <2>2, <2>3, <2>4
<1>10. CASE rule = 4
  <2>1. Branching(node)[k].inc = {}
    BY <1>10 DEF Branching, Rule4
  <2> QED BY <1>5, <1>10, <2>1
<1>11. CASE rule = 5
  <2>1. Branching(node)[k] = [inc |-> {}, exc |-> Excluded5(node, k)] /\ Excluded5(node, k) # {}
    BY <1>11 DEF Branching, Rule5, Excluded5
  <2>2. Excluded5(node, k) \cap Decided(node) = {}
    BY DEF Excluded5
  <2> QED BY <1>5, <1>11, <2>1, <2>2
<1> QED BY <1>5, <1>8, <1>9, <1>10, <1>11

----------------------------------------------------------------------------
\* The record is always the length of a tour: of the best greedy route improved by
\* two_opt at first, of a relaxation that is a tour later.
THEOREM RecordGenuineHolds == Spec => []RecordGenuine
<1>1. Init => Basis
  BY InitBasis
<1>2. Basis /\ [Next]_vars => Basis'
  BY NextStep
<1>3. Basis => RecordGenuine
  BY DEF Basis
<1> QED BY <1>1, <1>2, <1>3, PTL DEF Spec

\* A node that is branched has a cycle to break, no child excludes an edge in a row or
\* column that is taken, and but for rule 4 every child decides an edge: what
\* mincard_subtour, the rules and transform_node take for granted.
THEOREM ChildrenProperHolds == Spec => []ChildrenProper
<1>1. Init => Basis
  BY InitBasis
<1>2. Basis /\ [Next]_vars => Basis'
  BY NextStep
<1>3. Basis => ChildrenProper
  BY BasisProper
<1> QED BY <1>1, <1>2, <1>3, PTL DEF Spec

\* None of the four rules leaves a tour out, if the relaxation of the root is not a tour
\* (which rules 2, 4 and 5 do not look for).
THEOREM CoverageHolds == Spec /\ RootIsNoTour => []Coverage
<1>1. Init /\ RootIsNoTour => Inv
  BY InitInv
<1>2. Inv /\ [Next]_vars => Inv'
  BY NextStep
<1>3. Inv => Coverage
  BY InvCoverage
<1> QED BY <1>1, <1>2, <1>3, PTL DEF Spec

\* And so the search, when it ends, ends with a shortest tour.
THEOREM OptimalHolds == Spec /\ RootIsNoTour => []Optimal
<1>1. Init /\ RootIsNoTour => Inv
  BY InitInv
<1>2. Inv /\ [Next]_vars => Inv'
  BY NextStep
<1>3. Inv => Optimal
  BY InvOptimal
<1> QED BY <1>1, <1>2, <1>3, PTL DEF Spec

----------------------------------------------------------------------------
(* The ant colony, whose ants improve their routes by the same exchanges.  *)

CONSTANTS Matrices, Shuffles, Iterations, Factors

VARIABLES params, costs, start_point, iteration, ant, pc, own, solutions, best_solution,
          interrupted

Ants == INSTANCE AntColony WITH matrix <- costs, n <- iteration, k <- ant, sol <- own

LEMMA SameRoutes ==
  /\ Ants!Vertex = Vertex /\ Ants!Cells = Cells /\ Ants!Places = Places
  /\ \A m, r : Ants!RouteLength(m, r) = RouteLength(m, r)
  /\ \A r : Ants!IsRoute(r) <=> IsRoute(r)
  /\ \A m, r, p : Ants!Delta(m, r, p) = Delta(m, r, p)
<1>1. Ants!Vertex = Vertex /\ Ants!Places = Places
  BY DEF Ants!Vertex, Vertex, Ants!Places, Places
<1>2. Ants!Cells = Cells
  BY <1>1 DEF Ants!Cells, Cells
<1>3. \A m, r : Ants!RouteLength(m, r) = RouteLength(m, r)
  BY DEF Ants!RouteLength, Ants!SumFunction, Ants!SumFunctionOnSet, Ants!FoldFunctionOnSet,
         Ants!MapThenFoldSet,
         RouteLength, SumFunction, SumFunctionOnSet, FoldFunctionOnSet, MapThenFoldSet
<1>4. \A r : Ants!IsRoute(r) <=> IsRoute(r)
  BY <1>1 DEF Ants!IsRoute, IsRoute
<1>5. \A m, r, p : Ants!Delta(m, r, p) = Delta(m, r, p)
  BY DEF Ants!Delta, Delta
<1> QED BY <1>1, <1>2, <1>3, <1>4, <1>5

LEMMA SamePass == \A m, s : Ants!Pass(m, s) = Pass(m, s)
<1>1. \A m, s, p : Ants!Exchanged(m, s, p) = Exchanged(m, s, p)
  BY DEF Ants!Exchanged, Exchanged, Ants!Delta, Delta
<1>2. Ants!Places = Places
  BY SameRoutes
<1> QED BY <1>1, <1>2 DEF Ants!Pass, Pass

\* A function of the subsets of a set, each one's value from that of the subset without
\* one of its elements.
Peels(g, S, D, base, op, pick) ==
  /\ g \in [SUBSET S -> D]
  /\ \A s \in SUBSET S : g[s] = IF s = {} THEN base ELSE op[pick[s]][g[s \ {pick[s]}]]

LEMMA SubsetRecursion ==
  ASSUME NEW S, IsFiniteSet(S), NEW D, NEW base \in D, NEW op \in [S -> [D -> D]],
         NEW pick, \A s \in SUBSET S : s # {} => pick[s] \in s
  PROVE  \E g : Peels(g, S, D, base, op, pick)
<1> DEFINE W == [SUBSET S -> D]
           On(w) == [s \in SUBSET S |->
                       IF s = {} THEN base ELSE op[pick[s]][w[s \ {pick[s]}]]]
           step == [n \in Nat |-> [w \in W |-> On(w)]]
           w0 == [s \in SUBSET S |-> base]
<1>1. ASSUME NEW w \in W PROVE On(w) \in W
  <2>1. ASSUME NEW s \in SUBSET S, s # {} PROVE op[pick[s]][w[s \ {pick[s]}]] \in D
    <3>1. pick[s] \in S /\ s \ {pick[s]} \in SUBSET S
      BY <2>1
    <3>2. op[pick[s]] \in [D -> D] /\ w[s \ {pick[s]}] \in D
      BY <3>1
    <3> QED BY <3>2
  <2> QED BY <2>1
<1>2. w0 \in W
  OBVIOUS
<1>3. PICK f : Follows(f, W, w0, step)
  <2>1. step \in [Nat -> [W -> W]]
    <3> HIDE DEF On, W
    <3> QED BY <1>1
  <2> HIDE DEF W, w0, step
  <2> QED BY <1>2, <2>1, Recursion
<1>4. f \in [Nat -> W] /\ f[0] = w0 /\ \A n \in Nat : f[n + 1] = On(f[n])
  <2> HIDE DEF On, W, w0
  <2> QED BY <1>3 DEF Follows
<1>5. \A n \in Nat : \A s \in SUBSET S :
        f[n + 1][s] = IF s = {} THEN base ELSE op[pick[s]][f[n][s \ {pick[s]}]]
  <2> TAKE n \in Nat
  <2> DEFINE w == f[n]
  <2>1. f[n + 1] = On(w)
    <3> HIDE DEF On
    <3> QED BY <1>4
  <2> HIDE DEF w
  <2>2. \A s \in SUBSET S :
          On(w)[s] = IF s = {} THEN base ELSE op[pick[s]][w[s \ {pick[s]}]]
    OBVIOUS
  <2> HIDE DEF On
  <2> QED BY <2>1, <2>2 DEF w
<1>6. \A s \in SUBSET S : f[0][s] = base
  BY <1>4
<1>7. \A s \in SUBSET S : IsFiniteSet(s) /\ Cardinality(s) \in Nat
  BY FS_Subset, FS_CardinalityType
<1> DEFINE T == {n \in Nat : \A s \in SUBSET S : Cardinality(s) <= n => f[n + 1][s] = f[n][s]}
<1> HIDE DEF On, W, w0
<1>8. 0 \in T
  <2> SUFFICES ASSUME NEW s \in SUBSET S, Cardinality(s) <= 0 PROVE f[0 + 1][s] = f[0][s]
    OBVIOUS
  <2>1. s = {}
    BY <1>7, FS_EmptySet
  <2> QED BY <1>5, <1>6, <2>1
<1>9. ASSUME NEW n \in Nat, n \in T PROVE n + 1 \in T
  <2> SUFFICES ASSUME NEW s \in SUBSET S, Cardinality(s) <= n + 1
               PROVE  f[(n + 1) + 1][s] = f[n + 1][s]
    OBVIOUS
  <2>0. /\ f[(n + 1) + 1][s] = IF s = {} THEN base ELSE op[pick[s]][f[n + 1][s \ {pick[s]}]]
        /\ f[n + 1][s] = IF s = {} THEN base ELSE op[pick[s]][f[n][s \ {pick[s]}]]
    <3>1. n + 1 \in Nat
      OBVIOUS
    <3> HIDE DEF T
    <3> QED BY <1>5, <3>1
  <2>1. CASE s = {}
    BY <2>0, <2>1
  <2>2. CASE s # {}
    <3> DEFINE t == s \ {pick[s]}
    <3>1. pick[s] \in s /\ t \in SUBSET S
      BY <2>2
    <3>2. Cardinality(t) = Cardinality(s) - 1
      BY <1>7, <3>1, FS_RemoveElement
    <3>3. Cardinality(t) <= n
      BY <1>7, <3>2
    <3>4. f[n + 1][t] = f[n][t]
      BY <1>9, <3>1, <3>3
    <3> QED BY <2>0, <2>2, <3>4
  <2> QED BY <2>1, <2>2
<1>10. Nat \subseteq T
  <2> HIDE DEF T
  <2> QED BY <1>8, <1>9, InductionOnNat
<1> DEFINE N == Cardinality(S)
<1>11. N \in Nat /\ \A s \in SUBSET S : Cardinality(s) <= N
  BY FS_CardinalityType, FS_Subset
<1> HIDE DEF N
<1>12. \A s \in SUBSET S :
         f[N][s] = IF s = {} THEN base ELSE op[pick[s]][f[N][s \ {pick[s]}]]
  <2> TAKE s \in SUBSET S
  <2>1. N \in T
    BY <1>10, <1>11
  <2>2. f[N + 1][s] = f[N][s]
    BY <1>11, <2>1
  <2> QED BY <1>5, <1>11, <2>2
<1> QED BY <1>4, <1>11, <1>12 DEF W, Peels

\* What Compare makes of the solutions of an iteration: the best of them, or the best so
\* far if none is better.
LEMMA BestOf ==
  ASSUME NEW N \in Nat, NEW D, NEW seq \in [1 .. N -> D], NEW base \in D,
         \A x \in D : x.value \in Int
  PROVE  LET best == Ants!FoldLeft(Ants!Better, base, seq)
         IN /\ best = base \/ \E i \in 1 .. N : best = seq[i]
            /\ best.value <= base.value /\ \A i \in 1 .. N : best.value <= seq[i].value
<1> DEFINE S == 1 .. N
           top == [s \in SUBSET S |-> CHOOSE x \in s : \A y \in s : x >= y]
           B(x, y) == IF y.value < x.value THEN y ELSE x
           D0(h) == h = [s \in SUBSET (DOMAIN seq) |->
                       IF s = {} THEN base
                       ELSE B(h[s \ {CHOOSE x \in s : \A y \in s : x >= y}],
                              seq[CHOOSE x \in s : \A y \in s : x >= y])]
           h0 == CHOOSE h : D0(h)
           op == [i \in S |-> [x \in D |-> B(x, seq[i])]]
<1>1. Ants!FoldLeft(Ants!Better, base, seq) = h0[DOMAIN seq]
  BY DEF Ants!FoldLeft, Ants!MapThenFoldSet, Ants!Max, Ants!Better
<1>2. DOMAIN seq = S
  OBVIOUS
<1>3. IsFiniteSet(S)
  BY FS_Interval
<1>4. \A s \in SUBSET S : s # {} => top[s] \in s
  <2> SUFFICES ASSUME NEW s \in SUBSET S, s # {} PROVE \E x \in s : \A y \in s : x >= y
    OBVIOUS
  <2> DEFINE C == {N - x : x \in s}
  <2>1. C \in SUBSET Nat /\ C # {}
    <3>1. \A x \in s : N - x \in Nat
      OBVIOUS
    <3> QED BY <3>1
  <2>2. PICK z \in C : \A y \in C : z <= y
    <3> HIDE DEF C
    <3> QED BY <2>1, LeastNumber
  <2>3. PICK x \in s : z = N - x
    OBVIOUS
  <2>4. ASSUME NEW y \in s PROVE x >= y
    <3>1. N - x <= N - y
      BY <2>2, <2>3
    <3> QED BY <3>1
  <2> QED BY <2>4
<1>5. op \in [S -> [D -> D]]
  OBVIOUS
<1>6. PICK g : Peels(g, S, D, base, op, top)
  <2> HIDE DEF S, top, op
  <2> QED BY <1>3, <1>4, <1>5, SubsetRecursion
<1>7. \A h : D0(h) <=> h = [s \in SUBSET S |-> IF s = {} THEN base
                                               ELSE B(h[s \ {top[s]}], seq[top[s]])]
  OBVIOUS
<1>8. D0(g)
  <2>0. /\ g \in [SUBSET S -> D]
        /\ \A s \in SUBSET S : g[s] = IF s = {} THEN base ELSE op[top[s]][g[s \ {top[s]}]]
    <3> HIDE DEF top, op, S
    <3> QED BY <1>6 DEF Peels
  <2>1. ASSUME NEW s \in SUBSET S, s # {} PROVE g[s] = B(g[s \ {top[s]}], seq[top[s]])
    <3>1. top[s] \in S /\ s \ {top[s]} \in SUBSET S
      BY <1>4, <2>1
    <3>2. g[s \ {top[s]}] \in D
      BY <2>0, <3>1
    <3> HIDE DEF top, S, B
    <3>3. op[top[s]][g[s \ {top[s]}]] = B(g[s \ {top[s]}], seq[top[s]])
      BY <3>1, <3>2
    <3> QED BY <2>0, <2>1, <3>3
  <2> HIDE DEF top, S, B, op, D0
  <2>2. g = [s \in SUBSET S |-> IF s = {} THEN base ELSE B(g[s \ {top[s]}], seq[top[s]])]
    BY <2>0, <2>1
  <2> QED BY <1>7, <2>2
<1>9. D0(h0)
  <2> HIDE DEF D0
  <2> QED BY <1>8
<1>10. \A s \in SUBSET S :
         h0[s] = IF s = {} THEN base ELSE B(h0[s \ {top[s]}], seq[top[s]])
  <2> HIDE DEF D0, h0, top, S, B
  <2> QED BY <1>7, <1>9
<1> HIDE DEF D0, h0, top
<1> DEFINE Sound(s) ==
             /\ h0[s] = base \/ \E i \in s : h0[s] = seq[i]
             /\ h0[s].value <= base.value /\ \A i \in s : h0[s].value <= seq[i].value
           F == {s \in SUBSET S : Sound(s)}
<1> HIDE DEF F, Sound
<1>11. ASSUME NEW s \in SUBSET S, \A x \in s : s \ {x} \in F PROVE s \in F
  <2>0. base.value \in Int /\ (s \in F <=> Sound(s))
    BY DEF F
  <2>1. CASE s = {}
    <3>1. h0[s] = base
      <4> HIDE DEF B
      <4> QED BY <1>10, <2>1
    <3>2. Sound(s)
      BY <2>0, <2>1, <3>1 DEF Sound
    <3> QED BY <2>0, <3>2
  <2>2. CASE s # {}
    <3> DEFINE i == top[s]
               t == s \ {i}
    <3>0. i \in s
      BY <1>4, <2>2
    <3>1. i \in s /\ i \in S /\ t \in F /\ s = t \cup {i}
      BY <1>11, <3>0
    <3>2. h0[s] = B(h0[t], seq[i])
      BY <1>10, <2>2
    <3> HIDE DEF i, t
    <3>9. Sound(t) /\ t \subseteq s /\ t \in SUBSET S
      BY <3>1 DEF F
    <3>3. h0[t] \in D /\ seq[i] \in D /\ \A j \in s : seq[j] \in D
      BY <3>1, <3>9 DEF Sound
    <3>4. /\ h0[t].value \in Int /\ seq[i].value \in Int /\ base.value \in Int
          /\ \A j \in s : seq[j].value \in Int
      BY <3>3
    <3>5. CASE seq[i].value < h0[t].value
      BY <2>0, <3>1, <3>2, <3>4, <3>5, <3>9 DEF Sound
    <3>6. CASE ~(seq[i].value < h0[t].value)
      BY <2>0, <3>1, <3>2, <3>4, <3>6, <3>9 DEF Sound
    <3> QED BY <3>5, <3>6
  <2> QED BY <2>1, <2>2
<1>12. S \in F
  <2>1. SUBSET S \subseteq F
    <3> HIDE DEF S
    <3> QED BY <1>3, <1>11, InductionOnSubsets
  <2> QED BY <2>1
<1> QED BY <1>1, <1>2, <1>12 DEF F, Sound

\* Routes that no exchange shortens.
Settled(m) == {t \in Trips(m) : \A p \in Places : Delta(m, t.route, p) <= 0}

\* What there is before the first iteration has ended.
NoAnswer == [route |-> <<>>, value |-> MVal]

\* The ant's walk so far.
OnItsWay ==
  /\ own \in [route : Seq(Vertex), value : Int]
  /\ [route |-> own.route, value |-> RouteLength(costs, own.route)] \in Paths(costs)

AntsInv ==
  /\ costs \in Matrices /\ start_point \in Shuffles /\ iteration \in Nat
  /\ ant \in Ants!Ant
  /\ pc \in {"iterate", "walk", "two_opt", "compare", "done"}
  /\ pc = "walk" => OnItsWay
  /\ pc \in {"two_opt", "compare"} => own \in Trips(costs)
  /\ solutions \in [Ants!Ant -> Settled(costs) \cup {Ants!Unset}]
  /\ pc \in {"walk", "two_opt"} => \A a \in Ants!Ant : a < ant => solutions[a] \in Settled(costs)
  /\ pc = "compare" => \A a \in Ants!Ant : solutions[a] \in Settled(costs)
  /\ best_solution \in Settled(costs) \cup {NoAnswer}
  /\ pc \in {"iterate", "done"} /\ iteration > 0 =>
       /\ best_solution \in Settled(costs)
       /\ \A a \in Ants!Ant : best_solution.value <= solutions[a].value

LEMMA AntType ==
  ASSUME Ants!AntAssumption
  PROVE  /\ Ants!Ant = 1 .. Size \div 2 /\ Size \div 2 \in Nat /\ Size \div 2 > 0
         /\ 1 \in Ants!Ant
<1>1. Size \in Nat /\ Size > 3
  BY VertexFinite DEF Ants!AntAssumption
<1>2. Size \div 2 \in Nat /\ Size \div 2 > 0
  BY <1>1
<1> HIDE DEF Ants!AntAssumption
<1> QED BY <1>2 DEF Ants!Ant

LEMMA CostsType ==
  ASSUME Ants!AntAssumption, costs \in Matrices
  PROVE  /\ Costs(costs) /\ MVal \in Nat
         /\ \A v, w \in Vertex : v # w =>
              costs[<<v, w>>] \in Nat /\ Size * costs[<<v, w>>] < MVal
<1>1. /\ costs \in [Cells -> Int] /\ MVal \in Nat
      /\ \A e \in Cells : e[1] # e[2] => costs[e] > 0 /\ Size * costs[e] < MVal
  BY SameRoutes DEF Ants!AntAssumption
<1>2. ASSUME NEW v \in Vertex, NEW w \in Vertex
      PROVE  /\ costs[<<v, w>>] \in Int
             /\ v # w => costs[<<v, w>>] \in Nat /\ Size * costs[<<v, w>>] < MVal
  <2> DEFINE e == <<v, w>>
  <2>1. e \in Cells /\ e[1] = v /\ e[2] = w
    BY DEF Cells
  <2> HIDE DEF e
  <2>2. costs[e] \in Int
    BY <1>1, <2>1
  <2>3. v # w => costs[e] > 0 /\ Size * costs[e] < MVal
    BY <1>1, <2>1
  <2> QED BY <2>2, <2>3 DEF e
<1>3. Costs(costs)
  BY <1>2 DEF Costs
<1> QED BY <1>1, <1>2, <1>3

\* No route is as long as M_VAL.
LEMMA TripCheap ==
  ASSUME Ants!AntAssumption, costs \in Matrices, NEW t \in Trips(costs)
  PROVE  t.value < MVal
<1> DEFINE r == t.route
           f == Legs(costs, r)
           S == 1 .. Size
<1>1. /\ r \in Seq(Vertex) /\ Len(r) = Size + 1 /\ r[Size + 1] = r[1]
      /\ \A k, l \in S : r[k] = r[l] => k = l
      /\ t.value = RouteLength(costs, r)
  BY DEF Trips, IsRoute
<1>2. Size \in Nat /\ Size > 2 /\ IsFiniteSet(S) /\ Cardinality(S) = Size
  BY VertexFinite, FS_Interval
<1>3. /\ RouteLength(costs, r) = SumFunctionOnSet(f, S)
      /\ \A k \in S : f[k] = costs[<<r[k], r[k + 1]>>]
  <2>1. Len(r) - 1 = Size /\ Len(r) > 0
    BY <1>1, <1>2
  <2> QED BY <1>1, <2>1, CostsType, RouteLengthType
<1> HIDE DEF f, r
<1>4. \A k \in S : f[k] \in Nat /\ Size * f[k] < MVal
  <2> TAKE k \in S
  <2>1. r[k] \in Vertex /\ r[k + 1] \in Vertex
    BY <1>1, <1>2
  <2>2. r[k] # r[k + 1]
    <3>1. CASE k = Size
      <4>1. 1 \in S /\ 1 # k
        BY <1>2, <3>1
      <4> QED BY <1>1, <3>1, <4>1
    <3>2. CASE k # Size
      <4>1. k + 1 \in S /\ k + 1 # k
        BY <1>2, <3>2
      <4> QED BY <1>1, <4>1
    <3> QED BY <3>1, <3>2
  <2>3. costs[<<r[k], r[k + 1]>>] \in Nat /\ Size * costs[<<r[k], r[k + 1]>>] < MVal
    BY <2>1, <2>2, CostsType
  <2> QED BY <1>3, <2>3
<1>5. MVal - 1 \in Nat /\ MVal \in Nat
  <2>1. 1 \in S
    BY <1>2
  <2>2. f[1] \in Nat /\ Size * f[1] < MVal
    BY <1>4, <2>1
  <2>3. Size * f[1] \in Nat
    BY <1>2, <2>2
  <2> QED BY <2>2, <2>3, CostsType
<1>6. \A k \in S : f[k] \in Nat /\ Size * f[k] <= MVal - 1
  <2> TAKE k \in S
  <2>1. f[k] \in Nat /\ Size * f[k] < MVal
    BY <1>4
  <2>2. Size * f[k] \in Nat
    BY <1>2, <2>1
  <2> QED BY <1>5, <2>1, <2>2
<1> HIDE DEF S
<1>7. Size * SumFunctionOnSet(f, S) <= Size * (MVal - 1)
  BY <1>2, <1>5, <1>6, SumMean
<1>8. SumFunctionOnSet(f, S) \in Nat
  BY <1>2, <1>6, SumOfNaturals
<1>9. \A a, b \in Nat : Size * a <= Size * b => a <= b
  BY <1>2
<1>10. SumFunctionOnSet(f, S) <= MVal - 1
  BY <1>5, <1>7, <1>8, <1>9
<1> QED BY <1>1, <1>3, <1>5, <1>8, <1>10

LEMMA AntsInitInv ==
  ASSUME Ants!AntAssumption, Ants!Init
  PROVE  AntsInv
<1>1. 1 \in Ants!Ant /\ ant = 1
  BY AntType DEF Ants!Init
<1> QED BY <1>1 DEF Ants!Init, AntsInv, NoAnswer

\* An ant on its first vertex.
LEMMA Departs ==
  ASSUME Ants!AntAssumption, AntsInv, NEW a \in Ants!Ant, Ants!Depart(a), costs' = costs
  PROVE  OnItsWay'
<1> DEFINE v == start_point[a]
<1>1. v \in Vertex
  BY AntType, SameRoutes DEF AntsInv, Ants!AntAssumption
<1>2. own' = [route |-> <<v>>, value |-> 0]
  BY DEF Ants!Depart
<1>3. Costs(costs)
  BY CostsType DEF AntsInv
<1> HIDE DEF v
<1>4. <<v>> \in Seq(Vertex) /\ RouteLength(costs, <<v>>) = 0
  BY <1>1, <1>3, RouteLengthOne
<1>5. [route |-> <<v>>, value |-> 0] \in Paths(costs)
  BY <1>1, <1>3, PathStart
<1> QED BY <1>2, <1>4, <1>5 DEF OnItsWay

LEMMA WalkInv ==
  ASSUME Ants!AntAssumption, AntsInv, Ants!Walk
  PROVE  AntsInv'
<1>1. /\ pc = "walk" /\ OnItsWay /\ Costs(costs) /\ Vertex = Ants!Vertex
      /\ UNCHANGED <<params, costs, start_point, iteration, ant, pc, solutions,
                     best_solution, interrupted>>
  BY CostsType, SameRoutes DEF Ants!Walk, Ants!input, AntsInv
<1>2. PICK w \in Ants!ListPoints : own' = [own EXCEPT !.route = Append(@, w)]
  BY DEF Ants!Walk, Ants!Candidates, Ants!CandidateList
<1>3. w \in Vertex \ ToSet(own.route)
  BY <1>1 DEF Ants!ListPoints, Ants!ToSet, ToSet
<1> DEFINE r == own.route
           s == Append(r, w)
           sol == [route |-> r, value |-> RouteLength(costs, r)]
<1>4. /\ own \in [route : Seq(Vertex), value : Int] /\ sol \in Paths(costs)
      /\ sol.route = r /\ r \in Seq(Vertex)
  BY <1>1 DEF OnItsWay
<1>5. own' = [own EXCEPT !.route = s]
  BY <1>2, <1>4
<1>6. own' \in [route : Seq(Vertex), value : Int] /\ own'.route = s
  <2>1. s \in Seq(Vertex)
    BY <1>3, <1>4
  <2> HIDE DEF s, sol
  <2>2. own' \in [route : Seq(Vertex), value : Int]
    BY <1>4, <1>5, <2>1
  <2>3. own'.route = s
    BY <1>4, <1>5
  <2> QED BY <2>2, <2>3
<1> HIDE DEF sol
<1>7. [route |-> Append(sol.route, w), value |-> sol.value + costs[<<Last(sol.route), w>>]]
        \in Paths(costs)
  BY <1>1, <1>3, <1>4, PathAppend
<1>8. [route |-> s, value |-> RouteLength(costs, s)] \in Paths(costs)
  BY <1>4, <1>7 DEF Paths
<1>9. OnItsWay'
  BY <1>1, <1>6, <1>8 DEF OnItsWay
<1> QED BY <1>1, <1>9 DEF AntsInv

LEMMA ReturnInv ==
  ASSUME Ants!AntAssumption, AntsInv, Ants!Return
  PROVE  AntsInv'
<1>1. /\ pc = "walk" /\ pc' = "two_opt" /\ OnItsWay /\ Costs(costs)
      /\ UNCHANGED <<params, costs, start_point, iteration, ant, solutions,
                     best_solution, interrupted>>
  BY CostsType DEF Ants!Return, Ants!input, AntsInv
<1> DEFINE r == own.route
           s == Append(r, Head(r))
           sol == [route |-> r, value |-> RouteLength(costs, r)]
<1>2. own' = [route |-> s, value |-> RouteLength(costs, s)]
  BY SameRoutes DEF Ants!Return
<1>3. sol \in Paths(costs) /\ sol.route = r
  BY <1>1 DEF OnItsWay
<1>4. Vertex \subseteq ToSet(r)
  BY SameRoutes DEF Ants!Return, Ants!ListPoints, Ants!ToSet, ToSet
<1>5. /\ r \in Seq(Vertex) /\ Len(r) = Size /\ Head(r) = r[1]
  <2>1. r \in Seq(Vertex) /\ Len(r) = Size
    BY <1>3, <1>4, PathOnto DEF Paths
  <2> QED BY <2>1, VertexFinite
<1>6. RoundTrip(costs, sol) \in Trips(costs)
  BY <1>1, <1>3, <1>5, RoundTripType
<1>7. RoundTrip(costs, sol).route = s
  BY <1>5 DEF RoundTrip
<1> HIDE DEF r, sol
<1>8. own' = RoundTrip(costs, sol)
  <2>1. RoundTrip(costs, sol).value = RouteLength(costs, s)
    BY <1>6, <1>7 DEF Trips
  <2>2. RoundTrip(costs, sol) = [route |-> s, value |-> RoundTrip(costs, sol).value]
    BY <1>6, <1>7 DEF Trips
  <2> QED BY <1>2, <2>1, <2>2
<1>9. own' \in Trips(costs)'
  BY <1>1, <1>6, <1>8
<1> QED BY <1>1, <1>9 DEF AntsInv

LEMMA ImproveInv ==
  ASSUME Ants!AntAssumption, AntsInv, Ants!Improve
  PROVE  AntsInv'
<1>1. /\ pc = "two_opt" /\ pc' = "two_opt" /\ own \in Trips(costs) /\ Costs(costs)
      /\ UNCHANGED <<params, costs, start_point, iteration, ant, solutions,
                     best_solution, interrupted>>
  BY CostsType DEF Ants!Improve, Ants!input, AntsInv
<1>2. own' = Pass(costs, own)
  BY SamePass DEF Ants!Improve
<1>3. own' \in Trips(costs)
  BY <1>1, <1>2, PassType
<1> QED BY <1>1, <1>3 DEF AntsInv

LEMMA ArriveInv ==
  ASSUME Ants!AntAssumption, AntsInv, Ants!Arrive
  PROVE  AntsInv'
<1>1. /\ pc = "two_opt" /\ own \in Trips(costs) /\ Costs(costs)
      /\ UNCHANGED <<params, costs, start_point, iteration, best_solution, interrupted>>
      /\ Pass(costs, own) = own /\ solutions' = [solutions EXCEPT ![ant] = own]
  BY CostsType, SamePass DEF Ants!Arrive, Ants!input, AntsInv
<1>2. own \in Settled(costs)
  <2>1. own.value \in Int
    BY <1>1 DEF Trips
  <2>2. \A p \in Places : Delta(costs, own.route, p) <= 0
    BY <1>1, <2>1, PassType
  <2> QED BY <1>1, <2>2 DEF Settled
<1>3. /\ ant \in Ants!Ant /\ Ants!Ant = 1 .. Size \div 2 /\ Size \div 2 \in Nat
      /\ solutions \in [Ants!Ant -> Settled(costs) \cup {Ants!Unset}]
      /\ \A a \in Ants!Ant : a < ant => solutions[a] \in Settled(costs)
  BY <1>1, AntType DEF AntsInv
<1>4. /\ solutions' \in [Ants!Ant -> Settled(costs) \cup {Ants!Unset}]
      /\ \A a \in Ants!Ant : a <= ant => solutions'[a] \in Settled(costs)
  <2>1. solutions' \in [Ants!Ant -> Settled(costs) \cup {Ants!Unset}]
    BY <1>1, <1>2, <1>3
  <2>2. ASSUME NEW a \in Ants!Ant, a <= ant PROVE solutions'[a] \in Settled(costs)
    <3>1. CASE a = ant
      BY <1>1, <1>2, <1>3, <3>1
    <3>2. CASE a # ant
      <4>1. a < ant
        BY <1>3, <2>2, <3>2
      <4> QED BY <1>1, <1>3, <3>2, <4>1
    <3> QED BY <3>1, <3>2
  <2> QED BY <2>1, <2>2
<1>5. CASE ant + 1 \in Ants!Ant
  <2>1. ant' = ant + 1 /\ pc' = "walk" /\ Ants!Depart(ant + 1)
    BY <1>5 DEF Ants!Arrive
  <2>2. OnItsWay'
    BY <1>1, <1>5, <2>1, Departs
  <2>3. \A a \in Ants!Ant : a < ant + 1 => solutions'[a] \in Settled(costs)
    BY <1>3, <1>4
  <2> QED BY <1>1, <1>4, <1>5, <2>1, <2>2, <2>3 DEF AntsInv
<1>6. CASE ant + 1 \notin Ants!Ant
  <2>1. ant' = ant /\ own' = own /\ pc' = "compare"
    BY <1>6 DEF Ants!Arrive
  <2>2. \A a \in Ants!Ant : a <= ant
    BY <1>3, <1>6
  <2> QED BY <1>1, <1>3, <1>4, <2>1, <2>2 DEF AntsInv
<1> QED BY <1>5, <1>6

LEMMA IterateInv ==
  ASSUME Ants!AntAssumption, AntsInv, Ants!Iterate
  PROVE  AntsInv'
<1>1. /\ pc = "iterate"
      /\ UNCHANGED <<params, costs, start_point, iteration, solutions, best_solution,
                     interrupted>>
  BY DEF Ants!Iterate, Ants!input
<1>2. CASE Ants!GoesOn
  <2>1. pc' = "walk" /\ ant' = 1 /\ Ants!Depart(1)
    BY <1>2 DEF Ants!Iterate
  <2>2. 1 \in Ants!Ant /\ \A a \in Ants!Ant : ~(a < 1)
    BY AntType
  <2>3. OnItsWay'
    BY <1>1, <2>1, <2>2, Departs
  <2> QED BY <1>1, <2>1, <2>2, <2>3 DEF AntsInv
<1>3. CASE ~Ants!GoesOn
  <2>1. pc' = "done" /\ ant' = ant /\ own' = own
    BY <1>3 DEF Ants!Iterate
  <2> QED BY <1>1, <2>1 DEF AntsInv
<1> QED BY <1>2, <1>3

LEMMA CompareInv ==
  ASSUME Ants!AntAssumption, AntsInv, Ants!Compare
  PROVE  AntsInv' /\ best_solution'.value <= best_solution.value
<1>1. /\ pc = "compare" /\ pc' = "iterate" /\ iteration' = iteration + 1
      /\ UNCHANGED <<params, costs, start_point, ant, own, solutions, interrupted>>
      /\ best_solution' = Ants!FoldLeft(Ants!Better, best_solution, solutions)
  BY DEF Ants!Compare, Ants!input
<1> DEFINE N == Size \div 2
           D == Settled(costs) \cup {NoAnswer}
<1>2. N \in Nat /\ N > 0 /\ Ants!Ant = 1 .. N /\ MVal \in Nat
  BY AntType, CostsType DEF AntsInv
<1>3. /\ \A a \in 1 .. N : solutions[a] \in Settled(costs)
      /\ solutions \in [1 .. N -> D] /\ best_solution \in D
  BY <1>1, <1>2 DEF AntsInv
<1>4. \A t \in Settled(costs) : t.value \in Int /\ t.value < MVal
  BY TripCheap DEF Settled, Trips, AntsInv
<1>5. \A x \in D : x.value \in Int
  BY <1>2, <1>4 DEF NoAnswer
<1> HIDE DEF N, D
<1>6. /\ best_solution' = best_solution \/ \E i \in 1 .. N : best_solution' = solutions[i]
      /\ best_solution'.value <= best_solution.value
      /\ \A i \in 1 .. N : best_solution'.value <= solutions[i].value
  <2> DEFINE best == Ants!FoldLeft(Ants!Better, best_solution, solutions)
  <2>1. /\ best = best_solution \/ \E i \in 1 .. N : best = solutions[i]
        /\ best.value <= best_solution.value
        /\ \A i \in 1 .. N : best.value <= solutions[i].value
    BY <1>2, <1>3, <1>5, BestOf
  <2>2. best_solution' = best
    BY <1>1
  <2> HIDE DEF best
  <2> QED BY <2>1, <2>2
<1>7. best_solution' \in Settled(costs)
  <2> SUFFICES ASSUME best_solution' = NoAnswer PROVE FALSE
    BY <1>3, <1>6 DEF D
  <2>1. 1 \in 1 .. N
    BY <1>2
  <2>2. solutions[1].value \in Int /\ solutions[1].value < MVal
    BY <1>3, <1>4, <2>1
  <2>3. MVal <= solutions[1].value
    BY <1>6, <2>1 DEF NoAnswer
  <2> QED BY <1>2, <2>2, <2>3
<1>8. AntsInv'
  BY <1>1, <1>2, <1>6, <1>7 DEF AntsInv
<1> QED BY <1>6, <1>8

LEMMA AntsStepInv ==
  ASSUME Ants!AntAssumption, AntsInv, [Ants!Next]_(Ants!vars)
  PROVE  /\ AntsInv'
         /\ best_solution' = best_solution \/ best_solution'.value <= best_solution.value
<1>1. CASE Ants!Walk
  BY <1>1, WalkInv DEF Ants!Walk
<1>2. CASE Ants!Return
  BY <1>2, ReturnInv DEF Ants!Return
<1>3. CASE Ants!Improve
  BY <1>3, ImproveInv DEF Ants!Improve
<1>4. CASE Ants!Arrive
  BY <1>4, ArriveInv DEF Ants!Arrive
<1>5. CASE Ants!Iterate
  BY <1>5, IterateInv DEF Ants!Iterate
<1>6. CASE Ants!Compare
  BY <1>6, CompareInv
<1>7. CASE Ants!Signal \/ UNCHANGED Ants!vars
  <2>1. UNCHANGED <<params, costs, start_point, iteration, ant, pc, own, solutions,
                    best_solution>>
    BY <1>7 DEF Ants!Signal, Ants!vars, Ants!input
  <2> QED BY <2>1 DEF AntsInv, OnItsWay
<1> QED BY <1>1, <1>2, <1>3, <1>4, <1>5, <1>6, <1>7 DEF Ants!Next, Ants!Step

LEMMA AntsValues ==
  ASSUME Ants!AntAssumption, AntsInv
  PROVE  /\ Ants!ValueIsLength
         /\ best_solution.value \in Int
         /\ pc = "done" /\ iteration > 0 =>
              /\ best_solution.route # <<>>
              /\ \A a \in Ants!Ant : best_solution.value <= solutions[a].value
              /\ \A p \in Ants!Places : Ants!Delta(costs, best_solution.route, p) <= 0
<1>1. /\ \A t \in Trips(costs) : /\ IsRoute(t.route) /\ t.value = RouteLength(costs, t.route)
                                 /\ t.value \in Int /\ t.route # <<>>
      /\ NoAnswer.route = <<>> /\ NoAnswer.value \in Int /\ Ants!Unset.route = <<>>
  <2>1. MVal \in Int
    BY CostsType DEF AntsInv
  <2>2. ASSUME NEW t \in Trips(costs)
        PROVE  /\ IsRoute(t.route) /\ t.value = RouteLength(costs, t.route)
               /\ t.value \in Int /\ t.route # <<>>
    <3>1. IsRoute(t.route) /\ t.value = RouteLength(costs, t.route) /\ t.value \in Int
      BY DEF Trips
    <3>2. Len(t.route) = Size + 1 /\ Size \in Nat
      BY <3>1, VertexFinite DEF IsRoute
    <3> QED BY <3>1, <3>2
  <2> QED BY <2>1, <2>2 DEF NoAnswer, Ants!Unset
<1>2. /\ best_solution \in Trips(costs) \/ best_solution = NoAnswer
      /\ \A a \in Ants!Ant : solutions[a] \in Trips(costs) \/ solutions[a] = Ants!Unset
      /\ pc \in {"two_opt", "compare"} => own \in Trips(costs)
  BY DEF AntsInv, Settled
<1>3. \A s \in Ants!ToSet(solutions) : \E a \in Ants!Ant : s = solutions[a]
  BY DEF Ants!ToSet, AntsInv
<1>4. ASSUME NEW s \in {best_solution} \cup Ants!ToSet(solutions)
                         \cup (IF pc \in {"two_opt", "compare"} THEN {own} ELSE {}),
             s.route # <<>>
      PROVE  Ants!IsRoute(s.route) /\ s.value = Ants!RouteLength(costs, s.route)
  <2>1. s \in Trips(costs)
    BY <1>1, <1>2, <1>3, <1>4
  <2> QED BY <1>1, <2>1, SameRoutes
<1>5. Ants!ValueIsLength
  BY <1>4 DEF Ants!ValueIsLength
<1>6. ASSUME pc = "done", iteration > 0
      PROVE  /\ best_solution.route # <<>>
             /\ \A a \in Ants!Ant : best_solution.value <= solutions[a].value
             /\ \A p \in Ants!Places : Ants!Delta(costs, best_solution.route, p) <= 0
  <2>1. /\ best_solution \in Settled(costs)
        /\ \A a \in Ants!Ant : best_solution.value <= solutions[a].value
    BY <1>6 DEF AntsInv
  <2> QED BY <1>1, <2>1, SameRoutes DEF Settled
<1> QED BY <1>1, <1>2, <1>5, <1>6

\* aco_tsp::solve, whatever the draws, the candidate lists and the moment of a signal:
\* every solution of an ant, and the answer, is a route over all the vertices whose value,
\* which two_opt only updates by differences, is the length calc_value would give it.
THEOREM ValueIsLengthHolds ==
  Ants!AntAssumption /\ Ants!Spec => []Ants!ValueIsLength
<1> SUFFICES ASSUME Ants!AntAssumption PROVE Ants!Spec => []Ants!ValueIsLength
  OBVIOUS
<1>1. Ants!Init => AntsInv
  BY AntsInitInv
<1>2. AntsInv /\ [Ants!Next]_(Ants!vars) => AntsInv'
  BY AntsStepInv
<1>3. AntsInv => Ants!ValueIsLength
  BY AntsValues
<1> QED BY <1>1, <1>2, <1>3, PTL DEF Ants!Spec

\* The loop over the solutions in aco_tsp::solve: the best route is never given up for a
\* worse one, from M_VAL on, which every route is shorter than; when the search ends, also
\* by a signal, an iteration made has left an answer as good as each ant's of the last
\* one, and no exchange that two_opt tries shortens it.
THEOREM BestOfAllHolds ==
  Ants!AntAssumption /\ Ants!Spec => Ants!BestOfAll
<1> SUFFICES ASSUME Ants!AntAssumption PROVE Ants!Spec => Ants!BestOfAll
  OBVIOUS
<1> DEFINE Answer ==
      pc = "done" /\ iteration > 0 =>
        /\ best_solution.route # <<>>
        /\ \A a \in Ants!Ant : best_solution.value <= solutions[a].value
        /\ \A p \in Ants!Places : Ants!Delta(costs, best_solution.route, p) <= 0
<1>1. Ants!Init => AntsInv
  BY AntsInitInv
<1>2. AntsInv /\ [Ants!Next]_(Ants!vars) => AntsInv'
  BY AntsStepInv
<1>3. AntsInv => Answer
  BY AntsValues
<1>4. AntsInv /\ [Ants!Next]_(Ants!vars)
        => [best_solution'.value <= best_solution.value]_(Ants!vars)
  <2> SUFFICES ASSUME AntsInv, [Ants!Next]_(Ants!vars)
               PROVE  best_solution'.value <= best_solution.value
    OBVIOUS
  <2>1. best_solution.value \in Int
    BY AntsValues
  <2> QED BY <2>1, AntsStepInv
<1>5. Ants!Spec => []Answer /\ [][best_solution'.value <= best_solution.value]_(Ants!vars)
  <2> HIDE DEF Answer
  <2> QED BY <1>1, <1>2, <1>3, <1>4, PTL DEF Ants!Spec
<1> QED BY <1>5 DEF Ants!BestOfAll
=====
