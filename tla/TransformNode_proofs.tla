------------------------ MODULE TransformNode_proofs ------------------------
(***************************************************************************)
(* The bound of every node on a path down the search tree has its          *)
(* certificate, for any costs, constraints and number of levels: the       *)
(* labels of augment lead back to the root of its tree over cells with     *)
(* reduced cost zero, dual_update keeps the duals feasible and those cells *)
(* as they are, and a half-flipped path is an assignment too.              *)
(* What such a certificate is worth, the duality of assignments, makes the *)
(* value of a node a bound of its tours; the lemmas on least numbers,      *)
(* finite sets and sums that this takes serve AsymmetricSolver_proofs too. *)
(***************************************************************************)
EXTENDS TransformNode, FiniteSetTheorems, WellFoundedInduction, TLAPS

Spread == MVal - MinVal

\* A column that the solver has not assigned still has the dual it came with.
Floor == -(level * Spread)

TypeOK ==
  /\ original \in Matrices /\ matrix \in [Cells -> Int]
  /\ level \in 0 .. MaxLevel
  /\ rows \subseteq Vertex /\ cols \subseteq Vertex
  /\ pc \in {"reduce", "match", "adopt", "next", "scan", "select", "flip", "done"}
  /\ dual_u \in [Vertex -> Int] /\ dual_v \in [Vertex -> Int]
  /\ primal \in [Vertex -> Vertex \cup {None}]
  /\ row_ \in [Vertex -> Vertex \cup {None}]
  /\ pred_ \in [Vertex -> Vertex \cup {None}]
  /\ pi \in [Vertex -> Int]

Square == Cardinality(rows) = Cardinality(cols)

\* What the cost matrix of a node is made of.
Costs == \A p \in Cells : matrix[p] = IF p \in excluded THEN MVal ELSE original[p]

\* The first solution is empty.
Empty == pc = "reduce" => level = 0 /\ \A r \in Vertex : primal[r] = None

Injective ==
  \A q, r \in rows : primal[q] # None /\ primal[q] = primal[r] => q = r

\* row_ is the inverse of primal, but for the column that is on the move.
Assigned(c) ==
  /\ row_[c] \in rows \cup {None}
  /\ \A r \in rows : primal[r] = c <=> row_[c] = r

Inverted ==
  /\ pc \in {"next", "scan", "select", "flip", "done"} =>
       \A c \in cols : (pc = "flip" => c # j) => Assigned(c)
  /\ pc = "flip" => \A r \in rows : primal[r] # j

\* A labelled column has a scanned row with a zero, and from every scanned row but the
\* root one gets on to a labelled column.
Labelled ==
  pc \in {"scan", "select", "flip"} =>
    /\ root \in rows /\ primal[root] = None
    /\ scanned_u \subseteq rows /\ labeled_v \subseteq cols /\ scanned_v \subseteq labeled_v
    /\ \A c \in labeled_v : pred_[c] \in scanned_u /\ Tight(pred_[c], c)
    /\ \A r \in scanned_u : r = root \/ primal[r] \in labeled_v

\* The tree that augment grows: its rows, the one to be scanned included, are the root
\* and those assigned to the columns scanned.
Tree == scanned_u \cup {r \in {i} : pc = "scan"}

Grown ==
  pc \in {"scan", "select"} =>
    /\ i \in rows /\ (pc = "select" => i \in scanned_u)
    /\ \A c \in scanned_v : row_[c] \in Tree
    /\ \A r \in Tree : r = root \/ primal[r] \in scanned_v

Path == pc = "flip" => j \in labeled_v

\* pi is the least reduced cost between the scanned rows and a column not labelled.
Nearest(c) ==
  IF scanned_u = {} THEN pi[c] = BigValue
  ELSE /\ pred_[c] \in scanned_u /\ pi[c] = Reduced(pred_[c], c)
       /\ \A r \in scanned_u : pi[c] <= Reduced(r, c)

Distances == pc \in {"scan", "select"} => \A c \in cols \ labeled_v : Nearest(c)

\* The duals grow by no more than the spread of the costs at every level.
Bounded ==
  pc # "reduce" =>
    /\ \A r \in rows : MinVal <= dual_u[r]
    /\ \A c \in cols : Floor - Spread <= dual_v[c]
    /\ \A c \in cols : pc \in {"match", "adopt"} \/ row_[c] = None => Floor <= dual_v[c]

Inv ==
  /\ TypeOK /\ Square /\ Costs /\ Empty /\ Injective /\ Inverted /\ Labelled /\ Grown
  /\ Path /\ Distances /\ Bounded /\ DualFeasible /\ Slack

----------------------------------------------------------------------------
(* Induction over numbers and finite sets, with the set of those that have *)
(* the property in the place of the property, and sums.                    *)

LEMMA LeastNumber ==
  ASSUME NEW T \in SUBSET Nat, T # {}
  PROVE  \E n \in T : \A k \in T : n <= k
<1>1. PICK m \in T : TRUE
  OBVIOUS
<1> DEFINE Below == {n \in T : n <= m}
           F == {0 .. n - 1 : n \in Below}
           S == 0 .. m
<1>2. F \subseteq FiniteSubsetsOf(S) /\ F # {}
  <2>1. ASSUME NEW n \in Below PROVE 0 .. n - 1 \in SUBSET S /\ IsFiniteSet(0 .. n - 1)
    BY FS_Interval
  <2>2. m \in Below
    OBVIOUS
  <2> QED BY <2>1, <2>2 DEF FiniteSubsetsOf
<1>3. PICK U \in F : \A V \in F : <<V, U>> \notin StrictSubsetOrdering(S)
  <2> HIDE DEF F, S
  <2> QED BY <1>2, WFMin, FS_StrictSubsetOrderingWellFounded
<1>4. PICK n \in Below : U = 0 .. n - 1
  BY <1>3
<1>5. ASSUME NEW k \in T, k < n PROVE FALSE
  <2>1. k \in Below /\ 0 .. k - 1 \in F
    BY <1>5
  <2>2. 0 .. k - 1 \in SUBSET S /\ 0 .. n - 1 \in SUBSET S
    BY <1>2, <1>3, <1>4, <2>1
  <2>3. 0 .. k - 1 \subseteq 0 .. n - 1 /\ k \in 0 .. n - 1 /\ k \notin 0 .. k - 1
    BY <1>5
  <2>4. <<0 .. k - 1, 0 .. n - 1>> \in StrictSubsetOrdering(S)
    <3> DEFINE ss == <<0 .. k - 1, 0 .. n - 1>>
    <3> HIDE DEF S
    <3>1. ss \in (SUBSET S) \X (SUBSET S)
      BY <2>2
    <3>2. ss[1] \subseteq ss[2] /\ ss[1] # ss[2]
      BY <2>3
    <3>3. ss \in StrictSubsetOrdering(S)
      <4> HIDE DEF ss
      <4> QED BY <3>1, <3>2 DEF StrictSubsetOrdering
    <3> QED BY <3>3
  <2> QED BY <1>3, <1>4, <2>1, <2>4
<1> QED BY <1>5

\* The numbers that are not in T have no least one.
LEMMA InductionOnNat ==
  ASSUME NEW T, 0 \in T, \A n \in Nat : n \in T => n + 1 \in T
  PROVE  Nat \subseteq T
<1> SUFFICES ASSUME Nat \ T # {} PROVE FALSE
  OBVIOUS
<1>1. PICK n \in Nat \ T : \A k \in Nat \ T : n <= k
  BY LeastNumber
<1>2. n - 1 \in Nat /\ n - 1 \in T
  BY <1>1
<1> QED BY <1>1, <1>2

\* A smallest set that is not in F has smaller ones that are not.
LEMMA InductionOnSubsets ==
  ASSUME NEW S, IsFiniteSet(S), NEW F,
         \A T \in SUBSET S : (\A x \in T : T \ {x} \in F) => T \in F
  PROVE  SUBSET S \subseteq F
<1> SUFFICES ASSUME NEW U \in SUBSET S, U \notin F PROVE FALSE
  OBVIOUS
<1> DEFINE Bad == {n \in Nat : \E T \in SUBSET S : T \notin F /\ Cardinality(T) = n}
<1>1. \A T \in SUBSET S : IsFiniteSet(T) /\ Cardinality(T) \in Nat
  BY FS_Subset, FS_CardinalityType
<1>2. PICK n \in Bad : \A k \in Bad : n <= k
  <2>1. Cardinality(U) \in Bad
    BY <1>1
  <2>2. Bad \in SUBSET Nat
    OBVIOUS
  <2> HIDE DEF Bad
  <2> QED BY <2>1, <2>2, LeastNumber
<1>3. PICK T \in SUBSET S : T \notin F /\ Cardinality(T) = n
  BY <1>2
<1>4. ASSUME NEW x \in T PROVE T \ {x} \in F
  <2>1. Cardinality(T \ {x}) = n - 1
    BY <1>1, <1>3, FS_RemoveElement
  <2> QED BY <1>1, <1>2, <2>1
<1> QED BY <1>3, <1>4

\* What the sum over each subset of S must be.
Chosen(s) == CHOOSE x \in s : TRUE
Summed(f, g, s) == IF s = {} THEN 0 ELSE f[Chosen(s)] + g[s \ {Chosen(s)}]
SumsOf(f, S) == {g \in [SUBSET S -> Int] : \A s \in SUBSET S : g[s] = Summed(f, g, s)}

\* The recursive function that SumFunctionOnSet names is defined for sets of every size.
LEMMA SumsExist ==
  ASSUME NEW S, IsFiniteSet(S), NEW f, \A x \in S : f[x] \in Int
  PROVE  SumsOf(f, S) # {}
<1> DEFINE SumsUpTo(n) == {g \in [SUBSET S -> Int] :
                         \A s \in SUBSET S : Cardinality(s) <= n => g[s] = Summed(f, g, s)}
           T == {n \in Nat : SumsUpTo(n) # {}}
<1>1. \A s \in SUBSET S : IsFiniteSet(s) /\ Cardinality(s) \in Nat /\ Cardinality(s) <= Cardinality(S)
  BY FS_Subset, FS_CardinalityType
<1>2. \A s \in SUBSET S : s # {} =>
        /\ Chosen(s) \in s /\ s \ {Chosen(s)} \in SUBSET S
        /\ Cardinality(s \ {Chosen(s)}) = Cardinality(s) - 1
  BY <1>1, FS_RemoveElement DEF Chosen
<1>3. 0 \in T
  <2> DEFINE g == [s \in SUBSET S |-> 0]
  <2>1. \A s \in SUBSET S : Cardinality(s) <= 0 => s = {}
    BY <1>1, FS_EmptySet
  <2>2. g \in SumsUpTo(0)
    BY <2>1 DEF Summed
  <2> QED BY <2>2
<1>4. ASSUME NEW n \in Nat, n \in T PROVE n + 1 \in T
  <2>1. PICK g \in SumsUpTo(n) : TRUE
    BY <1>4
  <2> DEFINE h == [s \in SUBSET S |-> IF Cardinality(s) <= n THEN g[s] ELSE Summed(f, g, s)]
  <2>2. ASSUME NEW s \in SUBSET S PROVE Summed(f, g, s) \in Int
    <3>1. CASE s = {}
      BY <3>1 DEF Summed
    <3>2. CASE s # {}
      <4>1. f[Chosen(s)] \in Int /\ g[s \ {Chosen(s)}] \in Int
        BY <1>2, <2>1, <3>2
      <4> QED BY <3>2, <4>1 DEF Summed
    <3> QED BY <3>1, <3>2
  <2>3. h \in [SUBSET S -> Int]
    BY <2>1, <2>2
  <2>4. ASSUME NEW s \in SUBSET S, Cardinality(s) <= n + 1 PROVE h[s] = Summed(f, h, s)
    <3>1. h[s] = Summed(f, g, s)
      BY <2>1
    <3>2. s # {} => h[s \ {Chosen(s)}] = g[s \ {Chosen(s)}]
      BY <1>1, <1>2, <2>4
    <3> HIDE DEF h
    <3> QED BY <3>1, <3>2 DEF Summed
  <2>5. h \in SumsUpTo(n + 1)
    BY <2>3, <2>4
  <2> HIDE DEF h
  <2> QED BY <2>5
<1>5. Cardinality(S) \in T
  <2> HIDE DEF T
  <2> QED BY <1>1, <1>3, <1>4, InductionOnNat
<1>6. PICK g \in SumsUpTo(Cardinality(S)) : TRUE
  BY <1>5
<1>7. g \in SumsOf(f, S)
  BY <1>1, <1>6 DEF SumsOf
<1> QED BY <1>7

LEMMA SumsUnique ==
  ASSUME NEW S, IsFiniteSet(S), NEW f, NEW h, NEW T \in SUBSET S, NEW g \in SumsOf(f, S),
         h = [s \in SUBSET T |-> Summed(f, h, s)]
  PROVE  \A s \in SUBSET T : h[s] = g[s]
<1> DEFINE F == {s \in SUBSET T : h[s] = g[s]}
<1>1. IsFiniteSet(T)
  BY FS_Subset
<1>2. ASSUME NEW s \in SUBSET T, \A x \in s : s \ {x} \in F
      PROVE  s \in F
  <2>1. h[s] = Summed(f, h, s) /\ g[s] = Summed(f, g, s)
    <3> HIDE DEF F
    <3> QED BY DEF SumsOf
  <2>2. s # {} => h[s \ {Chosen(s)}] = g[s \ {Chosen(s)}]
    BY <1>2 DEF Chosen
  <2> QED BY <2>1, <2>2 DEF Summed
<1>3. SUBSET T \subseteq F
  <2> HIDE DEF F
  <2> QED BY <1>1, <1>2, InductionOnSubsets
<1> QED BY <1>3

\* One summand more: which one the sum begins with does not matter.
LEMMA SumsStep ==
  ASSUME NEW S, IsFiniteSet(S), NEW f, \A x \in S : f[x] \in Int, NEW g \in SumsOf(f, S)
  PROVE  \A s \in SUBSET S : \A x \in s : g[s] = f[x] + g[s \ {x}]
<1> DEFINE F == {s \in SUBSET S : \A x \in s : g[s] = f[x] + g[s \ {x}]}
<1>1. \A s \in SUBSET S : g[s] \in Int /\ (s # {} => g[s] = f[Chosen(s)] + g[s \ {Chosen(s)}])
  BY DEF SumsOf, Summed
<1>2. ASSUME NEW s \in SUBSET S, \A x \in s : s \ {x} \in F, NEW x \in s
      PROVE  g[s] = f[x] + g[s \ {x}]
  <2> DEFINE y == Chosen(s)
  <2>1. y \in s /\ g[s] = f[y] + g[s \ {y}]
    BY <1>1 DEF Chosen
  <2>2. CASE x # y
    <3> HIDE DEF y
    <3>1. g[s \ {y}] = f[x] + g[(s \ {y}) \ {x}]
      BY <1>2, <2>1, <2>2
    <3>2. g[s \ {x}] = f[y] + g[(s \ {x}) \ {y}]
      BY <1>2, <2>1, <2>2
    <3>3. (s \ {x}) \ {y} = (s \ {y}) \ {x} /\ (s \ {x}) \ {y} \in SUBSET S
      OBVIOUS
    <3>4. f[x] \in Int /\ f[y] \in Int /\ g[(s \ {x}) \ {y}] \in Int
      BY <1>1, <2>1, <3>3
    <3> DEFINE r == g[(s \ {x}) \ {y}]
    <3>5. g[s \ {y}] = f[x] + r /\ g[s \ {x}] = f[y] + r
      BY <3>1, <3>2, <3>3
    <3>6. r \in Int
      BY <3>4
    <3> HIDE DEF r
    <3> QED BY <2>1, <3>4, <3>5, <3>6
  <2> QED BY <2>1, <2>2
<1>3. SUBSET S \subseteq F
  <2>1. \A s \in SUBSET S : (\A x \in s : s \ {x} \in F) => s \in F
    BY <1>2
  <2> HIDE DEF F
  <2> QED BY <2>1, InductionOnSubsets
<1> QED BY <1>3

LEMMA SumOnSubset ==
  ASSUME NEW S, IsFiniteSet(S), NEW f, \A x \in S : f[x] \in Int,
         NEW g \in SumsOf(f, S), NEW T \in SUBSET S
  PROVE  SumFunctionOnSet(f, T) = g[T]
<1> DEFINE D(h) == h = [s \in SUBSET T |-> IF s = {} THEN 0
        ELSE f[CHOOSE x \in s : TRUE] + h[s \ {CHOOSE x \in s : TRUE}]]
           h0 == CHOOSE h : D(h)
<1>1. SumFunctionOnSet(f, T) = h0[T]
  BY DEF SumFunctionOnSet, FoldFunctionOnSet, MapThenFoldSet
<1>2. \A h : D(h) <=> h = [s \in SUBSET T |-> Summed(f, h, s)]
  BY DEF Summed, Chosen
<1>3. PICK h : D(h)
  <2> DEFINE h == [s \in SUBSET T |-> g[s]]
  <2>1. ASSUME NEW s \in SUBSET T PROVE h[s] = Summed(f, h, s)
    <3>1. g[s] = Summed(f, g, s)
      BY DEF SumsOf
    <3>2. s # {} => h[s \ {Chosen(s)}] = g[s \ {Chosen(s)}]
      OBVIOUS
    <3> HIDE DEF h
    <3>3. h[s] = g[s]
      BY DEF h
    <3> QED BY <3>1, <3>2, <3>3 DEF Summed
  <2>2. h = [s \in SUBSET T |-> Summed(f, h, s)]
    <3>1. h = [s \in SUBSET T |-> h[s]]
      OBVIOUS
    <3> HIDE DEF h
    <3> QED BY <2>1, <3>1
  <2> HIDE DEF h, D
  <2> QED BY <1>2, <2>2
<1>4. D(h0)
  <2> HIDE DEF D
  <2> QED BY <1>3
<1>5. h0[T] = g[T]
  <2>1. h0 = [s \in SUBSET T |-> Summed(f, h0, s)]
    <3> HIDE DEF D, h0
    <3> QED BY <1>2, <1>4
  <2>2. \A s \in SUBSET T : h0[s] = g[s]
    <3> HIDE DEF D, h0
    <3> QED BY <2>1, SumsUnique
  <2> HIDE DEF D, h0
  <2> QED BY <2>2
<1> QED BY <1>1, <1>5

LEMMA SumStep ==
  ASSUME NEW S, IsFiniteSet(S), NEW f, \A x \in S : f[x] \in Int
  PROVE  /\ SumFunctionOnSet(f, S) \in Int
         /\ SumFunctionOnSet(f, {}) = 0
         /\ \A x \in S : SumFunctionOnSet(f, S) = f[x] + SumFunctionOnSet(f, S \ {x})
<1>1. PICK g \in SumsOf(f, S) : TRUE
  BY SumsExist
<1>2. \A T \in SUBSET S : SumFunctionOnSet(f, T) = g[T]
  BY <1>1, SumOnSubset
<1>3. g[S] \in Int /\ g[{}] = 0
  BY <1>1 DEF SumsOf, Summed
<1>4. \A x \in S : g[S] = f[x] + g[S \ {x}]
  BY <1>1, SumsStep
<1> QED BY <1>2, <1>3, <1>4

\* No greater summand, no greater sum.
LEMMA SumMonotone ==
  ASSUME NEW S, IsFiniteSet(S), NEW f, NEW g,
         \A x \in S : f[x] \in Int /\ g[x] \in Int /\ f[x] <= g[x]
  PROVE  SumFunctionOnSet(f, S) <= SumFunctionOnSet(g, S)
<1> DEFINE F == {T \in SUBSET S : SumFunctionOnSet(f, T) <= SumFunctionOnSet(g, T)}
<1>1. ASSUME NEW T \in SUBSET S, \A x \in T : T \ {x} \in F PROVE T \in F
  <2>1. IsFiniteSet(T) /\ \A x \in T : f[x] \in Int /\ g[x] \in Int /\ f[x] <= g[x]
    BY FS_Subset
  <2>2. /\ \A x \in T : SumFunctionOnSet(f, T) = f[x] + SumFunctionOnSet(f, T \ {x})
        /\ \A x \in T : SumFunctionOnSet(g, T) = g[x] + SumFunctionOnSet(g, T \ {x})
        /\ SumFunctionOnSet(f, {}) = 0 /\ SumFunctionOnSet(g, {}) = 0
    BY <2>1, SumStep
  <2>3. CASE T = {}
    BY <2>2, <2>3
  <2>4. CASE T # {}
    <3>1. PICK x \in T : TRUE
      BY <2>4
    <3>2. SumFunctionOnSet(f, T \ {x}) \in Int /\ SumFunctionOnSet(g, T \ {x}) \in Int
      <4>1. IsFiniteSet(T \ {x})
        BY <2>1, FS_Subset
      <4> QED BY <2>1, <4>1, SumStep
    <3>3. SumFunctionOnSet(f, T \ {x}) <= SumFunctionOnSet(g, T \ {x})
      BY <1>1, <3>1
    <3>4. /\ SumFunctionOnSet(f, T) = f[x] + SumFunctionOnSet(f, T \ {x})
          /\ SumFunctionOnSet(g, T) = g[x] + SumFunctionOnSet(g, T \ {x})
      BY <2>2, <3>1
    <3>5. f[x] \in Int /\ g[x] \in Int /\ f[x] <= g[x]
      BY <2>1, <3>1
    <3>6. SumFunctionOnSet(f, T) <= SumFunctionOnSet(g, T)
      BY <3>2, <3>3, <3>4, <3>5
    <3> QED BY <3>6
  <2> QED BY <2>3, <2>4
<1>2. S \in F
  <2> HIDE DEF F
  <2> QED BY <1>1, InductionOnSubsets
<1> QED BY <1>2

LEMMA SumDifference ==
  ASSUME NEW S, IsFiniteSet(S), NEW f, NEW g, NEW h,
         \A x \in S : f[x] \in Int /\ g[x] \in Int /\ h[x] = f[x] - g[x]
  PROVE  SumFunctionOnSet(h, S) = SumFunctionOnSet(f, S) - SumFunctionOnSet(g, S)
<1> DEFINE F == {T \in SUBSET S : SumFunctionOnSet(h, T)
                                    = SumFunctionOnSet(f, T) - SumFunctionOnSet(g, T)}
<1>1. ASSUME NEW T \in SUBSET S, \A x \in T : T \ {x} \in F PROVE T \in F
  <2>1. IsFiniteSet(T) /\ \A x \in T : f[x] \in Int /\ g[x] \in Int /\ h[x] = f[x] - g[x]
    BY FS_Subset
  <2>2. \A x \in T : h[x] \in Int
    BY <2>1
  <2>3. /\ \A x \in T : SumFunctionOnSet(f, T) = f[x] + SumFunctionOnSet(f, T \ {x})
        /\ \A x \in T : SumFunctionOnSet(g, T) = g[x] + SumFunctionOnSet(g, T \ {x})
        /\ \A x \in T : SumFunctionOnSet(h, T) = h[x] + SumFunctionOnSet(h, T \ {x})
        /\ SumFunctionOnSet(f, {}) = 0 /\ SumFunctionOnSet(g, {}) = 0
        /\ SumFunctionOnSet(h, {}) = 0
    BY <2>1, <2>2, SumStep
  <2>4. CASE T = {}
    BY <2>3, <2>4
  <2>5. CASE T # {}
    <3>1. PICK x \in T : TRUE
      BY <2>5
    <3>2. SumFunctionOnSet(f, T \ {x}) \in Int /\ SumFunctionOnSet(g, T \ {x}) \in Int
      <4>1. IsFiniteSet(T \ {x})
        BY <2>1, FS_Subset
      <4> QED BY <2>1, <4>1, SumStep
    <3>3. SumFunctionOnSet(h, T \ {x})
            = SumFunctionOnSet(f, T \ {x}) - SumFunctionOnSet(g, T \ {x})
      BY <1>1, <3>1
    <3>4. /\ SumFunctionOnSet(f, T) = f[x] + SumFunctionOnSet(f, T \ {x})
          /\ SumFunctionOnSet(g, T) = g[x] + SumFunctionOnSet(g, T \ {x})
          /\ SumFunctionOnSet(h, T) = h[x] + SumFunctionOnSet(h, T \ {x})
      BY <2>3, <3>1
    <3>5. f[x] \in Int /\ g[x] \in Int /\ h[x] = f[x] - g[x]
      BY <2>1, <3>1
    <3>6. SumFunctionOnSet(h, T) = SumFunctionOnSet(f, T) - SumFunctionOnSet(g, T)
      BY <3>2, <3>3, <3>4, <3>5
    <3> QED BY <3>6
  <2> QED BY <2>4, <2>5
<1>2. S \in F
  <2> HIDE DEF F
  <2> QED BY <1>1, InductionOnSubsets
<1> QED BY <1>2

\* Summands under other names.
LEMMA SumImage ==
  ASSUME NEW S, IsFiniteSet(S), NEW p, \A x, y \in S : p[x] = p[y] => x = y,
         NEW v, NEW w, \A x \in S : v[p[x]] \in Int /\ w[x] = v[p[x]]
  PROVE  SumFunctionOnSet(w, S) = SumFunctionOnSet(v, {p[x] : x \in S})
<1> DEFINE Image(T) == {p[x] : x \in T}
           F == {T \in SUBSET S : SumFunctionOnSet(w, T) = SumFunctionOnSet(v, Image(T))}
<1>1. ASSUME NEW T \in SUBSET S PROVE IsFiniteSet(T) /\ IsFiniteSet(Image(T))
  <2>1. IsFiniteSet(T)
    BY FS_Subset
  <2> DEFINE q == [x \in T |-> p[x]]
  <2>2. q \in Surjection(T, Image(T))
    BY DEF Surjection
  <2> QED BY <2>1, <2>2, FS_Surjection
<1>2. ASSUME NEW T \in SUBSET S, \A x \in T : T \ {x} \in F PROVE T \in F
  <2>1. /\ IsFiniteSet(T) /\ \A x \in T : w[x] \in Int
        /\ IsFiniteSet(Image(T)) /\ \A z \in Image(T) : v[z] \in Int
    BY <1>1
  <2>2. /\ \A x \in T : SumFunctionOnSet(w, T) = w[x] + SumFunctionOnSet(w, T \ {x})
        /\ SumFunctionOnSet(w, {}) = 0
    BY <2>1, SumStep
  <2>3. /\ \A z \in Image(T) :
             SumFunctionOnSet(v, Image(T)) = v[z] + SumFunctionOnSet(v, Image(T) \ {z})
        /\ SumFunctionOnSet(v, {}) = 0
    <3> HIDE DEF Image
    <3> QED BY <2>1, SumStep
  <2>4. CASE T = {}
    <3>1. Image(T) = {}
      BY <2>4
    <3> HIDE DEF Image
    <3> QED BY <2>2, <2>3, <2>4, <3>1
  <2>5. CASE T # {}
    <3>1. PICK x \in T : TRUE
      BY <2>5
    <3>2. Image(T \ {x}) = Image(T) \ {p[x]} /\ p[x] \in Image(T)
      BY <3>1
    <3>3. SumFunctionOnSet(w, T \ {x}) = SumFunctionOnSet(v, Image(T \ {x}))
      BY <1>2, <3>1
    <3> HIDE DEF Image
    <3>4. SumFunctionOnSet(w, T) = w[x] + SumFunctionOnSet(v, Image(T) \ {p[x]})
      BY <2>2, <3>1, <3>2, <3>3
    <3>5. SumFunctionOnSet(w, T) = SumFunctionOnSet(v, Image(T))
      BY <2>3, <3>1, <3>2, <3>4
    <3> QED BY <3>5
  <2> QED BY <2>4, <2>5
<1>3. S \in F
  <2> HIDE DEF F
  <2> QED BY <1>2, InductionOnSubsets
<1> QED BY <1>3

LEMMA SumPermuted ==
  ASSUME NEW S, IsFiniteSet(S), NEW p \in [S -> S],
         \A x, y \in S : p[x] = p[y] => x = y,
         NEW v, NEW w, \A z \in S : v[z] \in Int, \A x \in S : w[x] = v[p[x]]
  PROVE  SumFunctionOnSet(w, S) = SumFunctionOnSet(v, S)
<1>1. p \in Injection(S, S)
  BY DEF Injection, IsInjective
<1>2. p \in Surjection(S, S)
  BY <1>1, FS_Injection
<1>3. {p[x] : x \in S} = S
  BY <1>2 DEF Surjection
<1>4. SumFunctionOnSet(w, S) = SumFunctionOnSet(v, {p[x] : x \in S})
  BY SumImage
<1> QED BY <1>3, <1>4

----------------------------------------------------------------------------
(* The size of the numbers.                                                *)

LEMMA SpreadType ==
  ASSUME TypeOK
  PROVE  /\ Spread \in Nat /\ level \in Nat /\ level <= MaxLevel
         /\ Floor \in Int /\ Floor = -(level * Spread)
         /\ 0 <= level * Spread /\ level * Spread + 2 * Spread < BigValue
         /\ BigValue \in Int /\ BigValue > 0
<1>1. Spread \in Nat /\ level \in Nat /\ level <= MaxLevel /\ MaxLevel \in Nat
  BY MatrixAssumption, LevelAssumption DEF TypeOK, Spread
<1>2. level * Spread \in Nat
  BY <1>1
<1>3. level * Spread <= MaxLevel * Spread
  BY <1>1
<1>4. (MaxLevel + 2) * Spread = MaxLevel * Spread + 2 * Spread
  BY <1>1
<1>5. (MaxLevel + 2) * Spread < BigValue /\ BigValue \in Int
  BY LevelAssumption, BigAssumption DEF Spread
<1>6. MaxLevel * Spread \in Nat
  BY <1>1
<1>7. MaxLevel * Spread + 2 * Spread < BigValue
  BY <1>4, <1>5
<1> HIDE DEF Spread
<1> QED BY <1>1, <1>2, <1>3, <1>5, <1>6, <1>7 DEF Floor

LEMMA CostBounds ==
  ASSUME TypeOK, Costs, NEW r \in Vertex, NEW c \in Vertex
  PROVE  matrix[<<r, c>>] \in Int /\ MinVal <= matrix[<<r, c>>] /\ matrix[<<r, c>>] <= MVal
BY MatrixAssumption DEF TypeOK, Costs, Cells

LEMMA ReducedType ==
  ASSUME TypeOK, NEW r \in Vertex, NEW c \in Vertex
  PROVE  Reduced(r, c) \in Int
BY DEF TypeOK, Cells, Reduced

LEMMA ReducedTypeNext ==
  ASSUME TypeOK', NEW r \in Vertex, NEW c \in Vertex
  PROVE  Reduced(r, c)' \in Int
BY DEF TypeOK, Cells, Reduced

\* The initial entries of pi are above every reduced cost.
LEMMA BigIsBig ==
  ASSUME TypeOK, Costs, Bounded, pc # "reduce", NEW r \in rows, NEW c \in cols
  PROVE  Reduced(r, c) < BigValue
<1>1. r \in Vertex /\ c \in Vertex
  BY DEF TypeOK
<1>2. /\ matrix[<<r, c>>] \in Int /\ matrix[<<r, c>>] <= MVal
      /\ dual_u[r] \in Int /\ MinVal <= dual_u[r]
      /\ dual_v[c] \in Int /\ Floor - Spread <= dual_v[c]
  BY <1>1, CostBounds DEF TypeOK, Bounded
<1>3. Reduced(r, c) <= MVal - MinVal - (Floor - Spread)
  BY <1>2, SpreadType, MatrixAssumption DEF Reduced
<1>4. MVal - MinVal = Spread /\ MVal \in Int /\ MinVal \in Int
  BY MatrixAssumption DEF Spread
<1> QED BY <1>1, <1>3, <1>4, SpreadType, ReducedType

----------------------------------------------------------------------------
(* What a step leaves as it is.                                            *)

LEMMA KeepProblem ==
  ASSUME Square, Costs, UNCHANGED <<problem, nodeVars>>
  PROVE  Square' /\ Costs'
BY DEF problem, nodeVars, Square, Costs

LEMMA KeepCells ==
  ASSUME UNCHANGED <<problem, duals>>
  PROVE  \A r, c : Reduced(r, c)' = Reduced(r, c) /\ (Tight(r, c)' <=> Tight(r, c))
BY DEF problem, duals, Reduced, Tight

LEMMA KeepFeasible ==
  ASSUME DualFeasible, pc # "reduce", UNCHANGED <<problem, duals>>
  PROVE  DualFeasible'
BY KeepCells DEF DualFeasible, problem

LEMMA KeepSlack ==
  ASSUME Slack, UNCHANGED <<problem, duals, primal>>
  PROVE  Slack'
BY KeepCells DEF Slack, problem

\* row_, made from an assignment, is the inverse of it.
LEMMA RowOfInverts ==
  ASSUME NEW phi, NEW c \in Vertex, None \notin rows,
         \A q, r \in rows : phi[q] # None /\ phi[q] = phi[r] => q = r
  PROVE  /\ RowOf(phi)[c] \in rows \cup {None}
         /\ \A r \in rows : phi[r] = c <=> RowOf(phi)[c] = r
<1>0. c # None
  BY VertexAssumption
<1>1. CASE \E r \in rows : phi[r] = c
  <2>1. RowOf(phi)[c] = CHOOSE r \in rows : phi[r] = c
    BY <1>1 DEF RowOf
  <2>2. RowOf(phi)[c] \in rows /\ phi[RowOf(phi)[c]] = c
    BY <1>1, <2>1
  <2> QED BY <1>0, <2>2
<1>2. CASE ~\E r \in rows : phi[r] = c
  BY <1>2 DEF RowOf
<1> QED BY <1>1, <1>2

\* As long as a row is not assigned there is a column that is not.
LEMMA FreeColumn ==
  ASSUME TypeOK, Square, \A c \in cols : Assigned(c),
         NEW k \in rows, primal[k] = None
  PROVE  \E c \in cols : row_[c] = None
<1> SUFFICES ASSUME \A c \in cols : row_[c] # None PROVE FALSE
  OBVIOUS
<1> DEFINE f == [c \in cols |-> row_[c]]
<1>1. f \in [cols -> rows \ {k}]
  BY VertexAssumption DEF Assigned, TypeOK
<1>2. IsFiniteSet(rows) /\ IsFiniteSet(cols)
  BY MatrixAssumption, FS_Subset DEF TypeOK
<1>3. IsFiniteSet(rows \ {k}) /\ Cardinality(rows \ {k}) = Cardinality(rows) - 1
  BY <1>2, FS_RemoveElement
<1>4. Cardinality(rows \ {k}) < Cardinality(cols)
  BY <1>2, <1>3, FS_CardinalityType DEF Square
<1>5. PICK x \in cols, y \in cols : x # y /\ f[x] = f[y]
  <2> HIDE DEF f
  <2> QED BY <1>1, <1>2, <1>3, <1>4, FS_PigeonHole
<1>6. row_[x] \in rows /\ row_[x] = row_[y]
  BY <1>5 DEF Assigned
<1> QED BY <1>5, <1>6 DEF Assigned

----------------------------------------------------------------------------
(* Each step.                                                              *)

LEMMA InitInv == Init => Inv
<1> SUFFICES ASSUME Init PROVE Inv
  OBVIOUS
<1>1. BigValue \in Int /\ 0 \in 0 .. MaxLevel
  BY BigAssumption, LevelAssumption
<1>2. original \in [Cells -> Int]
  <2>1. original \in Matrices
    BY DEF Init
  <2>2. original \in [Cells -> MinVal .. MVal]
    BY <2>1, MatrixAssumption DEF Cells
  <2> QED BY <2>2, MatrixAssumption
<1>3. TypeOK
  BY <1>1, <1>2, VertexAssumption DEF Init, TypeOK
<1>4. Square /\ Costs /\ Empty /\ Injective
  BY DEF Init, Square, Costs, Empty, Injective
<1>5. Inverted /\ Labelled /\ Grown /\ Path /\ Distances /\ Bounded
  BY DEF Init, Inverted, Labelled, Grown, Path, Distances, Bounded
<1>6. DualFeasible /\ Slack
  BY DEF Init, DualFeasible, Slack
<1> QED BY <1>3, <1>4, <1>5, <1>6 DEF Inv

\* Row and column reduction: the duals fit, and the columns' are not negative.
LEMMA ReduceInv ==
  ASSUME Inv, Reduce, UNCHANGED nodeVars
  PROVE  Inv'
<1> USE DEF Inv
<1>0. /\ pc = "reduce" /\ pc' = "match" /\ level = 0 /\ \A r \in Vertex : primal[r] = None
      /\ rows' = rows /\ cols' = cols /\ matrix' = matrix /\ primal' = primal /\ row_' = row_
      /\ pred_' = pred_ /\ pi' = pi /\ original' = original /\ level' = level
      /\ excluded' = excluded
  BY DEF Reduce, Empty, problem, assignment, labels, nodeVars
<1>1. /\ dual_u' \in [Vertex -> {0} \cup {matrix[p] : p \in rows \X cols}]
      /\ \A r \in rows : Least(dual_u'[r], {matrix[<<r, c>>] : c \in cols})
  BY DEF Reduce, TypeOK
<1>2. /\ dual_v' \in [Vertex -> {0} \cup {matrix[p] - dual_u'[p[1]] : p \in rows \X cols}]
      /\ \A c \in cols : Least(dual_v'[c], {matrix[<<r, c>>] - dual_u'[r] : r \in rows})
  BY DEF Reduce, TypeOK
<1>3. \A p \in rows \X cols : matrix[p] \in Int /\ p[1] \in Vertex
  BY DEF TypeOK, Cells
<1>4. dual_u' \in [Vertex -> Int]
  BY <1>1, <1>3
<1>5. dual_v' \in [Vertex -> Int]
  BY <1>2, <1>3, <1>4
<1>6. TypeOK'
  BY <1>0, <1>4, <1>5 DEF TypeOK
<1>7. \A r \in rows, c \in cols : dual_v'[c] <= matrix[<<r, c>>] - dual_u'[r]
  BY <1>2 DEF Least
<1>8. DualFeasible'
  <2> SUFFICES ASSUME NEW r \in rows, NEW c \in cols PROVE Reduced(r, c)' >= 0
    BY <1>0 DEF DualFeasible
  <2>1. dual_v'[c] \in Int /\ dual_u'[r] \in Int /\ matrix[<<r, c>>] \in Int
    BY <1>3, <1>4, <1>5 DEF TypeOK
  <2> QED BY <1>0, <1>7, <2>1 DEF Reduced
<1>9. Bounded'
  <2>1. ASSUME NEW r \in rows PROVE MinVal <= dual_u'[r]
    <3>1. PICK c \in cols : dual_u'[r] = matrix[<<r, c>>]
      BY <1>1 DEF Least
    <3> QED BY <3>1, CostBounds DEF TypeOK
  <2>2. ASSUME NEW c \in cols PROVE 0 <= dual_v'[c]
    <3>1. PICK r \in rows : dual_v'[c] = matrix[<<r, c>>] - dual_u'[r]
      BY <1>2 DEF Least
    <3>2. dual_u'[r] <= matrix[<<r, c>>]
      BY <1>1 DEF Least
    <3> QED BY <1>3, <1>4, <3>1, <3>2 DEF TypeOK
  <2>3. Floor' = 0 /\ Spread' \in Nat
    BY <1>0, SpreadType DEF Floor, Spread
  <2>4. \A c \in cols : dual_v'[c] \in Int
    BY <1>5 DEF TypeOK
  <2> QED BY <1>0, <2>1, <2>2, <2>3, <2>4 DEF Bounded
<1>10. Square' /\ Costs' /\ Empty' /\ Injective'
  BY <1>0 DEF Square, Costs, Empty, Injective
<1>11. Inverted' /\ Labelled' /\ Grown' /\ Path' /\ Distances'
  BY <1>0 DEF Inverted, Labelled, Grown, Path, Distances
<1>12. Slack'
  BY <1>0 DEF Slack, TypeOK
<1> QED BY <1>6, <1>8, <1>9, <1>10, <1>11, <1>12

LEMMA MatchInv ==
  ASSUME Inv, Match, UNCHANGED nodeVars
  PROVE  Inv'
<1> USE DEF Inv
<1>0. /\ pc = "match" /\ pc' = "next" /\ row_' = RowOf(primal')
      /\ primal' \in [Vertex -> Vertex \cup {None}]
      /\ rows' = rows /\ cols' = cols /\ matrix' = matrix /\ pred_' = pred_ /\ pi' = pi
      /\ dual_u' = dual_u /\ dual_v' = dual_v /\ original' = original /\ level' = level
  BY DEF Match, problem, duals, labels, nodeVars
<1>1. \A r \in Vertex : primal'[r] # None =>
        /\ r \in rows /\ primal'[r] \in cols /\ Tight(r, primal'[r])
        /\ \A s \in rows : primal'[s] = primal'[r] => s = r
  BY DEF Match
<1>2. rows \subseteq Vertex /\ cols \subseteq Vertex /\ None \notin rows
  BY VertexAssumption DEF TypeOK
<1>3. Injective'
  BY <1>0, <1>1, <1>2 DEF Injective
<1>4. \A q, r \in rows : primal'[q] # None /\ primal'[q] = primal'[r] => q = r
  BY <1>0, <1>3 DEF Injective
<1>5. row_' \in [Vertex -> rows \cup {None}]
  BY <1>0 DEF RowOf
<1>6. TypeOK'
  BY <1>0, <1>2, <1>5 DEF TypeOK
<1>7. \A c \in cols : Assigned(c)'
  <2> SUFFICES ASSUME NEW c \in cols PROVE Assigned(c)'
    OBVIOUS
  <2>1. /\ RowOf(primal')[c] \in rows \cup {None}
        /\ \A r \in rows : primal'[r] = c <=> RowOf(primal')[c] = r
    BY <1>2, <1>4, RowOfInverts
  <2> QED BY <1>0, <2>1 DEF Assigned
<1>8. Inverted'
  BY <1>0, <1>7 DEF Inverted
<1>9. Square' /\ Costs'
  BY KeepProblem DEF Match
<1>10. Empty' /\ Labelled' /\ Grown' /\ Path' /\ Distances'
  BY <1>0 DEF Empty, Labelled, Grown, Path, Distances
<1>11. Bounded'
  BY <1>0 DEF Bounded, Floor, Spread
<1>12. DualFeasible'
  BY <1>0, KeepFeasible DEF Match
<1>13. Slack'
  <2>1. \A r, c : Tight(r, c)' <=> Tight(r, c)
    BY KeepCells DEF Match
  <2>2. ASSUME NEW r \in rows, primal'[r] # None
        PROVE  primal'[r] \in cols /\ Tight(r, primal[r])'
    <3>1. PICK c : c = primal'[r]
      OBVIOUS
    <3>2. c \in cols /\ Tight(r, c)
      BY <1>1, <1>2, <2>2, <3>1
    <3> QED BY <2>1, <3>1, <3>2 DEF Tight, Reduced
  <2> QED BY <1>0, <2>2 DEF Slack
<1> QED BY <1>3, <1>6, <1>8, <1>9, <1>10, <1>11, <1>12, <1>13

LEMMA AdoptInv ==
  ASSUME Inv, Adopt, UNCHANGED nodeVars
  PROVE  Inv'
<1> USE DEF Inv
<1>0. /\ pc = "adopt" /\ pc' = "next" /\ row_' = RowOf(primal) /\ primal' = primal
      /\ rows' = rows /\ cols' = cols /\ matrix' = matrix /\ pred_' = pred_ /\ pi' = pi
      /\ dual_u' = dual_u /\ dual_v' = dual_v /\ original' = original /\ level' = level
  BY DEF Adopt, problem, duals, labels, nodeVars
<1>1. rows \subseteq Vertex /\ cols \subseteq Vertex /\ None \notin rows
  BY VertexAssumption DEF TypeOK
<1>2. row_' \in [Vertex -> rows \cup {None}]
  BY <1>0 DEF RowOf
<1>3. TypeOK'
  BY <1>0, <1>1, <1>2 DEF TypeOK
<1>4. \A c \in cols : Assigned(c)'
  <2> SUFFICES ASSUME NEW c \in cols PROVE Assigned(c)'
    OBVIOUS
  <2>1. /\ RowOf(primal)[c] \in rows \cup {None}
        /\ \A r \in rows : primal[r] = c <=> RowOf(primal)[c] = r
    BY <1>1, RowOfInverts DEF Injective
  <2> QED BY <1>0, <2>1 DEF Assigned
<1>5. Inverted'
  BY <1>0, <1>4 DEF Inverted
<1>6. Square' /\ Costs'
  BY KeepProblem DEF Adopt
<1>7. Empty' /\ Injective' /\ Labelled' /\ Grown' /\ Path' /\ Distances'
  BY <1>0 DEF Empty, Injective, Labelled, Grown, Path, Distances
<1>8. Bounded'
  BY <1>0 DEF Bounded, Floor, Spread
<1>9. DualFeasible'
  BY <1>0, KeepFeasible DEF Adopt
<1>10. Slack'
  BY <1>0, KeepSlack DEF Adopt
<1> QED BY <1>3, <1>5, <1>6, <1>7, <1>8, <1>9, <1>10

LEMMA NextUnassignedInv ==
  ASSUME Inv, NextUnassigned, UNCHANGED nodeVars
  PROVE  Inv'
<1> USE DEF Inv
<1> PICK k \in rows : primal[k] = None /\ root' = k /\ i' = k
  BY DEF NextUnassigned
<1>0. /\ pc = "next" /\ pc' = "scan" /\ pi' = [c \in Vertex |-> BigValue]
      /\ pred_' = [c \in Vertex |-> None]
      /\ scanned_u' = {} /\ scanned_v' = {} /\ labeled_v' = {}
      /\ rows' = rows /\ cols' = cols /\ matrix' = matrix /\ primal' = primal /\ row_' = row_
      /\ dual_u' = dual_u /\ dual_v' = dual_v /\ original' = original /\ level' = level
  BY DEF NextUnassigned, problem, duals, assignment, nodeVars
<1>1. TypeOK'
  BY <1>0, BigAssumption DEF TypeOK
<1>2. Square' /\ Costs'
  BY KeepProblem DEF NextUnassigned
<1>3. Empty' /\ Injective' /\ Path'
  BY <1>0 DEF Empty, Injective, Path
<1>4. Inverted'
  BY <1>0 DEF Inverted, Assigned
<1>5. Labelled'
  BY <1>0 DEF Labelled
<1>6. Grown'
  BY <1>0 DEF Grown, Tree
<1>7. Distances'
  BY <1>0 DEF Distances, Nearest, TypeOK
<1>8. Bounded'
  BY <1>0 DEF Bounded, Floor, Spread
<1>9. DualFeasible'
  BY <1>0, KeepFeasible DEF NextUnassigned
<1>10. Slack'
  BY <1>0, KeepSlack DEF NextUnassigned
<1> QED BY <1>1, <1>2, <1>3, <1>4, <1>5, <1>6, <1>7, <1>8, <1>9, <1>10

LEMMA FinishedInv ==
  ASSUME Inv, Finished, UNCHANGED nodeVars
  PROVE  Inv'
<1> USE DEF Inv
<1>0. /\ pc = "next" /\ pc' = "done" /\ pi' = pi /\ pred_' = pred_
      /\ rows' = rows /\ cols' = cols /\ matrix' = matrix /\ primal' = primal /\ row_' = row_
      /\ dual_u' = dual_u /\ dual_v' = dual_v /\ original' = original /\ level' = level
  BY DEF Finished, problem, duals, assignment, labels, nodeVars
<1>1. TypeOK'
  BY <1>0 DEF TypeOK
<1>2. Square' /\ Costs'
  BY KeepProblem DEF Finished
<1>3. Empty' /\ Injective' /\ Inverted' /\ Labelled' /\ Grown' /\ Path' /\ Distances'
  BY <1>0 DEF Empty, Injective, Inverted, Assigned, Labelled, Grown, Path, Distances
<1>4. Bounded'
  BY <1>0 DEF Bounded, Floor, Spread
<1>5. DualFeasible' /\ Slack'
  BY <1>0, KeepFeasible, KeepSlack DEF Finished, assignment
<1> QED BY <1>1, <1>2, <1>3, <1>4, <1>5

\* A column that is newly labelled or brought nearer gets the row as its predecessor; at
\* the first scan that is every column.
LEMMA ScanInv ==
  ASSUME Inv, Scan, UNCHANGED nodeVars
  PROVE  Inv'
<1> USE DEF Inv
<1>0. /\ pc = "scan" /\ pc' = "select" /\ scanned_u' = scanned_u \cup {i}
      /\ pred_' = [c \in Vertex |-> IF c \in Improved THEN i ELSE pred_[c]]
      /\ pi' = [c \in Vertex |-> IF c \in Improved THEN Reduced(i, c) ELSE pi[c]]
      /\ labeled_v' = labeled_v \cup {c \in Improved : Tight(i, c)}
      /\ scanned_v' = scanned_v /\ root' = root /\ i' = i
      /\ rows' = rows /\ cols' = cols /\ matrix' = matrix /\ primal' = primal /\ row_' = row_
      /\ dual_u' = dual_u /\ dual_v' = dual_v /\ original' = original /\ level' = level
  BY DEF Scan, problem, duals, assignment, nodeVars
<1>1. /\ i \in rows /\ i \in Vertex /\ rows \subseteq Vertex /\ cols \subseteq Vertex
      /\ Improved \subseteq cols \ labeled_v
  BY <1>0 DEF Grown, TypeOK, Improved
<1>2. TypeOK'
  <2>1. pi' \in [Vertex -> Int]
    BY <1>0, <1>1, ReducedType DEF TypeOK
  <2>2. pred_' \in [Vertex -> Vertex \cup {None}]
    BY <1>0, <1>1 DEF TypeOK
  <2> QED BY <1>0, <2>1, <2>2 DEF TypeOK
<1>3. \A r, c : Reduced(r, c)' = Reduced(r, c) /\ (Tight(r, c)' <=> Tight(r, c))
  BY KeepCells DEF Scan
<1>4. Square' /\ Costs'
  BY KeepProblem DEF Scan
<1>5. Empty' /\ Injective' /\ Inverted' /\ Path'
  BY <1>0 DEF Empty, Injective, Inverted, Assigned, Path
<1>6. Tree' = Tree /\ Tree = scanned_u'
  BY <1>0 DEF Tree
<1>7. Grown'
  BY <1>0, <1>1, <1>6 DEF Grown
<1>8. Labelled'
  <2>1. /\ root \in rows /\ primal[root] = None /\ scanned_u' \subseteq rows
        /\ labeled_v' \subseteq cols /\ scanned_v \subseteq labeled_v'
    BY <1>0, <1>1 DEF Labelled
  <2>2. ASSUME NEW c \in labeled_v' PROVE pred_'[c] \in scanned_u' /\ Tight(pred_[c], c)'
    <3>1. CASE c \in labeled_v
      <4>1. c \in Vertex /\ pred_'[c] = pred_[c]
        BY <1>0, <1>1, <2>1, <3>1 DEF Labelled
      <4>2. pred_[c] \in scanned_u /\ Tight(pred_[c], c)
        BY <1>0, <3>1 DEF Labelled
      <4> QED BY <1>0, <1>3, <4>1, <4>2 DEF Tight, Reduced
    <3>2. CASE c \notin labeled_v
      <4>1. c \in Improved /\ Tight(i, c) /\ c \in Vertex /\ pred_'[c] = i
        BY <1>0, <1>1, <3>2
      <4> QED BY <1>0, <1>3, <4>1 DEF Tight, Reduced
    <3> QED BY <3>1, <3>2
  <2>3. \A r \in scanned_u' : r = root \/ primal[r] \in labeled_v'
    BY <1>0, <1>6, <2>1 DEF Grown, Labelled
  <2> QED BY <1>0, <2>1, <2>2, <2>3 DEF Labelled
<1>9. Distances'
  <2> SUFFICES ASSUME NEW c \in cols \ labeled_v' PROVE Nearest(c)'
    BY <1>0 DEF Distances
  <2>1. c \in Vertex /\ c \in cols \ labeled_v /\ Nearest(c)
    BY <1>0, <1>1 DEF Distances
  <2>2. scanned_u' # {} /\ \A r \in scanned_u' : r \in Vertex /\ Reduced(r, c) \in Int
    BY <1>0, <1>1, <2>1, ReducedType DEF Labelled
  <2>3. CASE c \in Improved
    <3>1. pred_'[c] = i /\ pi'[c] = Reduced(i, c) /\ pi[c] > Reduced(i, c) /\ pi[c] \in Int
      BY <1>0, <2>1, <2>3 DEF Improved, TypeOK
    <3>2. ASSUME NEW r \in scanned_u PROVE Reduced(i, c) <= Reduced(r, c)
      BY <1>0, <2>1, <2>2, <3>1 DEF Nearest
    <3>3. \A r \in scanned_u' : Reduced(i, c) <= Reduced(r, c)
      BY <1>0, <2>2, <3>2
    <3>4. Reduced(pred_[c], c)' = Reduced(i, c)
      BY <1>0, <3>1 DEF Reduced
    <3> QED BY <1>0, <1>3, <2>2, <3>1, <3>3, <3>4 DEF Nearest
  <2>4. CASE c \notin Improved
    <3>1. pred_'[c] = pred_[c] /\ pi'[c] = pi[c] /\ pi[c] \in Int
      BY <1>0, <2>1, <2>4 DEF TypeOK
    <3>2. pi[c] <= Reduced(i, c)
      BY <1>0, <2>1, <2>2, <2>4, <3>1 DEF Improved
    <3>3. scanned_u # {}
      BY <1>0, <1>1, <2>1, <2>2, <3>1, <3>2, BigIsBig, SpreadType DEF Nearest
    <3>4. \A r \in scanned_u' : pi[c] <= Reduced(r, c)
      BY <1>0, <2>1, <3>2, <3>3 DEF Nearest
    <3>5. pred_[c] \in scanned_u' /\ pi[c] = Reduced(pred_[c], c)
      BY <1>0, <2>1, <3>3 DEF Nearest
    <3>6. Reduced(pred_[c], c)' = Reduced(pred_[c], c)
      BY <1>0, <3>1 DEF Reduced
    <3> QED BY <1>0, <1>3, <2>2, <3>1, <3>4, <3>5, <3>6 DEF Nearest
  <2> QED BY <2>3, <2>4
<1>10. Bounded'
  BY <1>0 DEF Bounded, Floor, Spread
<1>11. DualFeasible' /\ Slack'
  BY <1>0, KeepFeasible, KeepSlack DEF Scan, assignment
<1> QED BY <1>2, <1>4, <1>5, <1>7, <1>8, <1>9, <1>10, <1>11

LEMMA SelectInv ==
  ASSUME Inv, Select, UNCHANGED nodeVars
  PROVE  Inv'
<1> USE DEF Inv
<1> PICK c \in labeled_v \ scanned_v :
       /\ scanned_v' = scanned_v \cup {c}
       /\ IF row_[c] = None
          THEN pc' = "flip" /\ j' = c /\ i' = i
          ELSE pc' = "scan" /\ i' = row_[c] /\ j' = j
  BY DEF Select
<1>0. /\ pc = "select" /\ scanned_u' = scanned_u /\ pred_' = pred_ /\ pi' = pi
      /\ labeled_v' = labeled_v /\ root' = root
      /\ rows' = rows /\ cols' = cols /\ matrix' = matrix /\ primal' = primal /\ row_' = row_
      /\ dual_u' = dual_u /\ dual_v' = dual_v /\ original' = original /\ level' = level
  BY DEF Select, problem, duals, assignment, nodeVars
<1>1. pc' \in {"scan", "flip"} /\ c \in cols /\ Assigned(c)
  BY <1>0 DEF Labelled, Inverted
<1>2. TypeOK'
  BY <1>0, <1>1 DEF TypeOK
<1>3. \A r, d : Reduced(r, d)' = Reduced(r, d) /\ (Tight(r, d)' <=> Tight(r, d))
  BY KeepCells DEF Select
<1>4. Square' /\ Costs'
  BY KeepProblem DEF Select
<1>5. Empty' /\ Injective' /\ Path'
  BY <1>0, <1>1 DEF Empty, Injective, Path
<1>6. Inverted'
  <2>1. \A d \in cols : Assigned(d)'
    BY <1>0 DEF Inverted, Assigned
  <2>2. pc' = "flip" => \A r \in rows : primal[r] # j'
    BY <1>1, VertexAssumption DEF Assigned, TypeOK
  <2> QED BY <1>0, <2>1, <2>2 DEF Inverted
<1>7. Labelled'
  <2>1. ASSUME NEW d \in labeled_v' PROVE pred_'[d] \in scanned_u' /\ Tight(pred_[d], d)'
    <3>1. pred_[d] \in scanned_u /\ Tight(pred_[d], d)
      BY <1>0 DEF Labelled
    <3> QED BY <1>0, <1>3, <3>1 DEF Tight, Reduced
  <2> QED BY <1>0, <1>1, <2>1 DEF Labelled
<1>8. Grown'
  <2> SUFFICES ASSUME pc' = "scan" PROVE Grown'
    BY <1>1 DEF Grown
  <2>1. i' = row_[c] /\ i' \in rows /\ primal[i'] = c
    BY <1>1 DEF Assigned
  <2>2. Tree = scanned_u /\ Tree' = scanned_u \cup {row_[c]}
    BY <1>0, <2>1 DEF Tree
  <2> QED BY <1>0, <2>1, <2>2 DEF Grown
<1>9. Distances'
  <2> SUFFICES ASSUME NEW d \in cols \ labeled_v PROVE Nearest(d)'
    BY <1>0 DEF Distances
  <2>1. Nearest(d)
    BY <1>0 DEF Distances
  <2>2. Reduced(pred_[d], d)' = Reduced(pred_[d], d)
    BY <1>0 DEF Reduced
  <2> QED BY <1>0, <1>3, <2>1, <2>2 DEF Nearest
<1>10. Bounded'
  BY <1>0, <1>1 DEF Bounded, Floor, Spread
<1>11. DualFeasible' /\ Slack'
  BY <1>0, KeepFeasible, KeepSlack DEF Select, assignment
<1> QED BY <1>2, <1>4, <1>5, <1>6, <1>7, <1>8, <1>9, <1>10, <1>11

\* Every scanned row goes up by what every labelled column goes down; an assigned cell has
\* both or neither.  A free column stays where it was, and holds down the rows' duals, and
\* through the assigned cells the other columns' as well.
LEMMA DualUpdateInv ==
  ASSUME Inv, DualUpdate, UNCHANGED nodeVars
  PROVE  Inv'
<1> USE DEF Inv
<1> PICK delta \in {BigValue} \cup {pi[c] : c \in cols} :
       /\ Least(delta, {BigValue} \cup {pi[c] : c \in cols \ labeled_v})
       /\ dual_u' = [r \in Vertex |->
                       IF r \in scanned_u THEN dual_u[r] + delta ELSE dual_u[r]]
       /\ dual_v' = [c \in Vertex |-> dual_v[c] - LoweredBy(c, delta)]
       /\ pi' = [c \in Vertex |->
                   IF c \in cols \ labeled_v THEN pi[c] - delta ELSE pi[c]]
  BY DEF DualUpdate
<1>0. /\ pc = "select" /\ pc' = "scan" /\ labeled_v \subseteq scanned_v
      /\ scanned_u' = scanned_u /\ scanned_v' = scanned_v /\ pred_' = pred_
      /\ labeled_v' = labeled_v \cup Reached(pi') /\ root' = root /\ i' = i
      /\ rows' = rows /\ cols' = cols /\ matrix' = matrix /\ primal' = primal /\ row_' = row_
      /\ original' = original /\ level' = level
  BY DEF DualUpdate, problem, assignment, nodeVars
<1>1. /\ rows \subseteq Vertex /\ cols \subseteq Vertex /\ scanned_u \subseteq rows
      /\ labeled_v \subseteq cols /\ labeled_v = scanned_v /\ scanned_u # {}
      /\ root \in rows /\ primal[root] = None /\ None \notin Vertex
      /\ Reached(pi') \subseteq cols \ labeled_v
      /\ \A c \in cols : Assigned(c)
  BY <1>0, VertexAssumption DEF TypeOK, Labelled, Grown, Reached, Inverted
<1>2. /\ delta \in Int /\ 0 <= delta
      /\ \A c \in cols \ labeled_v : delta <= pi[c] /\ pi[c] \in Int
  <2>1. \A c \in cols : pi[c] \in Int
    BY <1>1 DEF TypeOK
  <2>2. \A c \in cols \ labeled_v : delta <= pi[c]
    BY DEF Least
  <2>3. ASSUME NEW c \in cols \ labeled_v PROVE 0 <= pi[c]
    <3>1. pred_[c] \in rows /\ pi[c] = Reduced(pred_[c], c)
      BY <1>0, <1>1 DEF Distances, Nearest
    <3> QED BY <1>0, <1>1, <3>1, ReducedType DEF DualFeasible
  <2> QED BY <2>1, <2>2, <2>3, SpreadType DEF Least
<1>3. TypeOK'
  <2>1. dual_u' \in [Vertex -> Int] /\ pi' \in [Vertex -> Int]
    BY <1>1, <1>2 DEF TypeOK
  <2>2. dual_v' \in [Vertex -> Int]
    BY <1>2 DEF TypeOK, LoweredBy
  <2> QED BY <1>0, <2>1, <2>2 DEF TypeOK
<1>4. \A r \in rows, c \in cols :
        Reduced(r, c)' = Reduced(r, c) - (IF r \in scanned_u THEN delta ELSE 0)
                           + (IF c \in labeled_v THEN delta ELSE 0)
  <2> SUFFICES ASSUME NEW r \in rows, NEW c \in cols
               PROVE  Reduced(r, c)' = Reduced(r, c) - (IF r \in scanned_u THEN delta ELSE 0)
                                         + (IF c \in labeled_v THEN delta ELSE 0)
    OBVIOUS
  <2>1. r \in Vertex /\ c \in Vertex /\ matrix[<<r, c>>] \in Int
    BY <1>1 DEF TypeOK, Cells
  <2>2. /\ dual_u'[r] = dual_u[r] + (IF r \in scanned_u THEN delta ELSE 0)
        /\ dual_v'[c] = dual_v[c] - (IF c \in labeled_v THEN delta ELSE 0)
        /\ dual_u[r] \in Int /\ dual_v[c] \in Int
    BY <1>2, <2>1 DEF LoweredBy, TypeOK
  <2> QED BY <1>0, <1>2, <2>1, <2>2 DEF Reduced
<1>5. \A r \in rows, c \in cols : Reduced(r, c) \in Int /\ Reduced(r, c) >= 0
  BY <1>0, <1>1, ReducedType DEF DualFeasible
<1>6. DualFeasible'
  <2> SUFFICES ASSUME NEW r \in rows, NEW c \in cols PROVE Reduced(r, c)' >= 0
    BY <1>0 DEF DualFeasible
  <2>1. CASE r \in scanned_u /\ c \notin labeled_v
    <3>1. delta <= Reduced(r, c)
      BY <1>0, <1>1, <1>2, <1>5, <2>1 DEF Distances, Nearest
    <3> QED BY <1>2, <1>4, <1>5, <2>1, <3>1
  <2>2. CASE ~(r \in scanned_u /\ c \notin labeled_v)
    <3>1. \/ Reduced(r, c)' = Reduced(r, c)
          \/ Reduced(r, c)' = Reduced(r, c) + delta
      BY <1>2, <1>4, <1>5, <2>2
    <3> QED BY <1>2, <1>5, <3>1
  <2> QED BY <2>1, <2>2
<1>7. \A r \in rows : primal[r] # None =>
        primal[r] \in cols /\ (r \in scanned_u <=> primal[r] \in labeled_v)
  <2> SUFFICES ASSUME NEW r \in rows, primal[r] # None
               PROVE  primal[r] \in cols /\ (r \in scanned_u <=> primal[r] \in labeled_v)
    OBVIOUS
  <2>1. primal[r] \in cols
    BY DEF Slack
  <2>2. r # root /\ row_[primal[r]] = r
    BY <1>1, <2>1 DEF Assigned
  <2>3. Tree = scanned_u
    BY <1>0 DEF Tree
  <2> QED BY <1>0, <1>1, <2>1, <2>2, <2>3 DEF Grown
<1>8. Slack'
  <2> SUFFICES ASSUME NEW r \in rows, primal[r] # None
               PROVE  primal[r] \in cols /\ Tight(r, primal[r])'
    BY <1>0 DEF Slack
  <2>1. PICK c \in cols : c = primal[r] /\ (r \in scanned_u <=> c \in labeled_v)
    BY <1>7
  <2>2. Reduced(r, c) = 0
    BY <2>1 DEF Slack, Tight
  <2>3. Reduced(r, c)' = 0
    BY <1>2, <1>4, <2>1, <2>2
  <2> QED BY <1>0, <2>1, <2>3 DEF Tight, Reduced
<1>9. Bounded'
  <2>1. PICK f \in cols : row_[f] = None
    BY <1>1, FreeColumn
  <2>2. \A c \in cols : row_[c] = None => c \notin labeled_v /\ dual_v'[c] = dual_v[c]
    <3>1. ASSUME NEW c \in cols, row_[c] = None PROVE c \notin labeled_v
      <4>1. Tree \subseteq rows
        BY <1>0, <1>1 DEF Tree
      <4> QED BY <1>0, <1>1, <3>1, <4>1 DEF Grown
    <3> QED BY <1>1, <3>1 DEF LoweredBy, TypeOK
  <2>3. \A c \in cols : dual_v[c] \in Int /\ dual_v'[c] \in Int
    BY <1>1, <1>3 DEF TypeOK
  <2>4. \A c \in cols : row_[c] = None => Floor <= dual_v'[c]
    BY <1>0, <2>2 DEF Bounded
  <2>5. \A r \in rows : dual_u'[r] \in Int /\ MinVal <= dual_u'[r]
    <3> SUFFICES ASSUME NEW r \in rows PROVE dual_u'[r] \in Int /\ MinVal <= dual_u'[r]
      OBVIOUS
    <3>1. dual_u[r] \in Int /\ MinVal <= dual_u[r] /\ MinVal \in Int /\ r \in Vertex
      BY <1>0, <1>1, MatrixAssumption DEF TypeOK, Bounded
    <3> QED BY <1>2, <3>1
  <2>6. Floor \in Int /\ Spread \in Int /\ 0 <= Spread
    BY SpreadType
  <2>7. ASSUME NEW r \in rows PROVE dual_u'[r] <= MVal - Floor
    <3>1. Reduced(r, f)' >= 0
      BY <1>0, <1>6 DEF DualFeasible
    <3>2. matrix[<<r, f>>] \in Int /\ matrix[<<r, f>>] <= MVal /\ MVal \in Int
      BY <1>1, CostBounds, MatrixAssumption
    <3>3. Floor <= dual_v'[f]
      BY <2>1, <2>4
    <3>4. matrix[<<r, f>>] - dual_u'[r] - dual_v'[f] >= 0
      BY <1>0, <3>1 DEF Reduced
    <3>5. dual_u'[r] \in Int /\ dual_v'[f] \in Int
      BY <2>3, <2>5
    <3> QED BY <2>6, <3>2, <3>3, <3>4, <3>5
  <2>8. ASSUME NEW c \in cols PROVE Floor - Spread <= dual_v'[c]
    <3>1. CASE row_[c] = None
      <4>1. Floor <= dual_v'[c] /\ dual_v'[c] \in Int
        BY <2>3, <2>4, <3>1
      <4> QED BY <2>6, <4>1
    <3>2. CASE row_[c] # None
      <4>1. PICK r \in rows : r = row_[c] /\ primal[r] = c
        BY <1>1, <3>2 DEF Assigned
      <4>2. Reduced(r, c)' = 0
        <5>1. Reduced(r, c) = 0
          BY <1>1, <4>1 DEF Slack, Tight
        <5>2. r \in scanned_u <=> c \in labeled_v
          BY <1>1, <1>7, <4>1
        <5> QED BY <1>2, <1>4, <5>1, <5>2
      <4>3. /\ matrix[<<r, c>>] \in Int /\ MinVal <= matrix[<<r, c>>]
            /\ MVal \in Int /\ MinVal \in Int
        BY <1>1, CostBounds, MatrixAssumption
      <4>4. Spread = MVal - MinVal
        BY DEF Spread
      <4>5. matrix[<<r, c>>] - dual_u'[r] - dual_v'[c] = 0
        BY <1>0, <4>2 DEF Reduced
      <4>6. dual_u'[r] \in Int /\ dual_v'[c] \in Int /\ dual_u'[r] <= MVal - Floor
        BY <2>3, <2>5, <2>7
      <4> QED BY <2>6, <4>3, <4>4, <4>5, <4>6
    <3> QED BY <3>1, <3>2
  <2>9. Floor' = Floor /\ Spread' = Spread
    BY <1>0 DEF Floor, Spread
  <2> QED BY <1>0, <2>4, <2>5, <2>8, <2>9 DEF Bounded
<1>10. Square' /\ Costs'
  BY KeepProblem DEF DualUpdate, problem
<1>11. Empty' /\ Injective' /\ Inverted' /\ Path'
  BY <1>0 DEF Empty, Injective, Inverted, Assigned, Path
<1>12. Labelled'
  <2>1. ASSUME NEW c \in labeled_v' PROVE pred_[c] \in scanned_u /\ Tight(pred_[c], c)'
    <3>1. CASE c \in labeled_v
      <4>1. PICK r \in scanned_u : r = pred_[c] /\ Reduced(r, c) = 0 /\ c \in cols
        BY <1>0, <1>1, <3>1 DEF Labelled, Tight
      <4>2. Reduced(r, c)' = 0
        BY <1>1, <1>2, <1>4, <3>1, <4>1
      <4> QED BY <1>0, <4>1, <4>2 DEF Tight, Reduced
    <3>2. CASE c \notin labeled_v
      <4>1. c \in cols /\ pi'[c] = pi[c] - delta /\ pi'[c] = 0 /\ pi[c] \in Int
        BY <1>0, <1>1, <1>2, <2>1, <3>2 DEF Reached
      <4>2. PICK r \in scanned_u : r = pred_[c] /\ pi[c] = Reduced(r, c)
        BY <1>0, <1>1, <3>2, <4>1 DEF Distances, Nearest
      <4>3. Reduced(r, c)' = 0
        BY <1>1, <1>2, <1>4, <3>2, <4>1, <4>2
      <4> QED BY <1>0, <4>2, <4>3 DEF Tight, Reduced
    <3> QED BY <3>1, <3>2
  <2>2. labeled_v' \subseteq cols /\ scanned_v' \subseteq labeled_v'
    BY <1>0, <1>1
  <2>3. \A r \in scanned_u : r = root \/ primal[r] \in labeled_v'
    BY <1>0 DEF Labelled
  <2>4. \A c \in labeled_v' : pred_'[c] \in scanned_u' /\ Tight(pred_[c], c)'
    BY <1>0, <2>1
  <2> QED BY <1>0, <1>1, <2>2, <2>3, <2>4 DEF Labelled
<1>13. Grown'
  <2>1. i \in scanned_u /\ Tree' = Tree
    BY <1>0 DEF Grown, Tree
  <2> QED BY <1>0, <2>1 DEF Grown
<1>14. Distances'
  <2> SUFFICES ASSUME NEW c \in cols \ labeled_v' PROVE Nearest(c)'
    BY <1>0 DEF Distances
  <2>1. c \in cols \ labeled_v /\ c \in Vertex /\ pi[c] \in Int
    BY <1>0, <1>1, <1>2
  <2>2. pi'[c] = pi[c] - delta
    BY <2>1
  <2>3. PICK r \in scanned_u : r = pred_[c] /\ pi[c] = Reduced(r, c)
    BY <1>0, <1>1, <2>1 DEF Distances, Nearest
  <2>4. Reduced(r, c)' = pi'[c]
    BY <1>1, <1>2, <1>4, <1>5, <2>1, <2>2, <2>3
  <2>5. ASSUME NEW q \in scanned_u PROVE pi'[c] <= Reduced(q, c)'
    <3>1. pi[c] <= Reduced(q, c) /\ Reduced(q, c) \in Int
      BY <1>0, <1>1, <1>5, <2>1 DEF Distances, Nearest
    <3>2. Reduced(q, c)' = Reduced(q, c) - delta
      BY <1>1, <1>2, <1>4, <2>1, <3>1
    <3> QED BY <1>2, <2>1, <2>2, <3>1, <3>2
  <2>6. Reduced(pred_[c], c)' = Reduced(r, c)'
    BY <1>0, <2>3 DEF Reduced
  <2> QED BY <1>0, <1>1, <2>3, <2>4, <2>5, <2>6 DEF Nearest
<1> QED BY <1>3, <1>6, <1>8, <1>9, <1>10, <1>11, <1>12, <1>13, <1>14

\* One column of the path changes hands, and the row that had it had it alone.
LEMMA FlipInv ==
  ASSUME Inv, Flip, UNCHANGED nodeVars
  PROVE  Inv'
<1> USE DEF Inv
<1> PICK r : r = pred_[j]
  OBVIOUS
<1>0. /\ pc = "flip" /\ row_' = [row_ EXCEPT ![j] = r] /\ j' = primal[r]
      /\ primal' = [primal EXCEPT ![r] = j] /\ pc' = (IF r = root THEN "next" ELSE "flip")
      /\ rows' = rows /\ cols' = cols /\ matrix' = matrix
      /\ dual_u' = dual_u /\ dual_v' = dual_v /\ original' = original /\ level' = level
      /\ pred_' = pred_ /\ pi' = pi /\ scanned_u' = scanned_u /\ scanned_v' = scanned_v
      /\ labeled_v' = labeled_v /\ root' = root
  BY DEF Flip, problem, duals, labels, nodeVars
<1>1. /\ rows \subseteq Vertex /\ cols \subseteq Vertex /\ None \notin Vertex
      /\ j \in labeled_v /\ j \in cols /\ r \in scanned_u /\ r \in rows /\ r \in Vertex
      /\ Tight(r, j) /\ root \in rows /\ primal[root] = None
      /\ \A q \in rows : primal[q] # j
  BY <1>0, VertexAssumption DEF TypeOK, Path, Labelled, Inverted
<1>2. /\ primal'[r] = j /\ \A q \in rows : q # r => primal'[q] = primal[q]
      /\ row_'[j] = r /\ \A c \in cols : c # j => row_'[c] = row_[c]
  BY <1>0, <1>1 DEF TypeOK
<1>3. TypeOK'
  BY <1>0, <1>1 DEF TypeOK
<1>4. \A q, c : Reduced(q, c)' = Reduced(q, c) /\ (Tight(q, c)' <=> Tight(q, c))
  BY KeepCells DEF Flip
<1>5. Square' /\ Costs'
  BY KeepProblem DEF Flip
<1>6. Empty' /\ Grown' /\ Distances'
  BY <1>0 DEF Empty, Grown, Distances
<1>7. Injective'
  BY <1>0, <1>1, <1>2 DEF Injective
<1>8. Inverted'
  <2>1. ASSUME NEW c \in cols, pc' = "flip" => c # j' PROVE Assigned(c)'
    <3>1. CASE c = j
      BY <1>0, <1>1, <1>2, <3>1 DEF Assigned
    <3>2. CASE c # j
      <4>1. Assigned(c) /\ primal[r] # c /\ row_'[c] = row_[c]
        BY <1>0, <1>1, <1>2, <2>1, <3>2 DEF Inverted
      <4> QED BY <1>0, <1>1, <1>2, <3>2, <4>1 DEF Assigned
    <3> QED BY <3>1, <3>2
  <2>2. ASSUME pc' = "flip", NEW q \in rows PROVE primal'[q] # j'
    <3>1. j' # None
      BY <1>0, <1>1, <2>2 DEF Labelled
    <3> QED BY <1>0, <1>1, <1>2, <3>1 DEF Injective
  <2> QED BY <1>0, <2>1, <2>2 DEF Inverted
<1>9. Labelled'
  <2> SUFFICES ASSUME pc' = "flip" PROVE Labelled'
    BY <1>0 DEF Labelled
  <2>1. \A c \in labeled_v : pred_[c] \in scanned_u /\ Tight(pred_[c], c)
    BY <1>0 DEF Labelled
  <2>2. \A c \in labeled_v : Tight(pred_[c], c)'
    BY <1>0, <2>1 DEF Tight, Reduced
  <2>3. primal'[root] = None
    BY <1>0, <1>1, <1>2
  <2>4. \A q \in scanned_u : q = root \/ primal'[q] \in labeled_v
    BY <1>0, <1>1, <1>2 DEF Labelled
  <2>5. scanned_u \subseteq rows /\ labeled_v \subseteq cols /\ scanned_v \subseteq labeled_v
    BY <1>0 DEF Labelled
  <2> QED BY <1>0, <1>1, <2>1, <2>2, <2>3, <2>4, <2>5 DEF Labelled
<1>10. Path'
  BY <1>0, <1>1 DEF Path, Labelled
<1>11. Bounded'
  BY <1>0, <1>1, <1>2 DEF Bounded, Floor, Spread
<1>12. DualFeasible'
  BY <1>0, KeepFeasible DEF Flip
<1>13. Slack'
  <2> SUFFICES ASSUME NEW q \in rows, primal'[q] # None
               PROVE  primal'[q] \in cols /\ Tight(q, primal[q])'
    BY <1>0 DEF Slack
  <2>1. PICK c : c = primal'[q]
    OBVIOUS
  <2>2. c \in cols /\ Tight(q, c)
    BY <1>1, <1>2, <2>1 DEF Slack
  <2> QED BY <1>0, <2>1, <2>2 DEF Tight, Reduced
<1> QED BY <1>3, <1>5, <1>6, <1>7, <1>8, <1>9, <1>10, <1>11, <1>12, <1>13

----------------------------------------------------------------------------
(* A child.                                                                *)

\* As many rows as columns are taken out.
LEMMA SameCount ==
  ASSUME NEW S, IsFiniteSet(S), NEW T, NEW f \in [S -> T],
         \A x, y \in S : f[x] = f[y] => x = y, \A z \in T : \E x \in S : f[x] = z
  PROVE  IsFiniteSet(T) /\ Cardinality(T) = Cardinality(S)
<1>1. ExistsBijection(S, T)
  BY DEF ExistsBijection, Bijection, Injection, Surjection, IsInjective
<1> QED BY <1>1, FS_Bijection

LEMMA StaySquare ==
  ASSUME TypeOK, Square, NEW inc, NEW exc, Constrain(inc, exc)
  PROVE  Square'
<1>1. /\ inc \subseteq rows \X cols
      /\ \A e, f \in inc : e # f => e[1] # f[1] /\ e[2] # f[2]
      /\ rows' = rows \ FirstEnds(inc) /\ cols' = cols \ SecondEnds(inc)
  BY DEF Constrain, Free
<1>2. IsFiniteSet(rows) /\ IsFiniteSet(cols)
  BY MatrixAssumption, FS_Subset DEF TypeOK
<1>3. IsFiniteSet(inc)
  BY <1>1, <1>2, FS_Product, FS_Subset
<1>4. Cardinality(FirstEnds(inc)) = Cardinality(inc) /\ IsFiniteSet(FirstEnds(inc))
  <2> DEFINE f == [e \in inc |-> e[1]]
  <2>1. /\ f \in [inc -> FirstEnds(inc)] /\ \A x, y \in inc : f[x] = f[y] => x = y
        /\ \A z \in FirstEnds(inc) : \E x \in inc : f[x] = z
    BY <1>1 DEF FirstEnds
  <2> HIDE DEF f
  <2> QED BY <1>3, <2>1, SameCount
<1>5. Cardinality(SecondEnds(inc)) = Cardinality(inc) /\ IsFiniteSet(SecondEnds(inc))
  <2> DEFINE f == [e \in inc |-> e[2]]
  <2>1. /\ f \in [inc -> SecondEnds(inc)] /\ \A x, y \in inc : f[x] = f[y] => x = y
        /\ \A z \in SecondEnds(inc) : \E x \in inc : f[x] = z
    BY <1>1 DEF SecondEnds
  <2> HIDE DEF f
  <2> QED BY <1>3, <2>1, SameCount
<1>6. FirstEnds(inc) \subseteq rows /\ SecondEnds(inc) \subseteq cols
  BY <1>1 DEF FirstEnds, SecondEnds
<1>7. /\ Cardinality(rows \ FirstEnds(inc))
           = Cardinality(rows) - Cardinality(rows \cap FirstEnds(inc))
      /\ Cardinality(cols \ SecondEnds(inc))
           = Cardinality(cols) - Cardinality(cols \cap SecondEnds(inc))
  BY <1>2, FS_Difference
<1>8. rows \cap FirstEnds(inc) = FirstEnds(inc) /\ cols \cap SecondEnds(inc) = SecondEnds(inc)
  BY <1>6
<1> QED BY <1>1, <1>4, <1>5, <1>7, <1>8 DEF Square

\* The child has fewer rows and columns and higher costs, but not where a row keeps its
\* column.
LEMMA ConstrainInv ==
  ASSUME Inv, NEW inc, NEW exc, Constrain(inc, exc)
  PROVE  Inv'
<1> USE DEF Inv
<1>0. /\ pc = "done" /\ pc' = "adopt" /\ level < MaxLevel /\ level' = level + 1
      /\ rows' \subseteq rows /\ cols' \subseteq cols
      /\ exc \subseteq rows' \X cols' /\ excluded' = excluded \cup exc
      /\ matrix' = [p \in Cells |-> IF p \in excluded' THEN MVal ELSE original[p]]
      /\ dual_u' = [r \in Vertex |-> IF r \in rows' THEN dual_u[r] ELSE 0]
      /\ dual_v' = [c \in Vertex |-> IF c \in cols' THEN dual_v[c] ELSE 0]
      /\ primal' = [r \in Vertex |-> IF r \in rows' THEN Kept(r, exc) ELSE None]
      /\ original' = original /\ row_' = row_ /\ pred_' = pred_ /\ pi' = pi
  BY DEF Constrain, labels
<1>1. rows \subseteq Vertex /\ cols \subseteq Vertex /\ None \notin Vertex
  BY VertexAssumption DEF TypeOK
<1>2. \A p \in Cells : original[p] \in Int /\ original[p] <= MVal /\ MVal \in Int
  BY MatrixAssumption DEF TypeOK, Cells
<1>3. TypeOK'
  <2>1. matrix' \in [Cells -> Int]
    BY <1>0, <1>2
  <2>2. dual_u' \in [Vertex -> Int] /\ dual_v' \in [Vertex -> Int]
    BY <1>0 DEF TypeOK
  <2>3. primal' \in [Vertex -> Vertex \cup {None}]
    BY <1>0 DEF TypeOK, Kept
  <2>4. level' \in 0 .. MaxLevel
    BY <1>0, LevelAssumption DEF TypeOK
  <2> QED BY <1>0, <1>1, <2>1, <2>2, <2>3, <2>4 DEF TypeOK
<1>4. Square'
  BY StaySquare
<1>5. Costs'
  BY <1>0 DEF Costs
<1>6. \A r \in rows', c \in cols' :
        /\ Reduced(r, c)' >= Reduced(r, c)
        /\ <<r, c>> \notin exc => Reduced(r, c)' = Reduced(r, c)
  <2> SUFFICES ASSUME NEW r \in rows', NEW c \in cols'
               PROVE  /\ Reduced(r, c)' >= Reduced(r, c)
                      /\ <<r, c>> \notin exc => Reduced(r, c)' = Reduced(r, c)
    OBVIOUS
  <2>1. r \in Vertex /\ c \in Vertex /\ <<r, c>> \in Cells
    BY <1>0, <1>1 DEF Cells
  <2>2. /\ matrix'[<<r, c>>] >= matrix[<<r, c>>]
        /\ <<r, c>> \notin exc => matrix'[<<r, c>>] = matrix[<<r, c>>]
        /\ matrix[<<r, c>>] \in Int /\ matrix'[<<r, c>>] \in Int
    BY <1>0, <1>2, <2>1 DEF Costs
  <2>3. /\ dual_u'[r] = dual_u[r] /\ dual_u[r] \in Int
        /\ dual_v'[c] = dual_v[c] /\ dual_v[c] \in Int
    BY <1>0, <2>1 DEF TypeOK
  <2> QED BY <2>2, <2>3 DEF Reduced
<1>7. DualFeasible'
  <2> SUFFICES ASSUME NEW r \in rows', NEW c \in cols' PROVE Reduced(r, c)' >= 0
    BY DEF DualFeasible
  <2>1. Reduced(r, c) >= 0 /\ Reduced(r, c) \in Int
    BY <1>0, <1>1, ReducedType DEF DualFeasible
  <2>2. Reduced(r, c)' \in Int /\ Reduced(r, c)' >= Reduced(r, c)
    BY <1>0, <1>1, <1>3, <1>6, ReducedTypeNext
  <2> QED BY <2>1, <2>2
<1>8. \A r \in rows' : primal'[r] # None =>
        /\ primal'[r] = primal[r] /\ primal[r] \in cols' /\ <<r, primal[r]>> \notin exc
  BY <1>0, <1>1 DEF Kept, FirstEnds
<1>9. Slack'
  <2> SUFFICES ASSUME NEW r \in rows', primal'[r] # None
               PROVE  primal'[r] \in cols' /\ Tight(r, primal[r])'
    BY DEF Slack
  <2>1. PICK c : c = primal[r] /\ c = primal'[r] /\ c \in cols' /\ <<r, c>> \notin exc
    BY <1>8
  <2>2. Reduced(r, c) = 0
    BY <1>0, <1>1, <2>1 DEF Slack, Tight
  <2>3. Reduced(r, c)' = 0
    BY <1>6, <2>1, <2>2
  <2> QED BY <2>1, <2>3 DEF Tight, Reduced
<1>10. Injective'
  BY <1>0, <1>8 DEF Injective
<1>11. Empty' /\ Inverted' /\ Labelled' /\ Grown' /\ Path' /\ Distances'
  BY <1>0 DEF Empty, Inverted, Labelled, Grown, Path, Distances
<1>12. Bounded'
  <2>1. Floor' = Floor - Spread
    <3>1. (level + 1) * Spread = level * Spread + Spread
      BY SpreadType
    <3>2. level * Spread \in Int
      BY SpreadType
    <3>3. Spread' = Spread
      BY DEF Spread
    <3> QED BY <1>0, <3>1, <3>2, <3>3, SpreadType DEF Floor
  <2>2. \A c \in cols' : Floor' <= dual_v'[c]
    BY <1>0, <1>1, <2>1 DEF Bounded
  <2>3. \A r \in rows' : MinVal <= dual_u'[r]
    BY <1>0, <1>1 DEF Bounded
  <2>4. ASSUME NEW c \in cols' PROVE Floor' - Spread' <= dual_v'[c]
    <3>1. Floor' <= dual_v'[c] /\ dual_v'[c] \in Int
      BY <1>0, <1>1, <2>2 DEF TypeOK
    <3>2. Spread' \in Int /\ 0 <= Spread' /\ Floor' \in Int
      BY <2>1, SpreadType DEF Spread
    <3> QED BY <3>1, <3>2
  <2> QED BY <1>0, <2>2, <2>3, <2>4 DEF Bounded
<1> QED BY <1>3, <1>4, <1>5, <1>7, <1>9, <1>10, <1>11, <1>12

----------------------------------------------------------------------------
LEMMA StepInv ==
  ASSUME Inv, [Next]_vars
  PROVE  Inv'
<1>1. CASE Solve /\ UNCHANGED nodeVars
  BY <1>1, ReduceInv, MatchInv, AdoptInv, NextUnassignedInv, FinishedInv, ScanInv, SelectInv,
     DualUpdateInv, FlipInv DEF Solve
<1>2. CASE Child
  BY <1>2, ConstrainInv DEF Child
<1>3. CASE UNCHANGED vars
  BY <1>3 DEF vars, apVars, nodeVars, problem, duals, assignment, labels, Inv, TypeOK, Square,
     Costs, Empty, Injective, Inverted, Assigned, Labelled, Grown, Tree, Path, Distances,
     Nearest, Bounded, Floor, Spread, DualFeasible, Slack, Tight, Reduced
<1> QED
  BY <1>1, <1>2, <1>3 DEF Next

LEMMA InvHolds == Spec => []Inv
<1>1. Inv /\ [Next]_vars => Inv'
  BY StepInv
<1> QED
  BY InitInv, <1>1, PTL DEF Spec

\* The types: no column or row outside the matrix is used as an index.
THEOREM TypeOKHolds == Spec => []TypeOK
<1>1. Inv => TypeOK
  BY DEF Inv
<1> QED
  BY InvHolds, <1>1, PTL

\* Every bound has its certificate, at the root and after any constraints: the solver stops
\* when no row is left, and what it has assigned by then was never given twice.
THEOREM CertificateHolds == Spec => []Certificate
<1> DEFINE Ended == pc = "done" => \A r \in rows : primal[r] # None
<1>1. Ended /\ [Next]_vars => Ended'
  <2> SUFFICES ASSUME Ended, [Next]_vars, pc' = "done"
               PROVE  \A r \in rows' : primal'[r] # None
    OBVIOUS
  <2>1. CASE Solve
    BY <2>1 DEF Solve, Reduce, Match, Adopt, NextUnassigned, Finished, Scan, Select,
       DualUpdate, Flip, problem, assignment
  <2>2. CASE Child
    BY <2>2 DEF Child, Constrain
  <2>3. CASE UNCHANGED vars
    BY <2>3 DEF vars, apVars, problem, assignment
  <2> QED
    BY <2>1, <2>2, <2>3 DEF Next
<1>2. Init => Ended
  BY DEF Init
<1>3. Inv /\ Ended => Certificate
  <2> SUFFICES ASSUME Inv, Ended PROVE Certificate
    OBVIOUS
  <2>1. pc = "done" => Complete
    BY DEF Inv, Injective, Complete
  <2> QED BY <2>1 DEF Inv, Certificate
<1> HIDE DEF Ended
<1> QED
  BY InvHolds, <1>1, <1>2, <1>3, PTL DEF Spec

----------------------------------------------------------------------------
(* Duality.                                                                *)

\* The edges included take their rows and columns out of the problem.
Taken ==
  /\ included \subseteq Cells
  /\ rows = Vertex \ FirstEnds(included) /\ cols = Vertex \ SecondEnds(included)

LEMMA TakenHolds == Spec => []Taken
<1>1. Init => Taken
  BY DEF Init, Taken, FirstEnds, SecondEnds
<1>2. Taken /\ [Next]_vars => Taken'
  <2> SUFFICES ASSUME Taken, [Next]_vars PROVE Taken'
    OBVIOUS
  <2>1. CASE Solve /\ UNCHANGED nodeVars
    BY <2>1 DEF Solve, Reduce, Match, Adopt, NextUnassigned, Finished, Scan, Select,
       DualUpdate, Flip, problem, nodeVars, Taken
  <2>2. CASE Child
    <3>1. PICK inc, exc : Constrain(inc, exc)
      BY <2>2 DEF Child
    <3>2. inc \subseteq Cells
      BY <3>1 DEF Constrain, Free, Taken, Cells
    <3>3. /\ FirstEnds(included') = FirstEnds(included) \cup FirstEnds(inc)
          /\ SecondEnds(included') = SecondEnds(included) \cup SecondEnds(inc)
      BY <3>1 DEF Constrain, FirstEnds, SecondEnds
    <3> QED BY <3>1, <3>2, <3>3 DEF Constrain, Taken
  <2>3. CASE UNCHANGED vars
    BY <2>3 DEF vars, apVars, problem, nodeVars, Taken
  <2> QED BY <2>1, <2>2, <2>3 DEF Next
<1> QED
  BY <1>1, <1>2, PTL DEF Spec

Obeying(f) ==
  /\ \A e \in included : f[e[1]] = e[2]
  /\ \A e \in excluded : f[e[1]] # e[2]

\* The solution of a node is an assignment that agrees with any that obeys the
\* constraints on the rows taken.
LEMMA ColumnsAssign ==
  ASSUME Inv, Taken, Complete, NEW f \in Bijections(Vertex, Vertex), Obeying(f)
  PROVE  /\ \A r \in Vertex : Column(r) \in Vertex
         /\ \A q, r \in Vertex : Column(q) = Column(r) => q = r
         /\ \A r \in rows : f[r] \in cols /\ Column(r) = primal[r] /\ primal[r] \in cols
         /\ \A r \in Vertex \ rows : Column(r) = f[r]
<1>1. \A r \in Vertex \ rows : <<r, f[r]>> \in included /\ Column(r) = f[r]
  <2> SUFFICES ASSUME NEW r \in Vertex \ rows
               PROVE  <<r, f[r]>> \in included /\ Column(r) = f[r]
    OBVIOUS
  <2>1. PICK e \in included : e[1] = r
    BY DEF Taken, FirstEnds
  <2>2. e = <<e[1], e[2]>> /\ e[2] \in Vertex /\ f[r] = e[2]
    BY <2>1 DEF Taken, Cells, Obeying
  <2>3. \A c : <<r, c>> \in included => c = f[r]
    BY DEF Obeying
  <2>4. Column(r) = CHOOSE c \in Vertex : <<r, c>> \in included
    BY DEF Column
  <2> QED BY <2>1, <2>2, <2>3, <2>4
<1>2. \A r \in rows : f[r] \in cols
  <2> SUFFICES ASSUME NEW r \in rows, f[r] \notin cols PROVE FALSE
    OBVIOUS
  <2>1. r \in Vertex /\ f[r] \in Vertex
    BY DEF Taken, Bijections
  <2>2. PICK e \in included : e[2] = f[r]
    BY <2>1 DEF Taken, SecondEnds
  <2>3. e[1] \in Vertex /\ f[e[1]] = f[r]
    BY <2>2 DEF Obeying, Taken, Cells
  <2>4. e[1] = r
    BY <2>1, <2>3 DEF Bijections
  <2> QED BY <2>2, <2>4 DEF Taken, FirstEnds
<1>3. \A r \in rows : Column(r) = primal[r] /\ primal[r] \in cols
  BY DEF Column, Inv, Slack, Complete
<1>4. ASSUME NEW r \in Vertex \ rows PROVE f[r] \notin cols
  <2> DEFINE e == <<r, f[r]>>
  <2>1. e \in included /\ e[2] = f[r]
    BY <1>1
  <2> HIDE DEF e
  <2> QED BY <2>1 DEF Taken, SecondEnds
<1>5. rows \subseteq Vertex /\ cols \subseteq Vertex
  BY DEF Taken
<1>6. \A r \in Vertex : f[r] \in Vertex
  BY DEF Bijections
<1>7. ASSUME NEW q \in Vertex, NEW r \in Vertex, Column(q) = Column(r) PROVE q = r
  <2>1. CASE q \in rows /\ r \in rows
    BY <1>3, <1>7, <2>1 DEF Complete
  <2>2. CASE q \notin rows /\ r \notin rows
    BY <1>1, <1>7, <2>2 DEF Bijections
  <2>3. CASE q \in rows /\ r \notin rows
    BY <1>1, <1>3, <1>4, <1>7, <2>3
  <2>4. CASE q \notin rows /\ r \in rows
    BY <1>1, <1>3, <1>4, <1>7, <2>4
  <2> QED BY <2>1, <2>2, <2>3, <2>4
<1> QED BY <1>1, <1>2, <1>3, <1>5, <1>6, <1>7

\* The value of the node is no more than the length of any assignment that obeys its
\* constraints: row by row the two differ by the duals of their columns at least, and
\* both have all columns.
LEMMA Duality ==
  ASSUME Inv, Taken, Complete, pc = "done", NEW f \in Bijections(Vertex, Vertex), Obeying(f)
  PROVE  NodeValue <= Length(original, f)
<1> DEFINE A == [r \in Vertex |-> original[<<r, Column(r)>>]]
           B == [r \in DOMAIN f |-> original[<<r, f[r]>>]]
           h == [r \in Vertex |-> Column(r)]
           vh == [r \in Vertex |-> dual_v[Column(r)]]
           vf == [r \in Vertex |-> dual_v[f[r]]]
           da == [r \in Vertex |-> A[r] - vh[r]]
           db == [r \in Vertex |-> B[r] - vf[r]]
<1>1. DOMAIN f = Vertex /\ \A r \in Vertex : f[r] \in Vertex
  BY DEF Bijections
<1>2. \A r \in Vertex : Column(r) \in Vertex
  BY ColumnsAssign
<1>3. \A r \in Vertex :
        /\ A[r] \in Int /\ B[r] \in Int /\ vh[r] \in Int /\ vf[r] \in Int
        /\ A[r] = original[<<r, Column(r)>>] /\ B[r] = original[<<r, f[r]>>]
        /\ vh[r] = dual_v[Column(r)] /\ vf[r] = dual_v[f[r]]
  <2>1. \A p \in Vertex \X Vertex : original[p] \in Int
    BY MatrixAssumption DEF Inv, TypeOK
  <2>2. \A c \in Vertex : dual_v[c] \in Int
    BY DEF Inv, TypeOK
  <2> QED BY <1>1, <1>2, <2>1, <2>2
<1>4. \A r \in Vertex : da[r] = A[r] - vh[r] /\ db[r] = B[r] - vf[r]
  OBVIOUS
<1>5. \A r \in Vertex : da[r] <= db[r]
  <2> SUFFICES ASSUME NEW r \in Vertex PROVE A[r] - vh[r] <= B[r] - vf[r]
    BY <1>4
  <2>1. CASE r \in rows
    <3> DEFINE c == primal[r]
               d == f[r]
    <3>1. c \in cols /\ d \in cols /\ Column(r) = c /\ c \in Vertex /\ d \in Vertex
      BY <2>1, ColumnsAssign DEF Taken
    <3>2. Tight(r, c) /\ Reduced(r, d) >= 0
      BY <2>1, <3>1 DEF Inv, Slack, DualFeasible, Complete
    <3>3. <<r, d>> \notin excluded
      BY DEF Obeying
    <3>4. matrix[<<r, d>>] = original[<<r, d>>]
      BY <3>1, <3>3 DEF Inv, Costs, Cells
    <3>5. original[<<r, c>>] <= matrix[<<r, c>>] /\ matrix[<<r, c>>] \in Int
      <4>1. original[<<r, c>>] \in MinVal .. MVal /\ MVal \in Int /\ MinVal \in Int
        BY <3>1, MatrixAssumption DEF Inv, TypeOK
      <4> QED BY <3>1, <4>1 DEF Inv, Costs, Cells
    <3>6. /\ dual_u[r] \in Int /\ dual_v[c] \in Int /\ dual_v[d] \in Int
          /\ original[<<r, c>>] \in Int /\ original[<<r, d>>] \in Int
      BY <1>3, <3>1 DEF Inv, TypeOK
    <3>7. /\ matrix[<<r, c>>] - dual_u[r] - dual_v[c] = 0
          /\ original[<<r, d>>] - dual_u[r] - dual_v[d] >= 0
      BY <3>2, <3>4 DEF Tight, Reduced
    <3>8. original[<<r, c>>] - dual_v[c] <= original[<<r, d>>] - dual_v[d]
      <4> HIDE DEF c, d
      <4> QED BY <3>5, <3>6, <3>7
    <3>9. /\ A[r] = original[<<r, c>>] /\ B[r] = original[<<r, d>>]
          /\ vh[r] = dual_v[c] /\ vf[r] = dual_v[d]
      BY <1>3, <3>1
    <3> HIDE DEF A, B, vh, vf, c, d
    <3> QED BY <3>8, <3>9
  <2>2. CASE r \notin rows
    <3>1. Column(r) = f[r]
      BY <2>2, ColumnsAssign
    <3>2. A[r] = B[r] /\ vh[r] = vf[r]
      BY <1>3, <3>1
    <3>3. B[r] \in Int /\ vf[r] \in Int
      BY <1>3
    <3> HIDE DEF A, B, vh, vf
    <3> QED BY <3>2, <3>3
  <2> QED BY <2>1, <2>2
<1>6. IsFiniteSet(Vertex)
  BY MatrixAssumption
<1>7. SumFunctionOnSet(vh, Vertex) = SumFunctionOnSet(vf, Vertex)
  <2>1. \A c \in Vertex : dual_v[c] \in Int
    BY DEF Inv, TypeOK
  <2>2. SumFunctionOnSet(vf, Vertex) = SumFunctionOnSet(dual_v, Vertex)
    <3>1. f \in [Vertex -> Vertex] /\ \A q, r \in Vertex : f[q] = f[r] => q = r
      BY DEF Bijections
    <3>2. \A r \in Vertex : vf[r] = dual_v[f[r]]
      OBVIOUS
    <3> HIDE DEF vf
    <3> QED BY <1>6, <2>1, <3>1, <3>2, SumPermuted
  <2>3. SumFunctionOnSet(vh, Vertex) = SumFunctionOnSet(dual_v, Vertex)
    <3>1. h \in [Vertex -> Vertex] /\ \A q, r \in Vertex : h[q] = h[r] => q = r
      BY <1>2, ColumnsAssign
    <3>2. \A r \in Vertex : vh[r] = dual_v[h[r]]
      OBVIOUS
    <3> HIDE DEF vh, h
    <3> QED BY <1>6, <2>1, <3>1, <3>2, SumPermuted
  <2> QED BY <2>2, <2>3
<1> HIDE DEF A, B, vh, vf, da, db
<1>8. SumFunctionOnSet(da, Vertex) = SumFunctionOnSet(A, Vertex) - SumFunctionOnSet(vh, Vertex)
  <2>1. \A r \in Vertex : A[r] \in Int /\ vh[r] \in Int /\ da[r] = A[r] - vh[r]
    BY <1>3, <1>4
  <2> QED BY <1>6, <2>1, SumDifference
<1>9. SumFunctionOnSet(db, Vertex) = SumFunctionOnSet(B, Vertex) - SumFunctionOnSet(vf, Vertex)
  <2>1. \A r \in Vertex : B[r] \in Int /\ vf[r] \in Int /\ db[r] = B[r] - vf[r]
    BY <1>3, <1>4
  <2> QED BY <1>6, <2>1, SumDifference
<1>10. SumFunctionOnSet(da, Vertex) <= SumFunctionOnSet(db, Vertex)
  <2>1. ASSUME NEW r \in Vertex PROVE da[r] \in Int /\ db[r] \in Int
    <3>1. A[r] \in Int /\ B[r] \in Int /\ vh[r] \in Int /\ vf[r] \in Int
      BY <1>3
    <3>2. da[r] = A[r] - vh[r] /\ db[r] = B[r] - vf[r]
      BY <1>4
    <3> QED BY <3>1, <3>2
  <2> QED BY <1>5, <1>6, <2>1, SumMonotone
<1>11. /\ SumFunctionOnSet(A, Vertex) \in Int /\ SumFunctionOnSet(B, Vertex) \in Int
       /\ SumFunctionOnSet(vh, Vertex) \in Int
  BY <1>3, <1>6, SumStep
<1>12. SumFunctionOnSet(A, Vertex) <= SumFunctionOnSet(B, Vertex)
  BY <1>7, <1>8, <1>9, <1>10, <1>11
<1>13. NodeValue = SumFunctionOnSet(A, Vertex)
  BY DEF NodeValue, SumFunction, A
<1>14. Length(original, f) = SumFunctionOnSet(B, Vertex)
  BY <1>1 DEF Length, SumFunction, B
<1> QED BY <1>12, <1>13, <1>14

\* The value of every node on any path is a bound of all tours below it: branch may drop
\* the node when the record has reached it.
THEOREM BoundsHolds == Spec => []Bounds
<1>1. Inv /\ Taken /\ Certificate => Bounds
  <2> SUFFICES ASSUME Inv, Taken, Certificate, pc = "done", NEW f \in Tours,
                      \A e \in included : f[e[1]] = e[2], \A e \in excluded : f[e[1]] # e[2]
               PROVE  NodeValue <= Length(original, f)
    BY DEF Bounds
  <2>1. f \in Bijections(Vertex, Vertex) /\ Complete /\ Obeying(f)
    BY DEF Tours, Certificate, Obeying
  <2> QED BY <2>1, Duality
<1> QED
  BY InvHolds, TakenHolds, CertificateHolds, <1>1, PTL

=============================================================================
