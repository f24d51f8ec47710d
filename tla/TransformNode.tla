--------------------------- MODULE TransformNode ---------------------------
(***************************************************************************)
(* TspSolver::transform_node: the bound of a node of the asymmetric        *)
(* solver.  The root is solved as an assignment problem from nothing; a    *)
(* child takes over the duals of its parent and as much of the assignment  *)
(* as its constraints leave, and ApSolver goes on from there.  The model   *)
(* follows one path down the search tree.                                  *)
(*                                                                         *)
(* The branching rules differ in the edges they include and exclude.  Here *)
(* a child may include any free edges that fit together and exclude any    *)
(* free edges away from them, which all five rules obey.                   *)
(***************************************************************************)
EXTENDS ApSolver, FiniteSets, Functions

CONSTANTS
  Matrices,      \* the cost matrices
  MinVal,        \* no cost is less
  MVal,          \* M_VAL: the cost of an excluded edge
  MaxLevel,      \* how far down the path goes
  MaxIncluded, MaxExcluded   \* how many edges a child includes and excludes

ASSUME MatrixAssumption ==
  /\ IsFiniteSet(Vertex)
  /\ MinVal \in Int /\ MVal \in Int /\ MinVal <= MVal
  /\ Matrices \subseteq [Vertex \X Vertex -> MinVal .. MVal]

\* big_value_, the greatest double, is beyond the reduced costs that a path of any length
\* can come to: M_VAL is 1e16.
ASSUME LevelAssumption ==
  MaxLevel \in Nat /\ (MaxLevel + 2) * (MVal - MinVal) < BigValue

VARIABLES
  original,            \* matrix_original_
  included, excluded,  \* the edges included and excluded on the way to the node
  level

nodeVars == <<original, included, excluded, level>>
vars == <<apVars, nodeVars>>

Cells == Vertex \X Vertex
FirstEnds(E) == {e[1] : e \in E}
SecondEnds(E) == {e[2] : e \in E}

Init ==
  /\ original \in Matrices /\ matrix = original
  /\ included = {} /\ excluded = {} /\ level = 0
  /\ rows = Vertex /\ cols = Vertex
  /\ pc = "reduce"
  /\ dual_u = [v \in Vertex |-> 0] /\ dual_v = [v \in Vertex |-> 0]
  /\ primal = [v \in Vertex |-> None] /\ row_ = [v \in Vertex |-> None]
  /\ pred_ = [v \in Vertex |-> None] /\ pi = [v \in Vertex |-> BigValue]
  /\ scanned_u = {} /\ scanned_v = {} /\ labeled_v = {}
  /\ root = None /\ i = None /\ j = None

\* Mutant: a row whose edge was excluded stays assigned.
Kept_Excluded(r, exc) == IF primal[r] \in cols' THEN primal[r] ELSE None

\* The part of the parent's assignment that the child starts from.
Kept(r, exc) ==
  IF primal[r] \in cols' /\ r \notin FirstEnds(exc) THEN primal[r] ELSE None

\* The edges not decided.
Free == (rows \X cols) \ excluded

\* A child that includes the edges inc and excludes the edges exc.
Constrain(inc, exc) ==
  /\ pc = "done" /\ level < MaxLevel
  /\ inc \subseteq Free
  /\ \A e, f \in inc : e # f => e[1] # f[1] /\ e[2] # f[2]
  /\ rows' = rows \ FirstEnds(inc)
  /\ cols' = cols \ SecondEnds(inc)
  /\ exc \subseteq rows' \X cols'
  /\ included' = included \cup inc
  /\ excluded' = excluded \cup exc
  /\ matrix' = [p \in Cells |-> IF p \in excluded' THEN MVal ELSE original[p]]
  /\ dual_u' = [r \in Vertex |-> IF r \in rows' THEN dual_u[r] ELSE 0]
  /\ dual_v' = [c \in Vertex |-> IF c \in cols' THEN dual_v[c] ELSE 0]
  /\ primal' = [r \in Vertex |-> IF r \in rows' THEN Kept(r, exc) ELSE None]
  /\ pc' = "adopt"
  /\ level' = level + 1
  /\ UNCHANGED <<original, row_, labels, root, i, j>>

\* The sets of at most n edges of S.
UpTo(n, S) ==
  LET sets[k \in 0..n] == IF k = 0 THEN {{}}
                          ELSE sets[k - 1] \cup {E \cup {e} : E \in sets[k - 1], e \in S}
  IN sets[n]

Child ==
  \E inc \in UpTo(MaxIncluded, Free), exc \in UpTo(MaxExcluded, Free) :
    Constrain(inc, exc)

Next ==
  \/ Solve /\ UNCHANGED nodeVars
  \/ Child
  \/ pc = "done" /\ UNCHANGED vars

Spec == Init /\ [][Next]_vars /\ WF_vars(Solve /\ UNCHANGED nodeVars)

----------------------------------------------------------------------------
\* No reduced cost is negative, from the reduction of the root to the last
\* augmentation of the last child.
DualFeasible ==
  pc # "reduce" => \A r \in rows, c \in cols : Reduced(r, c) >= 0

\* Every assigned cell has reduced cost zero, while a path is flipped included.
Slack == \A r \in rows : primal[r] # None => primal[r] \in cols /\ Tight(r, primal[r])

\* When a bound is done, every free row has a column of its own.
Complete ==
  /\ \A r \in rows : primal[r] # None
  /\ \A q, r \in rows : primal[q] = primal[r] => q = r

\* The certificate of optimality, kept through warm starts and half-flipped paths:
\* by duality, a complete assignment that has it costs no more than any other one.
Certificate == DualFeasible /\ Slack /\ (pc = "done" => Complete)

\* The column of each row in the solution stored in the node.
Column(r) ==
  IF r \in rows THEN primal[r] ELSE CHOOSE c \in Vertex : <<r, c>> \in included

\* node->data.value: excluded edges count with their original costs.
NodeValue == SumFunction([r \in Vertex |-> original[<<r, Column(r)>>]])

\* The assignments, as functions on rows, and the tours of all vertices.
Bijections(S, T) == {f \in [S -> T] : \A s, t \in S : f[s] = f[t] => s = t}
Tours ==
  {f \in Bijections(Vertex, Vertex) :
     \A S \in (SUBSET Vertex) \ {{}, Vertex} : \E s \in S : f[s] \notin S}

Length(m, f) == SumFunction([r \in DOMAIN f |-> m[<<r, f[r]>>]])

\* The value of a node, which transform_node sums from the original matrix, is no
\* more than the length of any tour that obeys the constraints of the node: what
\* branch needs to drop a node.
Bounds ==
  pc = "done" =>
    \A f \in Tours :
      /\ \A e \in included : f[e[1]] = e[2]
      /\ \A e \in excluded : f[e[1]] # e[2]
      => NodeValue <= Length(original, f)

\* The solver finishes, at the root and at every child.
Finishes == pc # "done" ~> pc = "done"
=============================================================================
