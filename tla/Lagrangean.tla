----------------------------- MODULE Lagrangean -----------------------------
(***************************************************************************)
(* LagrangeanRelaxation::solve, the bound of LagrangeanSolver: 1-trees of  *)
(* a matrix in which every vertex has a price, the multiplier lambda, for  *)
(* each of its edges, raised from one iteration to the next where the      *)
(* 1-tree has most edges.  The included edges are free, and paid for apart.*)
(*                                                                         *)
(* How far the prices rise is a real number that the code computes from    *)
(* the gap to the record.  Here it is any of a few integers (Steps), for   *)
(* the bound must hold for all prices; it is 0 when there is no gap, and   *)
(* never negative.  epsilon has its default, 0.                            *)
(***************************************************************************)
EXTENDS OneTree

CONSTANTS
  MVal,      \* M_VAL: the cost of an excluded edge and of the diagonal
  MaxIter,   \* max_iter
  Steps      \* how much the prices may rise for each edge

ASSUME LagrangeanAssumption == MaxIter \in Nat \ {0} /\ Steps \subseteq Nat

Ends(edge) == {edge[1], edge[2]}

Degree(edges, v) == Cardinality({k \in DOMAIN edges : v \in Ends(edges[k])})

\* The matrix with the prices of both ends.
Priced(m, lambda) ==
  [c \in Cells |-> IF c[1] = c[2] THEN MVal ELSE m[c] + lambda[c[1]] + lambda[c[2]]]

\* Mutant: the included edges come for nothing.
Penalty_Forgotten(matrix, included) == 0

\* included_edges_penalty: the price of the included edges.
Penalty(matrix, included) ==
  MapThenSumSet(LAMBDA e : matrix[Min(e), Max(e)], included)

\* One iteration: the 1-tree, and what it costs when the prices are paid back.
Iterated(m, lambda, included) ==
  LET priced == Priced(m, lambda)
      matrix == [c \in Cells |-> IF Ends(c) \in included THEN 0 ELSE priced[c]]
      edges == Solved(matrix).edges
  IN [lambda |-> lambda, edges |-> edges,
      value |-> Penalty(priced, included)
                  + MapThenSumSet(LAMBDA k : matrix[edges[k]], DOMAIN edges)
                  - 2 * MapThenSumSet(LAMBDA v : lambda[v], Vertex)]

IsTourlike(edges) == \A v \in Vertex : Degree(edges, v) = 2

\* The prices of the next iteration.  Every edge raises them at both its ends.
Raised(it, step, upper_bound) ==
  LET rise == IF it.value = upper_bound THEN 0 ELSE step
  IN [v \in Vertex |-> it.lambda[v] + rise * Degree(it.edges, v)]

\* solve: until the value is above the bound, every vertex has two edges, or the
\* iterations are used up.  In the first one no edge counts as included.
LagrangeanSolve(m, upper_bound, included, steps) ==
  LET free == [v \in Vertex |-> 0]
      iteration[k \in 1 .. MaxIter] ==
        IF k = 1 THEN Iterated(m, free, {})
        ELSE LET it == iteration[k - 1]
             IN IF it.value > upper_bound \/ IsTourlike(it.edges) THEN it
                ELSE Iterated(m, Raised(it, steps[k - 1], upper_bound), included)
  IN iteration[MaxIter]
=============================================================================
