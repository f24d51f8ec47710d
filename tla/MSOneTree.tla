----------------------------- MODULE MSOneTree -----------------------------
(* MSOneTree::solve, one selected edge per step. *)
EXTENDS OneTree

CONSTANTS
  ZeroWeights,   \* what an edge at vertex 0 may cost, less than MaxVal
  Weights,       \* and any other edge
  MVal           \* M_VAL: the cost of the diagonal

\* The symmetric matrices of such costs.
Matrices ==
  {[p \in Vertex \X Vertex |->
      IF p[1] = p[2] THEN MVal
      ELSE IF 0 \in {p[1], p[2]} THEN z[Max({p[1], p[2]})] ELSE w[{p[1], p[2]}]] :
     w \in [kSubset(2, Outside) -> Weights], z \in [Outside -> ZeroWeights]}

VARIABLES
  matrix,
  pc,
  tree    \* the solution in the making

vars == <<matrix, pc, tree>>

Init ==
  /\ matrix \in Matrices
  /\ pc = "start"
  /\ tree = [min_indices |-> [i \in Vertex |-> Size], min_values |-> [i \in Vertex |-> MaxVal],
            edges |-> <<>>, value |-> 0]

Start ==
  /\ pc = "start"
  /\ tree' = Started(matrix)
  /\ pc' = "grow"
  /\ UNCHANGED matrix

Grow ==
  /\ pc = "grow" /\ Len(tree.edges) < Size - 2
  /\ tree' = Grown(matrix, tree)
  /\ UNCHANGED <<matrix, pc>>

Close ==
  /\ pc = "grow" /\ Len(tree.edges) = Size - 2
  /\ tree' = Closed(matrix, tree)
  /\ pc' = "done"
  /\ UNCHANGED matrix

Next == Start \/ Grow \/ Close \/ (pc = "done" /\ UNCHANGED vars)

Spec == Init /\ [][Next]_vars

----------------------------------------------------------------------------
\* solve returns a "Minimum Spanning 1-Tree" (ms_one_tree.h).
FindsMinimumOneTree == pc = "done" => tree.value = MinimumOneTreeCost(matrix)
=============================================================================
