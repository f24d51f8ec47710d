------------------------------ MODULE ApSolver ------------------------------
(***************************************************************************)
(* ApSolver<T>::solve: the assignment problem by shortest augmenting       *)
(* paths.  The dual variables dual_u and dual_v keep every reduced cost    *)
(* matrix[i, j] - dual_u[i] - dual_v[j] at or above zero, and only cells   *)
(* with reduced cost zero are assigned.                                    *)
(*                                                                         *)
(* The solver sees the vertices that its caller leaves free, renumbered in *)
(* their order; here they keep their names and rows and cols say which are *)
(* left.  Where the code takes the first index that will do, any will do   *)
(* here: neither the result's cost nor its certificate depends on it.      *)
(***************************************************************************)
EXTENDS Integers

CONSTANTS
  Vertex,    \* the vertices
  None,      \* no vertex: the code's dimension_
  BigValue   \* big_value_

ASSUME VertexAssumption == None \notin Vertex
ASSUME BigAssumption == BigValue \in Int

VARIABLES
  rows, cols,            \* the rows and columns of the problem
  matrix,                \* matrix[i, j]: the costs
  pc,
  dual_u, dual_v,        \* solution->dual_u, dual_v
  primal,                \* solution->primal: the column of a row, or None
  row_,                  \* row_: the row of a column, or None
  pred_,                 \* pred_: the row from which a column was labelled
  pi,                    \* the least reduced cost seen in a column
  scanned_u, scanned_v,  \* the rows and columns scanned
  labeled_v,             \* the columns labelled
  root,                  \* k: the row to be assigned
  i,                     \* the row to be scanned
  j                      \* the column reached: the end of the path

problem == <<rows, cols, matrix>>
duals == <<dual_u, dual_v>>
assignment == <<primal, row_>>
labels == <<pred_, pi, scanned_u, scanned_v, labeled_v>>
apVars == <<problem, pc, duals, assignment, labels, root, i, j>>

Reduced(r, c) == matrix[<<r, c>>] - dual_u[r] - dual_v[c]
Tight(r, c) == Reduced(r, c) = 0

Least(x, S) == x \in S /\ \A y \in S : x <= y

\* row_ for an assignment of the rows.
RowOf(phi) ==
  [c \in Vertex |-> IF \E r \in rows : phi[r] = c
                    THEN CHOOSE r \in rows : phi[r] = c ELSE None]

----------------------------------------------------------------------------
(* preprocess                                                              *)

\* An empty solution: row and column reduction.
Reduce ==
  /\ pc = "reduce"
  /\ dual_u' \in {u \in [Vertex -> {0} \cup {matrix[p] : p \in rows \X cols}] :
       \A r \in Vertex : IF r \in rows THEN Least(u[r], {matrix[<<r, c>>] : c \in cols})
                         ELSE u[r] = 0}
  /\ dual_v' \in {v \in [Vertex -> {0} \cup {matrix[p] - dual_u'[p[1]] : p \in rows \X cols}] :
       \A c \in Vertex :
         IF c \in cols THEN Least(v[c], {matrix[<<r, c>>] - dual_u'[r] : r \in rows})
         ELSE v[c] = 0}
  /\ pc' = "match"
  /\ UNCHANGED <<problem, assignment, labels, root, i, j>>

\* Cells with reduced cost zero are assigned one after the other until every row
\* that is left has none in a free column.
Match ==
  /\ pc = "match"
  /\ primal' \in [Vertex -> Vertex \cup {None}]
  /\ \A r \in Vertex : primal'[r] # None =>
       /\ r \in rows /\ primal'[r] \in cols /\ Tight(r, primal'[r])
       /\ \A s \in rows : primal'[s] = primal'[r] => s = r
  /\ \A r \in rows : primal'[r] = None =>
       \A c \in cols : Tight(r, c) => \E s \in rows : primal'[s] = c
  /\ row_' = RowOf(primal')
  /\ pc' = "next"
  /\ UNCHANGED <<problem, duals, labels, root, i, j>>

\* A solution that is not empty: its duals and its assignment are taken as given.
Adopt ==
  /\ pc = "adopt"
  /\ row_' = RowOf(primal)
  /\ pc' = "next"
  /\ UNCHANGED <<problem, duals, primal, labels, root, i, j>>

----------------------------------------------------------------------------
(* solve: one augmentation for every row that is not assigned.             *)

NextUnassigned ==
  /\ pc = "next"
  /\ \E r \in rows :
       /\ primal[r] = None
       /\ root' = r /\ i' = r
  /\ pi' = [c \in Vertex |-> BigValue]
  /\ pred_' = [c \in Vertex |-> None]
  /\ scanned_u' = {} /\ scanned_v' = {} /\ labeled_v' = {}
  /\ pc' = "scan"
  /\ UNCHANGED <<problem, duals, assignment, j>>

Finished ==
  /\ pc = "next"
  /\ \A r \in rows : primal[r] # None
  /\ pc' = "done"
  /\ UNCHANGED <<problem, duals, assignment, labels, root, i, j>>

\* The columns for which row i offers less than the rows scanned before.
Improved == {c \in cols \ labeled_v : pi[c] > Reduced(i, c)}

\* augment: scan row i, and label the columns it reaches at no cost.
Scan ==
  /\ pc = "scan"
  /\ scanned_u' = scanned_u \cup {i}
  /\ pred_' = [c \in Vertex |-> IF c \in Improved THEN i ELSE pred_[c]]
  /\ pi' = [c \in Vertex |-> IF c \in Improved THEN Reduced(i, c) ELSE pi[c]]
  /\ labeled_v' = labeled_v \cup {c \in Improved : Tight(i, c)}
  /\ pc' = "select"
  /\ UNCHANGED <<problem, duals, assignment, scanned_v, root, i, j>>

\* A labelled column that was not visited: it is free, and the path is
\* complete, or the row it is assigned to is scanned next.
Select ==
  /\ pc = "select"
  /\ \E c \in labeled_v \ scanned_v :
       /\ scanned_v' = scanned_v \cup {c}
       /\ IF row_[c] = None
          THEN pc' = "flip" /\ j' = c /\ UNCHANGED i
          ELSE pc' = "scan" /\ i' = row_[c] /\ UNCHANGED j
  /\ UNCHANGED <<problem, duals, assignment, pred_, pi, scanned_u, labeled_v, root>>

\* Mutant: the labelled columns are not lowered.
LoweredBy_Nothing(c, delta) == 0

LoweredBy(c, delta) == IF c \in labeled_v THEN delta ELSE 0

\* Mutant: the columns that the update brings to zero are not labelled.
Reached_None(p) == {}

Reached(p) == {c \in cols \ labeled_v : p[c] = 0}

\* dual_update: no such column.  Move the duals by the least of pi, which
\* labels at least one more, and scan the same row again.
DualUpdate ==
  /\ pc = "select"
  /\ labeled_v \subseteq scanned_v
  /\ \E delta \in {BigValue} \cup {pi[c] : c \in cols} :
       /\ Least(delta, {BigValue} \cup {pi[c] : c \in cols \ labeled_v})
       /\ dual_u' = [r \in Vertex |->
                       IF r \in scanned_u THEN dual_u[r] + delta ELSE dual_u[r]]
       /\ dual_v' = [c \in Vertex |-> dual_v[c] - LoweredBy(c, delta)]
       /\ pi' = [c \in Vertex |->
                   IF c \in cols \ labeled_v THEN pi[c] - delta ELSE pi[c]]
  /\ labeled_v' = labeled_v \cup Reached(pi')
  /\ pc' = "scan"
  /\ UNCHANGED <<problem, assignment, pred_, scanned_u, scanned_v, root, i, j>>

\* Mutant: the row that loses its column keeps it.
Flip_KeepRow ==
  /\ pc = "flip"
  /\ row_' = [row_ EXCEPT ![j] = pred_[j]]
  /\ j' = primal[pred_[j]]
  /\ primal' = IF pred_[j] = root THEN [primal EXCEPT ![root] = j] ELSE primal
  /\ pc' = IF pred_[j] = root THEN "next" ELSE "flip"
  /\ UNCHANGED <<problem, duals, labels, root, i>>

\* One edge of the path: column j goes to the row it was labelled from, whose own
\* column, unless it is the root, is next.
Flip ==
  /\ pc = "flip"
  /\ LET r == pred_[j]
     IN /\ row_' = [row_ EXCEPT ![j] = r]
        /\ j' = primal[r]
        /\ primal' = [primal EXCEPT ![r] = j]
        /\ pc' = IF r = root THEN "next" ELSE "flip"
  /\ UNCHANGED <<problem, duals, labels, root, i>>

Solve ==
  \/ Reduce \/ Match \/ Adopt \/ NextUnassigned \/ Finished
  \/ Scan \/ Select \/ DualUpdate \/ Flip
=============================================================================
