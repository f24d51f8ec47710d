--------------------------- MODULE SymmetricSolver ---------------------------
(***************************************************************************)
(* The symmetric solvers inside the loop of SerialBNB, with the stack of   *)
(* LifoContainer.  ClassicalSolver (tsp/symmetric/stsp.cpp) bounds a node  *)
(* by a 1-tree (OneTree), LagrangeanSolver (lagrangean_stsp.cpp) by the    *)
(* better ones of Lagrangean.  A node is branched by excluding, one after  *)
(* the other, the edges at a vertex that has more than two (the classical  *)
(* solver and rule 1), by the fate of two such edges (rule 2), or by that  *)
(* of one (rule 3).                                                        *)
(*                                                                         *)
(* The root is never tested for being a tour, and all rules but the second *)
(* lose a tour that is found there.  On five vertices the initial solution *)
(* hides it: it has not been seen to be longer than such a tour.           *)
(***************************************************************************)
EXTENDS Lagrangean

CONSTANT Problems   \* the cost matrices, and the rule the search is to use

Rules == {"classical", "rule1", "rule2", "rule3"}

ASSUME ProblemAssumption ==
  \A p \in Problems :
    /\ p.rule \in Rules /\ p.matrix \in [Cells -> Int]
    /\ \A i, j \in Vertex : p.matrix[i, j] = p.matrix[j, i] /\ p.matrix[i, j] < MaxVal

VARIABLES
  matrix_original,
  rule,       \* the solver and its branching_rule
  open,       \* the stack, its top first: a node is the edges included and excluded on
              \* its way, the edges of its relaxation, and its value
  new_nodes,  \* the children that branch has yet to look at: their edges
  record

vars == <<matrix_original, rule, open, new_nodes, record>>

Path(included, excluded) == [included |-> included, excluded |-> excluded]

Edges(seq) == {Ends(seq[k]) : k \in DOMAIN seq}

\* The vertices that have their two edges already, by adjacency_list.
Full(path) ==
  {v \in Vertex : \E k, l \in DOMAIN path.included :
     k # l /\ v \in Ends(path.included[k]) \cap Ends(path.included[l])}

Forbidden(path) ==
  {c \in Cells : \/ Ends(c) \in Edges(path.excluded)
                 \/ Ends(c) \cap Full(path) # {} /\ Ends(c) \notin Edges(path.included)}

\* transform_node: the matrix without the excluded edges, and without the edges at a
\* vertex that has its two.
NodeMatrix(path) ==
  FoldSet(LAMBDA c, m : [m EXCEPT ![c] = MVal], matrix_original, Forbidden(path))

\* What the prices of the relaxation may rise by (none without one).
Rises == IF rule = "classical" THEN {<<>>} ELSE [1 .. MaxIter - 1 -> Steps]

\* What may become of a node: by the classical bound one thing.
TransformNode(path, upper_bound) ==
  LET solution(m, steps) ==
        IF rule = "classical" THEN Solved(m)
        ELSE LagrangeanSolve(m, upper_bound, Edges(path.included), steps)
      node(s) == [included |-> path.included, excluded |-> path.excluded,
                  relaxation |-> s.edges, value |-> s.value]
  IN {node(solution(m, steps)) : m \in {NodeMatrix(path)}, steps \in Rises}

\* The edges at v, and where they lead: adjacency_list[v].
EdgesAt(edges, v) == SelectSeq(edges, LAMBDA e : v \in {e[1], e[2]})
Adjacency(edges, v) ==
  LET at == EdgesAt(edges, v)
  IN [k \in DOMAIN at |-> IF at[k][1] = v THEN at[k][2] ELSE at[k][1]]

\* build_tour: from vertex 0 along one edge after the other, and <<>> where there is a
\* vertex without exactly two edges, or the walk comes back too early.
BuildTour(edges) ==
  LET step[tour \in Seq(Vertex)] ==
        IF Len(tour) = Size + 1 THEN tour
        ELSE LET next == SelectSeq(Adjacency(edges, Last(tour)),
                                   LAMBDA v : v # tour[Len(tour) - 1])
             IN IF next = <<>> \/ Head(next) \in ToSet(Tail(tour)) THEN <<>>
                ELSE step[Append(tour, Head(next))]
  IN IF \E v \in Vertex : Len(Adjacency(edges, v)) # 2 THEN <<>>
     ELSE step[<<0, Adjacency(edges, 0)[1]>>]

\* Mutant: vertices with two edges may be selected.
SelectMoves_AnyVertex(edges) ==
  EdgesAt(edges, ArgMin(Vertex, [v \in Vertex |-> Len(EdgesAt(edges, v))]))

\* select_moves: the edges at a vertex with the fewest edges, but more than two; at
\* vertex 0 if there is none.
SelectMoves(edges) ==
  LET crowded == {v \in Vertex : Len(EdgesAt(edges, v)) \in 3 .. Size - 1}
      degree == [v \in Vertex |-> Len(EdgesAt(edges, v))]
  IN EdgesAt(edges, IF crowded = {} THEN 0 ELSE ArgMin(crowded, degree))

\* branching_rule1, and the branch of ClassicalSolver.
Rule1(node) ==
  LET moves == SelectMoves(node.relaxation)
  IN [k \in DOMAIN moves |-> Path(node.included, Append(node.excluded, moves[k]))]

Free(node, edges) == SelectSeq(edges, LAMBDA e : Ends(e) \notin Edges(node.included))

\* The edges that branching_rule2 selects: the first two that are not included at the
\* first vertex with more than two edges of which two or more are not, or at vertex 0.
SelectedEdges(node) ==
  LET free(v) == Free(node, EdgesAt(node.relaxation, v))
      crowded == {v \in Vertex : Len(EdgesAt(node.relaxation, v)) > 2 /\ Len(free(v)) >= 2}
      v == IF crowded = {} THEN 0 ELSE Min(crowded)
  IN [vertex |-> v, edges |-> free(v)]

\* branching_rule2 (Volgenant and Jonker): both edges in, if none is at that vertex yet;
\* the first in and the second out; the first out.
Rule2(node) ==
  LET selected == SelectedEdges(node)
      first == selected.edges[1]
      second == selected.edges[2]
      both == Path(Append(Append(node.included, first), second), node.excluded)
      one == Path(Append(node.included, first), Append(node.excluded, second))
      none == Path(node.included, Append(node.excluded, first))
  IN IF Len(selected.edges) = Len(EdgesAt(node.relaxation, selected.vertex))
     THEN <<both, one, none>> ELSE <<one, none>>

\* branching_rule3: the first of the longest edges, not included, at a vertex with more
\* than two edges; no child if there is none.
Rule3(node) ==
  LET edges == node.relaxation
      length(k) == matrix_original[edges[k]]
      eligible == {k \in DOMAIN edges :
                     /\ Ends(edges[k]) \notin Edges(node.included)
                     /\ \E v \in Ends(edges[k]) : Degree(edges, v) > 2}
      k == CHOOSE i \in eligible :
             \A j \in eligible : length(i) > length(j) \/ (length(i) = length(j) /\ i <= j)
  IN IF eligible = {} THEN <<>>
     ELSE <<Path(node.included, Append(node.excluded, edges[k])),
            Path(Append(node.included, edges[k]), node.excluded)>>

Branched(node) ==
  CASE rule = "rule2" -> Rule2(node)
    [] rule = "rule3" -> Rule3(node)
    [] OTHER -> Rule1(node)

Init ==
  /\ \E p \in Problems : matrix_original = p.matrix /\ rule = p.rule
  /\ record = InitialValue(matrix_original)
  /\ \E root \in TransformNode(Path(<<>>, <<>>), record) : open = <<root>>
  /\ new_nodes = <<>>

\* branch, up to its loop.  LagrangeanSolver drops a node that the record has reached;
\* ClassicalSolver branches a node whose value is above the record all the same.  The
\* CHECK of rule 2 ends the program, and nothing is enabled then.
Branch ==
  /\ new_nodes = <<>> /\ open # <<>>
  /\ LET node == Head(open)
     IN IF rule # "classical" /\ node.value >= record THEN new_nodes' = <<>>
        ELSE /\ rule = "rule2" => Len(SelectedEdges(node).edges) >= 2
             /\ new_nodes' = Branched(node)
  /\ open' = Tail(open)
  /\ UNCHANGED <<matrix_original, rule, record>>

\* One round of the loop: a tour lowers the record, any other child is kept if its
\* value is below the record.  The CHECK of transform_node: no vertex has been given
\* three edges.
Visit ==
  /\ new_nodes # <<>>
  /\ \A v \in Vertex : Len(EdgesAt(Head(new_nodes).included, v)) < 3
  /\ \E child \in TransformNode(Head(new_nodes), record) :
       LET worthwhile == child.value < record
           tour == BuildTour(child.relaxation)
       IN /\ record' = IF worthwhile /\ tour # <<>> THEN child.value ELSE record
          /\ open' = IF worthwhile /\ tour = <<>> THEN <<child>> \o open ELSE open
  /\ new_nodes' = Tail(new_nodes)
  /\ UNCHANGED <<matrix_original, rule>>

Done == open = <<>> /\ new_nodes = <<>>

Next == Branch \/ Visit \/ (Done /\ UNCHANGED vars)

Spec == Init /\ [][Next]_vars

----------------------------------------------------------------------------
\* The tours, each one in one direction.
Tours == {<<0>> \o p \o <<0>> : p \in {q \in SetToSeqs(Vertex \ {0}) : q[1] < Last(q)}}

TourEdges(tour) == {{tour[k], tour[k + 1]} : k \in 1 .. Size}

Within(path, tour) ==
  /\ Edges(path.included) \subseteq TourEdges(tour)
  /\ Edges(path.excluded) \cap TourEdges(tour) = {}

\* Between two calls of branch, every tour is no shorter than the record or lies within
\* some open node: the children of every rule leave no tour out, and a node is dropped
\* for a bound that does bound its tours, whatever the prices.
Coverage ==
  new_nodes = <<>> =>
    \A tour \in Tours :
      \/ record <= RouteLength(matrix_original, tour)
      \/ \E node \in ToSet(open) : Within(node, tour)

\* The record, which is the value of a relaxation, prices and penalties paid back, is
\* the length of a tour.
RecordGenuine == \E tour \in Tours : record = RouteLength(matrix_original, tour)

\* The value of an open node of ClassicalSolver is the cost of a minimum 1-tree of its
\* own matrix, in which other nodes have left no trace, unless vertex 0 is nearest to
\* vertex 1: the nearest vertices that Prim's algorithm remembers are never out of date.
\* That of LagrangeanSolver is no more than the length of any tour of the node.
BoundUnlessNearZero ==
  \A node \in ToSet(open) :
    IF rule = "classical"
    THEN LET m == NodeMatrix(node)
         IN NearZero(m) \/ node.value = MinimumOneTreeCost(m)
    ELSE \A tour \in Tours :
           Within(node, tour) => node.value <= RouteLength(matrix_original, tour)
=============================================================================
