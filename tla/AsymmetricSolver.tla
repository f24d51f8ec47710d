-------------------------- MODULE AsymmetricSolver --------------------------
(***************************************************************************)
(* TspSolver of tsp/asymmetric/tsp.cpp inside the loop of SerialBNB: the   *)
(* four branching rules that break a subtour, and branch, on matrices of   *)
(* costs.                                                                  *)
(*                                                                         *)
(* TransformNode shows what transform_node returns, an optimal solution    *)
(* of the assignment problem; here it is any optimal solution.  A solution *)
(* maps every vertex to the next one.                                      *)
(***************************************************************************)
EXTENDS Routes

CONSTANTS
  MVal,       \* M_VAL: the cost of an excluded edge and of the diagonal
  Problems    \* pairs of a cost matrix and the number of a branching rule, 2 to 5

\* The loader puts M_VAL on the diagonal.  No tour is as long as that: M_VAL is 1e16.
ASSUME ProblemAssumption ==
  /\ MVal \in Nat
  /\ \A p \in Problems :
       /\ p[1] \in [Cells -> 0 .. MVal] /\ p[2] \in 2..5
       /\ \A v \in Vertex : p[1][<<v, v>>] = MVal
       /\ \A e \in Cells : e[1] # e[2] => Size * p[1][e] < MVal

VARIABLES
  matrix, rule,
  open,       \* the container of open nodes
  new_nodes,  \* the children that branch has yet to look at, by their number
  record

vars == <<matrix, rule, open, new_nodes, record>>

Assignments == {f \in [Vertex -> Vertex] : \A v, w \in Vertex : f[v] = f[w] => v = w}

\* The tours: no vertices but all of them are left by no edge.
Tours ==
  {f \in Assignments :
     \A S \in (SUBSET Vertex) \ {{}, Vertex} : \E v \in S : f[v] \notin S}

\* Where f leads from v, step by step.
Walk(f, v) == LET at[k \in Nat] == IF k = 0 THEN v ELSE f[at[k - 1]] IN at

\* The cycle of f through v.
CycleLength(f, v) ==
  CHOOSE n \in 1 .. Size : Walk(f, v)[n] = v /\ \A k \in 1 .. n - 1 : Walk(f, v)[k] # v

Cycle(f, v) == [k \in 1 .. CycleLength(f, v) |-> Walk(f, v)[k - 1]]

\* Mutant: any cycle through vertex 0 will do.
HasSolution_AnyCycle(f) == f[0] # 0

\* has_solution: the cycle through vertex 0 has all vertices.
HasSolution(f) == CycleLength(f, 0) = Size

Cost(f) == SumFunction([v \in Vertex |-> matrix[<<v, f[v]>>]])

\* What the assignment problem of a node makes of f: excluded edges cost M_VAL.
Weight(m, f, exc) ==
  SumFunction([v \in Vertex |-> IF <<v, f[v]>> \in exc THEN MVal ELSE m[<<v, f[v]>>]])

Obeys(f, node) ==
  /\ \A e \in node.included : f[e[1]] = e[2]
  /\ \A e \in node.excluded : f[e[1]] # e[2]

\* What transform_node may find for a node: its cheapest assignments.
Relaxations(m, inc, exc) ==
  LET feasible == {f \in Assignments : \A e \in inc : f[e[1]] = e[2]}
      least == Min({Weight(m, f, exc) : f \in feasible})
  IN {f \in feasible : Weight(m, f, exc) = least}

\* node->data.value: the original costs, of excluded edges too.
NodeValue(node) == Cost(node.primal)

----------------------------------------------------------------------------
(* Branching.  A child is the edges it includes and those it excludes.     *)

\* fill_edges_map: the edges already decided.
Decided(node) == node.included \cup node.excluded

\* mincard_subtour: the first of the shortest cycles of two vertices or more.
MincardSubtour ==
  [f \in Assignments |->
     LET starts == {v \in Vertex : f[v] # v}
     IN IF starts = {} THEN <<>>
        ELSE Cycle(f, CHOOSE v \in starts : \A w \in starts :
               \/ CycleLength(f, v) < CycleLength(f, w)
               \/ CycleLength(f, v) = CycleLength(f, w) /\ v <= w)]

\* The kth edge of that cycle.
Edge(node, k) ==
  LET v == MincardSubtour[node.primal][k] IN <<v, node.primal[v]>>

\* Mutant: the edge that closes the cycle is forgotten.
SubtourEdges_Open(node) ==
  {k \in DOMAIN MincardSubtour[node.primal] :
     k # Len(MincardSubtour[node.primal]) /\ Edge(node, k) \notin Decided(node)}

\* select_move: the numbers of the edges of that cycle which are not decided.
SubtourEdges(node) ==
  {k \in DOMAIN MincardSubtour[node.primal] : Edge(node, k) \notin Decided(node)}

\* Rule 2: each edge of the cycle is excluded in turn.
Rule2(node) ==
  [k \in SubtourEdges(node) |-> [inc |-> {}, exc |-> {Edge(node, k)}]]

\* Mutant: the excluded edge is among the included ones.
Rule3_OffByOne(node) ==
  [k \in SubtourEdges(node) |->
     [inc |-> {Edge(node, l) : l \in {l \in SubtourEdges(node) : l <= k}},
      exc |-> {Edge(node, k)}]]

\* Rule 3: and the edges before it are included.
Rule3(node) ==
  [k \in SubtourEdges(node) |->
     [inc |-> {Edge(node, l) : l \in {l \in SubtourEdges(node) : l < k}},
      exc |-> {Edge(node, k)}]]

\* Rule 4: one vertex of the cycle does not go to another one of it.
Rule4(node) ==
  LET cycle == MincardSubtour[node.primal]
  IN [k \in DOMAIN cycle |->
        [inc |-> {},
         exc |-> {<<cycle[k], w>> : w \in ToSet(cycle) \ {cycle[k]}} \ Decided(node)]]

\* Rule 5: the first vertex of the cycle that leaves it; a child that excludes nothing
\* new is not made.
Rule5(node) ==
  LET cycle == MincardSubtour[node.primal]
      inside == ToSet(cycle)
      excluded(k) ==
        (  {<<cycle[k], w>> : w \in inside \ {cycle[k]}}
           \cup {<<cycle[l], w>> : l \in 1 .. k - 1, w \in Vertex \ inside})
        \ Decided(node)
  IN [k \in {k \in DOMAIN cycle : excluded(k) # {}} |-> [inc |-> {}, exc |-> excluded(k)]]

\* The pointer branching_rule.
Branching(node) ==
  CASE rule = 2 -> Rule2(node)
    [] rule = 3 -> Rule3(node)
    [] rule = 4 -> Rule4(node)
    [] rule = 5 -> Rule5(node)

----------------------------------------------------------------------------
(* The search                                                              *)

Init ==
  /\ \E p \in Problems :
       /\ matrix = p[1] /\ rule = p[2]
       /\ \E f \in Relaxations(p[1], {}, {}) :
            open = {[included |-> {}, excluded |-> {}, primal |-> f]}
       /\ record = InitialValue(p[1])
  /\ new_nodes = <<>>

\* branch: a node whose value reaches the record is dropped.
Prune(node) ==
  /\ NodeValue(node) >= record
  /\ UNCHANGED new_nodes

\* branch: the children of any other node.
Expand(node) ==
  /\ NodeValue(node) < record
  /\ LET children == Branching(node)
     IN new_nodes' = [k \in DOMAIN children |->
          [included |-> node.included \cup children[k].inc,
           excluded |-> node.excluded \cup children[k].exc]]

Branch ==
  /\ DOMAIN new_nodes = {}
  /\ \E node \in open :
       /\ Prune(node) \/ Expand(node)
       /\ open' = open \ {node}
  /\ UNCHANGED <<matrix, rule, record>>

Worthwhile(child) == NodeValue(child) < record

\* One round of the loop of branch over the children: a tour lowers the record, any
\* other child is kept if its value is below the record.
Transform ==
  /\ DOMAIN new_nodes # {}
  /\ LET k == Min(DOMAIN new_nodes)
         head == new_nodes[k]
     IN /\ \E f \in Relaxations(matrix, head.included, head.excluded) :
             LET child == [included |-> head.included, excluded |-> head.excluded,
                           primal |-> f]
             IN /\ record' = IF HasSolution(f) /\ Worthwhile(child)
                             THEN NodeValue(child) ELSE record
                /\ open' = IF ~HasSolution(f) /\ Worthwhile(child)
                           THEN open \cup {child} ELSE open
        /\ new_nodes' = Restrict(new_nodes, DOMAIN new_nodes \ {k})
  /\ UNCHANGED <<matrix, rule>>

Done == open = {} /\ DOMAIN new_nodes = {}

Next == Branch \/ Transform \/ (Done /\ UNCHANGED vars)

Spec == Init /\ [][Next]_vars

----------------------------------------------------------------------------
\* Between two calls of branch, every tour is no shorter than the record or still
\* obeys the constraints of an open node: the rules leave no tour out, whatever
\* assignment the relaxation has come up with, and in the end, with no node open, the
\* record is the length of a shortest tour.
Coverage ==
  DOMAIN new_nodes = {} =>
    \A f \in Tours : record <= Cost(f) \/ \E node \in open : Obeys(f, node)

\* The record is always the length of a tour.
RecordGenuine == \E f \in Tours : record = Cost(f)

\* What the code takes for granted of a node it branches: there is a cycle to break
\* (rules 4 and 5 take the length of its list minus one), no child excludes an edge in
\* a row or column already taken (CHECK in transform_node), and with rules 2, 3 and 5
\* every child decides an edge that was not decided, so that the search comes to an end.
\* With rule 4 it need not (CHECK in branching_rule4), as README shows.
ChildrenProper ==
  DOMAIN new_nodes = {} =>
    \A node \in open : NodeValue(node) < record =>
      /\ MincardSubtour[node.primal] # <<>>
      /\ \A k \in DOMAIN Branching(node) :
           LET c == Branching(node)[k]
           IN /\ \A e \in c.exc, f \in node.included \cup c.inc : e[1] # f[1] /\ e[2] # f[2]
              /\ rule # 4 => ~(c.inc \cup c.exc \subseteq Decided(node))
=============================================================================
