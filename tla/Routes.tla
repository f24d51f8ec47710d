------------------------------- MODULE Routes -------------------------------
(***************************************************************************)
(* The vertices of a problem, the cells of its cost matrix, and routes and *)
(* their lengths: the greedy route and the 2-opt exchange of               *)
(* tsp/common/types.cpp, as functions.                                     *)
(***************************************************************************)
EXTENDS Integers, SequencesExt

CONSTANT Size   \* dimension: the number of vertices

ASSUME SizeAssumption == Size \in Nat /\ Size > 2

Vertex == 0 .. Size - 1
Cells == Vertex \X Vertex

\* Solution::calc_value: the length of a route that ends where it starts.
RouteLength(m, route) ==
  SumFunction([k \in 1 .. Len(route) - 1 |-> m[<<route[k], route[k + 1]>>]])

IsRoute(route) ==
  /\ route \in Seq(Vertex) /\ Len(route) = Size + 1
  /\ route[Size + 1] = route[1]
  /\ \A k, l \in 1..Size : route[k] = route[l] => k = l

\* The first vertex of S that is nearest to v.
Nearest(m, v, S) ==
  CHOOSE w \in S : \A x \in S :
    m[<<v, w>>] < m[<<v, x>>] \/ (m[<<v, w>>] = m[<<v, x>>] /\ w <= x)

\* What a walk that has visited all vertices becomes.
RoundTrip(m, sol) ==
  [route |-> Append(sol.route, sol.route[1]),
   value |-> sol.value + m[<<Last(sol.route), sol.route[1]>>]]

\* get_greedy_solution from one vertex: always on to the nearest vertex left.
GreedySolution(m, start) ==
  LET walk[k \in Nat] ==
        IF k = 0 THEN [route |-> <<start>>, value |-> 0]
        ELSE LET sol == walk[k - 1]
                 v == Last(sol.route)
                 vertices == Vertex \ ToSet(sol.route)
                 w == Nearest(m, v, vertices)
             IN IF vertices = {} THEN sol
                ELSE [route |-> Append(sol.route, w), value |-> sol.value + m[<<v, w>>]]
  IN RoundTrip(m, walk[Size - 1])

\* Mutant: the edge between the two vertices is taken to cost the same both ways.
Delta_Symmetric(m, route, k) ==
  (m[<<route[k - 1], route[k]>>] + m[<<route[k + 1], route[k + 2]>>])
    - (m[<<route[k - 1], route[k + 1]>>] + m[<<route[k], route[k + 2]>>])

\* What the route gets shorter by when its vertices k and k + 1 change places.
Delta(m, route, k) ==
  (m[<<route[k - 1], route[k]>>] + m[<<route[k], route[k + 1]>>]
     + m[<<route[k + 1], route[k + 2]>>])
    - (m[<<route[k - 1], route[k + 1]>>] + m[<<route[k + 1], route[k]>>]
         + m[<<route[k], route[k + 2]>>])

\* The places tried: all but the last inner pair, because the loop of two_opt runs
\* while second < route.size() - 2.
Places == 2 .. Size - 2

\* Mutant: exchanges that gain nothing are made as well.
Exchanged_Ties(m, sol, k) ==
  IF Delta(m, sol.route, k) >= 0
  THEN [route |-> [sol.route EXCEPT ![k] = sol.route[k + 1], ![k + 1] = sol.route[k]],
        value |-> sol.value - Delta(m, sol.route, k)]
  ELSE sol

Exchanged(m, sol, k) ==
  IF Delta(m, sol.route, k) > 0
  THEN [route |-> [sol.route EXCEPT ![k] = sol.route[k + 1], ![k + 1] = sol.route[k]],
        value |-> sol.value - Delta(m, sol.route, k)]
  ELSE sol

\* One pass of two_opt over the route.
Pass(m, sol) ==
  LET tried[k \in Nat] ==
        IF k = 0 THEN sol
        ELSE IF k \in Places THEN Exchanged(m, tried[k - 1], k) ELSE tried[k - 1]
  IN tried[Size]

----------------------------------------------------------------------------
\* The rest of get_greedy_solution, for modules that need only the result.

\* two_opt: passes until one changes nothing.  All the others shorten the route, so that
\* the value of the solution, a sum of costs that are not negative, bounds their number.
TwoOpt(m, sol) ==
  LET after[n \in Nat] == IF n = 0 THEN sol ELSE Pass(m, after[n - 1])
  IN after[CHOOSE n \in 0 .. sol.value : after[n + 1] = after[n]]

\* get_greedy_solution: the least of all starts.
InitialValue(m) ==
  LET values == {TwoOpt(m, GreedySolution(m, v)).value : v \in Vertex}
  IN CHOOSE x \in values : \A y \in values : x <= y
=============================================================================
