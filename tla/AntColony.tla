------------------------------ MODULE AntColony ------------------------------
(***************************************************************************)
(* The ant colony heuristic of heuristics/aco/tsp: aco_tsp::solve and the  *)
(* ants it sends out.  In every iteration each ant walks over all the      *)
(* vertices and improves its route with two_opt; the best route of all     *)
(* iterations is the answer, also when a signal ends the search early.     *)
(*                                                                         *)
(* Pheromones are left out: they only weigh the draw in get_next_point,    *)
(* and any candidate can be drawn.                                         *)
(***************************************************************************)
EXTENDS Routes

CONSTANTS
  Matrices,       \* the cost matrices
  MVal,           \* M_VAL, 1e16: no route is as long
  Shuffles,       \* how random_shuffle may deal start vertices to the ants
  Iterations,     \* the values of the parameter iterations
  Factors         \* the values of candidate_list_factor, in hundredths

\* With fewer than 4 vertices the candidate list is empty and get_next_point
\* gives up; a cost of zero is divided by.
ASSUME AntAssumption ==
  /\ Size > 3
  /\ \A f \in Shuffles : f \in [1 .. Size \div 2 -> Vertex] /\ IsInjective(f)
  /\ Iterations \subseteq Nat /\ Factors \subseteq Nat
  /\ \A m \in Matrices :
       /\ m \in [Cells -> Int]
       /\ \A p \in Cells : p[1] # p[2] => m[p] > 0 /\ Size * m[p] < MVal
  /\ MVal \in Nat

VARIABLES
  params, matrix,
  start_point,     \* where each ant starts
  n,               \* iterations made
  k,               \* the ant that is under way
  pc,              \* what is next in solve
  sol,             \* the route of ant k
  solutions,       \* the routes of this iteration
  best_solution,
  interrupted      \* g_interruped

input == <<params, matrix, start_point>>
vars == <<input, n, k, pc, sol, solutions, best_solution, interrupted>>

Ant == 1 .. Size \div 2
Params == [iterations : Iterations, candidate_list_factor : Factors]
Unset == [route |-> <<>>, value |-> 0]

\* Ant::init computes the length of the list from the ant's own parameters before it
\* is given those of the user: the factor is always the default, 0.25.
CandidateListSize == (Size * 25) \div 100

Init ==
  /\ params \in Params /\ matrix \in Matrices
  /\ start_point \in Shuffles
  /\ n = 0 /\ k = 1
  /\ pc = "iterate"
  /\ sol = Unset
  /\ solutions = [a \in Ant |-> Unset]
  /\ best_solution = [route |-> <<>>, value |-> MVal]
  /\ interrupted = FALSE

\* get_list_points
ListPoints == Vertex \ ToSet(sol.route)

\* select_candidate_list: the nearest of the vertices left; where the cut falls between
\* equally near ones is for std::sort to say.
CandidateList(v) ==
  {w \in ListPoints :
     Cardinality({x \in ListPoints : matrix[v, x] < matrix[v, w]}) < CandidateListSize}

Candidates(v) ==
  IF params.candidate_list_factor > 0 THEN CandidateList(v) ELSE ListPoints

\* The condition of the loop.
GoesOn == n < params.iterations /\ ~interrupted

Depart(a) == sol' = [route |-> <<start_point[a]>>, value |-> 0]

Iterate ==
  /\ pc = "iterate"
  /\ IF GoesOn THEN pc' = "walk" /\ k' = 1 /\ Depart(1)
     ELSE pc' = "done" /\ UNCHANGED <<k, sol>>
  /\ UNCHANGED <<input, n, solutions, best_solution, interrupted>>

\* get_next_point and append_vertex.
Walk ==
  /\ pc = "walk" /\ ListPoints # {}
  /\ \E w \in Candidates(Last(sol.route)) : sol' = [sol EXCEPT !.route = Append(@, w)]
  /\ UNCHANGED <<input, n, k, pc, solutions, best_solution, interrupted>>

\* No vertex is left: the ant returns to where it started, and calc_value.
Return ==
  /\ pc = "walk" /\ ListPoints = {}
  /\ LET route == Append(sol.route, Head(sol.route))
     IN sol' = [route |-> route, value |-> RouteLength(matrix, route)]
  /\ pc' = "two_opt"
  /\ UNCHANGED <<input, n, k, solutions, best_solution, interrupted>>

\* Another pass of two_opt that changes the route.
Improve ==
  /\ pc = "two_opt"
  /\ Pass(matrix, sol) # sol
  /\ sol' = Pass(matrix, sol)
  /\ UNCHANGED <<input, n, k, pc, solutions, best_solution, interrupted>>

\* A pass changes nothing: the route is the ant's solution, and the next ant starts.
Arrive ==
  /\ pc = "two_opt"
  /\ Pass(matrix, sol) = sol
  /\ solutions' = [solutions EXCEPT ![k] = sol]
  /\ IF k + 1 \in Ant THEN k' = k + 1 /\ pc' = "walk" /\ Depart(k + 1)
     ELSE pc' = "compare" /\ UNCHANGED <<k, sol>>
  /\ UNCHANGED <<input, n, best_solution, interrupted>>

Better(best, s) == IF s.value < best.value THEN s ELSE best

\* Mutant: the best of this iteration replaces the best of all.
Compare_Forgets ==
  /\ pc = "compare"
  /\ best_solution' = FoldLeft(Better, [route |-> <<>>, value |-> MVal], solutions)
  /\ n' = n + 1 /\ pc' = "iterate"
  /\ UNCHANGED <<input, k, sol, solutions, interrupted>>

\* The loop over the solutions, after which update_pheromone ends the iteration.
Compare ==
  /\ pc = "compare"
  /\ best_solution' = FoldLeft(Better, best_solution, solutions)
  /\ n' = n + 1 /\ pc' = "iterate"
  /\ UNCHANGED <<input, k, sol, solutions, interrupted>>

Step == Iterate \/ Walk \/ Return \/ Improve \/ Arrive \/ Compare

\* SIGINT or SIGTERM.
Signal ==
  /\ pc # "done" /\ ~interrupted /\ interrupted' = TRUE
  /\ UNCHANGED <<input, n, k, pc, sol, solutions, best_solution>>

Next == Step \/ Signal \/ (pc = "done" /\ UNCHANGED vars)

Spec == Init /\ [][Next]_vars /\ WF_vars(Step)

----------------------------------------------------------------------------
\* Whatever the exchanges, a finished route visits every vertex once and its value,
\* which two_opt only updates by differences, is its length.
ValueIsLength ==
  \A s \in {best_solution} \cup ToSet(solutions)
             \cup (IF pc \in {"two_opt", "compare"} THEN {sol} ELSE {}) :
    s.route # <<>> => IsRoute(s.route) /\ s.value = RouteLength(matrix, s.route)

\* The answer is the best of all iterations: a better route once found is not given up
\* for a worse one; if an iteration was made there is an answer, also after a signal, as
\* good as every solution of the last one; and no exchange two_opt tries shortens it.
BestOfAll ==
  /\ [][best_solution'.value <= best_solution.value]_vars
  /\ [](pc = "done" /\ n > 0 =>
          /\ best_solution.route # <<>>
          /\ \A a \in Ant : best_solution.value <= solutions[a].value
          /\ \A p \in Places : Delta(matrix, best_solution.route, p) <= 0)

\* The heuristic ends: every exchange shortens the route, so two_opt does.
Finishes == <>(pc = "done")
=============================================================================
