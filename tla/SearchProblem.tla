--------------------------- MODULE SearchProblem ---------------------------
(***************************************************************************)
(* What the search engines (src/bnb) know of a problem: the tree of nodes  *)
(* that a Solver class generates, and the effect of Solver::branch on the  *)
(* record (the incumbent value) and on the container of open nodes.        *)
(*                                                                         *)
(* A node stands for a bnb::Node<Set>.  The tree is the one the solver     *)
(* would generate if nothing were pruned; pruning picks a part of it.      *)
(* Values are integers: the code compares doubles and never divides them.  *)
(***************************************************************************)
EXTENDS Integers, Sequences

CONSTANTS
  Node,       \* the nodes of the complete search tree
  Root,       \* the node made by Solver::get_initial_node
  Children,   \* Children[n]: the sequence the branching rule returns for n
  Value,      \* Value[n]: node->data.value, the bound transform_node computes
  Tour,       \* the nodes whose relaxation is a Hamiltonian cycle
  Solution,   \* the tours of the problem
  Cost,       \* Cost[s]: the length of a tour
  Sols        \* Sols[n]: the tours that satisfy the constraints of node n

ChildSet(n) == {Children[n][i] : i \in DOMAIN Children[n]}

\* create_node gives every child an address of its own: the nodes form a tree.
ASSUME TreeAssumption ==
  /\ Root \in Node
  /\ Children \in [Node -> Seq(Node)]
  /\ \A n \in Node : Root \notin ChildSet(n)
  /\ \A m, n \in Node : ChildSet(m) \cap ChildSet(n) # {} => m = n

ASSUME TypeAssumption ==
  /\ Value \in [Node -> Int]
  /\ Cost \in [Solution -> Int]
  /\ Sols \in [Node -> SUBSET Solution]
  /\ Tour \subseteq Node

(***************************************************************************)
(* The contract between a solver and the engines.  The relaxation of a     *)
(* node bounds its tours from below; a relaxation that is a tour costs     *)
(* what that tour costs; and the children of every node that is branched   *)
(* (the root, and the nodes whose relaxation is no tour) keep all of its   *)
(* tours.                                                                  *)
(***************************************************************************)
Bounds  == \A n \in Node : \A s \in Sols[n] : Value[n] <= Cost[s]
Attains == \A n \in Tour : \E s \in Solution : Cost[s] = Value[n]
Covers  == \A n \in {Root} \cup (Node \ Tour) :
             \A s \in Sols[n] : \E c \in ChildSet(n) : s \in Sols[c]
AllTours == Sols[Root] = Solution

SolverContract == Bounds /\ Attains /\ Covers /\ AllTours

----------------------------------------------------------------------------
(***************************************************************************)
(* Solver::branch (TspSolver::branch; the other solvers have the same      *)
(* shape) called with the record r.  A node whose bound reaches r is       *)
(* dropped.  Otherwise the children are visited in order: one that is a    *)
(* tour lowers the record and is released, any other is kept when its      *)
(* bound is below the record as the tours before it have left it.          *)
(***************************************************************************)
\* Mutant: a node is dropped one unit before its bound reaches the record.
Pruned_TooEager(n, r) == Value[n] + 1 >= r

Pruned(n, r) == Value[n] >= r

Kept(n, r) ==
  IF Pruned(n, r) THEN {}
  ELSE {c \in Node : \E i \in DOMAIN Children[n] :
          /\ c = Children[n][i]
          /\ c \notin Tour
          /\ Value[c] < r
          /\ \A j \in 1..(i-1) :
               Children[n][j] \in Tour => Value[c] < Value[Children[n][j]]}

\* Mutant: every child lowers the record, tour or not.
Records_AnyChild(n, r) ==
  {r} \cup {Value[c] : c \in IF Pruned(n, r) THEN {} ELSE ChildSet(n)}

\* The record branch leaves behind: the least of r and of the new tours.
Records(n, r) ==
  {r} \cup {Value[c] : c \in IF Pruned(n, r) THEN {} ELSE ChildSet(n) \cap Tour}

IsNewRecord(n, r, v) == v \in Records(n, r) /\ \A w \in Records(n, r) : v <= w
=============================================================================
