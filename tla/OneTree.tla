------------------------------ MODULE OneTree ------------------------------
(***************************************************************************)
(* The steps of MSOneTree::solve, the bound of the symmetric solvers, as   *)
(* functions.  A 1-tree is a spanning tree of the vertices other than 0,   *)
(* found here by Prim's algorithm from vertex 1, and two edges at vertex 0.*)
(*                                                                         *)
(* For every vertex of the tree the algorithm remembers the nearest vertex *)
(* outside, and min_indices doubles as the set of the vertices inside.     *)
(***************************************************************************)
EXTENDS Routes

CONSTANT MaxVal   \* max_val: larger than any cost

Outside == 1 .. Size - 1     \* the vertices the tree is to span

(***************************************************************************)
(* A tree in the making: min_indices[i] is Size, or i is in the tree and   *)
(* this is the nearest vertex outside, if there is one; min_values[i] is   *)
(* what the edge to it costs; edges and value are what is selected and its *)
(* cost.                                                                   *)
(***************************************************************************)
Trees ==
  [min_indices : [Vertex -> 0 .. Size], min_values : [Vertex -> Int],
   edges : Seq(Cells), value : Int]

\* The first of the indices in S with the least weight.
ArgMin(S, weight) ==
  CHOOSE i \in S : \A j \in S :
    weight[i] < weight[j] \/ (weight[i] = weight[j] /\ i <= j)

Row(m, i) == [j \in Vertex |-> m[i, j]]

\* The first vertex: the least entry of its whole row, column 0 included.
Started(m) ==
  LET nearest == ArgMin(Vertex, Row(m, 1))
  IN [min_indices |-> [i \in Vertex |-> IF i = 1 THEN nearest ELSE Size],
      min_values |-> [i \in Vertex |-> IF i = 1 THEN m[1, nearest] ELSE MaxVal],
      edges |-> <<>>, value |-> 0]

\* Mutant: only the new vertex looks for its nearest one.
Stale_NewOnly(v, indices) == {v} \cap Outside

\* update_mins: who has to look again now that v is in the tree.
Stale(v, indices) == {i \in Outside : indices[i] = v}

Included(t) == {1} \cup {i \in Outside : t.min_indices[i] # Size}

\* Select the cheapest edge out of the tree and let its end in.
Grown(m, t) ==
  LET u == ArgMin(Included(t), t.min_values)
      v == t.min_indices[u]
      marked == [t.min_indices EXCEPT ![v] = v]
      left == {j \in Outside : marked[j] = Size}
      stale == Stale(v, marked)
  IN [min_indices |-> [i \in Vertex |->
        IF i \in stale /\ left # {} THEN ArgMin(left, Row(m, i)) ELSE marked[i]],
      min_values |-> [i \in Vertex |->
        IF i \notin stale THEN t.min_values[i]
        ELSE IF left = {} THEN MaxVal ELSE m[i, ArgMin(left, Row(m, i))]],
      edges |-> Append(t.edges, <<u, v>>),
      value |-> t.value + t.min_values[u]]

\* The two cheapest entries of row 0.
Closed(m, t) ==
  LET first == ArgMin(Vertex, Row(m, 0))
      second == ArgMin(Vertex \ {first}, Row(m, 0))
  IN [t EXCEPT !.edges = @ \o <<<<0, first>>, <<0, second>>>>,
               !.value = @ + m[0, first] + m[0, second]]

\* All of MSOneTree::solve, for modules that need only the result.
Solved(m) ==
  LET grow[t \in Trees] ==
        IF Len(t.edges) = Size - 2 THEN Closed(m, t) ELSE grow[Grown(m, t)]
  IN grow[Started(m)]

----------------------------------------------------------------------------
(* What a minimum 1-tree is, without an algorithm.                         *)

Pairs(S) == kSubset(2, S)

Connects(T, S) ==
  \A part \in (SUBSET S) \ {{}, S} : \E e \in T : e \cap part # {} /\ e \ part # {}

SpanningTrees == {T \in kSubset(Size - 2, Pairs(Outside)) : Connects(T, Outside)}

TotalWeight(m, T) == SumFunction([e \in T |-> m[Min(e), Max(e)]])

MinimumOneTreeCost(m) ==
  Min({TotalWeight(m, T) : T \in SpanningTrees})
    + Min({m[0, Min(e)] + m[0, Max(e)] : e \in Pairs(Outside)})

\* The cheapest entry of row 1 leads to vertex 0, which the tree is not to span.
NearZero(m) == ArgMin(Vertex, Row(m, 1)) = 0
=============================================================================
