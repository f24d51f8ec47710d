------------------------------- MODULE MCTree -------------------------------
(***************************************************************************)
(* A search tree of eighteen nodes for the runs of the engines.  It has    *)
(* siblings whose fate depends on the order in which they are visited,     *)
(* tours found in different subtrees, subtrees whose bound only the later  *)
(* records reach, nodes without tours, and ties.                           *)
(***************************************************************************)
EXTENDS Naturals

MCNode == 1..18

MCChildren ==
  [n \in MCNode |->
     CASE n = 1 -> <<2, 3, 4>>
       [] n = 2 -> <<5, 6, 7>>
       [] n = 3 -> <<8, 9, 10>>
       [] n = 6 -> <<11, 12>>
       [] n = 7 -> <<13, 14>>
       [] n = 8 -> <<15>>
       [] n = 9 -> <<16, 17>>
       [] n = 12 -> <<18>>
       [] OTHER -> <<>>]

\* The tours of the problem are named after the nodes that find them.
MCTour == {4, 5, 10, 11, 13, 15, 16, 18}

\* Bounds; those of the tours are their lengths.
MCValue == <<1, 2, 2, 12, 9, 3, 4, 6, 5, 8, 6, 4, 5, 7, 7, 5, 6, 4>>

MCCost == [s \in MCTour |-> MCValue[s]]

MCSols ==
  [n \in MCNode |->
     CASE n = 1 -> MCTour
       [] n = 2 -> {5, 11, 13, 18}
       [] n = 3 -> {10, 15, 16}
       [] n = 6 -> {11, 18}
       [] n = 7 -> {13}
       [] n = 8 -> {15}
       [] n = 9 -> {16}
       [] n = 12 -> {18}
       [] OTHER -> {n} \cap MCTour]
=============================================================================
