---------------------------- MODULE MCSearchTree ----------------------------
(***************************************************************************)
(* SearchTree for TLC: a root, two children and two grandchildren; the     *)
(* locked tree in either build, and the tree for threads as gcc builds it. *)
(***************************************************************************)
EXTENDS SearchTree

SmallTree == [n \in Node |-> CASE n = 1 -> None
                               [] n \in {2, 3} -> 1
                               [] OTHER -> 2]

MCSettings == {<<"locked", "register">>, <<"locked", "memory">>, <<"mt", "register">>}
=============================================================================
