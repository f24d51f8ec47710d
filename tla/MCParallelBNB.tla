--------------------------- MODULE MCParallelBNB ---------------------------
(* ParallelBNB on the tree of MCTree. *)
EXTENDS ParallelBNB, MCTree

ASSUME SolverContract
=============================================================================
