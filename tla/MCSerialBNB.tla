---------------------------- MODULE MCSerialBNB ----------------------------
(* SerialBNB and SimpleBNB on the tree of MCTree. *)
EXTENDS SerialBNB, MCTree

ASSUME SolverContract
=============================================================================
