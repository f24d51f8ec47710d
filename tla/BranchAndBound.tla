--------------------------- MODULE BranchAndBound ---------------------------
(***************************************************************************)
(* The algorithm that the three engines of src/bnb share, without threads, *)
(* containers or stale copies of the record: a set of open nodes and the   *)
(* best tour length known.  A node is expanded into some of its children;  *)
(* a child (or the node itself) may be dropped only when its bound is no   *)
(* better than what is already known.  A search that a signal cuts short   *)
(* may drop anything.                                                      *)
(***************************************************************************)
EXTENDS SearchProblem

CONSTANT InitialRecord   \* the values the search may start from

RecordAssumption == InitialRecord \subseteq Int

VARIABLES
  open,        \* the nodes still to be branched
  incumbent,   \* the best value known
  cut          \* the search is not, or not fully, carried out

vars == <<open, incumbent, cut>>

TypeOK ==
  /\ open \subseteq Node
  /\ incumbent \in Int
  /\ cut \in BOOLEAN

Init ==
  /\ incumbent \in InitialRecord
  /\ \/ open = {Root} /\ cut = FALSE
     \/ open = {} /\ cut = TRUE

\* The values a search may report.
Reportable == InitialRecord \cup {Cost[s] : s \in Solution}

Prune(n) ==
  /\ Value[n] >= incumbent
  /\ open' = open \ {n}
  /\ UNCHANGED incumbent

Expand(n) ==
  /\ incumbent' \in {incumbent} \cup {Value[c] : c \in ChildSet(n) \cap Tour}
  /\ incumbent' <= incumbent
  /\ \E kept \in SUBSET (ChildSet(n) \ Tour) :
       /\ \A c \in ChildSet(n) \ kept : incumbent' <= Value[c]
       /\ open' = (open \ {n}) \cup kept

Interrupt == cut' = TRUE /\ UNCHANGED <<open, incumbent>>

Abandon == cut /\ open' \in SUBSET open /\ UNCHANGED <<incumbent, cut>>

Next ==
  \/ \E n \in open : (Prune(n) \/ Expand(n)) /\ UNCHANGED cut
  \/ Interrupt
  \/ Abandon

Spec == Init /\ [][Next]_vars

----------------------------------------------------------------------------
\* Every tour is accounted for: it is no shorter than the incumbent, or an open
\* node still contains it.
Coverage ==
  cut \/ \A s \in Solution :
           incumbent <= Cost[s] \/ \E n \in open : s \in Sols[n]

\* A node whose relaxation is a tour is used for the record and released, never
\* branched, unless it is the root.  The contract says nothing of the children of
\* such nodes, so Coverage rests on it.
OpenNonTours == open \cap Tour \subseteq {Root}

\* A search that runs to the end has found a shortest tour, or was given a
\* record that no tour beats.
Optimal == open = {} /\ ~cut => \A s \in Solution : incumbent <= Cost[s]

\* The record is the one the search was given or the length of a real tour.
Genuine == incumbent \in Reportable
=============================================================================
