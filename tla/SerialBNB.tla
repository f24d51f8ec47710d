----------------------------- MODULE SerialBNB -----------------------------
(***************************************************************************)
(* bnb::SerialBNB and bnb::SimpleBNB: one thread, one container, no shared *)
(* record.  The two differ in what they make of the record they are given: *)
(* SerialBNB starts from the better of it and the initial solution,        *)
(* SimpleBNB from the initial solution alone.                              *)
(***************************************************************************)
EXTENDS SearchProblem

CONSTANTS
  Engines,       \* "serial" and/or "simple"
  GivenRecord,   \* the values solve may be called with as record
  Ranks          \* "small" (data.rank <= MIN_RANK_VALUE) and/or "large"

ASSUME EngineAssumption ==
  /\ Engines \subseteq {"serial", "simple"}
  /\ GivenRecord \subseteq Int
  /\ Ranks \subseteq {"small", "large"}

VARIABLES
  engine, searched, given,   \* which engine, and what it was called with
  running,                   \* solve has not returned
  nodes,                     \* the container
  record,                    \* the local record
  g_interruped               \* Signals::g_interruped

inputs == <<engine, searched, given>>
vars == <<inputs, running, nodes, record, g_interruped>>

TypeOK ==
  /\ engine \in Engines /\ searched \in BOOLEAN /\ given \in GivenRecord
  /\ running \in BOOLEAN
  /\ nodes \subseteq Node
  /\ record \in Int
  /\ g_interruped \in BOOLEAN

\* Mutant: the comparison is the wrong way round.
StartRecord_Worse(e, r, initial) == IF e = "serial" /\ r > initial THEN r ELSE initial

StartRecord(e, r, initial) == IF e = "serial" /\ r <= initial THEN r ELSE initial

Init ==
  /\ engine \in Engines
  /\ given \in GivenRecord
  /\ \E rank \in Ranks, initSol \in Solution :
       /\ searched = (rank = "large")
       /\ record = IF searched THEN StartRecord(engine, given, Cost[initSol]) ELSE given
  /\ nodes = IF searched THEN {Root} ELSE {}
  /\ running = TRUE
  /\ g_interruped = FALSE

\* One round of the loop.
Branch ==
  /\ running /\ ~g_interruped
  /\ \E n \in nodes : \E v \in Records(n, record) :
       /\ IsNewRecord(n, record, v)
       /\ record' = v
       /\ nodes' = (nodes \ {n}) \cup Kept(n, record)
  /\ UNCHANGED <<inputs, running, g_interruped>>

\* The loop is over; what a signal left in the container is released.
Return ==
  /\ running
  /\ nodes = {} \/ g_interruped
  /\ nodes' = {}
  /\ running' = FALSE
  /\ UNCHANGED <<inputs, record, g_interruped>>

\* SIGINT or SIGTERM
Interrupt ==
  /\ running /\ ~g_interruped
  /\ g_interruped' = TRUE
  /\ UNCHANGED <<inputs, running, nodes, record>>

Next == Branch \/ Return \/ Interrupt \/ (~running /\ UNCHANGED vars)

Spec == Init /\ [][Next]_vars

----------------------------------------------------------------------------
\* Whatever the order of the container, an uninterrupted search ends with the
\* length of a shortest tour, or with a given record that no tour beats.
ResultOptimal ==
  ~running /\ searched /\ ~g_interruped => \A s \in Solution : record <= Cost[s]

\* SerialBNB never reports more than the record it was given, nor a number that
\* is neither that record nor the length of a tour.
ResultGenuine ==
  ~running /\ searched
    => /\ record \in {given} \cup {Cost[s] : s \in Solution}
       /\ engine = "serial" => record <= given

BB == INSTANCE BranchAndBound WITH
        open <- nodes, incumbent <- record, cut <- g_interruped \/ ~searched,
        InitialRecord <- GivenRecord \cup {Cost[s] : s \in Solution}

\* The loop carries out the abstract algorithm, one node per round.
ImplementsBranchAndBound == BB!Spec
=============================================================================
