---------------------------- MODULE WorkSharing ----------------------------
(***************************************************************************)
(* What a scheduler of src/bnb promises to the threads of ParallelBNB.     *)
(* Every thread owns a container of open nodes and works it off; a node    *)
(* may move through a shared queue to a thread that has run dry; and a     *)
(* thread is told to quit only when no node is open anywhere, after which  *)
(* no work can appear.  The two schedulers implement this specification    *)
(* with a mutex, a condition variable and a counter of threads.            *)
(***************************************************************************)
EXTENDS FiniteSets

CONSTANTS
  Thread,        \* the worker threads
  Node,          \* the nodes that may become open
  Offspring,     \* Offspring[n]: the nodes that branching n may open
  InitialPools   \* the ways the first nodes are dealt out to the threads

VARIABLES
  nodes,         \* nodes[t]: the container of thread t
  queue_sets,    \* the nodes on offer
  quit           \* the threads that have been sent home

vars == <<nodes, queue_sets, quit>>

TypeOK ==
  /\ nodes \in [Thread -> SUBSET Node]
  /\ queue_sets \subseteq Node
  /\ quit \subseteq Thread

Open == queue_sets \cup UNION {nodes[t] : t \in Thread}

Init ==
  /\ nodes \in InitialPools
  /\ queue_sets = {}
  /\ quit \in {{}, IF Open = {} THEN Thread ELSE {}}

\* Branch one node; the children that survive join the thread's container.
Process(t) ==
  /\ \E n \in nodes[t] : \E new \in SUBSET Offspring[n] :
       nodes' = [nodes EXCEPT ![t] = (@ \ {n}) \cup new]
  /\ UNCHANGED <<queue_sets, quit>>

Offer(t) ==
  /\ \E given \in (SUBSET nodes[t]) \ {{}, nodes[t]} :
       /\ queue_sets' = queue_sets \cup given
       /\ nodes' = [nodes EXCEPT ![t] = @ \ given]
  /\ UNCHANGED quit

Take(t) ==
  /\ nodes[t] = {}
  /\ \E taken \in (SUBSET queue_sets) \ {{}} :
       /\ queue_sets' = queue_sets \ taken
       /\ nodes' = [nodes EXCEPT ![t] = taken]
  /\ UNCHANGED quit

Quit(t) ==
  /\ t \notin quit
  /\ Open = {}
  /\ quit' = quit \cup {t}
  /\ UNCHANGED <<nodes, queue_sets>>

TakeAny == \E t \in Thread : Take(t)

Next == \E t \in Thread : Process(t) \/ Offer(t) \/ Take(t) \/ Quit(t)

Spec ==
  /\ Init /\ [][Next]_vars
  /\ WF_vars(TakeAny)
  /\ \A t \in Thread : WF_vars(Process(t)) /\ WF_vars(Quit(t))

----------------------------------------------------------------------------
\* Nobody is sent home while a node is open: not in a container, which its
\* owner would go on to branch, and not in the queue, which nobody would empty.
QuitOnlyWhenDone == quit # {} => Open = {}

\* No node has two owners, so none is branched twice.
OneOwner ==
  /\ \A t \in Thread : nodes[t] \cap queue_sets = {}
  /\ \A t, u \in Thread : t # u => nodes[t] \cap nodes[u] = {}

=============================================================================
