------------------------ MODULE RequestingScheduler ------------------------
(***************************************************************************)
(* bnb::RequestingScheduler: the threads that have run dry announce        *)
(* themselves in an atomic counter, and the others, who look at the        *)
(* counter after each node, put their surplus in a queue for them.  The    *)
(* last thread to run dry sends everybody home.                            *)
(*                                                                         *)
(* The counter is raised outside the mutex and looked at without it, so    *)
(* those steps are actions of their own; what happens between lock and     *)
(* unlock touches only state that the mutex protects, and is one action,   *)
(* except that a receiving thread reads and lowers the counter, which      *)
(* others may raise meanwhile.                                             *)
(*                                                                         *)
(* The caller, ParallelBNB::start, is here a thread that branches a node   *)
(* and keeps any of its offspring; ParallelBNB.tla has the real one.       *)
(***************************************************************************)
EXTENDS SchedulerParams

Enlisted == {"acquire", "sleep", "receive", "leave"}
Label == {"loop", "schedule", "donate", "enlist", "exit"} \cup Enlisted

VARIABLES
  pc,                    \* where each thread is
  nodes,                 \* nodes[t]: the container of thread t
  queue_sets,            \* queue_sets_
  mutex_sets,            \* mutex_sets_: its holder, or None
  num_waiting_threads    \* num_waiting_threads_

vars == <<pc, nodes, queue_sets, mutex_sets, num_waiting_threads>>

TypeOK ==
  /\ pc \in [Thread -> Label]
  /\ nodes \in [Thread -> SUBSET Node]
  /\ queue_sets \subseteq Node
  /\ mutex_sets \in Thread \cup {None}
  /\ num_waiting_threads \in 0..NumThreads

Init ==
  /\ pc = [t \in Thread |-> "loop"]
  /\ nodes \in InitialPools
  /\ queue_sets = {}
  /\ mutex_sets = None
  /\ num_waiting_threads = 0

----------------------------------------------------------------------------
(* The caller: the loop of ParallelBNB::start.                             *)

Branch(t) ==
  /\ pc[t] = "loop"
  /\ \E n \in nodes[t] : \E new \in SUBSET Offspring[n] :
       nodes' = [nodes EXCEPT ![t] = (@ \ {n}) \cup new]
  /\ pc' = [pc EXCEPT ![t] = "schedule"]
  /\ UNCHANGED <<queue_sets, mutex_sets, num_waiting_threads>>

Exit(t) ==
  /\ pc[t] = "loop"
  /\ nodes[t] = {}
  /\ pc' = [pc EXCEPT ![t] = "exit"]
  /\ UNCHANGED <<nodes, queue_sets, mutex_sets, num_waiting_threads>>

----------------------------------------------------------------------------
(* schedule.                                                               *)

\* What comes after the donation: return with nodes left, or ask for some.
Onward(left) == IF left = {} THEN "enlist" ELSE "loop"

\* The ways to pick as many nodes of S as there are, up to num_minimum_nodes.
\* The container decides which; stack, priority queue and queue all fit.
UpToMin(S) ==
  {T \in SUBSET S : IF Cardinality(S) > MinNodes
                    THEN Cardinality(T) = MinNodes ELSE T = S}

\* Mutant: the container is emptied.
Pop_All(S, T) == {}

\* What is left of a container or queue S once the nodes T have been moved out.
Pop(S, T) == S \ T

\* Mutant: nobody is notified.
NotifyAll_Forgotten(pcs) == pcs

\* condvar_sets_.notify_all(): the sleepers go for the mutex again.
NotifyAll(pcs) ==
  [t \in Thread |-> IF pcs[t] = "sleep" THEN "acquire" ELSE pcs[t]]

\* if (num_waiting_threads_.load() > 0)
Probe(t) ==
  /\ pc[t] = "schedule"
  /\ pc' = [pc EXCEPT ![t] =
              IF num_waiting_threads > 0 THEN "donate" ELSE Onward(nodes[t])]
  /\ UNCHANGED <<nodes, queue_sets, mutex_sets, num_waiting_threads>>

\* All but num_minimum_nodes nodes are pushed on the queue.
Donate(t) ==
  /\ pc[t] = "donate"
  /\ mutex_sets = None
  /\ \E keep \in UpToMin(nodes[t]) :
       /\ queue_sets' = queue_sets \cup (nodes[t] \ keep)
       /\ nodes' = [nodes EXCEPT ![t] = Pop(@, @ \ keep)]
       /\ pc' = NotifyAll([pc EXCEPT ![t] = Onward(nodes'[t])])
  /\ UNCHANGED <<mutex_sets, num_waiting_threads>>

\* ++num_waiting_threads_, before the mutex is taken
Enlist(t) ==
  /\ pc[t] = "enlist"
  /\ num_waiting_threads' = num_waiting_threads + 1
  /\ pc' = [pc EXCEPT ![t] = "acquire"]
  /\ UNCHANGED <<nodes, queue_sets, mutex_sets>>

\* Mutant: a thread proceeds when all others wait, as if it did not count itself.
MayProceed_OffByOne == queue_sets # {} \/ num_waiting_threads >= NumThreads - 1

\* The predicate of condvar_sets_.wait.
MayProceed == queue_sets # {} \/ num_waiting_threads >= NumThreads

\* Lock and evaluate the predicate, on the first visit and after a wake-up.
Acquire(t) ==
  /\ pc[t] = "acquire"
  /\ mutex_sets = None
  /\ IF MayProceed
     THEN mutex_sets' = t /\ pc' = [pc EXCEPT ![t] = "receive"]
     ELSE pc' = [pc EXCEPT ![t] = "sleep"] /\ UNCHANGED mutex_sets
  /\ UNCHANGED <<nodes, queue_sets, num_waiting_threads>>

\* A condition variable may wake a sleeper for no reason.
SpuriousWakeup(t) ==
  /\ pc[t] = "sleep"
  /\ pc' = [pc EXCEPT ![t] = "acquire"]
  /\ UNCHANGED <<nodes, queue_sets, mutex_sets, num_waiting_threads>>

\* With the mutex held: fetch up to num_minimum_nodes nodes; when there was
\* none and everybody waits, wake the others and return with nothing.
Receive(t) ==
  /\ pc[t] = "receive"
  /\ \E taken \in UpToMin(queue_sets) :
       /\ queue_sets' = Pop(queue_sets, taken)
       /\ nodes' = [nodes EXCEPT ![t] = @ \cup taken]
  /\ IF nodes'[t] = {} /\ num_waiting_threads >= NumThreads
     THEN mutex_sets' = None /\ pc' = NotifyAll([pc EXCEPT ![t] = "loop"])
     ELSE pc' = [pc EXCEPT ![t] = "leave"] /\ UNCHANGED mutex_sets
  /\ UNCHANGED num_waiting_threads

\* --num_waiting_threads_, and the mutex is released
Leave(t) ==
  /\ pc[t] = "leave"
  /\ num_waiting_threads' = num_waiting_threads - 1
  /\ mutex_sets' = None
  /\ pc' = [pc EXCEPT ![t] = "loop"]
  /\ UNCHANGED <<nodes, queue_sets>>

Schedule(t) ==
  \/ Probe(t) \/ Donate(t) \/ Enlist(t) \/ Acquire(t) \/ Receive(t) \/ Leave(t)

Step(t) == Branch(t) \/ Exit(t) \/ Schedule(t)

Terminated == \A t \in Thread : pc[t] = "exit"

Next ==
  \/ \E t \in Thread : Step(t) \/ SpuriousWakeup(t)
  \/ Terminated /\ UNCHANGED vars

\* The operating system runs every thread that can run, and a mutex that is
\* free is given to somebody; spurious wake-ups are never owed to anyone.
Spec == Init /\ [][Next]_vars /\ \A t \in Thread : WF_vars(Step(t))

----------------------------------------------------------------------------
\* A thread that has been told to quit, or never had anything to do.
Quitting(t) == pc[t] = "exit" \/ (pc[t] = "loop" /\ nodes[t] = {})

WS == INSTANCE WorkSharing WITH quit <- {t \in Thread : Quitting(t)}

\* The scheduler keeps the promise of WorkSharing, its liveness included: every node
\* is branched and every thread sent home, so no wake-up is lost and nobody waits for
\* ever.
ImplementsWorkSharing == WS!Spec

\* A thread returns from schedule with nothing only when no thread holds a node
\* and none is queued: nobody retires while work is left, which the counter,
\* raised outside the mutex and tested after the queue, has to guarantee.
QuitOnlyWhenDone == WS!QuitOnlyWhenDone

\* No node is in two containers, or in one and in the queue.
OneOwner == WS!OneOwner

\* A thread sleeps on the condition variable only while there is nothing to wake
\* up for: whoever makes its predicate true also notifies, or will (the thread
\* that enlists last has not yet looked at the predicate itself).
NoMissedWakeup ==
  (\E t \in Thread : pc[t] = "sleep") /\ MayProceed
    => \E u \in Thread : pc[u] \in {"acquire", "receive"}
=============================================================================
