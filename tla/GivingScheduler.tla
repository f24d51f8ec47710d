-------------------------- MODULE GivingScheduler --------------------------
(***************************************************************************)
(* bnb::GivingScheduler: a thread whose container has grown beyond         *)
(* num_maximum_nodes puts the surplus in a queue, asked or not; a thread   *)
(* that has run dry waits for the queue to fill or for the last working    *)
(* thread to run dry as well.                                              *)
(*                                                                         *)
(* Queue and counter are read and written only with the mutex held, so     *)
(* each stretch between lock and unlock is one action; condvar_sets_.wait  *)
(* releases the mutex and ends one.  The caller is abstract, as in         *)
(* RequestingScheduler.                                                    *)
(***************************************************************************)
EXTENDS SchedulerParams

VARIABLES
  pc,                    \* where each thread is
  nodes,                 \* nodes[t]: the container of thread t
  queue_sets,            \* queue_sets_
  num_working_threads    \* num_working_threads_

vars == <<pc, nodes, queue_sets, num_working_threads>>

Label == {"loop", "schedule", "enlist", "sleep", "woken", "exit"}

\* The counter in particular stays between zero and the number of threads: it
\* is unsigned, and would wrap if a thread lowered it that it does not count.
TypeOK ==
  /\ pc \in [Thread -> Label]
  /\ nodes \in [Thread -> SUBSET Node]
  /\ queue_sets \subseteq Node
  /\ num_working_threads \in 0..NumThreads

Init ==
  /\ pc = [t \in Thread |-> "loop"]
  /\ nodes \in InitialPools
  /\ queue_sets = {}
  /\ num_working_threads = NumThreads

----------------------------------------------------------------------------
(* The caller: the loop of ParallelBNB::start.                             *)

Branch(t) ==
  /\ pc[t] = "loop"
  /\ \E n \in nodes[t] : \E new \in SUBSET Offspring[n] :
       nodes' = [nodes EXCEPT ![t] = (@ \ {n}) \cup new]
  /\ pc' = [pc EXCEPT ![t] = "schedule"]
  /\ UNCHANGED <<queue_sets, num_working_threads>>

Exit(t) ==
  /\ pc[t] = "loop"
  /\ nodes[t] = {}
  /\ pc' = [pc EXCEPT ![t] = "exit"]
  /\ UNCHANGED <<nodes, queue_sets, num_working_threads>>

----------------------------------------------------------------------------
(* schedule.                                                               *)

\* Mutants: a thread that waits, or one that has work again, is not accounted for.
Decrement_Forgotten(x) == x
Increment_Forgotten(x) == x

\* Arithmetic of unsigned: both ends wrap.
Decrement(x) == IF x = 0 THEN UIntMax ELSE x - 1
Increment(x) == IF x = UIntMax THEN 0 ELSE x + 1

Onward(left) == IF left = {} THEN "enlist" ELSE "loop"

\* The ways to pick as many nodes of S as there are, up to num_minimum_nodes.
\* The container decides which; stack, priority queue and queue all fit.
UpToMin(S) ==
  {T \in SUBSET S : IF Cardinality(S) > MinNodes
                    THEN Cardinality(T) = MinNodes ELSE T = S}

\* Mutant: the container is emptied.
Pop_All(S, T) == {}

\* What is left of a container or queue S once the nodes T have been moved out.
Pop(S, T) == S \ T

\* Mutant: nobody is notified.
NotifyAll_Forgotten(pcs) == pcs

\* condvar_sets_.notify_all()
NotifyAll(pcs) ==
  [t \in Thread |-> IF pcs[t] = "sleep" THEN "woken" ELSE pcs[t]]

\* The container is not too full: go on to see whether it is empty.
Keep(t) ==
  /\ pc[t] = "schedule"
  /\ Cardinality(nodes[t]) <= MaxNodes
  /\ pc' = [pc EXCEPT ![t] = Onward(nodes[t])]
  /\ UNCHANGED <<nodes, queue_sets, num_working_threads>>

\* All but num_minimum_nodes nodes are pushed on the queue.
Give(t) ==
  /\ pc[t] = "schedule"
  /\ Cardinality(nodes[t]) > MaxNodes
  /\ \E keep \in UpToMin(nodes[t]) :
       /\ queue_sets' = queue_sets \cup (nodes[t] \ keep)
       /\ nodes' = [nodes EXCEPT ![t] = Pop(@, @ \ keep)]
       /\ pc' = NotifyAll([pc EXCEPT ![t] = Onward(nodes'[t])])
  /\ UNCHANGED num_working_threads

\* What follows the wait, with working threads still counted at the time:
\* fetch up to num_minimum_nodes nodes; with none to be had and nobody working,
\* wake the others and return with nothing.
Fetch(t, working) ==
  \E taken \in UpToMin(queue_sets) :
    /\ queue_sets' = Pop(queue_sets, taken)
    /\ nodes' = [nodes EXCEPT ![t] = @ \cup taken]
    /\ LET returned == [pc EXCEPT ![t] = "loop"]
       IN IF nodes'[t] = {} /\ working = 0
          THEN pc' = NotifyAll(returned) /\ num_working_threads' = working
          ELSE pc' = returned /\ num_working_threads' = Increment(working)

\* The wait: its predicate lets the thread through, or it sleeps.
Await(t, working) ==
  IF queue_sets # {} \/ working = 0
  THEN Fetch(t, working)
  ELSE /\ pc' = [pc EXCEPT ![t] = "sleep"]
       /\ num_working_threads' = working
       /\ UNCHANGED <<nodes, queue_sets>>

\* Lock, --num_working_threads_, and wait
Enlist(t) ==
  /\ pc[t] = "enlist"
  /\ Await(t, Decrement(num_working_threads))

\* A sleeper that was notified has the mutex again.
Resume(t) ==
  /\ pc[t] = "woken"
  /\ Await(t, num_working_threads)

SpuriousWakeup(t) ==
  /\ pc[t] = "sleep"
  /\ pc' = [pc EXCEPT ![t] = "woken"]
  /\ UNCHANGED <<nodes, queue_sets, num_working_threads>>

Schedule(t) == Keep(t) \/ Give(t) \/ Enlist(t) \/ Resume(t)

Step(t) == Branch(t) \/ Exit(t) \/ Schedule(t)

Terminated == \A t \in Thread : pc[t] = "exit"

Next ==
  \/ \E t \in Thread : Step(t) \/ SpuriousWakeup(t)
  \/ Terminated /\ UNCHANGED vars

\* As for RequestingScheduler: threads run, spurious wake-ups are not owed.
Spec == Init /\ [][Next]_vars /\ \A t \in Thread : WF_vars(Step(t))

----------------------------------------------------------------------------
Quitting(t) == pc[t] = "exit" \/ (pc[t] = "loop" /\ nodes[t] = {})

WS == INSTANCE WorkSharing WITH quit <- {t \in Thread : Quitting(t)}

\* The scheduler keeps the promise of WorkSharing, its liveness included: every node
\* is branched and every thread sent home, so no wake-up is lost and nobody waits for
\* ever.
ImplementsWorkSharing == WS!Spec

\* A thread returns from schedule with nothing only when no thread holds a node
\* and none is queued, whoever else is between its last branch and the counter.
QuitOnlyWhenDone == WS!QuitOnlyWhenDone

\* A thread sleeps on the condition variable only while there is nothing to wake
\* up for: whoever fills the queue, or is the last to run dry, has notified.
NoMissedWakeup ==
  (\E t \in Thread : pc[t] = "sleep") => queue_sets = {} /\ num_working_threads > 0
=============================================================================
