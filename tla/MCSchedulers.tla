---------------------------- MODULE MCSchedulers ----------------------------
(***************************************************************************)
(* The two schedulers for TLC, each with its abstract caller: a program is *)
(* built with one of them, on the same threads and a forest of at most     *)
(* eight nodes.                                                            *)
(***************************************************************************)
EXTENDS SchedulerParams

VARIABLES
  scheduler,  \* the scheduler the program was built with
  pc, nodes, queue_sets, mutex_sets, num_waiting_threads, num_working_threads

vars ==
  <<scheduler, pc, nodes, queue_sets, mutex_sets, num_waiting_threads, num_working_threads>>

R == INSTANCE RequestingScheduler
G == INSTANCE GivingScheduler

\* 1, 2 and 3 are dealt out; 1 opens up to three nodes, one of them opens more.
ForestOffspring ==
  [n \in Node |-> CASE n = 1 -> Node \cap {4, 5, 6}
                    [] n = 4 -> Node \cap {7, 8}
                    [] OTHER -> {}]

\* One node for each thread, or nothing for anybody.
FirstNodes ==
  {[t \in Thread |-> {}], [t \in Thread |-> {t}]}

\* What the other scheduler keeps is not there.
Init ==
  \/ scheduler = "requesting" /\ R!Init /\ num_working_threads = 0
  \/ scheduler = "giving" /\ G!Init /\ mutex_sets = None /\ num_waiting_threads = 0

OnlyRequesting ==
  scheduler = "requesting" /\ UNCHANGED <<scheduler, num_working_threads>>
OnlyGiving ==
  scheduler = "giving" /\ UNCHANGED <<scheduler, mutex_sets, num_waiting_threads>>

Step(t) ==
  \/ OnlyRequesting /\ R!Step(t)
  \/ OnlyGiving /\ G!Step(t)

Next ==
  \/ OnlyRequesting /\ R!Next
  \/ OnlyGiving /\ G!Next

\* The fairness of the two specifications.
Spec == Init /\ [][Next]_vars /\ \A t \in Thread : WF_vars(Step(t))

----------------------------------------------------------------------------
\* The type invariant of the scheduler; in the giving one the unsigned counter
\* does not wrap.
TypeOK ==
  /\ scheduler = "requesting" => R!TypeOK
  /\ scheduler = "giving" => G!TypeOK

\* Quitting means the same in both.
WS == INSTANCE WorkSharing WITH quit <- {t \in Thread : R!Quitting(t)}

\* Either scheduler keeps the promise of WorkSharing, its liveness included: every
\* node is branched and every thread sent home.
ImplementsWorkSharing == WS!Spec

\* With either scheduler a thread is sent home only when no thread holds a node
\* and none is queued.
QuitOnlyWhenDone ==
  /\ scheduler = "requesting" => R!QuitOnlyWhenDone
  /\ scheduler = "giving" => G!QuitOnlyWhenDone

\* In either scheduler nobody sleeps through what he sleeps for, unless another
\* thread is about to see to it.
NoMissedWakeup ==
  /\ scheduler = "requesting" => R!NoMissedWakeup
  /\ scheduler = "giving" => G!NoMissedWakeup
=============================================================================
