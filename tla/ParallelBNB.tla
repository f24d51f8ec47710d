---------------------------- MODULE ParallelBNB ----------------------------
(***************************************************************************)
(* bnb::ParallelBNB: the main thread branches nodes by itself until there  *)
(* are enough of them, deals them out to num_threads worker threads, and   *)
(* joins them.  The workers share the record, read without a lock and      *)
(* written under one, and the scheduler that moves nodes between them.     *)
(*                                                                         *)
(* A node counts as open from the moment it is pushed until it is popped   *)
(* to be branched.  Popping, reading record_ and Solver::branch are one    *)
(* action: the record is read once, and the rest is local to the thread.   *)
(***************************************************************************)
EXTENDS SearchProblem, FiniteSets

CONSTANTS
  Thread,          \* the workers; num_threads of them
  Schedulers,      \* the values of the template argument: "requesting", "giving"
  MinNodes,        \* params_.num_minimum_nodes
  MaxNodes,        \* params_.num_maximum_nodes of the giving scheduler
  UIntMax,         \* the largest value of an unsigned
  None,            \* nobody: the holder of a free mutex
  GivenRecord,     \* the values solve may be called with as record
  Signals,         \* TRUE when SIGINT or SIGTERM may arrive
  Ranks            \* "small" (data.rank <= MIN_RANK_VALUE) and/or "large"

NumThreads == Cardinality(Thread)

ASSUME EngineAssumption ==
  /\ IsFiniteSet(Thread) /\ Thread # {} /\ None \notin Thread
  /\ IsFiniteSet(Node)
  /\ Schedulers \subseteq {"requesting", "giving"}
  /\ MinNodes \in Nat \ {0} /\ MaxNodes \in Nat
  /\ UIntMax \in Nat /\ NumThreads <= UIntMax
  /\ GivenRecord \subseteq Int
  /\ Signals \in BOOLEAN
  /\ Ranks \subseteq {"small", "large"}

VARIABLES
  scheduler,             \* the scheduler the program was built with
  phase,                 \* where the main thread is in solve
  searched,              \* data.rank > MIN_RANK_VALUE
  seed_nodes,            \* the container of the main thread
  seed_record,           \* its local record
  record_,               \* the shared record
  record,                \* record[t]: the local record of worker t
  g_interruped,          \* Signals::g_interruped
  pc, nodes, queue_sets, mutex_sets, num_waiting_threads, num_working_threads

mainVars == <<scheduler, phase, searched, seed_nodes, seed_record>>
recordVars == <<record_, record>>
schedulerVars ==
  <<pc, nodes, queue_sets, mutex_sets, num_waiting_threads, num_working_threads>>
vars == <<mainVars, recordVars, g_interruped, schedulerVars>>

Offspring == [n \in Node |-> ChildSet(n)]
NoPools == {[t \in Thread |-> {}]}

R == INSTANCE RequestingScheduler WITH InitialPools <- NoPools
G == INSTANCE GivingScheduler WITH InitialPools <- NoPools

Label == {"idle", "publish", "lock"} \cup R!Label \cup G!Label

\* The seed loop stops at this many nodes (num_minimum_nodes in solve).
Enough == MinNodes * NumThreads

TypeOK ==
  /\ scheduler \in Schedulers
  /\ phase \in {"seed", "deal", "fork", "clean", "done"}
  /\ searched \in BOOLEAN
  /\ seed_nodes \subseteq Node
  /\ seed_record \in Int /\ record_ \in Int
  /\ record \in [Thread -> Int]
  /\ g_interruped \in BOOLEAN
  /\ pc \in [Thread -> Label]
  /\ nodes \in [Thread -> SUBSET Node]
  /\ queue_sets \subseteq Node
  /\ mutex_sets \in Thread \cup {None}
  /\ num_waiting_threads \in 0..NumThreads
  /\ num_working_threads \in 0..NumThreads

\* record_ is 0 from the constructor; a problem of rank 2 or less is not searched.
Init ==
  /\ scheduler \in Schedulers
  /\ \E rank \in Ranks, given \in GivenRecord, initSol \in Solution :
       /\ searched = (rank = "large")
       /\ phase = IF searched THEN "seed" ELSE "deal"
       /\ seed_nodes = IF searched THEN {Root} ELSE {}
       /\ seed_record = IF searched /\ Cost[initSol] < given
                        THEN Cost[initSol] ELSE given
  /\ record_ = 0
  /\ record = [t \in Thread |-> 0]
  /\ g_interruped = FALSE
  /\ pc = [t \in Thread |-> "idle"]
  /\ nodes = [t \in Thread |-> {}]
  /\ queue_sets = {}
  /\ mutex_sets = None
  /\ num_waiting_threads = 0
  /\ num_working_threads = NumThreads

----------------------------------------------------------------------------
(* The main thread: solve.                                                 *)

Seeding ==
  seed_nodes # {} /\ Cardinality(seed_nodes) < Enough /\ ~g_interruped

SeedBranch ==
  /\ phase = "seed" /\ Seeding
  /\ \E n \in seed_nodes : \E v \in Records(n, seed_record) :
       /\ IsNewRecord(n, seed_record, v)
       /\ seed_record' = v
       /\ seed_nodes' = (seed_nodes \ {n}) \cup Kept(n, seed_record)
  /\ UNCHANGED <<scheduler, phase, searched, recordVars, g_interruped, schedulerVars>>

\* Mutant: the record is handed over only if the threads are going to be started.
SeedDone_OnlyIfRunning ==
  /\ phase = "seed" /\ ~Seeding
  /\ record_' = IF g_interruped THEN record_ ELSE seed_record
  /\ phase' = "deal"
  /\ UNCHANGED <<scheduler, searched, seed_nodes, seed_record, record, g_interruped,
                 schedulerVars>>

\* record_ = record
SeedDone ==
  /\ phase = "seed" /\ ~Seeding
  /\ record_' = seed_record
  /\ phase' = "deal"
  /\ UNCHANGED <<scheduler, searched, seed_nodes, seed_record, record, g_interruped,
                 schedulerVars>>

\* Mutant: the dealt nodes are not popped.
Deal_Forgotten ==
  /\ phase = "deal" /\ ~g_interruped
  /\ nodes' = [t \in Thread |-> seed_nodes]
  /\ phase' = "fork"
  /\ UNCHANGED <<scheduler, searched, seed_nodes, seed_record, recordVars, g_interruped, pc,
                 queue_sets, mutex_sets, num_waiting_threads, num_working_threads>>

\* The i-th node popped goes to thread i modulo num_threads.  No order of the
\* container and no numbering of the threads is fixed here.
Orders(S) ==
  {f \in [1..Cardinality(S) -> S] : \A i, j \in 1..Cardinality(S) : f[i] = f[j] => i = j}

Deal ==
  /\ phase = "deal" /\ ~g_interruped
  /\ \E order \in Orders(seed_nodes), rank \in Orders(Thread) :
       nodes' = [t \in Thread |->
                   {order[i] : i \in {k \in 1..Cardinality(seed_nodes) :
                                        rank[1 + ((k - 1) % NumThreads)] = t}}]
  /\ seed_nodes' = {}
  /\ phase' = "fork"
  /\ UNCHANGED <<scheduler, searched, seed_record, recordVars, g_interruped, pc, queue_sets,
                 mutex_sets, num_waiting_threads, num_working_threads>>

\* A signal during the seed loop: no thread is started.
SkipThreads ==
  /\ phase = "deal" /\ g_interruped
  /\ phase' = "clean"
  /\ UNCHANGED <<scheduler, searched, seed_nodes, seed_record, recordVars, g_interruped,
                 schedulerVars>>

Fork(t) ==
  /\ phase = "fork" /\ pc[t] = "idle"
  /\ pc' = [pc EXCEPT ![t] = "loop"]
  /\ record' = [record EXCEPT ![t] = record_]
  /\ UNCHANGED <<mainVars, record_, g_interruped, nodes, queue_sets, mutex_sets,
                 num_waiting_threads, num_working_threads>>

Join ==
  /\ phase = "fork" /\ \A t \in Thread : pc[t] = "exit"
  /\ phase' = "clean"
  /\ UNCHANGED <<scheduler, searched, seed_nodes, seed_record, recordVars, g_interruped,
                 schedulerVars>>

\* clean_nodes, and return record_
Return ==
  /\ phase = "clean"
  /\ seed_nodes' = {}
  /\ phase' = "done"
  /\ UNCHANGED <<scheduler, searched, seed_record, recordVars, g_interruped, schedulerVars>>

Main == SeedBranch \/ SeedDone \/ Deal \/ SkipThreads \/ Join \/ Return
          \/ \E t \in Thread : Fork(t)

----------------------------------------------------------------------------
(* A worker: start.                                                        *)

\* Pop a node, read the shared record and branch.
Branch(t) ==
  /\ pc[t] = "loop" /\ ~g_interruped
  /\ \E n \in nodes[t] : \E v \in Records(n, record_) :
       /\ IsNewRecord(n, record_, v)
       /\ record' = [record EXCEPT ![t] = v]
       /\ nodes' = [nodes EXCEPT ![t] = (@ \ {n}) \cup Kept(n, record_)]
  /\ pc' = [pc EXCEPT ![t] = "publish"]
  /\ UNCHANGED <<mainVars, record_, g_interruped, queue_sets, mutex_sets,
                 num_waiting_threads, num_working_threads>>

\* if (record < record_), without the lock
Compare(t) ==
  /\ pc[t] = "publish"
  /\ pc' = [pc EXCEPT ![t] = IF record[t] < record_ THEN "lock" ELSE "schedule"]
  /\ UNCHANGED <<mainVars, recordVars, g_interruped, nodes, queue_sets, mutex_sets,
                 num_waiting_threads, num_working_threads>>

\* Mutant: the comparison is not repeated under the lock.
Publish_Blindly(t) ==
  /\ pc[t] = "lock"
  /\ record_' = record[t]
  /\ pc' = [pc EXCEPT ![t] = "schedule"]
  /\ UNCHANGED <<mainVars, record, g_interruped, nodes, queue_sets, mutex_sets,
                 num_waiting_threads, num_working_threads>>

\* Under mutex_record_: compare again, and write.
Publish(t) ==
  /\ pc[t] = "lock"
  /\ record_' = IF record[t] < record_ THEN record[t] ELSE record_
  /\ pc' = [pc EXCEPT ![t] = "schedule"]
  /\ UNCHANGED <<mainVars, record, g_interruped, nodes, queue_sets, mutex_sets,
                 num_waiting_threads, num_working_threads>>

\* scheduler_.schedule(&nodes)
Schedule(t) ==
  /\ \/ scheduler = "requesting" /\ R!Schedule(t) /\ UNCHANGED num_working_threads
     \/ scheduler = "giving" /\ G!Schedule(t)
          /\ UNCHANGED <<mutex_sets, num_waiting_threads>>
  /\ UNCHANGED <<mainVars, recordVars, g_interruped>>

SpuriousWakeup(t) ==
  /\ \/ scheduler = "requesting" /\ R!SpuriousWakeup(t) /\ UNCHANGED num_working_threads
     \/ scheduler = "giving" /\ G!SpuriousWakeup(t)
          /\ UNCHANGED <<mutex_sets, num_waiting_threads>>
  /\ UNCHANGED <<mainVars, recordVars, g_interruped>>

\* Mutants: a signal keeps the loop from branching, but not from going round;
\* clean_nodes is not called.
Exit_GoesRound(t) ==
  /\ pc[t] = "loop"
  /\ nodes[t] = {} \/ g_interruped
  /\ pc' = [pc EXCEPT ![t] = IF nodes[t] = {} THEN "exit" ELSE "schedule"]
  /\ UNCHANGED <<mainVars, recordVars, g_interruped, nodes, queue_sets, mutex_sets,
                 num_waiting_threads, num_working_threads>>

Exit_NotCleaned(t) ==
  /\ pc[t] = "loop"
  /\ nodes[t] = {} \/ g_interruped
  /\ pc' = [pc EXCEPT ![t] = "exit"]
  /\ UNCHANGED <<mainVars, recordVars, g_interruped, nodes, queue_sets, mutex_sets,
                 num_waiting_threads, num_working_threads>>

\* The loop ends for want of nodes or because of a signal; clean_nodes releases
\* what the container still holds.
Exit(t) ==
  /\ pc[t] = "loop"
  /\ nodes[t] = {} \/ g_interruped
  /\ nodes' = [nodes EXCEPT ![t] = {}]
  /\ pc' = [pc EXCEPT ![t] = "exit"]
  /\ UNCHANGED <<mainVars, recordVars, g_interruped, queue_sets, mutex_sets,
                 num_waiting_threads, num_working_threads>>

Worker(t) == Branch(t) \/ Compare(t) \/ Publish(t) \/ Schedule(t) \/ Exit(t)

----------------------------------------------------------------------------
\* SIGINT or SIGTERM, while the guard in solve has its handler installed.
Interrupt ==
  /\ Signals /\ phase # "done" /\ ~g_interruped
  /\ g_interruped' = TRUE
  /\ UNCHANGED <<mainVars, recordVars, schedulerVars>>

Next ==
  \/ Main
  \/ \E t \in Thread : Worker(t) \/ SpuriousWakeup(t)
  \/ Interrupt
  \/ phase = "done" /\ UNCHANGED vars

\* Every thread that can run does; signals and spurious wake-ups may never come.
Spec ==
  /\ Init /\ [][Next]_vars
  /\ WF_vars(Main)
  /\ \A t \in Thread : WF_vars(Worker(t))

----------------------------------------------------------------------------
(* What solve is for.                                                      *)

\* The nodes still waiting to be branched, wherever they are.
Open == seed_nodes \cup queue_sets \cup UNION {nodes[t] : t \in Thread}

\* Nobody else holds a node that main, a worker or the queue holds.
OneOwner ==
  /\ R!OneOwner
  /\ \A n \in seed_nodes : n \notin queue_sets /\ \A t \in Thread : n \notin nodes[t]

\* A solve that was not interrupted returns the length of a shortest tour, or a
\* given record that no tour beats: no node is lost between a container, the
\* queue and another container, and no improvement between two workers.
ResultOptimal ==
  phase = "done" /\ searched /\ ~g_interruped => \A s \in Solution : record_ <= Cost[s]

\* Even when interrupted, solve reports a given record or the length of a tour.
ResultGenuine ==
  phase = "done" /\ searched
    => record_ \in GivenRecord \cup {Cost[s] : s \in Solution}

\* The shared record never rises once the workers have it, although each of them
\* compares with an old value before it takes the lock.
RecordNeverRises == [][phase = "fork" => record_' <= record_]_vars

\* Every call that no signal interrupts returns.
SolveReturns == [](~g_interruped) => <>(phase = "done")

\* A worker sleeps in the scheduler, and all who could wake it have left or are
\* on their way to sleep as well: join waits for it for ever.
Stranded ==
  /\ \E t \in Thread : pc[t] = "sleep"
  /\ \A t \in Thread : pc[t] \in {"sleep", "acquire", "woken", "exit"}

\* After a signal solve returns, or a worker that had run dry is stranded in the
\* scheduler, which those who leave the loop do not tell of it; nothing else can
\* keep it.
InterruptEnds == g_interruped ~> (phase = "done" \/ Stranded)

\* Nothing is ever left in a container, the seeds' or a worker's, when solve returns,
\* and without a signal nothing is left in the queue either: all who go home go home
\* from an empty queue.
NodesReleased ==
  phase = "done" =>
    /\ seed_nodes = {} /\ \A t \in Thread : nodes[t] = {}
    /\ queue_sets # {} => g_interruped

\* What the code asserts, with no word of signals: all nodes have been freed by the time
\* solve returns (CHECK of num_unfreed_nodes in solve), and the queue is empty when the
\* scheduler goes (CHECK in its destructor).  A signal makes it false.
AllFreed == phase = "done" => Open = {}

----------------------------------------------------------------------------
\* The best value any thread knows.  A worker between branch and unlock may
\* know a better one than record_.
Known ==
  {IF phase = "seed" THEN seed_record ELSE record_}
    \cup {record[t] : t \in {u \in Thread : pc[u] \in {"publish", "lock"}}}

Least(S) == CHOOSE v \in S : \A w \in S : v <= w

Incumbent == Least(Known)

BB == INSTANCE BranchAndBound WITH
        open <- Open,
        incumbent <- Incumbent,
        cut <- g_interruped \/ ~searched,
        InitialRecord <- GivenRecord \cup {0} \cup {Cost[s] : s \in Solution}

\* The threads together carry out the abstract algorithm.
ImplementsBranchAndBound == BB!Spec
=============================================================================
