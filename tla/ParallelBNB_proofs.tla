------------------------- MODULE ParallelBNB_proofs -------------------------
(***************************************************************************)
(* ParallelBNB carries out the abstract branch and bound with any number   *)
(* of threads and either scheduler, hands every node to one owner at a     *)
(* time and, when nothing interrupts it, returns the length of a shortest  *)
(* tour.                                                                   *)
(***************************************************************************)
EXTENDS ParallelBNB, FiniteSetTheorems, FunctionTheorems, TLAPS

(* The theorems about the abstract algorithm, for what the threads make of it. *)

Cut == g_interruped \/ ~searched

StartRecords == GivenRecord \cup {0} \cup {Cost[s] : s \in Solution}

\* The threads together are one serial search, which may start from 0 as well.
Abstract == INSTANCE SerialBNB_proofs WITH
        nodes <- Open, record <- Incumbent, GivenRecord <- GivenRecord \cup {0},
        Engines <- {}, engine <- "serial", given <- 0, running <- TRUE

LEMMA AsSerial == Abstract!EngineAssumption
BY EngineAssumption DEF Abstract!EngineAssumption

\* What is known of branch there holds of branch here.
LEMMA SameBranch ==
  /\ \A n : Abstract!ChildSet(n) = ChildSet(n)
  /\ \A n, r : /\ Abstract!Pruned(n, r) <=> Pruned(n, r)
              /\ Abstract!Kept(n, r) = Kept(n, r)
  /\ \A n, r, v : Abstract!IsNewRecord(n, r, v) <=> IsNewRecord(n, r, v)
BY DEF Abstract!ChildSet, ChildSet, Abstract!Pruned, Pruned, Abstract!Kept, Kept,
       Abstract!IsNewRecord, IsNewRecord, Abstract!Records, Records

LEMMA ChildType == \A n \in Node : ChildSet(n) \subseteq Node
BY Abstract!ChildType, SameBranch, TreeAssumption, TypeAssumption, AsSerial

LEMMA RecordType ==
  ASSUME NEW n \in Node, NEW r \in Int, NEW v, IsNewRecord(n, r, v)
  PROVE  /\ v \in Int /\ v <= r
         /\ v \in {r} \cup {Value[c] : c \in ChildSet(n) \cap Tour}
         /\ ~Pruned(n, r) => \A c \in ChildSet(n) \cap Tour : v <= Value[c]
         /\ Pruned(n, r) => v = r
BY Abstract!RecordType, SameBranch, TreeAssumption, TypeAssumption, AsSerial

LEMMA DroppedChild ==
  ASSUME NEW n \in Node, NEW r \in Int, NEW v, IsNewRecord(n, r, v), ~Pruned(n, r),
         NEW c \in ChildSet(n), c \notin Kept(n, r)
  PROVE  v <= Value[c]
BY Abstract!DroppedChild, SameBranch, TreeAssumption, TypeAssumption, AsSerial

LEMMA KeptType ==
  ASSUME NEW n \in Node, NEW r \in Int
  PROVE  Kept(n, r) \subseteq ChildSet(n) \ Tour /\ Kept(n, r) \subseteq Node
BY Abstract!KeptType, SameBranch, TreeAssumption, TypeAssumption, AsSerial

----------------------------------------------------------------------------
(* The counters of the schedulers, in calls that are interrupted as well.  *)

\* The threads that num_waiting_threads must count, and those that it may count
\* besides: the threads sent home never lower it again.
Asking == {t \in Thread : pc[t] \in R!Enlisted}
SentHome ==
  {t \in Thread : pc[t] = "exit" \/ (pc[t] \in {"idle", "loop"} /\ nodes[t] = {})}

\* The threads that num_working_threads must count, and those that it may count.
Occupied ==
  {t \in Thread : \/ pc[t] \in {"publish", "lock", "schedule", "enlist"}
                  \/ pc[t] \in {"idle", "loop"} /\ nodes[t] # {}}
Awake == {t \in Thread : pc[t] \notin {"sleep", "woken"}}

Counters ==
  /\ scheduler = "requesting" =>
       /\ Cardinality(Asking) <= num_waiting_threads
       /\ num_waiting_threads <= Cardinality(Asking \cup SentHome)
  /\ scheduler = "giving" =>
       /\ Cardinality(Occupied) <= num_working_threads
       /\ num_working_threads <= Cardinality(Awake)

----------------------------------------------------------------------------
(* Who holds what in which phase of solve.                                 *)

\* No worker has been started, and nothing has been dealt out.
NotStarted ==
  /\ \A t \in Thread : pc[t] = "idle" /\ nodes[t] = {}
  /\ queue_sets = {} /\ mutex_sets = None
  /\ num_waiting_threads = 0 /\ num_working_threads = NumThreads

\* The workers have been joined, or a signal has kept them from being started.
Joined ==
  /\ \A t \in Thread : nodes[t] = {}
  /\ \/ \A t \in Thread : pc[t] = "exit"
     \/ g_interruped /\ \A t \in Thread : pc[t] = "idle"

\* What the seed loop hands over is nothing, or enough for every thread.
SeedsSuffice == seed_nodes = {} \/ Cardinality(seed_nodes) >= Enough

Phases ==
  /\ phase \in {"seed", "deal"} => NotStarted
  /\ phase = "deal" /\ ~g_interruped => SeedsSuffice
  /\ phase \in {"clean", "done"} => Joined
  /\ seed_nodes # {} =>
       phase \in {"seed", "deal"} \/ (phase = "clean" /\ g_interruped)
  /\ \A t \in Thread : pc[t] = "exit" => nodes[t] = {}
  /\ ~searched => phase # "seed" /\ seed_nodes = {}

\* One of the values in the threads' hands is the least.
HasLeast == \E v \in Known : \A w \in Known : v <= w

\* Every record that can still be returned is one that may be reported.
Reported == GivenRecord \cup {Cost[s] : s \in Solution}
KnownGenuine == searched => Known \subseteq Reported

----------------------------------------------------------------------------
(* A scheduler as its own module sees it.                                  *)

\* The label a thread has for the scheduler: publishing is part of branching.
View(label) ==
  CASE label = "idle" -> "loop"
    [] label \in {"publish", "lock"} -> "schedule"
    [] OTHER -> label

SchedulerPc == [t \in Thread |-> View(pc[t])]

Pools == {[t \in Thread |-> {}]} \cup [Thread -> (SUBSET Node) \ {{}}]

RS == INSTANCE RequestingScheduler_proofs WITH InitialPools <- Pools, pc <- SchedulerPc
GS == INSTANCE GivingScheduler_proofs WITH InitialPools <- Pools, pc <- SchedulerPc

\* Once the nodes are dealt out and as long as no signal arrives, the workers use the
\* scheduler as its own specification wants it.
SchedulerInUse ==
  phase \in {"fork", "clean", "done"} /\ ~g_interruped =>
    /\ scheduler = "requesting" => RS!Inv
    /\ scheduler = "giving" => GS!Inv

----------------------------------------------------------------------------
(* Counting threads.                                                       *)

LEMMA CountType ==
  \A S \in SUBSET Thread : Cardinality(S) \in 0..NumThreads
<1> TAKE S \in SUBSET Thread
<1>1. IsFiniteSet(S) /\ Cardinality(S) <= NumThreads
  BY EngineAssumption, FS_Subset DEF NumThreads
<1>2. Cardinality(S) \in Nat /\ NumThreads \in Nat
  BY <1>1, EngineAssumption, FS_CardinalityType DEF NumThreads
<1> QED BY <1>1, <1>2

LEMMA CountLess ==
  ASSUME NEW S \in SUBSET Thread, NEW t \in S
  PROVE  Cardinality(S \ {t}) = Cardinality(S) - 1
<1>1. IsFiniteSet(S)
  BY EngineAssumption, FS_Subset
<1> QED BY <1>1, FS_RemoveElement

LEMMA CountMore ==
  ASSUME NEW S \in SUBSET Thread, NEW t \in Thread \ S
  PROVE  Cardinality(S \cup {t}) = Cardinality(S) + 1
<1>1. IsFiniteSet(S)
  BY EngineAssumption, FS_Subset
<1> QED BY <1>1, FS_AddElement

LEMMA CountSubset ==
  ASSUME NEW S \in SUBSET Thread, NEW T \in SUBSET S
  PROVE  Cardinality(T) <= Cardinality(S)
<1>1. IsFiniteSet(S)
  BY EngineAssumption, FS_Subset
<1> QED BY <1>1, FS_Subset

LEMMA ThreadCount == NumThreads \in Nat /\ NumThreads > 0
<1>1. NumThreads \in Nat
  BY EngineAssumption, FS_CardinalityType DEF NumThreads
<1>2. NumThreads # 0
  BY EngineAssumption, FS_EmptySet DEF NumThreads
<1> QED BY <1>1, <1>2

----------------------------------------------------------------------------
(* Types, and the counters within their bounds.                            *)

Counted == TypeOK /\ Counters

LEMMA InitCounted == Init => Counted
<1> SUFFICES ASSUME Init PROVE Counted
  OBVIOUS
<1>1. PICK rank \in Ranks, given \in GivenRecord, initSol \in Solution :
        /\ searched = (rank = "large")
        /\ phase = IF searched THEN "seed" ELSE "deal"
        /\ seed_nodes = IF searched THEN {Root} ELSE {}
        /\ seed_record = IF searched /\ Cost[initSol] < given
                         THEN Cost[initSol] ELSE given
  BY DEF Init
<1>2. seed_record \in Int /\ seed_nodes \subseteq Node
  BY <1>1, EngineAssumption, TypeAssumption, TreeAssumption
<1>3. TypeOK
  <2>1. searched \in BOOLEAN /\ phase \in {"seed", "deal"}
    BY <1>1
  <2>2. 0 \in 0..NumThreads /\ NumThreads \in 0..NumThreads
    BY ThreadCount
  <2>3. record \in [Thread -> Int] /\ record_ \in Int
    BY DEF Init
  <2>6. g_interruped \in BOOLEAN
    BY Zenon DEF Init
  <2>4. pc \in [Thread -> Label] /\ nodes \in [Thread -> SUBSET Node]
    BY DEF Init, Label
  <2>5. /\ queue_sets \subseteq Node /\ mutex_sets \in Thread \cup {None}
        /\ num_waiting_threads \in 0..NumThreads /\ num_working_threads \in 0..NumThreads
    BY <2>2 DEF Init
  <2> QED BY <1>2, <2>1, <2>3, <2>4, <2>5, <2>6 DEF Init, TypeOK
<1>4. Asking = {} /\ Occupied = {} /\ Awake = Thread
  BY DEF Init, Asking, R!Enlisted, Occupied, Awake
<1>5. Cardinality({}) = 0 /\ Cardinality(Asking \cup SentHome) \in 0..NumThreads
  BY FS_EmptySet, CountType DEF Asking, SentHome
<1>6. Counters
  BY <1>4, <1>5, ThreadCount DEF Counters, Init, NumThreads
<1> QED BY <1>3, <1>6 DEF Counted

\* A step that leaves the counters alone keeps them right if nobody new must be counted
\* and nobody ceases to be one who may be.
LEMMA SameCounters ==
  ASSUME Counters, TypeOK, UNCHANGED <<scheduler, num_waiting_threads, num_working_threads>>,
         scheduler = "requesting" => Asking' \subseteq Asking,
         scheduler = "requesting" => Asking \cup SentHome \subseteq (Asking \cup SentHome)',
         scheduler = "giving" => Occupied' \subseteq Occupied,
         scheduler = "giving" => Awake \subseteq Awake'
  PROVE  Counters'
<1>1. /\ Asking \in SUBSET Thread /\ (Asking \cup SentHome) \in SUBSET Thread
      /\ Asking' \in SUBSET Thread /\ (Asking \cup SentHome)' \in SUBSET Thread
      /\ Occupied \in SUBSET Thread /\ Awake \in SUBSET Thread
      /\ Occupied' \in SUBSET Thread /\ Awake' \in SUBSET Thread
  BY DEF Asking, SentHome, Occupied, Awake
<1>2. scheduler = "requesting" =>
        /\ Cardinality(Asking') <= Cardinality(Asking)
        /\ Cardinality(Asking \cup SentHome) <= Cardinality((Asking \cup SentHome)')
  BY <1>1, CountSubset
<1>3. scheduler = "giving" =>
        /\ Cardinality(Occupied') <= Cardinality(Occupied)
        /\ Cardinality(Awake) <= Cardinality(Awake')
  BY <1>1, CountSubset
<1>4. /\ Cardinality(Asking) \in Int /\ Cardinality(Asking \cup SentHome) \in Int
      /\ Cardinality(Asking') \in Int /\ Cardinality((Asking \cup SentHome)') \in Int
      /\ Cardinality(Occupied) \in Int /\ Cardinality(Awake) \in Int
      /\ Cardinality(Occupied') \in Int /\ Cardinality(Awake') \in Int
      /\ num_waiting_threads \in Int /\ num_working_threads \in Int
  BY <1>1, CountType DEF TypeOK
<1>5. scheduler = "requesting" =>
        /\ Cardinality(Asking') <= num_waiting_threads
        /\ num_waiting_threads <= Cardinality((Asking \cup SentHome)')
  BY <1>2, <1>4 DEF Counters
<1>6. scheduler = "giving" =>
        /\ Cardinality(Occupied') <= num_working_threads
        /\ num_working_threads <= Cardinality(Awake')
  BY <1>3, <1>4 DEF Counters
<1> QED BY <1>5, <1>6 DEF Counters

----------------------------------------------------------------------------
(* Dealing out.                                                            *)

LEMMA RoundRobin ==
  ASSUME NEW N \in Nat \ {0}
  PROVE  /\ \A k \in 1..N : 1 + ((k - 1) % N) = k
         /\ \A i \in Nat \ {0} : 1 + ((i - 1) % N) \in 1..N
OBVIOUS

\* An order of a finite set goes through all of it.
LEMMA OrderCovers ==
  ASSUME NEW S, IsFiniteSet(S), NEW f \in Orders(S)
  PROVE  /\ Cardinality(S) \in Nat
         /\ \A i \in 1..Cardinality(S) : f[i] \in S
         /\ \A n \in S : \E i \in 1..Cardinality(S) : f[i] = n
         /\ \A i, j \in 1..Cardinality(S) : f[i] = f[j] => i = j
<1> DEFINE I == 1..Cardinality(S)
<1>1. Cardinality(S) \in Nat
  BY FS_CardinalityType
<1>2. f \in [I -> S] /\ \A i, j \in I : f[i] = f[j] => i = j
  BY DEF Orders
<1>3. f \in Injection(I, S)
  BY <1>2, Fun_IsInj
<1>4. Cardinality(I) = Cardinality(S)
  BY <1>1, FS_Interval
<1> HIDE DEF I
<1>5. f \in Surjection(I, S)
  BY <1>3, <1>4, FS_Injection
<1>6. \A n \in S : \E i \in I : f[i] = n
  BY <1>5, Fun_SurjectionProperties
<1> QED BY <1>1, <1>2, <1>6 DEF I

\* Every node goes to exactly one thread, and each thread gets one when there are enough.
LEMMA DealEffect ==
  ASSUME TypeOK, Phases, Deal
  PROVE  /\ nodes' \in [Thread -> SUBSET seed_nodes]
         /\ \A n \in seed_nodes : \E t \in Thread : n \in nodes'[t]
         /\ \A t, u \in Thread : t # u => nodes'[t] \cap nodes'[u] = {}
         /\ nodes' \in Pools
<1> DEFINE C == Cardinality(seed_nodes)
<1>0. IsFiniteSet(seed_nodes)
  BY EngineAssumption, FS_Subset DEF TypeOK
<1>a. PICK order \in Orders(seed_nodes) : \E rank \in Orders(Thread) :
        nodes' = [t \in Thread |->
                    {order[i] : i \in {k \in 1..C : rank[1 + ((k - 1) % NumThreads)] = t}}]
  BY DEF Deal
<1>1. PICK rank \in Orders(Thread) :
        nodes' = [t \in Thread |->
                    {order[i] : i \in {k \in 1..C : rank[1 + ((k - 1) % NumThreads)] = t}}]
  BY <1>a
<1>2. /\ C \in Nat
      /\ \A i \in 1..C : order[i] \in seed_nodes
      /\ \A n \in seed_nodes : \E i \in 1..C : order[i] = n
      /\ \A i, j \in 1..C : order[i] = order[j] => i = j
  BY <1>0, OrderCovers
<1>3. /\ \A k \in 1..NumThreads : rank[k] \in Thread
      /\ \A t \in Thread : \E k \in 1..NumThreads : rank[k] = t
  BY EngineAssumption, OrderCovers DEF NumThreads
<1> HIDE DEF C
<1>4. /\ \A k \in 1..NumThreads : 1 + ((k - 1) % NumThreads) = k
      /\ \A i \in 1..C : 1 + ((i - 1) % NumThreads) \in 1..NumThreads
  BY <1>2, RoundRobin, ThreadCount
<1> DEFINE turn(i) == 1 + ((i - 1) % NumThreads)
<1> HIDE DEF turn
<1>5. /\ \A k \in 1..NumThreads : turn(k) = k
      /\ \A i \in 1..C : turn(i) \in 1..NumThreads
  BY <1>4 DEF turn
<1>6. nodes' = [t \in Thread |-> {order[i] : i \in {k \in 1..C : rank[turn(k)] = t}}]
  BY <1>1 DEF turn
<1>7. nodes' \in [Thread -> SUBSET seed_nodes]
  BY <1>2, <1>6
<1>8. \A n \in seed_nodes : \E t \in Thread : n \in nodes'[t]
  <2> TAKE n \in seed_nodes
  <2>1. PICK i \in 1..C : order[i] = n
    BY <1>2
  <2>2. rank[turn(i)] \in Thread
    BY <1>3, <1>5
  <2>3. n \in nodes'[rank[turn(i)]]
    BY <1>6, <2>1, <2>2
  <2> QED BY <2>2, <2>3
<1>9. \A t, u \in Thread : t # u => nodes'[t] \cap nodes'[u] = {}
  <2> SUFFICES ASSUME NEW t \in Thread, NEW u \in Thread, t # u,
                      NEW n \in nodes'[t], n \in nodes'[u]
               PROVE  FALSE
    OBVIOUS
  <2>1. PICK i \in 1..C : rank[turn(i)] = t /\ order[i] = n
    BY <1>6
  <2>2. PICK j \in 1..C : rank[turn(j)] = u /\ order[j] = n
    BY <1>6
  <2>3. i = j
    BY <1>2, <2>1, <2>2
  <2> QED BY <2>1, <2>2, <2>3
<1>10. nodes' \in Pools
  <2>1. CASE seed_nodes = {}
    BY <1>7, <2>1 DEF Pools
  <2>2. CASE C >= Enough
    <3>1. C >= NumThreads
      BY <1>2, <2>2, EngineAssumption, ThreadCount DEF Enough
    <3>2. \A t \in Thread : nodes'[t] # {}
      <4> TAKE t \in Thread
      <4>1. PICK k \in 1..NumThreads : rank[k] = t
        BY <1>3
      <4>2. k \in 1..C /\ rank[turn(k)] = t
        BY <1>2, <1>5, <3>1, <4>1, ThreadCount
      <4>3. order[k] \in nodes'[t]
        BY <1>6, <4>2
      <4> QED BY <4>3
    <3>3. seed_nodes \subseteq Node
      BY DEF TypeOK
    <3>4. nodes' \in [Thread -> (SUBSET Node) \ {{}}]
      BY <1>7, <3>2, <3>3
    <3> QED BY <3>4 DEF Pools
  <2>3. SeedsSuffice
    BY DEF Deal, Phases
  <2> QED BY <2>1, <2>2, <2>3 DEF SeedsSuffice, C
<1> QED BY <1>7, <1>8, <1>9, <1>10

----------------------------------------------------------------------------
(* The frame: types, counters and phases, kept by every step.              *)

Frame == TypeOK /\ Counters /\ Phases

LEMMA InitPhases == Init => Phases
<1> SUFFICES ASSUME Init PROVE Phases
  OBVIOUS
<1>1. NotStarted
  BY DEF Init, NotStarted
<1>2. \/ searched /\ phase = "seed"
      \/ ~searched /\ phase = "deal" /\ seed_nodes = {}
  BY DEF Init
<1> QED BY <1>1, <1>2 DEF Phases, SeedsSuffice, NotStarted

LEMMA InitFrame == Init => Frame
BY InitCounted, InitPhases DEF Counted, Frame

LEMMA SeedBranchFrame ==
  ASSUME Frame, SeedBranch
  PROVE  Frame'
<1>1. PICK n \in seed_nodes : \E v \in Records(n, seed_record) :
        /\ IsNewRecord(n, seed_record, v)
        /\ seed_record' = v
        /\ seed_nodes' = (seed_nodes \ {n}) \cup Kept(n, seed_record)
  BY DEF SeedBranch
<1>2. n \in Node /\ seed_record \in Int
  BY DEF Frame, TypeOK
<1>3. seed_record' \in Int /\ seed_nodes' \subseteq Node
  BY <1>1, <1>2, RecordType, KeptType DEF Frame, TypeOK
<1>4. /\ phase = "seed"
      /\ UNCHANGED <<scheduler, phase, searched, recordVars, g_interruped, schedulerVars>>
  BY DEF SeedBranch
<1>5. TypeOK'
  BY <1>3, <1>4 DEF Frame, TypeOK, recordVars, schedulerVars
<1>6. Counters'
  BY <1>4 DEF Frame, Counters, Asking, SentHome, Occupied, Awake, schedulerVars
<1>7. Phases'
  BY <1>4 DEF Frame, Phases, NotStarted, schedulerVars
<1> QED BY <1>5, <1>6, <1>7 DEF Frame

LEMMA SeedDoneFrame ==
  ASSUME Frame, SeedDone
  PROVE  Frame'
<1>1. /\ phase = "seed" /\ phase' = "deal" /\ ~Seeding /\ record_' = seed_record
      /\ UNCHANGED <<scheduler, searched, seed_nodes, seed_record, record, g_interruped,
                     schedulerVars>>
  BY DEF SeedDone
<1>2. TypeOK'
  BY <1>1 DEF Frame, TypeOK, schedulerVars
<1>3. Counters'
  BY <1>1 DEF Frame, Counters, Asking, SentHome, Occupied, Awake, schedulerVars
<1>4. ~g_interruped => SeedsSuffice
  <2>1. IsFiniteSet(seed_nodes)
    BY EngineAssumption, FS_Subset DEF Frame, TypeOK
  <2>2. Cardinality(seed_nodes) \in Nat
    BY <2>1, FS_CardinalityType
  <2>3. Enough \in Nat
    BY EngineAssumption, ThreadCount DEF Enough
  <2> QED BY <1>1, <2>2, <2>3 DEF Seeding, SeedsSuffice
<1>5. Phases'
  BY <1>1, <1>4 DEF Frame, Phases, NotStarted, SeedsSuffice, Enough, schedulerVars
<1> QED BY <1>2, <1>3, <1>5 DEF Frame

LEMMA DealFrame ==
  ASSUME Frame, Deal
  PROVE  Frame'
<1>1. /\ phase = "deal" /\ phase' = "fork" /\ seed_nodes' = {}
      /\ UNCHANGED <<scheduler, searched, seed_record, recordVars, g_interruped, pc,
                     queue_sets, mutex_sets, num_waiting_threads, num_working_threads>>
  BY DEF Deal
<1>2. nodes' \in [Thread -> SUBSET Node]
  BY DealEffect DEF Frame, TypeOK
<1>3. TypeOK'
  BY <1>1, <1>2 DEF Frame, TypeOK, recordVars
<1>4. NotStarted
  BY <1>1 DEF Frame, Phases
<1>5. /\ Asking' = {} /\ Awake' = Thread
      /\ Occupied' \in SUBSET Thread /\ (Asking \cup SentHome)' \in SUBSET Thread
  BY <1>1, <1>4 DEF NotStarted, Asking, SentHome, R!Enlisted, Occupied, Awake
<1>6. /\ Cardinality(Asking') = 0 /\ Cardinality(Awake') = NumThreads
      /\ Cardinality(Occupied') \in 0..NumThreads
      /\ Cardinality((Asking \cup SentHome)') \in 0..NumThreads
  BY <1>5, FS_EmptySet, CountType DEF NumThreads
<1>7. Counters'
  BY <1>1, <1>4, <1>6, ThreadCount DEF Counters, NotStarted
<1>8. Phases'
  BY <1>1, <1>4 DEF Frame, Phases, NotStarted
<1> QED BY <1>3, <1>7, <1>8 DEF Frame

LEMMA LaterMainFrame ==
  ASSUME Frame, SkipThreads \/ Join \/ Return
  PROVE  Frame'
<1>1. /\ UNCHANGED <<scheduler, searched, seed_record, recordVars, g_interruped,
                     schedulerVars>>
      /\ seed_nodes' \in {seed_nodes, {}} /\ phase' \in {"clean", "done"}
      /\ phase \in {"deal", "fork", "clean"}
  BY DEF SkipThreads, Join, Return
<1>2. TypeOK'
  BY <1>1 DEF Frame, TypeOK, recordVars, schedulerVars
<1>3. Counters'
  BY <1>1 DEF Frame, Counters, Asking, SentHome, Occupied, Awake, schedulerVars
<1>4. Joined
  BY DEF SkipThreads, Join, Return, Frame, Phases, NotStarted, Joined
<1>5. Joined'
  BY <1>1, <1>4 DEF Joined, schedulerVars
<1>6. seed_nodes' # {} => phase' = "clean" /\ g_interruped
  BY DEF SkipThreads, Join, Return, Frame, Phases
<1>7. Phases'
  BY <1>1, <1>5, <1>6 DEF Frame, Phases, schedulerVars
<1> QED BY <1>2, <1>3, <1>7 DEF Frame

LEMMA InterruptFrame ==
  ASSUME Frame, Interrupt
  PROVE  Frame'
<1>1. g_interruped' = TRUE /\ UNCHANGED <<mainVars, recordVars, schedulerVars>>
  BY DEF Interrupt
<1>2. g_interruped' \in BOOLEAN
  BY <1>1, Zenon
<1>3. TypeOK'
  BY <1>1, <1>2 DEF Frame, TypeOK, mainVars, recordVars, schedulerVars
<1>4. Counters'
  BY <1>1 DEF Frame, Counters, Asking, SentHome, Occupied, Awake, mainVars, schedulerVars
<1>5. Phases'
  BY <1>1 DEF Frame, Phases, NotStarted, Joined, mainVars, schedulerVars
<1> QED BY <1>3, <1>4, <1>5 DEF Frame

\* Only started workers move, and there are some in phase "fork" alone.
LEMMA WorkerPhase ==
  ASSUME Frame, NEW t \in Thread, pc[t] \notin {"idle", "exit"}
  PROVE  phase = "fork" /\ seed_nodes = {}
BY DEF Frame, TypeOK, Phases, NotStarted, Joined

LEMMA WorkerPhases ==
  ASSUME Frame, phase = "fork", UNCHANGED <<mainVars, g_interruped>>,
         \A t \in Thread : pc'[t] = "exit" => nodes'[t] = {}
  PROVE  Phases'
BY DEF Frame, TypeOK, Phases, mainVars

LEMMA ForkFrame ==
  ASSUME Frame, NEW t \in Thread, Fork(t)
  PROVE  Frame'
<1>1. /\ phase = "fork" /\ pc[t] = "idle"
      /\ pc' = [pc EXCEPT ![t] = "loop"] /\ record' = [record EXCEPT ![t] = record_]
      /\ UNCHANGED <<mainVars, record_, g_interruped, nodes, queue_sets, mutex_sets,
                     num_waiting_threads, num_working_threads>>
  BY DEF Fork
<1>2. TypeOK'
  BY <1>1 DEF Frame, TypeOK, mainVars, Label, R!Label
<1>3. Counters'
  <2>1. Asking' = Asking /\ SentHome' = SentHome /\ Occupied' = Occupied /\ Awake' = Awake
    BY <1>1 DEF Frame, TypeOK, Asking, R!Enlisted, SentHome, Occupied, Awake
  <2> QED BY <1>1, <2>1 DEF Frame, Counters, mainVars
<1>4. Phases'
  BY <1>1, WorkerPhases DEF Frame, TypeOK, Phases
<1> QED BY <1>2, <1>3, <1>4 DEF Frame

LEMMA BranchFrame ==
  ASSUME Frame, NEW t \in Thread, Branch(t)
  PROVE  Frame'
<1>1. PICK n \in nodes[t] : \E v \in Records(n, record_) :
        /\ IsNewRecord(n, record_, v)
        /\ record' = [record EXCEPT ![t] = v]
        /\ nodes' = [nodes EXCEPT ![t] = (@ \ {n}) \cup Kept(n, record_)]
  BY DEF Branch
<1>2. PICK v \in Records(n, record_) :
        /\ IsNewRecord(n, record_, v)
        /\ record' = [record EXCEPT ![t] = v]
        /\ nodes' = [nodes EXCEPT ![t] = (@ \ {n}) \cup Kept(n, record_)]
  BY <1>1
<1>3. /\ pc[t] = "loop" /\ pc' = [pc EXCEPT ![t] = "publish"]
      /\ UNCHANGED <<mainVars, record_, g_interruped, queue_sets, mutex_sets,
                     num_waiting_threads, num_working_threads>>
  BY DEF Branch
<1>4. n \in Node /\ record_ \in Int /\ v \in Int /\ Kept(n, record_) \subseteq Node
  BY <1>2, RecordType, KeptType DEF Frame, TypeOK
<1>5. record' \in [Thread -> Int] /\ nodes' \in [Thread -> SUBSET Node]
  BY <1>2, <1>4 DEF Frame, TypeOK
<1>6. TypeOK'
  BY <1>3, <1>5 DEF Frame, TypeOK, mainVars, Label
<1>7. Counters'
  <2>1. \A u \in Thread : u # t => nodes'[u] = nodes[u] /\ pc'[u] = pc[u]
    BY <1>2, <1>3 DEF Frame, TypeOK
  <2>2. pc'[t] = "publish" /\ nodes[t] # {}
    BY <1>3 DEF Frame, TypeOK
  <2>3. Asking' = Asking /\ SentHome' = SentHome /\ Occupied' = Occupied /\ Awake' = Awake
    BY <1>3, <2>1, <2>2 DEF Asking, R!Enlisted, SentHome, Occupied, Awake
  <2> QED BY <1>3, <2>3 DEF Frame, Counters, mainVars
<1>8. Phases'
  <2>1. \A u \in Thread : pc'[u] = "exit" => nodes'[u] = {}
    BY <1>2, <1>3 DEF Frame, TypeOK, Phases
  <2> QED BY <1>3, <2>1, WorkerPhase, WorkerPhases
<1> QED BY <1>6, <1>7, <1>8 DEF Frame

LEMMA RecordStepFrame ==
  ASSUME Frame, NEW t \in Thread, Compare(t) \/ Publish(t)
  PROVE  Frame'
<1>1. /\ pc[t] \in {"publish", "lock"}
      /\ \E l \in {"lock", "schedule"} : pc' = [pc EXCEPT ![t] = l]
      /\ record_' \in {record_, record[t]}
      /\ UNCHANGED <<mainVars, record, g_interruped, nodes, queue_sets, mutex_sets,
                     num_waiting_threads, num_working_threads>>
  BY DEF Compare, Publish, recordVars
<1>2. TypeOK'
  BY <1>1 DEF Frame, TypeOK, mainVars, Label, R!Label
<1>3. Counters'
  <2>1. Asking' = Asking /\ SentHome' = SentHome /\ Occupied' = Occupied /\ Awake' = Awake
    BY <1>1 DEF Frame, TypeOK, Asking, R!Enlisted, SentHome, Occupied, Awake
  <2> QED BY <1>1, <2>1 DEF Frame, Counters, mainVars
<1>4. Phases'
  <2>1. \A u \in Thread : pc'[u] = "exit" => nodes'[u] = {}
    BY <1>1 DEF Frame, TypeOK, Phases
  <2> QED BY <1>1, <2>1, WorkerPhase, WorkerPhases
<1> QED BY <1>2, <1>3, <1>4 DEF Frame

LEMMA ExitFrame ==
  ASSUME Frame, NEW t \in Thread, Exit(t)
  PROVE  Frame'
<1>1. /\ pc[t] = "loop"
      /\ nodes' = [nodes EXCEPT ![t] = {}] /\ pc' = [pc EXCEPT ![t] = "exit"]
      /\ UNCHANGED <<mainVars, recordVars, g_interruped, queue_sets, mutex_sets,
                     num_waiting_threads, num_working_threads>>
  BY DEF Exit
<1>2. TypeOK'
  BY <1>1 DEF Frame, TypeOK, mainVars, recordVars, Label, R!Label
<1>3. Counters'
  <2>1. /\ Asking' = Asking /\ SentHome \subseteq SentHome'
        /\ Occupied' \subseteq Occupied /\ Awake' = Awake
    BY <1>1 DEF Frame, TypeOK, Asking, R!Enlisted, SentHome, Occupied, Awake
  <2>2. UNCHANGED <<scheduler, num_waiting_threads, num_working_threads>>
    BY <1>1 DEF mainVars
  <2> QED BY <2>1, <2>2, SameCounters DEF Frame
<1>4. Phases'
  <2>1. \A u \in Thread : pc'[u] = "exit" => nodes'[u] = {}
    BY <1>1 DEF Frame, TypeOK, Phases
  <2> QED BY <1>1, <2>1, WorkerPhase, WorkerPhases
<1> QED BY <1>2, <1>3, <1>4 DEF Frame

----------------------------------------------------------------------------
(* The frame and the requesting scheduler.                                 *)

WithRequesting ==
  /\ scheduler = "requesting"
  /\ UNCHANGED <<mainVars, recordVars, g_interruped, num_working_threads>>

\* A step of the scheduler moves a few labels and nodes and keeps the rest.
LEMMA RequestingFrame ==
  ASSUME Frame, WithRequesting, NEW t \in Thread, pc[t] \notin {"idle", "exit"},
         pc' \in [Thread -> Label], \A u \in Thread : pc'[u] = "exit" => pc[u] = "exit",
         nodes' \in [Thread -> SUBSET Node],
         \A u \in Thread : u # t => nodes'[u] = nodes[u],
         queue_sets' \subseteq Node, mutex_sets' \in Thread \cup {None},
         pc'[t] # "exit",
         Cardinality(Asking') <= num_waiting_threads',
         num_waiting_threads' <= Cardinality((Asking \cup SentHome)'),
         num_waiting_threads' \in Int
  PROVE  Frame'
<1>1. Asking' \in SUBSET Thread /\ (Asking \cup SentHome)' \in SUBSET Thread
  BY DEF Asking, SentHome
<1>2. /\ Cardinality(Asking') \in 0..NumThreads
      /\ Cardinality((Asking \cup SentHome)') \in 0..NumThreads
  BY <1>1, CountType
<1>3. num_waiting_threads' \in 0..NumThreads
  BY <1>2, ThreadCount
<1>4. TypeOK'
  BY <1>3 DEF Frame, TypeOK, WithRequesting, mainVars, recordVars
<1>5. Counters'
  BY DEF Counters, WithRequesting, mainVars
<1>6. \A u \in Thread : pc'[u] = "exit" => nodes'[u] = {}
  BY DEF Frame, Phases
<1>7. Phases'
  BY <1>6, WorkerPhase, WorkerPhases DEF WithRequesting
<1> QED BY <1>4, <1>5, <1>7 DEF Frame

\* When the counter stays, it is enough that its bounds do not close in on it.
LEMMA RequestingSameCount ==
  ASSUME Frame, WithRequesting, num_waiting_threads' = num_waiting_threads,
         Asking' \subseteq Asking,
         Asking \cup SentHome \subseteq (Asking \cup SentHome)'
  PROVE  /\ Cardinality(Asking') <= num_waiting_threads'
         /\ num_waiting_threads' <= Cardinality((Asking \cup SentHome)')
         /\ num_waiting_threads' \in Int
<1>1. Counters'
  <2>1. UNCHANGED <<scheduler, num_waiting_threads, num_working_threads>>
    BY DEF WithRequesting, mainVars
  <2>2. scheduler # "giving"
    BY DEF WithRequesting
  <2> QED BY <2>1, <2>2, SameCounters DEF Frame
<1>2. scheduler' = "requesting"
  BY DEF WithRequesting, mainVars
<1> QED BY <1>1, <1>2 DEF Counters, Frame, TypeOK

LEMMA ProbeFrame ==
  ASSUME Frame, WithRequesting, NEW t \in Thread, R!Probe(t)
  PROVE  Frame'
<1>1. /\ pc[t] = "schedule" /\ UNCHANGED <<nodes, queue_sets, mutex_sets, num_waiting_threads>>
      /\ \/ pc' = [pc EXCEPT ![t] = "donate"]
         \/ pc' = [pc EXCEPT ![t] = "enlist"]
         \/ pc' = [pc EXCEPT ![t] = "loop"] /\ nodes[t] # {}
  BY DEF R!Probe, R!Onward
<1>2. Asking' = Asking /\ SentHome' = SentHome
  BY <1>1 DEF Frame, TypeOK, Asking, R!Enlisted, SentHome
<1>3. pc' \in [Thread -> Label] /\ \A u \in Thread : pc'[u] = "exit" => pc[u] = "exit"
  BY <1>1 DEF Frame, TypeOK, Label, R!Label
<1> QED BY <1>1, <1>2, <1>3, RequestingSameCount, RequestingFrame DEF Frame, TypeOK

\* What donating comes to.
LEMMA DonateEffect ==
  ASSUME Frame, NEW t \in Thread, R!Donate(t)
  PROVE  \E keep \in SUBSET nodes[t] :
           /\ queue_sets' = queue_sets \cup (nodes[t] \ keep)
           /\ nodes' = [nodes EXCEPT ![t] = keep]
           /\ pc' = [u \in Thread |-> IF u = t THEN R!Onward(keep)
                                      ELSE IF pc[u] = "sleep" THEN "acquire" ELSE pc[u]]
<1>1. PICK keep \in R!UpToMin(nodes[t]) :
        /\ queue_sets' = queue_sets \cup (nodes[t] \ keep)
        /\ nodes' = [nodes EXCEPT ![t] = R!Pop(@, @ \ keep)]
        /\ pc' = R!NotifyAll([pc EXCEPT ![t] = R!Onward(nodes'[t])])
  BY DEF R!Donate
<1>2. keep \subseteq nodes[t]
  BY DEF R!UpToMin
<1>3. nodes' = [nodes EXCEPT ![t] = keep] /\ nodes'[t] = keep
  BY <1>1, <1>2 DEF R!Pop, Frame, TypeOK
<1>4. pc' = [u \in Thread |-> IF u = t THEN R!Onward(keep)
                              ELSE IF pc[u] = "sleep" THEN "acquire" ELSE pc[u]]
  BY <1>1, <1>3 DEF R!NotifyAll, R!Onward, Frame, TypeOK
<1>5. queue_sets' = queue_sets \cup (nodes[t] \ keep) /\ keep \in SUBSET nodes[t]
  BY <1>1, <1>2
<1>6. nodes' = [nodes EXCEPT ![t] = keep]
  BY <1>3
<1> QED BY <1>4, <1>5, <1>6

LEMMA DonateFrame ==
  ASSUME Frame, WithRequesting, NEW t \in Thread, R!Donate(t)
  PROVE  Frame'
<1>1. pc[t] = "donate" /\ UNCHANGED <<mutex_sets, num_waiting_threads>>
  BY DEF R!Donate
<1>2. PICK keep \in SUBSET nodes[t] :
        /\ queue_sets' = queue_sets \cup (nodes[t] \ keep)
        /\ nodes' = [nodes EXCEPT ![t] = keep]
        /\ pc' = [u \in Thread |-> IF u = t THEN R!Onward(keep)
                                   ELSE IF pc[u] = "sleep" THEN "acquire" ELSE pc[u]]
  BY DonateEffect
<1>3. /\ nodes' \in [Thread -> SUBSET Node] /\ queue_sets' \subseteq Node
      /\ \A u \in Thread : u # t => nodes'[u] = nodes[u]
  BY <1>2 DEF Frame, TypeOK
<1>4. /\ pc' \in [Thread -> Label] /\ \A u \in Thread : pc'[u] = "exit" => pc[u] = "exit"
      /\ pc'[t] # "exit"
  BY <1>1, <1>2 DEF Frame, TypeOK, Label, R!Label, R!Enlisted, R!Onward
<1>5. Asking' = Asking /\ SentHome' = SentHome
  BY <1>1, <1>2 DEF Frame, TypeOK, Asking, R!Enlisted, SentHome, R!Onward
<1> QED BY <1>1, <1>3, <1>4, <1>5, RequestingSameCount, RequestingFrame DEF Frame, TypeOK

LEMMA EnlistFrame ==
  ASSUME Frame, WithRequesting, NEW t \in Thread, R!Enlist(t)
  PROVE  Frame'
<1>1. /\ pc[t] = "enlist" /\ num_waiting_threads' = num_waiting_threads + 1
      /\ pc' = [pc EXCEPT ![t] = "acquire"]
      /\ UNCHANGED <<nodes, queue_sets, mutex_sets>>
  BY DEF R!Enlist
<1> DEFINE U == Asking \cup SentHome
<1>2. /\ t \in Thread \ U /\ t \in Thread \ Asking
      /\ U \in SUBSET Thread /\ Asking \in SUBSET Thread
  BY <1>1 DEF Asking, SentHome, R!Enlisted
<1>3. Asking' = Asking \cup {t} /\ SentHome' = SentHome
  BY <1>1 DEF Frame, TypeOK, Asking, SentHome, R!Enlisted
<1>4. U' = U \cup {t}
  BY <1>3
<1> HIDE DEF U
<1>5. /\ Cardinality(Asking') = Cardinality(Asking) + 1
      /\ Cardinality(U') = Cardinality(U) + 1
  BY <1>2, <1>3, <1>4, CountMore
<1>6. /\ Cardinality(Asking) <= num_waiting_threads /\ num_waiting_threads <= Cardinality(U)
      /\ Cardinality(Asking) \in Int /\ Cardinality(U) \in Int /\ num_waiting_threads \in Int
  BY <1>2, CountType DEF U, Frame, Counters, TypeOK, WithRequesting
<1>7. /\ Cardinality(Asking') <= num_waiting_threads'
      /\ num_waiting_threads' <= Cardinality((Asking \cup SentHome)')
      /\ num_waiting_threads' \in Int
  BY <1>1, <1>5, <1>6 DEF U
<1>8. pc' \in [Thread -> Label] /\ \A u \in Thread : pc'[u] = "exit" => pc[u] = "exit"
  BY <1>1 DEF Frame, TypeOK, Label, R!Label, R!Enlisted
<1> QED BY <1>1, <1>7, <1>8, RequestingFrame DEF Frame, TypeOK

LEMMA AcquireFrame ==
  ASSUME Frame, WithRequesting, NEW t \in Thread, R!Acquire(t) \/ R!SpuriousWakeup(t)
  PROVE  Frame'
<1>1. /\ UNCHANGED <<nodes, queue_sets, num_waiting_threads>>
      /\ pc[t] \in {"acquire", "sleep"} /\ mutex_sets' \in {mutex_sets, t}
      /\ \E l \in {"receive", "sleep", "acquire"} : pc' = [pc EXCEPT ![t] = l]
  BY DEF R!Acquire, R!SpuriousWakeup
<1>2. Asking' = Asking /\ SentHome' = SentHome
  BY <1>1 DEF Frame, TypeOK, Asking, R!Enlisted, SentHome
<1>3. pc' \in [Thread -> Label] /\ \A u \in Thread : pc'[u] = "exit" => pc[u] = "exit"
  BY <1>1 DEF Frame, TypeOK, Label, R!Label, R!Enlisted
<1> QED BY <1>1, <1>2, <1>3, RequestingSameCount, RequestingFrame DEF Frame, TypeOK

LEMMA ReceiveFrame ==
  ASSUME Frame, WithRequesting, NEW t \in Thread, R!Receive(t)
  PROVE  Frame'
<1>1. PICK taken \in R!UpToMin(queue_sets) :
        /\ queue_sets' = R!Pop(queue_sets, taken)
        /\ nodes' = [nodes EXCEPT ![t] = @ \cup taken]
  BY DEF R!Receive
<1>2. pc[t] = "receive" /\ num_waiting_threads' = num_waiting_threads
  BY DEF R!Receive
<1>3. taken \subseteq queue_sets
  BY DEF R!UpToMin
<1>4. /\ nodes' \in [Thread -> SUBSET Node] /\ queue_sets' \subseteq Node
      /\ \A u \in Thread : u # t => nodes'[u] = nodes[u]
  BY <1>1, <1>3 DEF Frame, TypeOK, R!Pop
<1>5. \/ /\ nodes'[t] = {} /\ mutex_sets' = None
         /\ pc' = [u \in Thread |-> IF u = t THEN "loop"
                                    ELSE IF pc[u] = "sleep" THEN "acquire" ELSE pc[u]]
      \/ pc' = [pc EXCEPT ![t] = "leave"] /\ UNCHANGED mutex_sets
  BY DEF R!Receive, R!NotifyAll, Frame, TypeOK
<1>6. /\ pc' \in [Thread -> Label] /\ \A u \in Thread : pc'[u] = "exit" => pc[u] = "exit"
      /\ pc'[t] # "exit"
  BY <1>2, <1>5 DEF Frame, TypeOK, Label, R!Label, R!Enlisted
<1>7. Asking' \subseteq Asking /\ Asking \cup SentHome \subseteq (Asking \cup SentHome)'
  BY <1>2, <1>4, <1>5 DEF Frame, TypeOK, Asking, R!Enlisted, SentHome
<1> QED BY <1>2, <1>4, <1>5, <1>6, <1>7, RequestingSameCount, RequestingFrame DEF Frame, TypeOK

LEMMA LeaveFrame ==
  ASSUME Frame, WithRequesting, NEW t \in Thread, R!Leave(t)
  PROVE  Frame'
<1>1. /\ pc[t] = "leave" /\ num_waiting_threads' = num_waiting_threads - 1
      /\ pc' = [pc EXCEPT ![t] = "loop"] /\ mutex_sets' = None
      /\ UNCHANGED <<nodes, queue_sets>>
  BY DEF R!Leave
<1> DEFINE U == Asking \cup SentHome
<1>2. /\ t \in U /\ t \in Asking /\ U \in SUBSET Thread /\ Asking \in SUBSET Thread
      /\ (U \ {t}) \in SUBSET U'/\ U' \in SUBSET Thread
  BY <1>1 DEF Frame, TypeOK, Asking, SentHome, R!Enlisted
<1>3. Asking' = Asking \ {t}
  BY <1>1 DEF Frame, TypeOK, Asking, SentHome, R!Enlisted
<1> HIDE DEF U
<1>4. /\ Cardinality(Asking') = Cardinality(Asking) - 1
      /\ Cardinality(U \ {t}) = Cardinality(U) - 1
      /\ Cardinality(U \ {t}) <= Cardinality(U')
  BY <1>2, <1>3, CountLess, CountSubset
<1>5. /\ Cardinality(Asking) <= num_waiting_threads /\ num_waiting_threads <= Cardinality(U)
      /\ Cardinality(Asking) \in Int /\ Cardinality(U) \in Int /\ Cardinality(U') \in Int
      /\ num_waiting_threads \in Int
  BY <1>2, CountType DEF U, Frame, Counters, TypeOK, WithRequesting
<1>6. /\ Cardinality(Asking') <= num_waiting_threads'
      /\ num_waiting_threads' <= Cardinality((Asking \cup SentHome)')
      /\ num_waiting_threads' \in Int
  BY <1>1, <1>4, <1>5 DEF U
<1>7. pc' \in [Thread -> Label] /\ \A u \in Thread : pc'[u] = "exit" => pc[u] = "exit"
  BY <1>1 DEF Frame, TypeOK, Label, R!Label
<1> QED BY <1>1, <1>6, <1>7, RequestingFrame DEF Frame, TypeOK

----------------------------------------------------------------------------
(* The frame and the giving scheduler.                                     *)

WithGiving ==
  /\ scheduler = "giving"
  /\ UNCHANGED <<mainVars, recordVars, g_interruped, mutex_sets, num_waiting_threads>>

LEMMA GivingFrame ==
  ASSUME Frame, WithGiving, NEW t \in Thread, pc[t] \notin {"idle", "exit"},
         pc' \in [Thread -> Label], \A u \in Thread : pc'[u] = "exit" => pc[u] = "exit",
         nodes' \in [Thread -> SUBSET Node],
         \A u \in Thread : u # t => nodes'[u] = nodes[u],
         queue_sets' \subseteq Node, pc'[t] # "exit",
         Cardinality(Occupied') <= num_working_threads',
         num_working_threads' <= Cardinality(Awake'),
         num_working_threads' \in Int
  PROVE  Frame'
<1>1. Occupied' \in SUBSET Thread /\ Awake' \in SUBSET Thread
  BY DEF Occupied, Awake
<1>2. Cardinality(Occupied') \in 0..NumThreads /\ Cardinality(Awake') \in 0..NumThreads
  BY <1>1, CountType
<1>3. num_working_threads' \in 0..NumThreads
  BY <1>2, ThreadCount
<1>4. TypeOK'
  BY <1>3 DEF Frame, TypeOK, WithGiving, mainVars, recordVars
<1>5. Counters'
  BY DEF Counters, WithGiving, mainVars
<1>6. \A u \in Thread : pc'[u] = "exit" => nodes'[u] = {}
  BY DEF Frame, Phases
<1>7. Phases'
  BY <1>6, WorkerPhase, WorkerPhases DEF WithGiving
<1> QED BY <1>4, <1>5, <1>7 DEF Frame

LEMMA GivingSameCount ==
  ASSUME Frame, WithGiving, num_working_threads' = num_working_threads,
         Occupied' \subseteq Occupied, Awake \subseteq Awake'
  PROVE  /\ Cardinality(Occupied') <= num_working_threads'
         /\ num_working_threads' <= Cardinality(Awake')
         /\ num_working_threads' \in Int
<1>1. Counters'
  <2>1. UNCHANGED <<scheduler, num_waiting_threads, num_working_threads>>
    BY DEF WithGiving, mainVars
  <2>2. scheduler # "requesting"
    BY DEF WithGiving
  <2> QED BY <2>1, <2>2, SameCounters DEF Frame
<1>2. scheduler' = "giving"
  BY DEF WithGiving, mainVars
<1> QED BY <1>1, <1>2 DEF Counters, Frame, TypeOK

LEMMA KeepFrame ==
  ASSUME Frame, WithGiving, NEW t \in Thread, G!Keep(t) \/ G!SpuriousWakeup(t)
  PROVE  Frame'
<1>1. /\ UNCHANGED <<nodes, queue_sets, num_working_threads>>
      /\ \/ pc[t] = "schedule" /\ pc' = [pc EXCEPT ![t] = "enlist"]
         \/ pc[t] = "schedule" /\ pc' = [pc EXCEPT ![t] = "loop"]
         \/ pc[t] = "sleep" /\ pc' = [pc EXCEPT ![t] = "woken"]
  BY DEF G!Keep, G!Onward, G!SpuriousWakeup
<1>2. Occupied' \subseteq Occupied /\ Awake' = Awake
  BY <1>1 DEF Frame, TypeOK, Occupied, Awake
<1>3. pc' \in [Thread -> Label] /\ \A u \in Thread : pc'[u] = "exit" => pc[u] = "exit"
  BY <1>1 DEF Frame, TypeOK, Label, R!Label, G!Label
<1> QED BY <1>1, <1>2, <1>3, GivingSameCount, GivingFrame DEF Frame, TypeOK

LEMMA GiveEffect ==
  ASSUME Frame, NEW t \in Thread, G!Give(t)
  PROVE  \E keep \in SUBSET nodes[t] :
           /\ queue_sets' = queue_sets \cup (nodes[t] \ keep)
           /\ nodes' = [nodes EXCEPT ![t] = keep]
           /\ pc' = [u \in Thread |-> IF u = t THEN G!Onward(keep)
                                      ELSE IF pc[u] = "sleep" THEN "woken" ELSE pc[u]]
<1>1. PICK keep \in G!UpToMin(nodes[t]) :
        /\ queue_sets' = queue_sets \cup (nodes[t] \ keep)
        /\ nodes' = [nodes EXCEPT ![t] = G!Pop(@, @ \ keep)]
        /\ pc' = G!NotifyAll([pc EXCEPT ![t] = G!Onward(nodes'[t])])
  BY DEF G!Give
<1>2. keep \subseteq nodes[t]
  BY DEF G!UpToMin
<1>3. nodes' = [nodes EXCEPT ![t] = keep] /\ nodes'[t] = keep
  BY <1>1, <1>2 DEF G!Pop, Frame, TypeOK
<1>4. pc' = [u \in Thread |-> IF u = t THEN G!Onward(keep)
                              ELSE IF pc[u] = "sleep" THEN "woken" ELSE pc[u]]
  BY <1>1, <1>3 DEF G!NotifyAll, G!Onward, Frame, TypeOK
<1>5. queue_sets' = queue_sets \cup (nodes[t] \ keep) /\ keep \in SUBSET nodes[t]
  BY <1>1, <1>2
<1>6. nodes' = [nodes EXCEPT ![t] = keep]
  BY <1>3
<1> QED BY <1>4, <1>5, <1>6

LEMMA GiveFrame ==
  ASSUME Frame, WithGiving, NEW t \in Thread, G!Give(t)
  PROVE  Frame'
<1>1. pc[t] = "schedule" /\ num_working_threads' = num_working_threads
  BY DEF G!Give
<1>2. PICK keep \in SUBSET nodes[t] :
        /\ queue_sets' = queue_sets \cup (nodes[t] \ keep)
        /\ nodes' = [nodes EXCEPT ![t] = keep]
        /\ pc' = [u \in Thread |-> IF u = t THEN G!Onward(keep)
                                   ELSE IF pc[u] = "sleep" THEN "woken" ELSE pc[u]]
  BY GiveEffect
<1>3. /\ nodes' \in [Thread -> SUBSET Node] /\ queue_sets' \subseteq Node
      /\ \A u \in Thread : u # t => nodes'[u] = nodes[u]
  BY <1>2 DEF Frame, TypeOK
<1>4. /\ pc' \in [Thread -> Label] /\ \A u \in Thread : pc'[u] = "exit" => pc[u] = "exit"
      /\ pc'[t] # "exit"
  BY <1>1, <1>2 DEF Frame, TypeOK, Label, R!Label, G!Label, G!Onward
<1>5. Occupied' \subseteq Occupied /\ Awake \subseteq Awake'
  BY <1>1, <1>2 DEF Frame, TypeOK, Occupied, Awake, G!Onward
<1> QED BY <1>1, <1>3, <1>4, <1>5, GivingSameCount, GivingFrame

\* What fetching comes to: a thread sent home is not counted as working again.
LEMMA FetchEffect ==
  ASSUME Frame, NEW t \in Thread, NEW working, G!Fetch(t, working)
  PROVE  /\ \E taken \in SUBSET queue_sets :
              /\ queue_sets' = queue_sets \ taken
              /\ nodes' = [nodes EXCEPT ![t] = @ \cup taken]
         /\ \/ /\ nodes'[t] = {} /\ working = 0 /\ num_working_threads' = working
               /\ pc' = [u \in Thread |-> IF u = t THEN "loop"
                                          ELSE IF pc[u] = "sleep" THEN "woken" ELSE pc[u]]
            \/ num_working_threads' = G!Increment(working) /\ pc' = [pc EXCEPT ![t] = "loop"]
<1>1. PICK taken \in G!UpToMin(queue_sets) :
        /\ queue_sets' = G!Pop(queue_sets, taken)
        /\ nodes' = [nodes EXCEPT ![t] = @ \cup taken]
        /\ LET returned == [pc EXCEPT ![t] = "loop"]
           IN IF nodes'[t] = {} /\ working = 0
              THEN pc' = G!NotifyAll(returned) /\ num_working_threads' = working
              ELSE pc' = returned /\ num_working_threads' = G!Increment(working)
  BY DEF G!Fetch
<1>2. taken \in SUBSET queue_sets
  BY DEF G!UpToMin
<1>3. CASE nodes'[t] = {} /\ working = 0
  <2>1. pc' = G!NotifyAll([pc EXCEPT ![t] = "loop"]) /\ num_working_threads' = working
    BY <1>1, <1>3
  <2>2. pc' = [u \in Thread |-> IF u = t THEN "loop"
                                ELSE IF pc[u] = "sleep" THEN "woken" ELSE pc[u]]
    BY <2>1 DEF G!NotifyAll, Frame, TypeOK
  <2> QED BY <1>1, <1>2, <1>3, <2>1, <2>2 DEF G!Pop
<1>4. CASE ~(nodes'[t] = {} /\ working = 0)
  BY <1>1, <1>2, <1>4 DEF G!Pop
<1> QED BY <1>3, <1>4

\* A thread that is not counted, and fetches: the counter follows the sets.
LEMMA FetchFrame ==
  ASSUME Frame, WithGiving, NEW t \in Thread, pc[t] \in {"enlist", "woken"},
         NEW working \in Int, G!Fetch(t, working),
         Cardinality(Occupied \ {t}) <= working, working <= Cardinality(Awake \ {t})
  PROVE  Frame'
<1>1. PICK taken \in SUBSET queue_sets :
        /\ queue_sets' = queue_sets \ taken
        /\ nodes' = [nodes EXCEPT ![t] = @ \cup taken]
  BY FetchEffect
<1>2. /\ nodes' \in [Thread -> SUBSET Node] /\ queue_sets' \subseteq Node
      /\ \A u \in Thread : u # t => nodes'[u] = nodes[u]
  BY <1>1 DEF Frame, TypeOK
<1>3. /\ (Occupied \ {t}) \in SUBSET Thread /\ (Awake \ {t}) \in SUBSET Thread
      /\ t \in Thread \ (Occupied \ {t}) /\ t \in Thread \ (Awake \ {t})
      /\ Occupied' \in SUBSET Thread /\ Awake' \in SUBSET Thread
  BY DEF Occupied, Awake
<1>4. /\ Cardinality((Occupied \ {t}) \cup {t}) = Cardinality(Occupied \ {t}) + 1
      /\ Cardinality((Awake \ {t}) \cup {t}) = Cardinality(Awake \ {t}) + 1
  BY <1>3, CountMore
<1>5. /\ Cardinality(Occupied \ {t}) \in Int /\ Cardinality(Awake \ {t}) \in Int
      /\ Cardinality((Occupied \ {t}) \cup {t}) \in Int
      /\ Cardinality((Awake \ {t}) \cup {t}) \in 0..NumThreads
      /\ Cardinality(Occupied') \in Int /\ Cardinality(Awake') \in Int
  <2>1. /\ ((Occupied \ {t}) \cup {t}) \in SUBSET Thread
        /\ ((Awake \ {t}) \cup {t}) \in SUBSET Thread
    BY <1>3
  <2> QED BY <1>3, <2>1, CountType
<1>6. CASE /\ nodes'[t] = {} /\ working = 0 /\ num_working_threads' = working
           /\ pc' = [u \in Thread |-> IF u = t THEN "loop"
                                      ELSE IF pc[u] = "sleep" THEN "woken" ELSE pc[u]]
  <2>1. Occupied' \subseteq Occupied \ {t} /\ Awake \ {t} \subseteq Awake'
    BY <1>2, <1>6 DEF Occupied, Awake
  <2>2. /\ Cardinality(Occupied') <= Cardinality(Occupied \ {t})
        /\ Cardinality(Awake \ {t}) <= Cardinality(Awake')
    BY <1>3, <2>1, CountSubset
  <2>3. /\ pc' \in [Thread -> Label] /\ \A u \in Thread : pc'[u] = "exit" => pc[u] = "exit"
        /\ pc'[t] # "exit"
    BY <1>6 DEF Frame, TypeOK, Label, R!Label, G!Label
  <2>4. /\ Cardinality(Occupied') <= num_working_threads'
        /\ num_working_threads' <= Cardinality(Awake')
        /\ num_working_threads' \in Int
    BY <1>5, <1>6, <2>2
  <2> QED BY <1>2, <2>3, <2>4, GivingFrame
<1>7. CASE num_working_threads' = G!Increment(working) /\ pc' = [pc EXCEPT ![t] = "loop"]
  <2>1. num_working_threads' = working + 1
    BY <1>4, <1>5, <1>7, ThreadCount, EngineAssumption DEF G!Increment
  <2>2. /\ Occupied' \subseteq (Occupied \ {t}) \cup {t}
        /\ (Awake \ {t}) \cup {t} \subseteq Awake'
    BY <1>2, <1>7 DEF Occupied, Awake, Frame, TypeOK
  <2>3. ((Occupied \ {t}) \cup {t}) \in SUBSET Thread
    BY <1>3
  <2>4. /\ Cardinality(Occupied') <= Cardinality((Occupied \ {t}) \cup {t})
        /\ Cardinality((Awake \ {t}) \cup {t}) <= Cardinality(Awake')
    BY <1>3, <2>2, <2>3, CountSubset
  <2>5. /\ pc' \in [Thread -> Label] /\ \A u \in Thread : pc'[u] = "exit" => pc[u] = "exit"
        /\ pc'[t] # "exit"
    BY <1>7 DEF Frame, TypeOK, Label, R!Label, G!Label
  <2>6. /\ Cardinality(Occupied') <= num_working_threads'
        /\ num_working_threads' <= Cardinality(Awake')
        /\ num_working_threads' \in Int
    BY <1>4, <1>5, <2>1, <2>4
  <2> QED BY <1>2, <2>5, <2>6, GivingFrame
<1> QED BY <1>6, <1>7, FetchEffect

LEMMA SleepFrame ==
  ASSUME Frame, WithGiving, NEW t \in Thread, pc[t] \in {"enlist", "woken"},
         NEW working \in Int, num_working_threads' = working,
         pc' = [pc EXCEPT ![t] = "sleep"], UNCHANGED <<nodes, queue_sets>>,
         Cardinality(Occupied \ {t}) <= working, working <= Cardinality(Awake \ {t})
  PROVE  Frame'
<1>1. Occupied' = Occupied \ {t} /\ Awake' = Awake \ {t}
  BY DEF Occupied, Awake, Frame, TypeOK
<1>2. /\ pc' \in [Thread -> Label] /\ \A u \in Thread : pc'[u] = "exit" => pc[u] = "exit"
      /\ pc'[t] # "exit"
  BY DEF Frame, TypeOK, Label, R!Label, G!Label, R!Enlisted
<1> QED BY <1>1, <1>2, GivingFrame DEF Frame, TypeOK

\* Whoever waits has been taken off the count, or had been when it first fell asleep.
LEMMA AwaitCount ==
  ASSUME Frame, WithGiving, NEW t \in Thread, G!Enlist(t) \/ G!Resume(t)
  PROVE  \E working \in Int :
           /\ G!Await(t, working)
           /\ Cardinality(Occupied \ {t}) <= working
           /\ working <= Cardinality(Awake \ {t})
<1>1. Occupied \in SUBSET Thread /\ Awake \in SUBSET Thread
  BY DEF Occupied, Awake
<1>2. /\ Cardinality(Occupied) <= num_working_threads
      /\ num_working_threads <= Cardinality(Awake)
      /\ Cardinality(Occupied) \in 0..NumThreads /\ Cardinality(Awake) \in 0..NumThreads
      /\ num_working_threads \in Int
  BY <1>1, CountType DEF Frame, Counters, TypeOK, WithGiving
<1>3. CASE G!Enlist(t)
  <2>1. t \in Occupied /\ t \in Awake
    BY <1>3 DEF Occupied, Awake, G!Enlist
  <2>2. /\ Cardinality(Occupied \ {t}) = Cardinality(Occupied) - 1
        /\ Cardinality(Awake \ {t}) = Cardinality(Awake) - 1
    BY <1>1, <2>1, CountLess
  <2>3. (Occupied \ {t}) \in SUBSET Thread
    BY <1>1
  <2>4. Cardinality(Occupied \ {t}) \in 0..NumThreads
    BY <2>3, CountType
  <2>5. G!Decrement(num_working_threads) = num_working_threads - 1
    BY <1>2, <2>2, <2>4, ThreadCount DEF G!Decrement
  <2>6. G!Await(t, num_working_threads - 1)
    BY <1>3, <2>5 DEF G!Enlist
  <2>7. /\ Cardinality(Occupied \ {t}) <= num_working_threads - 1
        /\ num_working_threads - 1 <= Cardinality(Awake \ {t})
        /\ num_working_threads - 1 \in Int
    BY <1>2, <2>2, ThreadCount
  <2> QED BY <2>6, <2>7
<1>4. CASE G!Resume(t)
  <2>1. Occupied \ {t} = Occupied /\ Awake \ {t} = Awake
    BY <1>4 DEF Occupied, Awake, G!Resume
  <2>2. G!Await(t, num_working_threads)
    BY <1>4 DEF G!Resume
  <2> QED BY <1>2, <2>1, <2>2
<1> QED BY <1>3, <1>4

LEMMA AwaitFrame ==
  ASSUME Frame, WithGiving, NEW t \in Thread, G!Enlist(t) \/ G!Resume(t)
  PROVE  Frame'
<1>1. PICK working \in Int : /\ G!Await(t, working)
                             /\ Cardinality(Occupied \ {t}) <= working
                             /\ working <= Cardinality(Awake \ {t})
  BY AwaitCount
<1>2. pc[t] \in {"enlist", "woken"}
  BY DEF G!Enlist, G!Resume
<1>3. CASE G!Fetch(t, working)
  BY <1>1, <1>2, <1>3, FetchFrame
<1>4. CASE /\ pc' = [pc EXCEPT ![t] = "sleep"] /\ num_working_threads' = working
           /\ UNCHANGED <<nodes, queue_sets>>
  BY <1>1, <1>2, <1>4, SleepFrame
<1> QED BY <1>1, <1>3, <1>4 DEF G!Await

LEMMA ScheduleFrame ==
  ASSUME Frame, NEW t \in Thread, Schedule(t) \/ SpuriousWakeup(t)
  PROVE  Frame'
<1>1. CASE WithRequesting /\ (R!Schedule(t) \/ R!SpuriousWakeup(t))
  BY <1>1, ProbeFrame, DonateFrame, EnlistFrame, AcquireFrame, ReceiveFrame, LeaveFrame
     DEF R!Schedule
<1>2. CASE WithGiving /\ (G!Schedule(t) \/ G!SpuriousWakeup(t))
  BY <1>2, KeepFrame, GiveFrame, AwaitFrame DEF G!Schedule
<1> QED BY <1>1, <1>2 DEF Schedule, SpuriousWakeup, WithRequesting, WithGiving

LEMMA StepFrame == Frame /\ [Next]_vars => Frame'
<1> SUFFICES ASSUME Frame, [Next]_vars PROVE Frame'
  OBVIOUS
<1>1. CASE Main
  BY <1>1, SeedBranchFrame, SeedDoneFrame, DealFrame, LaterMainFrame, ForkFrame DEF Main
<1>2. ASSUME NEW t \in Thread, Worker(t) \/ SpuriousWakeup(t) PROVE Frame'
  BY <1>2, BranchFrame, RecordStepFrame, ScheduleFrame, ExitFrame DEF Worker
<1>3. CASE Interrupt
  BY <1>3, InterruptFrame
<1>4. CASE UNCHANGED vars
  BY <1>4 DEF vars, mainVars, recordVars, schedulerVars, Frame, TypeOK, Counters, Asking,
              SentHome, Occupied, Awake, Phases, NotStarted, SeedsSuffice, Joined
<1> QED BY <1>1, <1>2, <1>3, <1>4 DEF Next

THEOREM FrameHolds == Spec => []Frame
BY InitFrame, StepFrame, PTL DEF Spec

\* Both counters stay between zero and the number of threads, whichever scheduler is
\* used and even when workers leave it because of a signal without a word: the unsigned
\* one never wraps.
THEOREM TypeOKHolds == Spec => []TypeOK
<1>1. Frame => TypeOK
  BY DEF Frame
<1> QED BY <1>1, FrameHolds, PTL

\* The shared record never rises once the workers have it.
THEOREM RecordNeverRisesHolds == Spec => RecordNeverRises
<1>1. Frame /\ [Next]_vars => [phase = "fork" => record_' <= record_]_vars
  <2> SUFFICES ASSUME Frame, Next, phase = "fork" PROVE record_' <= record_
    OBVIOUS
  <2>1. record_ \in Int /\ \A t \in Thread : record[t] \in Int
    BY DEF Frame, TypeOK
  <2>2. \/ record_' = record_
        \/ \E t \in Thread : Publish(t)
    BY DEF Next, Main, SeedBranch, SeedDone, Deal, SkipThreads, Fork, Join, Return, Worker,
           Branch, Compare, Schedule, Exit, SpuriousWakeup, Interrupt, vars, recordVars
  <2> QED BY <2>1, <2>2 DEF Publish
<1> QED BY <1>1, FrameHolds, PTL DEF Spec, RecordNeverRises

----------------------------------------------------------------------------
(* The threads together carry out the abstract algorithm.                  *)

\* What the refinement needs: a node is in one place only, and nothing below a node is
\* open together with it, so that branching it replaces it by nodes that were not open.
Sound == Frame /\ OneOwner /\ HasLeast /\ Abstract!Apart

\* The two instances stand for the same formulas.
LEMMA SameInit == BB!Init <=> Abstract!BB!Init
BY DEF BB!Init, Abstract!BB!Init

LEMMA SameStep == [BB!Next]_(BB!vars) <=> [Abstract!BB!Next]_(Abstract!BB!vars)
BY DEF BB!Next, BB!vars, BB!Prune, BB!Expand, BB!Interrupt, BB!Abandon, BB!ChildSet,
       Abstract!BB!Next, Abstract!BB!vars, Abstract!BB!Prune, Abstract!BB!Expand, Abstract!BB!Interrupt,
       Abstract!BB!Abandon, Abstract!BB!ChildSet

LEMMA LeastOf ==
  ASSUME NEW S \in SUBSET Int, NEW v \in S, \A w \in S : v <= w
  PROVE  Least(S) = v
<1>1. Least(S) \in S /\ \A w \in S : Least(S) <= w
  BY DEF Least
<1>2. Least(S) \in Int /\ v \in Int /\ Least(S) <= v /\ v <= Least(S)
  BY <1>1
<1> HIDE DEF Least
<1> QED BY <1>2

LEMMA LeastExists ==
  ASSUME NEW S \in SUBSET Int, \E v \in S : \A w \in S : v <= w
  PROVE  Least(S) \in S /\ Least(S) \in Int /\ \A w \in S : Least(S) <= w
BY DEF Least

LEMMA KnownType == TypeOK => Known \subseteq Int
BY DEF TypeOK, Known

\* Values that are no better than one still there come and go without a trace.
LEMMA LeastSame ==
  ASSUME NEW S \in SUBSET Int, NEW T \in SUBSET Int, \E v \in S : \A w \in S : v <= w,
         \A w \in S : \E x \in T : x <= w, \A w \in T : \E x \in S : x <= w
  PROVE  (\E v \in T : \A w \in T : v <= w) /\ Least(T) = Least(S)
<1>1. PICK v \in S : \A w \in S : v <= w
  OBVIOUS
<1>2. PICK x \in T : x <= v
  OBVIOUS
<1>3. PICK y \in S : y <= x
  OBVIOUS
<1>4. v \in T
  <2>1. v <= y /\ v \in Int /\ x \in Int /\ y \in Int
    BY <1>1
  <2>2. v = x
    BY <1>2, <1>3, <2>1
  <2> QED BY <2>2
<1>5. \A w \in T : v <= w
  <2> TAKE w \in T
  <2>1. PICK z \in S : z <= w
    OBVIOUS
  <2>2. v <= z /\ v \in Int /\ w \in Int /\ z \in Int
    BY <1>1
  <2> QED BY <2>1, <2>2
<1>6. Least(S) = v /\ Least(T) = v
  BY <1>1, <1>4, <1>5, LeastOf
<1> QED BY <1>4, <1>5, <1>6

LEMMA LeastMore ==
  ASSUME NEW S \in SUBSET Int, NEW v \in Int, \E x \in S : \A w \in S : x <= w
  PROVE  /\ \E x \in S \cup {v} : \A w \in S \cup {v} : x <= w
         /\ Least(S \cup {v}) = IF v < Least(S) THEN v ELSE Least(S)
<1> DEFINE m == IF v < Least(S) THEN v ELSE Least(S)
<1>1. Least(S) \in S /\ Least(S) \in Int /\ \A w \in S : Least(S) <= w
  BY LeastExists
<1>2. m \in S \cup {v} /\ \A w \in S \cup {v} : m <= w
  BY <1>1
<1> HIDE DEF m
<1>3. Least(S \cup {v}) = m
  BY <1>2, LeastOf
<1> QED BY <1>2, <1>3 DEF m

\* While no worker is about to publish, one value is known.
Quiet == \A t \in Thread : pc[t] \notin {"publish", "lock"}

MainValue == IF phase = "seed" THEN seed_record ELSE record_

MainKnows == Known = {MainValue} /\ HasLeast /\ Incumbent = MainValue

LEMMA KnownToMain == TypeOK /\ Quiet => MainKnows
<1> SUFFICES ASSUME TypeOK, Quiet PROVE MainKnows
  OBVIOUS
<1>1. Known = {MainValue}
  BY DEF Known, Quiet, MainValue
<1>2. MainValue \in Int
  BY DEF TypeOK, MainValue
<1>3. \A w \in Known : MainValue <= w
  BY <1>1, <1>2
<1>4. Least(Known) = MainValue
  BY <1>1, <1>2, <1>3, LeastOf
<1> QED BY <1>1, <1>3, <1>4 DEF HasLeast, Incumbent, MainKnows

LEMMA KnownToMainNext == TypeOK' /\ Quiet' => MainKnows'
BY KnownToMain, PTL

\* Branching a node with any record that is not below the best one known, the record
\* of a moment ago in particular, prunes or expands it.
LEMMA BranchAbstractly ==
  ASSUME NEW n \in Open, n \in Node, NEW r \in Int, NEW v, IsNewRecord(n, r, v),
         Incumbent \in Int, Incumbent <= r,
         Incumbent' = IF v < Incumbent THEN v ELSE Incumbent,
         Open' = (Open \ {n}) \cup Kept(n, r), Cut' = Cut
  PROVE  Abstract!BB!Next
<1>1. /\ v \in Int /\ v <= r /\ v \in {r} \cup {Value[c] : c \in ChildSet(n) \cap Tour}
      /\ Pruned(n, r) => v = r
  BY RecordType
<1>2. CASE Pruned(n, r)
  <2>1. Value[n] \in Int /\ Value[n] >= r
    BY <1>2, TypeAssumption DEF Pruned
  <2>2. Incumbent' = Incumbent /\ Open' = Open \ {n}
    BY <1>1, <1>2 DEF Kept
  <2>3. Abstract!BB!Prune(n)
    BY <2>1, <2>2 DEF Abstract!BB!Prune
  <2> QED BY <2>3 DEF Abstract!BB!Next, Cut
<1>3. CASE ~Pruned(n, r)
  <2>1. /\ Incumbent' \in {Incumbent} \cup {Value[c] : c \in ChildSet(n) \cap Tour}
        /\ Incumbent' \in Int /\ Incumbent' <= Incumbent /\ Incumbent' <= v
    BY <1>1
  <2>2. Kept(n, r) \in SUBSET (ChildSet(n) \ Tour)
    BY KeptType
  <2>3. \A c \in ChildSet(n) \ Kept(n, r) : Incumbent' <= Value[c]
    <3> TAKE c \in ChildSet(n) \ Kept(n, r)
    <3>1. v <= Value[c]
      BY <1>3, DroppedChild
    <3>2. Value[c] \in Int
      BY ChildType, TypeAssumption
    <3> QED BY <1>1, <2>1, <3>1, <3>2
  <2>4. Abstract!BB!Expand(n)
    BY <2>1, <2>2, <2>3 DEF Abstract!BB!Expand, Abstract!BB!ChildSet, ChildSet
  <2> QED BY <2>4 DEF Abstract!BB!Next, Cut
<1> QED BY <1>2, <1>3

----------------------------------------------------------------------------
(* Each action refines, and leaves one least value.                        *)

LEMMA InitRefines == Init => OneOwner /\ HasLeast /\ Abstract!BB!Init
<1> SUFFICES ASSUME Init PROVE OneOwner /\ HasLeast /\ Abstract!BB!Init
  OBVIOUS
<1>1. PICK rank \in Ranks, given \in GivenRecord, initSol \in Solution :
        /\ searched = (rank = "large")
        /\ phase = IF searched THEN "seed" ELSE "deal"
        /\ seed_nodes = IF searched THEN {Root} ELSE {}
        /\ seed_record = IF searched /\ Cost[initSol] < given
                         THEN Cost[initSol] ELSE given
  BY DEF Init
<1>2. /\ pc = [t \in Thread |-> "idle"] /\ nodes = [t \in Thread |-> {}]
      /\ queue_sets = {} /\ record_ = 0 /\ g_interruped = FALSE
  BY DEF Init
<1>3. OneOwner
  BY <1>2 DEF OneOwner, R!OneOwner, R!WS!OneOwner
<1>4. HasLeast /\ Incumbent = MainValue
  BY <1>2, InitFrame, KnownToMain DEF Frame, Quiet, MainKnows
<1>5. Incumbent \in StartRecords
  BY <1>1, <1>2, <1>4 DEF StartRecords, MainValue
<1>6. Open = seed_nodes
  BY <1>2 DEF Open
<1>7. \/ searched = TRUE /\ seed_nodes = {Root}
      \/ searched = FALSE /\ seed_nodes = {}
  BY <1>1
<1>8. \/ Open = {Root} /\ Cut = FALSE
      \/ Open = {} /\ Cut = TRUE
  BY <1>2, <1>6, <1>7 DEF Cut
<1> QED BY <1>3, <1>4, <1>5, <1>8 DEF Abstract!BB!Init, Cut, StartRecords

\* A step that is right: no node gets two owners, and what the threads know goes on
\* standing for a state of the abstract algorithm.
Carried == OneOwner' /\ HasLeast' /\ [Abstract!BB!Next]_(Abstract!BB!vars)

LEMMA SilentStep ==
  ASSUME Sound, OneOwner', Known' = Known, Open' = Open, Cut' = Cut
  PROVE  Carried
<1>1. HasLeast'
  BY DEF Sound, HasLeast
<1>2. Incumbent' = Incumbent
  BY DEF Incumbent
<1> QED BY <1>1, <1>2 DEF Carried, Abstract!BB!vars, Cut

LEMMA SameOwner ==
  ASSUME OneOwner, UNCHANGED <<seed_nodes, nodes, queue_sets>>
  PROVE  OneOwner' /\ Open' = Open
BY DEF OneOwner, R!OneOwner, R!WS!OneOwner, Open

\* The children of an open node are not open.
LEMMA ChildrenNotOpen ==
  ASSUME Sound, NEW n \in Open
  PROVE  n \in Node /\ ChildSet(n) \cap Open = {}
<1>1. n \in Node /\ \A c \in Open : c \notin Abstract!Below(n)
  BY DEF Sound, Abstract!Apart
<1>2. ChildSet(n) \subseteq Abstract!Below(n)
  BY <1>1, Abstract!BelowClosed, TreeAssumption, TypeAssumption, AsSerial DEF ChildSet, Abstract!ChildSet
<1> QED BY <1>1, <1>2

LEMMA SeedBranchCarried ==
  ASSUME Sound, Frame', SeedBranch
  PROVE  Carried
<1>a. PICK n \in seed_nodes : \E v \in Records(n, seed_record) :
        /\ IsNewRecord(n, seed_record, v)
        /\ seed_record' = v
        /\ seed_nodes' = (seed_nodes \ {n}) \cup Kept(n, seed_record)
  BY DEF SeedBranch
<1>1. PICK v \in Records(n, seed_record) :
        /\ IsNewRecord(n, seed_record, v)
        /\ seed_record' = v
        /\ seed_nodes' = (seed_nodes \ {n}) \cup Kept(n, seed_record)
  BY <1>a
<1>2. /\ phase = "seed" /\ phase' = "seed" /\ searched' = searched
      /\ UNCHANGED <<g_interruped, pc, nodes, queue_sets>>
  BY DEF SeedBranch, schedulerVars
<1>3. (\A t \in Thread : pc[t] = "idle" /\ nodes[t] = {}) /\ queue_sets = {}
  BY <1>2 DEF Sound, Frame, Phases, NotStarted
<1>4. Open = seed_nodes /\ Open' = seed_nodes'
  BY <1>2, <1>3 DEF Open
<1>5. Incumbent = seed_record /\ HasLeast' /\ Incumbent' = seed_record'
  <2>1. Quiet /\ Quiet'
    BY <1>2, <1>3 DEF Quiet
  <2>2. MainKnows /\ MainKnows'
    BY <2>1, KnownToMain, KnownToMainNext DEF Sound, Frame
  <2> QED BY <1>2, <2>2 DEF MainKnows, MainValue
<1>6. OneOwner'
  BY <1>2, <1>3 DEF OneOwner, R!OneOwner, R!WS!OneOwner
<1>7. n \in Open /\ n \in Node /\ seed_record \in Int
  BY <1>4 DEF Sound, Frame, TypeOK
<1>8. v \in Int /\ v <= seed_record
  BY <1>1, <1>7, RecordType
<1>9. Incumbent' = IF v < Incumbent THEN v ELSE Incumbent
  BY <1>1, <1>5, <1>7, <1>8
<1>10. Cut' = Cut
  BY <1>2 DEF Cut
<1>11. Incumbent \in Int /\ Incumbent <= seed_record
  BY <1>5, <1>7
<1>12. Open' = (Open \ {n}) \cup Kept(n, seed_record)
  BY <1>1, <1>4
<1>13. Abstract!BB!Next
  BY <1>1, <1>7, <1>9, <1>10, <1>11, <1>12, BranchAbstractly
<1> QED BY <1>5, <1>6, <1>13 DEF Carried

\* What main hands over in record_ is what it knew, and what it deals out is what it had.
LEMMA HandOverCarried ==
  ASSUME Sound, SeedDone \/ Deal
  PROVE  Carried
<1>1. /\ phase \in {"seed", "deal"} /\ phase' # "seed"
      /\ UNCHANGED <<searched, g_interruped, record, pc, queue_sets>>
      /\ record_' = MainValue
  BY DEF SeedDone, Deal, MainValue, recordVars, schedulerVars
<1>2. (\A t \in Thread : pc[t] = "idle" /\ nodes[t] = {}) /\ queue_sets = {}
  BY <1>1 DEF Sound, Frame, Phases, NotStarted
<1>3. Known' = Known
  BY <1>1, <1>2 DEF Known, MainValue
<1>4. Cut' = Cut
  BY <1>1 DEF Cut
<1>5. OneOwner' /\ Open' = Open
  <2>1. CASE SeedDone
    <3>1. UNCHANGED <<seed_nodes, nodes, queue_sets>>
      BY <2>1 DEF SeedDone, schedulerVars
    <3> QED BY <3>1, SameOwner DEF Sound
  <2>2. CASE Deal
    <3>1. /\ nodes' \in [Thread -> SUBSET seed_nodes]
          /\ \A n \in seed_nodes : \E t \in Thread : n \in nodes'[t]
          /\ \A t, u \in Thread : t # u => nodes'[t] \cap nodes'[u] = {}
      BY <2>2, DealEffect DEF Sound, Frame
    <3>2. seed_nodes' = {} /\ queue_sets' = {}
      BY <1>1, <1>2, <2>2 DEF Deal
    <3>3. OneOwner'
      BY <3>1, <3>2 DEF OneOwner, R!OneOwner, R!WS!OneOwner
    <3>4. Open' = seed_nodes /\ Open = seed_nodes
      BY <1>2, <3>1, <3>2 DEF Open
    <3> QED BY <3>3, <3>4
  <2> QED BY <2>1, <2>2
<1> QED BY <1>3, <1>4, <1>5, SilentStep

\* clean_nodes releases nodes that are still open only when the search is cut short.
LEMMA CleanedStep ==
  ASSUME Sound, OneOwner', Known' = Known, Cut' = Cut, Open' \subseteq Open,
         Cut \/ Open' = Open
  PROVE  Carried
<1>1. HasLeast'
  BY DEF Sound, HasLeast
<1>2. Incumbent' = Incumbent
  BY DEF Incumbent
<1>3. CASE Cut
  <2>1. Abstract!BB!Abandon
    BY <1>2, <1>3 DEF Abstract!BB!Abandon, Cut
  <2> QED BY <1>1, <2>1 DEF Carried, Abstract!BB!Next
<1>4. CASE Open' = Open
  BY <1>4, SilentStep
<1> QED BY <1>3, <1>4

LEMMA LaterMainCarried ==
  ASSUME Sound, SkipThreads \/ Join \/ Return
  PROVE  Carried
<1>1. /\ phase \in {"deal", "fork", "clean"} /\ phase' \in {"clean", "done"}
      /\ UNCHANGED <<searched, g_interruped, recordVars, schedulerVars>>
      /\ \/ seed_nodes' = seed_nodes
         \/ phase = "clean" /\ seed_nodes' = {}
  BY DEF SkipThreads, Join, Return
<1>2. Known' = Known /\ Cut' = Cut
  BY <1>1 DEF Known, Cut, recordVars, schedulerVars
<1>3. OneOwner' /\ Open' \subseteq Open
  BY <1>1 DEF Sound, OneOwner, R!OneOwner, R!WS!OneOwner, Open, schedulerVars
<1>4. Cut \/ Open' = Open
  <2>1. CASE seed_nodes' = seed_nodes
    BY <1>1, <2>1 DEF Open, schedulerVars
  <2>2. CASE phase = "clean" /\ seed_nodes' = {} /\ seed_nodes # {}
    BY <2>2 DEF Sound, Frame, Phases, Cut
  <2> QED BY <1>1, <2>1, <2>2
<1> QED BY <1>2, <1>3, <1>4, CleanedStep

LEMMA ForkCarried ==
  ASSUME Sound, NEW t \in Thread, Fork(t)
  PROVE  Carried
<1>1. /\ pc[t] = "idle" /\ pc' = [pc EXCEPT ![t] = "loop"]
      /\ record' = [record EXCEPT ![t] = record_]
      /\ UNCHANGED <<phase, searched, seed_nodes, seed_record, record_, g_interruped, nodes,
                     queue_sets>>
  BY DEF Fork, mainVars
<1>2. /\ \A u \in Thread : pc'[u] \in {"publish", "lock"} <=> pc[u] \in {"publish", "lock"}
      /\ \A u \in Thread : pc[u] \in {"publish", "lock"} => record'[u] = record[u]
  BY <1>1 DEF Sound, Frame, TypeOK
<1>3. Known' = Known
  BY <1>1, <1>2 DEF Known
<1>4. Cut' = Cut
  BY <1>1 DEF Cut
<1> QED BY <1>1, <1>3, <1>4, SameOwner, SilentStep DEF Sound

LEMMA InterruptCarried ==
  ASSUME Sound, Interrupt
  PROVE  Carried
<1>1. g_interruped' = TRUE /\ UNCHANGED <<mainVars, recordVars, schedulerVars>>
  BY DEF Interrupt
<1>2. OneOwner' /\ Open' = Open
  BY <1>1, SameOwner DEF Sound, mainVars, schedulerVars
<1>3. Known' = Known
  BY <1>1 DEF Known, mainVars, recordVars, schedulerVars
<1>4. HasLeast' /\ Incumbent' = Incumbent
  BY <1>3 DEF Sound, HasLeast, Incumbent
<1>5. Cut' = TRUE
  BY <1>1 DEF Cut
<1>6. Abstract!BB!Interrupt
  BY <1>2, <1>4, <1>5 DEF Abstract!BB!Interrupt, Cut
<1> QED BY <1>2, <1>4, <1>6 DEF Carried, Abstract!BB!Next

\* A worker branches with the record of a moment ago, which others may since have
\* bettered: no less is kept than with the best value known.
LEMMA BranchCarried ==
  ASSUME Sound, NEW t \in Thread, Branch(t)
  PROVE  Carried
<1>a. PICK n \in nodes[t] : \E v \in Records(n, record_) :
        /\ IsNewRecord(n, record_, v)
        /\ record' = [record EXCEPT ![t] = v]
        /\ nodes' = [nodes EXCEPT ![t] = (@ \ {n}) \cup Kept(n, record_)]
  BY DEF Branch
<1>1. PICK v \in Records(n, record_) :
        /\ IsNewRecord(n, record_, v)
        /\ record' = [record EXCEPT ![t] = v]
        /\ nodes' = [nodes EXCEPT ![t] = (@ \ {n}) \cup Kept(n, record_)]
  BY <1>a
<1>2. /\ pc[t] = "loop" /\ pc' = [pc EXCEPT ![t] = "publish"]
      /\ UNCHANGED <<phase, searched, seed_nodes, seed_record, record_, g_interruped, queue_sets>>
  BY DEF Branch, mainVars
<1>3. phase = "fork" /\ seed_nodes = {} /\ seed_nodes' = {}
  BY <1>2, WorkerPhase DEF Sound
<1>4. n \in Open
  BY DEF Open
<1>5. /\ n \in Node /\ record_ \in Int /\ v \in Int
      /\ Kept(n, record_) \cap Open = {}
  <2>1. n \in Node /\ ChildSet(n) \cap Open = {}
    BY <1>4, ChildrenNotOpen
  <2>2. record_ \in Int
    BY DEF Sound, Frame, TypeOK
  <2> QED BY <1>1, <2>1, <2>2, KeptType, RecordType
<1>6. /\ nodes'[t] = (nodes[t] \ {n}) \cup Kept(n, record_)
      /\ \A u \in Thread : u # t => nodes'[u] = nodes[u]
  BY <1>1 DEF Sound, Frame, TypeOK
<1>7. n \notin queue_sets /\ \A u \in Thread : u # t => n \notin nodes[u]
  BY DEF Sound, OneOwner, R!OneOwner, R!WS!OneOwner
<1>8. Open' = (Open \ {n}) \cup Kept(n, record_)
  <2>1. Open = queue_sets \cup UNION {nodes[u] : u \in Thread}
    BY <1>3 DEF Open
  <2>2. Open' = queue_sets \cup UNION {nodes'[u] : u \in Thread}
    BY <1>2, <1>3 DEF Open
  <2> QED BY <1>6, <1>7, <2>1, <2>2
<1>9. OneOwner'
  <2>1. \A u \in Thread : nodes[u] \subseteq Open
    BY DEF Open
  <2>2. queue_sets \subseteq Open
    BY DEF Open
  <2>3. \A u \in Thread : nodes'[u] \cap queue_sets = {}
    BY <1>5, <1>6, <2>2 DEF Sound, OneOwner, R!OneOwner, R!WS!OneOwner
  <2>4. \A u, w \in Thread : u # w => nodes'[u] \cap nodes'[w] = {}
    BY <1>5, <1>6, <2>1 DEF Sound, OneOwner, R!OneOwner, R!WS!OneOwner
  <2> QED BY <1>2, <1>3, <2>3, <2>4 DEF OneOwner, R!OneOwner, R!WS!OneOwner
<1>10. Known' = Known \cup {v} /\ record_ \in Known
  <2>1. /\ pc'[t] = "publish" /\ record'[t] = v
        /\ \A u \in Thread : u # t => pc'[u] = pc[u] /\ record'[u] = record[u]
    BY <1>1, <1>2 DEF Sound, Frame, TypeOK
  <2> QED BY <1>2, <1>3, <2>1 DEF Known
<1>11. /\ Incumbent \in Int /\ Incumbent <= record_
       /\ HasLeast' /\ Incumbent' = IF v < Incumbent THEN v ELSE Incumbent
  <2>1. Known \in SUBSET Int /\ \E x \in Known : \A w \in Known : x <= w
    BY KnownType DEF Sound, Frame, HasLeast
  <2>2. Incumbent \in Int /\ Incumbent <= record_
    BY <1>10, <2>1, LeastExists DEF Incumbent
  <2>3. /\ \E x \in Known' : \A w \in Known' : x <= w
        /\ Least(Known') = IF v < Least(Known) THEN v ELSE Least(Known)
    BY <1>5, <1>10, <2>1, LeastMore
  <2> QED BY <2>2, <2>3 DEF HasLeast, Incumbent
<1>12. Cut' = Cut
  BY <1>2 DEF Cut
<1>13. Abstract!BB!Next
  BY <1>1, <1>4, <1>5, <1>8, <1>11, <1>12, BranchAbstractly
<1> QED BY <1>9, <1>11, <1>13 DEF Carried

\* Publishing makes a value known to all, or drops one that is no better than record_.
LEMMA RecordStepCarried ==
  ASSUME Sound, NEW t \in Thread, Compare(t) \/ Publish(t)
  PROVE  Carried
<1>1. /\ pc[t] \in {"publish", "lock"}
      /\ UNCHANGED <<phase, searched, seed_nodes, seed_record, record, g_interruped, nodes,
                     queue_sets>>
      /\ \/ pc' = [pc EXCEPT ![t] = "lock"] /\ record_' = record_
         \/ /\ pc' = [pc EXCEPT ![t] = "schedule"]
            /\ record_' = IF record[t] < record_ THEN record[t] ELSE record_
  BY DEF Compare, Publish, mainVars, recordVars
<1>2. phase = "fork" /\ record_ \in Int /\ record \in [Thread -> Int]
  BY <1>1, WorkerPhase DEF Sound, Frame, TypeOK
<1> DEFINE Telling == {u \in Thread : pc[u] \in {"publish", "lock"}}
<1>3. Known = {record_} \cup {record[u] : u \in Telling}
  BY <1>2 DEF Known
<1>4. Known' = {record_'} \cup {record[u] : u \in Telling'}
  BY <1>1, <1>2 DEF Known
<1>5. t \in Telling /\ Telling \subseteq Thread
  BY <1>1
<1>6. CASE pc' = [pc EXCEPT ![t] = "lock"] /\ record_' = record_
  <2>1. Telling' = Telling
    BY <1>1, <1>6 DEF Sound, Frame, TypeOK
  <2>2. Known' = Known
    BY <1>3, <1>4, <1>6, <2>1
  <2>3. Cut' = Cut
    BY <1>1 DEF Cut
  <2> QED BY <1>1, <2>2, <2>3, SameOwner, SilentStep DEF Sound
<1>7. CASE /\ pc' = [pc EXCEPT ![t] = "schedule"]
           /\ record_' = IF record[t] < record_ THEN record[t] ELSE record_
  <2>1. Telling' = Telling \ {t}
    BY <1>1, <1>7 DEF Sound, Frame, TypeOK
  <2> HIDE DEF Telling
  <2>2. \A w \in Known : \E x \in Known' : x <= w
    <3> TAKE w \in Known
    <3>1. CASE w \in {record_, record[t]}
      <4>1. record_' <= w
        BY <1>2, <1>7, <3>1
      <4> QED BY <1>4, <4>1
    <3>2. CASE \E u \in Telling \ {t} : w = record[u]
      <4>1. w \in Known' /\ w \in Int
        BY <1>2, <1>4, <1>5, <2>1, <3>2
      <4>2. w <= w
        BY <4>1
      <4> QED BY <4>1, <4>2
    <3> QED BY <1>3, <3>1, <3>2
  <2>3. Known' \subseteq Known
    BY <1>3, <1>4, <1>5, <1>7, <2>1
  <2>4. Known \in SUBSET Int /\ \E x \in Known : \A w \in Known : x <= w
    BY KnownType DEF Sound, Frame, HasLeast
  <2>5. \A w \in Known' : \E x \in Known : x <= w
    <3> TAKE w \in Known'
    <3>1. w \in Known /\ w <= w
      BY <2>3, <2>4
    <3> QED BY <3>1
  <2>6. (\E x \in Known' : \A w \in Known' : x <= w) /\ Least(Known') = Least(Known)
    <3>1. Known' \in SUBSET Int
      BY <2>3, <2>4
    <3> QED BY <2>2, <2>4, <2>5, <3>1, LeastSame
  <2>7. HasLeast' /\ Incumbent' = Incumbent
    BY <2>6 DEF HasLeast, Incumbent
  <2>8. Cut' = Cut
    BY <1>1 DEF Cut
  <2>9. OneOwner' /\ Open' = Open
    BY <1>1, SameOwner DEF Sound
  <2> QED BY <2>7, <2>8, <2>9 DEF Carried, Abstract!BB!vars, Cut
<1> QED BY <1>1, <1>6, <1>7

LEMMA ExitCarried ==
  ASSUME Sound, NEW t \in Thread, Exit(t)
  PROVE  Carried
<1>1. /\ pc[t] = "loop" /\ pc' = [pc EXCEPT ![t] = "exit"]
      /\ nodes[t] = {} \/ g_interruped
      /\ nodes' = [nodes EXCEPT ![t] = {}]
      /\ UNCHANGED <<phase, searched, seed_nodes, seed_record, recordVars, g_interruped,
                     queue_sets>>
  BY DEF Exit, mainVars
<1>2. /\ nodes'[t] = {} /\ \A u \in Thread : u # t => nodes'[u] = nodes[u]
      /\ \A u \in Thread : pc'[u] \in {"publish", "lock"} <=> pc[u] \in {"publish", "lock"}
  BY <1>1 DEF Sound, Frame, TypeOK
<1>3. Known' = Known /\ Cut' = Cut
  BY <1>1, <1>2 DEF Known, Cut, recordVars
<1>4. OneOwner'
  BY <1>1, <1>2 DEF Sound, OneOwner, R!OneOwner, R!WS!OneOwner
<1>5. \A u \in Thread : nodes'[u] \subseteq nodes[u]
  BY <1>2
<1>6. Open' \subseteq Open
  BY <1>1, <1>5 DEF Open
<1>7. Cut \/ Open' = Open
  <2>1. CASE nodes[t] = {}
    <3>1. \A u \in Thread : nodes'[u] = nodes[u]
      BY <1>2, <2>1
    <3> QED BY <1>1, <3>1 DEF Open
  <2>2. CASE g_interruped
    BY <2>2 DEF Cut
  <2> QED BY <1>1, <2>1, <2>2
<1> QED BY <1>3, <1>4, <1>6, <1>7, CleanedStep

----------------------------------------------------------------------------
(* A scheduler moves nodes and tells nobody's record.                      *)

\* What a step of either scheduler does to the nodes: nothing, or some go from the
\* container of one thread to the queue or the other way.
Moved(t) ==
  \/ nodes' = nodes /\ queue_sets' = queue_sets
  \/ \E keep \in SUBSET nodes[t] :
       /\ queue_sets' = queue_sets \cup (nodes[t] \ keep)
       /\ nodes' = [nodes EXCEPT ![t] = keep]
  \/ \E taken \in SUBSET queue_sets :
       /\ queue_sets' = queue_sets \ taken
       /\ nodes' = [nodes EXCEPT ![t] = @ \cup taken]

LEMMA MovedKeepsOwners ==
  ASSUME Sound, NEW t \in Thread, Moved(t), seed_nodes' = seed_nodes
  PROVE  OneOwner' /\ Open' = Open
<1> USE DEF Sound, OneOwner, R!OneOwner, R!WS!OneOwner
<1>1. nodes \in [Thread -> SUBSET Node] /\ queue_sets \subseteq Node
  BY DEF Frame, TypeOK
<1>2. CASE nodes' = nodes /\ queue_sets' = queue_sets
  BY <1>2 DEF Open
<1>3. ASSUME NEW keep \in SUBSET nodes[t], queue_sets' = queue_sets \cup (nodes[t] \ keep),
             nodes' = [nodes EXCEPT ![t] = keep]
      PROVE  OneOwner' /\ Open' = Open
  <2>1. nodes'[t] = keep /\ \A u \in Thread : u # t => nodes'[u] = nodes[u]
    BY <1>1, <1>3
  <2>2. OneOwner'
    BY <1>3, <2>1
  <2>3. queue_sets' \cup UNION {nodes'[u] : u \in Thread}
          = queue_sets \cup UNION {nodes[u] : u \in Thread}
    BY <1>3, <2>1
  <2> QED BY <2>2, <2>3 DEF Open
<1>4. ASSUME NEW taken \in SUBSET queue_sets, queue_sets' = queue_sets \ taken,
             nodes' = [nodes EXCEPT ![t] = @ \cup taken]
      PROVE  OneOwner' /\ Open' = Open
  <2>1. /\ nodes'[t] = nodes[t] \cup taken
        /\ \A u \in Thread : u # t => nodes'[u] = nodes[u]
    BY <1>1, <1>4
  <2>2. OneOwner'
    BY <1>4, <2>1
  <2>3. queue_sets' \cup UNION {nodes'[u] : u \in Thread}
          = queue_sets \cup UNION {nodes[u] : u \in Thread}
    BY <1>4, <2>1
  <2> QED BY <2>2, <2>3 DEF Open
<1> QED BY <1>2, <1>3, <1>4 DEF Moved

LEMMA RequestingMoves ==
  ASSUME Frame, NEW t \in Thread, R!Schedule(t) \/ R!SpuriousWakeup(t)
  PROVE  /\ Moved(t)
         /\ \A u \in Thread : pc'[u] \in {"publish", "lock"} <=> pc[u] \in {"publish", "lock"}
<1> USE DEF Frame, TypeOK
<1>1. CASE R!Donate(t)
  <2>1. pc[t] = "donate"
    BY <1>1 DEF R!Donate
  <2>2. PICK keep \in SUBSET nodes[t] :
          /\ queue_sets' = queue_sets \cup (nodes[t] \ keep)
          /\ nodes' = [nodes EXCEPT ![t] = keep]
          /\ pc' = [u \in Thread |-> IF u = t THEN R!Onward(keep)
                                     ELSE IF pc[u] = "sleep" THEN "acquire" ELSE pc[u]]
    BY <1>1, DonateEffect
  <2> QED BY <2>1, <2>2 DEF Moved, R!Onward
<1>2. CASE R!Receive(t)
  <2>1. PICK taken \in R!UpToMin(queue_sets) :
          /\ queue_sets' = R!Pop(queue_sets, taken)
          /\ nodes' = [nodes EXCEPT ![t] = @ \cup taken]
    BY <1>2 DEF R!Receive
  <2>2. taken \in SUBSET queue_sets
    BY DEF R!UpToMin
  <2>3. Moved(t)
    BY <2>1, <2>2 DEF Moved, R!Pop
  <2>4. \A u \in Thread : pc'[u] \in {"publish", "lock"} <=> pc[u] \in {"publish", "lock"}
    BY <1>2 DEF R!Receive, R!NotifyAll
  <2> QED BY <2>3, <2>4
<1>3. CASE R!Probe(t) \/ R!Enlist(t) \/ R!Acquire(t) \/ R!Leave(t) \/ R!SpuriousWakeup(t)
  <2>1. nodes' = nodes /\ queue_sets' = queue_sets
    BY <1>3 DEF R!Probe, R!Enlist, R!Acquire, R!Leave, R!SpuriousWakeup
  <2>2. /\ pc[t] \in {"schedule", "enlist", "acquire", "leave", "sleep"}
        /\ \E l \in {"donate", "enlist", "loop", "acquire", "receive", "sleep"} :
             pc' = [pc EXCEPT ![t] = l]
    BY <1>3 DEF R!Probe, R!Enlist, R!Acquire, R!Leave, R!SpuriousWakeup, R!Onward
  <2>3. \A u \in Thread : pc'[u] \in {"publish", "lock"} <=> pc[u] \in {"publish", "lock"}
    BY <2>2
  <2> QED BY <2>1, <2>3 DEF Moved
<1> QED BY <1>1, <1>2, <1>3 DEF R!Schedule

LEMMA GivingMoves ==
  ASSUME Frame, NEW t \in Thread, G!Schedule(t) \/ G!SpuriousWakeup(t)
  PROVE  /\ Moved(t)
         /\ \A u \in Thread : pc'[u] \in {"publish", "lock"} <=> pc[u] \in {"publish", "lock"}
<1> USE DEF Frame, TypeOK
<1>1. CASE G!Give(t)
  <2>1. pc[t] = "schedule"
    BY <1>1 DEF G!Give
  <2>2. PICK keep \in SUBSET nodes[t] :
          /\ queue_sets' = queue_sets \cup (nodes[t] \ keep)
          /\ nodes' = [nodes EXCEPT ![t] = keep]
          /\ pc' = [u \in Thread |-> IF u = t THEN G!Onward(keep)
                                     ELSE IF pc[u] = "sleep" THEN "woken" ELSE pc[u]]
    BY <1>1, GiveEffect
  <2> QED BY <2>1, <2>2 DEF Moved, G!Onward
<1>2. CASE G!Enlist(t) \/ G!Resume(t)
  <2>1. pc[t] \in {"enlist", "woken"} /\ \E working : G!Await(t, working)
    BY <1>2 DEF G!Enlist, G!Resume
  <2>2. PICK working : G!Await(t, working)
    BY <2>1
  <2>3. CASE G!Fetch(t, working)
    BY <2>1, <2>3, FetchEffect DEF Moved
  <2>4. CASE pc' = [pc EXCEPT ![t] = "sleep"] /\ UNCHANGED <<nodes, queue_sets>>
    BY <2>1, <2>4 DEF Moved
  <2> QED BY <2>2, <2>3, <2>4 DEF G!Await
<1>3. CASE G!Keep(t) \/ G!SpuriousWakeup(t)
  BY <1>3 DEF G!Keep, G!SpuriousWakeup, G!Onward, Moved
<1> QED BY <1>1, <1>2, <1>3 DEF G!Schedule

LEMMA ScheduleCarried ==
  ASSUME Sound, NEW t \in Thread, Schedule(t) \/ SpuriousWakeup(t)
  PROVE  Carried
<1>1. /\ Moved(t)
      /\ \A u \in Thread : pc'[u] \in {"publish", "lock"} <=> pc[u] \in {"publish", "lock"}
  BY RequestingMoves, GivingMoves DEF Sound, Schedule, SpuriousWakeup
<1>2. UNCHANGED <<phase, searched, seed_nodes, seed_record, record_, record, g_interruped>>
  BY DEF Schedule, SpuriousWakeup, mainVars, recordVars
<1>3. Known' = Known /\ Cut' = Cut
  BY <1>1, <1>2 DEF Known, Cut
<1> QED BY <1>1, <1>2, <1>3, MovedKeepsOwners, SilentStep

LEMMA StepCarried == Sound /\ Frame' /\ [Next]_vars => Carried
<1> SUFFICES ASSUME Sound, Frame', [Next]_vars PROVE Carried
  OBVIOUS
<1>1. CASE Main
  BY <1>1, SeedBranchCarried, HandOverCarried, LaterMainCarried, ForkCarried DEF Main
<1>2. ASSUME NEW t \in Thread, Worker(t) \/ SpuriousWakeup(t) PROVE Carried
  BY <1>2, BranchCarried, RecordStepCarried, ScheduleCarried, ExitCarried DEF Worker
<1>3. CASE Interrupt
  BY <1>3, InterruptCarried
<1>4. CASE UNCHANGED vars
  <2>1. OneOwner' /\ Open' = Open
    BY <1>4, SameOwner DEF Sound, vars, mainVars, schedulerVars
  <2>2. Known' = Known /\ Cut' = Cut
    BY <1>4 DEF Known, Cut, vars, mainVars, recordVars, schedulerVars
  <2> QED BY <2>1, <2>2, SilentStep
<1> QED BY <1>1, <1>2, <1>3, <1>4 DEF Next

LEMMA InitSound == Init => Sound
<1> SUFFICES ASSUME Init PROVE Sound
  OBVIOUS
<1>1. Abstract!Apart
  BY InitRefines, Abstract!InitApart, TreeAssumption, TypeAssumption, AsSerial DEF ChildSet, Abstract!ChildSet
<1> QED BY <1>1, InitFrame, InitRefines DEF Sound

LEMMA StepSound == Sound /\ [Next]_vars => Sound' /\ [Abstract!BB!Next]_(Abstract!BB!vars)
<1> SUFFICES ASSUME Sound, [Next]_vars PROVE Sound' /\ [Abstract!BB!Next]_(Abstract!BB!vars)
  OBVIOUS
<1>1. Frame'
  BY StepFrame DEF Sound
<1>2. Carried
  BY <1>1, StepCarried
<1>3. Abstract!Apart'
  BY <1>2, Abstract!StepApart, TreeAssumption, TypeAssumption, AsSerial
     DEF Sound, Carried, ChildSet, Abstract!ChildSet
<1> QED BY <1>1, <1>2, <1>3 DEF Sound, Carried

THEOREM SoundHolds == Spec => []Sound
BY InitSound, StepSound, PTL DEF Spec

\* No node is in two places, whichever scheduler moves it, while main deals it out or
\* after a signal: no node is branched twice, or released by two threads.
THEOREM OneOwnerHolds == Spec => []OneOwner
<1>1. Sound => OneOwner
  BY DEF Sound
<1> QED BY <1>1, SoundHolds, PTL

\* The threads together carry out the abstract algorithm, although each of them
\* branches with a record that may be out of date and publishes its own later.
THEOREM RefinesBranchAndBound == Spec => ImplementsBranchAndBound
<1>1. Init => BB!Init
  BY InitRefines, SameInit
<1>2. Sound /\ [Next]_vars => [BB!Next]_(BB!vars)
  BY StepSound, SameStep
<1> QED BY <1>1, <1>2, SoundHolds, PTL DEF Spec, ImplementsBranchAndBound, BB!Spec

----------------------------------------------------------------------------
(* What may be reported.                                                   *)

\* Branching finds a value that was known, or that of a tour.
LEMMA TellsTours ==
  ASSUME NEW n \in Node, NEW r \in Int, NEW v, IsNewRecord(n, r, v)
  PROVE  v \in {r} \cup {Value[c] : c \in Tour}
BY RecordType

\* No thread makes up a value.
LEMMA KnownGrows == Frame /\ [Next]_vars => Known' \subseteq Known \cup {Value[c] : c \in Tour}
<1> SUFFICES ASSUME Frame, [Next]_vars
             PROVE  Known' \subseteq Known \cup {Value[c] : c \in Tour}
  OBVIOUS
<1>0. pc \in [Thread -> Label] /\ record \in [Thread -> Int] /\ record_ \in Int /\ seed_record \in Int
  BY DEF Frame, TypeOK
<1>1. CASE SeedBranch
  <2>a. PICK n \in seed_nodes : \E v \in Records(n, seed_record) :
          IsNewRecord(n, seed_record, v) /\ seed_record' = v
    BY <1>1 DEF SeedBranch
  <2>1. seed_record' \in {seed_record} \cup {Value[c] : c \in Tour}
    BY <1>0, <2>a, TellsTours DEF Frame, TypeOK
  <2>2. /\ phase = "seed" /\ phase' = "seed" /\ \A t \in Thread : pc'[t] = "idle"
    BY <1>1 DEF SeedBranch, Frame, Phases, NotStarted, schedulerVars
  <2> QED BY <2>1, <2>2 DEF Known
<1>2. CASE SeedDone \/ Deal
  BY <1>2 DEF SeedDone, Deal, Known, Frame, Phases, NotStarted, recordVars, schedulerVars
<1>3. CASE SkipThreads \/ Join \/ Return \/ Interrupt \/ UNCHANGED vars
  BY <1>3 DEF SkipThreads, Join, Return, Interrupt, Known, vars, mainVars, recordVars, schedulerVars
<1>4. ASSUME NEW t \in Thread, Fork(t)
      PROVE  Known' \subseteq Known \cup {Value[c] : c \in Tour}
  BY <1>0, <1>4 DEF Fork, Known, mainVars
<1>5. ASSUME NEW t \in Thread, Branch(t)
      PROVE  Known' \subseteq Known \cup {Value[c] : c \in Tour}
  <2>a. PICK n \in nodes[t] : \E v \in Records(n, record_) :
          IsNewRecord(n, record_, v) /\ record' = [record EXCEPT ![t] = v]
    BY <1>5 DEF Branch
  <2>1. record'[t] \in {record_} \cup {Value[c] : c \in Tour}
    BY <1>0, <2>a, TellsTours DEF Frame, TypeOK
  <2>2. /\ pc[t] = "loop" /\ UNCHANGED <<phase, seed_record, record_>>
        /\ \A u \in Thread : u # t => pc'[u] = pc[u] /\ record'[u] = record[u]
    BY <1>0, <1>5, <2>a DEF Branch, mainVars
  <2>3. phase = "fork"
    BY <2>2, WorkerPhase
  <2> QED BY <2>1, <2>2, <2>3 DEF Known
<1>6. ASSUME NEW t \in Thread, Compare(t) \/ Publish(t)
      PROVE  Known' \subseteq Known \cup {Value[c] : c \in Tour}
  BY <1>0, <1>6 DEF Compare, Publish, Known, mainVars, recordVars
<1>7. ASSUME NEW t \in Thread, Schedule(t) \/ SpuriousWakeup(t)
      PROVE  Known' \subseteq Known \cup {Value[c] : c \in Tour}
  <2>1. \A u \in Thread : pc'[u] \in {"publish", "lock"} <=> pc[u] \in {"publish", "lock"}
    BY <1>7, RequestingMoves, GivingMoves DEF Schedule, SpuriousWakeup
  <2>2. UNCHANGED <<phase, seed_record, record_, record>>
    BY <1>7 DEF Schedule, SpuriousWakeup, mainVars, recordVars
  <2> QED BY <2>1, <2>2 DEF Known
<1>8. ASSUME NEW t \in Thread, Exit(t)
      PROVE  Known' \subseteq Known \cup {Value[c] : c \in Tour}
  BY <1>0, <1>8 DEF Exit, Known, mainVars, recordVars
<1> QED BY <1>1, <1>2, <1>3, <1>4, <1>5, <1>6, <1>7, <1>8 DEF Next, Main, Worker

LEMMA InitGenuine == Init => KnownGenuine
<1> SUFFICES ASSUME Init, searched PROVE Known \subseteq Reported
  BY DEF KnownGenuine
<1>1. PICK rank \in Ranks, given \in GivenRecord, initSol \in Solution :
        /\ phase = IF searched THEN "seed" ELSE "deal"
        /\ seed_record = IF searched /\ Cost[initSol] < given
                         THEN Cost[initSol] ELSE given
  BY DEF Init
<1>2. \A t \in Thread : pc[t] = "idle"
  BY DEF Init
<1> QED BY <1>1, <1>2 DEF Known, Reported

LEMMA StepGenuine == Attains /\ Frame /\ KnownGenuine /\ [Next]_vars => KnownGenuine'
<1> SUFFICES ASSUME Attains, Frame, KnownGenuine, [Next]_vars, searched'
             PROVE  Known' \subseteq Reported
  BY DEF KnownGenuine, Reported
<1>1. searched
  BY DEF Next, Main, SeedBranch, SeedDone, Deal, SkipThreads, Fork, Join, Return, Worker, Branch,
         Compare, Publish, Schedule, Exit, SpuriousWakeup, Interrupt, vars, mainVars
<1>2. Known \subseteq Reported
  BY <1>1 DEF KnownGenuine
<1>3. {Value[c] : c \in Tour} \subseteq Reported
  BY DEF Attains, Reported
<1> QED BY <1>2, <1>3, KnownGrows

\* Interrupted or not, solve returns a given record or the length of a tour: no thread
\* makes up a value, and the zero that record_ starts with is overwritten in time.
THEOREM ResultGenuineHolds ==
  ASSUME Attains
  PROVE  Spec => []ResultGenuine
<1>1. KnownGenuine /\ Frame /\ [Next]_vars => KnownGenuine'
  BY StepGenuine
<1>2. KnownGenuine => ResultGenuine
  BY DEF KnownGenuine, ResultGenuine, Known, Reported
<1> QED BY <1>1, <1>2, InitGenuine, FrameHolds, PTL DEF Spec

----------------------------------------------------------------------------
(* The workers use the scheduler as its own specification wants it.        *)

LEMMA OffspringType == Offspring \in [Node -> SUBSET Node]
BY ChildType DEF Offspring

\* Each instance counts the same way.
LEMMA SameCardinality ==
  ASSUME NEW S
  PROVE  /\ RS!Cardinality(S) = Cardinality(S) /\ R!Cardinality(S) = Cardinality(S)
         /\ GS!Cardinality(S) = Cardinality(S) /\ G!Cardinality(S) = Cardinality(S)
         /\ RS!IsFiniteSet(S) <=> IsFiniteSet(S)
         /\ GS!IsFiniteSet(S) <=> IsFiniteSet(S)
<1>1. RS!Cardinality(S) = Cardinality(S) /\ R!Cardinality(S) = Cardinality(S)
  BY DEF Cardinality, RS!Cardinality, R!Cardinality
<1>2. GS!Cardinality(S) = Cardinality(S) /\ G!Cardinality(S) = Cardinality(S)
  BY DEF Cardinality, GS!Cardinality, G!Cardinality
<1>3. (RS!IsFiniteSet(S) <=> IsFiniteSet(S)) /\ (GS!IsFiniteSet(S) <=> IsFiniteSet(S))
  BY DEF IsFiniteSet, RS!IsFiniteSet, GS!IsFiniteSet
<1> QED BY <1>1, <1>2, <1>3

LEMMA RequestingAssumptions ==
  RS!WorkAssumption /\ RS!PoolsAssumption /\ RS!MinNodesAssumption /\ RS!LimitsAssumption
<1>1. RS!WorkAssumption
  BY EngineAssumption, OffspringType, SameCardinality DEF RS!WorkAssumption
<1>2. RS!PoolsAssumption
  BY DEF RS!PoolsAssumption, Pools
<1>3. RS!MinNodesAssumption
  BY EngineAssumption DEF RS!MinNodesAssumption
<1>4. RS!LimitsAssumption
  BY EngineAssumption, SameCardinality DEF RS!LimitsAssumption, RS!NumThreads, NumThreads
<1> QED BY <1>1, <1>2, <1>3, <1>4

LEMMA GivingAssumptions ==
  GS!WorkAssumption /\ GS!PoolsAssumption /\ GS!MinNodesAssumption /\ GS!LimitsAssumption
<1>1. GS!WorkAssumption
  BY EngineAssumption, OffspringType, SameCardinality DEF GS!WorkAssumption
<1>2. GS!PoolsAssumption
  BY DEF GS!PoolsAssumption, Pools
<1>3. GS!MinNodesAssumption
  BY EngineAssumption DEF GS!MinNodesAssumption
<1>4. GS!LimitsAssumption
  BY EngineAssumption, SameCardinality DEF GS!LimitsAssumption, GS!NumThreads, NumThreads
<1> QED BY <1>1, <1>2, <1>3, <1>4

\* Initially, and step by step, the invariants of the schedulers hold.
LEMMA RequestingStarts == RS!Init => RS!Inv
BY RequestingAssumptions, RS!InitInv

LEMMA RequestingStartsNext == RS!Init' => RS!Inv'
BY RequestingStarts, PTL

LEMMA RequestingSteps == RS!Inv /\ [RS!Next]_(RS!vars) => RS!Inv'
BY RequestingAssumptions, RS!StepInv

LEMMA GivingStarts == GS!Init => GS!Inv
BY GivingAssumptions, GS!InitInv

LEMMA GivingStartsNext == GS!Init' => GS!Inv'
BY GivingStarts, PTL

LEMMA GivingSteps == GS!Inv /\ [GS!Next]_(GS!vars) => GS!Inv'
BY GivingAssumptions, GS!StepInv

\* A label that the scheduler knows is its own view.
LEMMA ViewMoves ==
  ASSUME TypeOK, NEW t \in Thread, NEW l \in Label
  PROVE  /\ SchedulerPc[t] = View(pc[t])
         /\ pc' = [pc EXCEPT ![t] = l] => SchedulerPc' = [SchedulerPc EXCEPT ![t] = View(l)]
         /\ l \notin {"idle", "publish", "lock"} => View(l) = l
         /\ View(pc[t]) = "sleep" <=> pc[t] = "sleep"
BY DEF TypeOK, SchedulerPc, View

LEMMA DealStarts ==
  ASSUME TypeOK, Phases, Deal
  PROVE  (scheduler = "requesting" => RS!Init') /\ (scheduler = "giving" => GS!Init')
<1>1. nodes' \in Pools
  BY DealEffect
<1>2. /\ \A t \in Thread : pc'[t] = "idle"
      /\ queue_sets' = {} /\ mutex_sets' = None
      /\ num_waiting_threads' = 0 /\ num_working_threads' = NumThreads
  BY DEF Deal, Phases, NotStarted
<1>3. SchedulerPc' = [t \in Thread |-> "loop"]
  BY <1>2 DEF SchedulerPc, View
<1>4. RS!Init'
  BY <1>1, <1>2, <1>3 DEF RS!Init
<1>5. GS!Init'
  BY <1>1, <1>2, <1>3, SameCardinality DEF GS!Init, GS!NumThreads, NumThreads
<1> QED BY <1>4, <1>5

\* Branching and publishing are one step for the scheduler, and starting is none.
LEMMA CallerUses ==
  ASSUME Frame, ~g_interruped, NEW t \in Thread,
         Fork(t) \/ Branch(t) \/ Compare(t) \/ Publish(t) \/ Exit(t)
  PROVE  [RS!Next]_(RS!vars) /\ [GS!Next]_(GS!vars)
<1> USE DEF Frame
<1>1. CASE Fork(t) \/ Compare(t) \/ Publish(t)
  <2>1. \E l \in Label : pc' = [pc EXCEPT ![t] = l] /\ View(l) = View(pc[t])
    BY <1>1 DEF Fork, Compare, Publish, View, Label, R!Label
  <2>2. SchedulerPc' = SchedulerPc
    BY <2>1, ViewMoves DEF SchedulerPc
  <2> QED BY <1>1, <2>2 DEF Fork, Compare, Publish, RS!vars, GS!vars
<1>2. CASE Branch(t)
  <2>a. PICK n \in nodes[t] : \E v \in Records(n, record_) :
          nodes' = [nodes EXCEPT ![t] = (@ \ {n}) \cup Kept(n, record_)]
    BY <1>2 DEF Branch
  <2>1. n \in Node /\ record_ \in Int
    BY DEF TypeOK
  <2>2. Kept(n, record_) \in SUBSET Offspring[n]
    BY <2>1, KeptType DEF Offspring
  <2>3. pc[t] = "loop" /\ pc' = [pc EXCEPT ![t] = "publish"]
    BY <1>2 DEF Branch
  <2>4. "publish" \in Label
    BY DEF Label
  <2>5. SchedulerPc[t] = "loop" /\ SchedulerPc' = [SchedulerPc EXCEPT ![t] = "schedule"]
    BY <2>3, <2>4, ViewMoves DEF View
  <2>6. UNCHANGED <<queue_sets, mutex_sets, num_waiting_threads, num_working_threads>>
    BY <1>2 DEF Branch
  <2>7. RS!Branch(t) /\ GS!Branch(t)
    BY <2>a, <2>2, <2>5, <2>6 DEF RS!Branch, GS!Branch
  <2> QED BY <2>7 DEF RS!Next, RS!Step, GS!Next, GS!Step
<1>3. CASE Exit(t)
  <2>1. /\ pc[t] = "loop" /\ pc' = [pc EXCEPT ![t] = "exit"] /\ nodes[t] = {}
        /\ UNCHANGED <<queue_sets, mutex_sets, num_waiting_threads, num_working_threads>>
    BY <1>3 DEF Exit
  <2>2. nodes' = nodes
    BY <1>3, <2>1 DEF Exit, TypeOK
  <2>3. "exit" \in Label
    BY DEF Label, R!Label
  <2>4. SchedulerPc[t] = "loop" /\ SchedulerPc' = [SchedulerPc EXCEPT ![t] = "exit"]
    BY <2>1, <2>3, ViewMoves DEF View
  <2>5. RS!Exit(t) /\ GS!Exit(t)
    BY <2>1, <2>2, <2>4 DEF RS!Exit, GS!Exit
  <2> QED BY <2>5 DEF RS!Next, RS!Step, GS!Next, GS!Step
<1> QED BY <1>1, <1>2, <1>3

\* The schedulers use only labels of their own.
OwnLabel == Label \ {"idle", "publish", "lock"}

LEMMA ViewOwn ==
  ASSUME TypeOK, NEW t \in Thread, NEW l \in OwnLabel
  PROVE  /\ pc[t] = l => SchedulerPc[t] = l
         /\ pc' = [pc EXCEPT ![t] = l] => SchedulerPc' = [SchedulerPc EXCEPT ![t] = l]
         /\ pc' = R!NotifyAll([pc EXCEPT ![t] = l]) =>
              SchedulerPc' = RS!NotifyAll([SchedulerPc EXCEPT ![t] = l])
         /\ pc' = G!NotifyAll([pc EXCEPT ![t] = l]) =>
              SchedulerPc' = GS!NotifyAll([SchedulerPc EXCEPT ![t] = l])
<1>1. l \in Label /\ View(l) = l
  BY ViewMoves DEF OwnLabel
<1>2. pc[t] = l => SchedulerPc[t] = l
  <2>1. SchedulerPc[t] = View(pc[t])
    BY <1>1, ViewMoves
  <2> QED BY <1>1, <2>1
<1>3. pc' = [pc EXCEPT ![t] = l] => SchedulerPc' = [SchedulerPc EXCEPT ![t] = l]
  <2>1. pc' = [pc EXCEPT ![t] = l] => SchedulerPc' = [SchedulerPc EXCEPT ![t] = View(l)]
    BY <1>1, ViewMoves
  <2> QED BY <1>1, <2>1
<1>4. /\ pc \in [Thread -> Label] /\ SchedulerPc = [u \in Thread |-> View(pc[u])]
      /\ SchedulerPc' = [u \in Thread |-> View(pc'[u])]
  BY DEF TypeOK, SchedulerPc
<1>5. \A k \in Label : View(k) = "sleep" <=> k = "sleep"
  BY DEF View
<1>6. View("acquire") = "acquire" /\ View("woken") = "woken"
  BY DEF View
<1>7. ASSUME pc' = R!NotifyAll([pc EXCEPT ![t] = l])
      PROVE  SchedulerPc' = RS!NotifyAll([SchedulerPc EXCEPT ![t] = l])
  <2>1. \A u \in Thread : pc'[u] = IF u = t THEN IF l = "sleep" THEN "acquire" ELSE l
                                  ELSE IF pc[u] = "sleep" THEN "acquire" ELSE pc[u]
    BY <1>4, <1>7 DEF R!NotifyAll
  <2>2. RS!NotifyAll([SchedulerPc EXCEPT ![t] = l])
          = [u \in Thread |-> IF u = t THEN IF l = "sleep" THEN "acquire" ELSE l
                             ELSE IF View(pc[u]) = "sleep" THEN "acquire" ELSE View(pc[u])]
    BY <1>4 DEF RS!NotifyAll
  <2>3. \A u \in Thread : View(pc'[u]) =
          IF u = t THEN IF l = "sleep" THEN "acquire" ELSE l
          ELSE IF View(pc[u]) = "sleep" THEN "acquire" ELSE View(pc[u])
    BY <1>1, <1>4, <1>5, <1>6, <2>1
  <2> QED BY <1>4, <2>2, <2>3
<1>8. ASSUME pc' = G!NotifyAll([pc EXCEPT ![t] = l])
      PROVE  SchedulerPc' = GS!NotifyAll([SchedulerPc EXCEPT ![t] = l])
  <2>1. \A u \in Thread : pc'[u] = IF u = t THEN IF l = "sleep" THEN "woken" ELSE l
                                  ELSE IF pc[u] = "sleep" THEN "woken" ELSE pc[u]
    BY <1>4, <1>8 DEF G!NotifyAll
  <2>2. GS!NotifyAll([SchedulerPc EXCEPT ![t] = l])
          = [u \in Thread |-> IF u = t THEN IF l = "sleep" THEN "woken" ELSE l
                             ELSE IF View(pc[u]) = "sleep" THEN "woken" ELSE View(pc[u])]
    BY <1>4 DEF GS!NotifyAll
  <2>3. \A u \in Thread : View(pc'[u]) =
          IF u = t THEN IF l = "sleep" THEN "woken" ELSE l
          ELSE IF View(pc[u]) = "sleep" THEN "woken" ELSE View(pc[u])
    BY <1>1, <1>4, <1>5, <1>6, <2>1
  <2> QED BY <1>4, <2>2, <2>3
<1> QED BY <1>2, <1>3, <1>7, <1>8

\* What the two instances of each scheduler define alike.
LEMMA SameRequesting ==
  /\ \A S : RS!UpToMin(S) = R!UpToMin(S)
  /\ \A S, T : RS!Pop(S, T) = R!Pop(S, T)
  /\ \A S : RS!Onward(S) = R!Onward(S) /\ R!Onward(S) \in OwnLabel
  /\ RS!MayProceed <=> R!MayProceed
  /\ RS!NumThreads = R!NumThreads
<1>1. \A S : RS!UpToMin(S) = R!UpToMin(S)
  BY SameCardinality DEF RS!UpToMin, R!UpToMin
<1>2. RS!NumThreads = R!NumThreads
  BY SameCardinality DEF RS!NumThreads, R!NumThreads
<1>3. RS!MayProceed <=> R!MayProceed
  BY <1>2 DEF RS!MayProceed, R!MayProceed
<1>4. \A S : RS!Onward(S) = R!Onward(S) /\ R!Onward(S) \in OwnLabel
  BY DEF RS!Onward, R!Onward, OwnLabel, Label, R!Label
<1>5. \A S, T : RS!Pop(S, T) = R!Pop(S, T)
  BY DEF RS!Pop, R!Pop
<1> QED BY <1>1, <1>2, <1>3, <1>4, <1>5

LEMMA SameGiving ==
  /\ \A S : GS!UpToMin(S) = G!UpToMin(S)
  /\ \A S, T : GS!Pop(S, T) = G!Pop(S, T)
  /\ \A S : GS!Onward(S) = G!Onward(S) /\ G!Onward(S) \in OwnLabel
  /\ \A x : GS!Increment(x) = G!Increment(x) /\ GS!Decrement(x) = G!Decrement(x)
<1>1. \A S : GS!UpToMin(S) = G!UpToMin(S)
  BY SameCardinality DEF GS!UpToMin, G!UpToMin
<1>2. \A S : GS!Onward(S) = G!Onward(S) /\ G!Onward(S) \in OwnLabel
  BY DEF GS!Onward, G!Onward, OwnLabel, Label, R!Label, G!Label
<1>3. \A S, T : GS!Pop(S, T) = G!Pop(S, T)
  BY DEF GS!Pop, G!Pop
<1>4. \A x : GS!Increment(x) = G!Increment(x) /\ GS!Decrement(x) = G!Decrement(x)
  BY DEF GS!Increment, G!Increment, GS!Decrement, G!Decrement
<1> QED BY <1>1, <1>2, <1>3, <1>4

LEMMA OwnLabels ==
  {"loop", "schedule", "donate", "enlist", "exit", "acquire", "sleep", "receive", "leave", "woken"}
    \subseteq OwnLabel
BY DEF OwnLabel, Label, R!Label, R!Enlisted, G!Label

LEMMA RequestingUses ==
  ASSUME TypeOK, NEW t \in Thread, R!Schedule(t) \/ R!SpuriousWakeup(t)
  PROVE  RS!Next
<1>1. CASE R!Probe(t)
  <2> DEFINE l == IF num_waiting_threads > 0 THEN "donate" ELSE R!Onward(nodes[t])
  <2>1. l \in OwnLabel /\ "schedule" \in OwnLabel
    BY OwnLabels, SameRequesting
  <2>2. pc[t] = "schedule" /\ pc' = [pc EXCEPT ![t] = l]
    BY <1>1 DEF R!Probe
  <2> HIDE DEF l
  <2>3. SchedulerPc[t] = "schedule" /\ SchedulerPc' = [SchedulerPc EXCEPT ![t] = l]
    BY <2>1, <2>2, ViewOwn
  <2>4. l = IF num_waiting_threads > 0 THEN "donate" ELSE RS!Onward(nodes[t])
    BY SameRequesting DEF l
  <2>5. RS!Probe(t)
    BY <1>1, <2>3, <2>4 DEF R!Probe, RS!Probe
  <2> QED BY <2>5 DEF RS!Next, RS!Step, RS!Schedule
<1>2. CASE R!Donate(t)
  <2>1. PICK keep \in R!UpToMin(nodes[t]) :
          /\ queue_sets' = queue_sets \cup (nodes[t] \ keep)
          /\ nodes' = [nodes EXCEPT ![t] = R!Pop(@, @ \ keep)]
          /\ pc' = R!NotifyAll([pc EXCEPT ![t] = R!Onward(nodes'[t])])
    BY <1>2 DEF R!Donate
  <2>2. R!Onward(nodes'[t]) \in OwnLabel /\ RS!Onward(nodes'[t]) = R!Onward(nodes'[t])
    BY SameRequesting
  <2>3. /\ SchedulerPc[t] = "donate"
        /\ SchedulerPc' = RS!NotifyAll([SchedulerPc EXCEPT ![t] = RS!Onward(nodes'[t])])
    <3> DEFINE l == R!Onward(nodes'[t])
    <3>1. pc[t] = "donate" /\ "donate" \in OwnLabel
      BY <1>2, OwnLabels DEF R!Donate
    <3>2. l \in OwnLabel /\ pc' = R!NotifyAll([pc EXCEPT ![t] = l])
      BY <2>1, <2>2
    <3>3. RS!Onward(nodes'[t]) = l
      BY <2>2
    <3> HIDE DEF l
    <3> QED BY <3>1, <3>2, <3>3, ViewOwn
  <2>4. /\ keep \in RS!UpToMin(nodes[t])
        /\ nodes' = [nodes EXCEPT ![t] = RS!Pop(@, @ \ keep)]
    BY <2>1, SameRequesting
  <2>5. RS!Donate(t)
    BY <1>2, <2>1, <2>3, <2>4 DEF R!Donate, RS!Donate
  <2> QED BY <2>5 DEF RS!Next, RS!Step, RS!Schedule
<1>3. CASE R!Receive(t)
  <2>1. PICK taken \in R!UpToMin(queue_sets) :
          /\ queue_sets' = R!Pop(queue_sets, taken)
          /\ nodes' = [nodes EXCEPT ![t] = @ \cup taken]
    BY <1>3 DEF R!Receive
  <2>2. taken \in RS!UpToMin(queue_sets) /\ queue_sets' = RS!Pop(queue_sets, taken)
    BY <2>1, SameRequesting
  <2>3. SchedulerPc[t] = "receive"
    BY <1>3, ViewOwn, OwnLabels DEF R!Receive
  <2>4. IF nodes'[t] = {} /\ num_waiting_threads >= RS!NumThreads
        THEN mutex_sets' = None /\ SchedulerPc' = RS!NotifyAll([SchedulerPc EXCEPT ![t] = "loop"])
        ELSE SchedulerPc' = [SchedulerPc EXCEPT ![t] = "leave"] /\ UNCHANGED mutex_sets
    BY <1>3, ViewOwn, OwnLabels, SameRequesting DEF R!Receive
  <2>5. RS!Receive(t)
    BY <1>3, <2>1, <2>2, <2>3, <2>4 DEF R!Receive, RS!Receive
  <2> QED BY <2>5 DEF RS!Next, RS!Step, RS!Schedule
<1>4. CASE R!Acquire(t)
  <2>1. RS!Acquire(t)
    BY <1>4, ViewOwn, OwnLabels, SameRequesting DEF R!Acquire, RS!Acquire
  <2> QED BY <2>1 DEF RS!Next, RS!Step, RS!Schedule
<1>5. CASE R!Enlist(t)
  <2>1. RS!Enlist(t)
    BY <1>5, ViewOwn, OwnLabels DEF R!Enlist, RS!Enlist
  <2> QED BY <2>1 DEF RS!Next, RS!Step, RS!Schedule
<1>6. CASE R!Leave(t)
  <2>1. RS!Leave(t)
    BY <1>6, ViewOwn, OwnLabels DEF R!Leave, RS!Leave
  <2> QED BY <2>1 DEF RS!Next, RS!Step, RS!Schedule
<1>7. CASE R!SpuriousWakeup(t)
  <2>1. RS!SpuriousWakeup(t)
    BY <1>7, ViewOwn, OwnLabels DEF R!SpuriousWakeup, RS!SpuriousWakeup
  <2> QED BY <2>1 DEF RS!Next
<1> QED BY <1>1, <1>2, <1>3, <1>4, <1>5, <1>6, <1>7 DEF R!Schedule

LEMMA AwaitUses ==
  ASSUME TypeOK, NEW t \in Thread, NEW working, G!Await(t, working)
  PROVE  GS!Await(t, working)
<1>1. CASE queue_sets # {} \/ working = 0
  <2>1. G!Fetch(t, working)
    BY <1>1 DEF G!Await
  <2>2. PICK taken \in G!UpToMin(queue_sets) :
          /\ queue_sets' = G!Pop(queue_sets, taken)
          /\ nodes' = [nodes EXCEPT ![t] = @ \cup taken]
          /\ LET returned == [pc EXCEPT ![t] = "loop"]
             IN IF nodes'[t] = {} /\ working = 0
                THEN pc' = G!NotifyAll(returned) /\ num_working_threads' = working
                ELSE pc' = returned /\ num_working_threads' = G!Increment(working)
    BY <2>1 DEF G!Fetch
  <2>3. taken \in GS!UpToMin(queue_sets) /\ queue_sets' = GS!Pop(queue_sets, taken)
    BY <2>2, SameGiving
  <2>4. IF nodes'[t] = {} /\ working = 0
        THEN /\ SchedulerPc' = GS!NotifyAll([SchedulerPc EXCEPT ![t] = "loop"])
             /\ num_working_threads' = working
        ELSE /\ SchedulerPc' = [SchedulerPc EXCEPT ![t] = "loop"]
             /\ num_working_threads' = GS!Increment(working)
    BY <2>2, ViewOwn, OwnLabels, SameGiving
  <2>5. GS!Fetch(t, working)
    BY <2>2, <2>3, <2>4 DEF GS!Fetch
  <2> QED BY <1>1, <2>5 DEF GS!Await
<1>2. CASE ~(queue_sets # {} \/ working = 0)
  <2>1. /\ pc' = [pc EXCEPT ![t] = "sleep"] /\ num_working_threads' = working
        /\ UNCHANGED <<nodes, queue_sets>>
    BY <1>2 DEF G!Await
  <2>2. SchedulerPc' = [SchedulerPc EXCEPT ![t] = "sleep"]
    BY <2>1, ViewOwn, OwnLabels
  <2> QED BY <1>2, <2>1, <2>2 DEF GS!Await
<1> QED BY <1>1, <1>2

LEMMA GivingUses ==
  ASSUME TypeOK, NEW t \in Thread, G!Schedule(t) \/ G!SpuriousWakeup(t)
  PROVE  GS!Next
<1>1. CASE G!Keep(t)
  <2> DEFINE l == G!Onward(nodes[t])
  <2>1. l \in OwnLabel /\ l = GS!Onward(nodes[t]) /\ "schedule" \in OwnLabel
    BY OwnLabels, SameGiving
  <2>2. pc[t] = "schedule" /\ pc' = [pc EXCEPT ![t] = l]
    BY <1>1 DEF G!Keep
  <2> HIDE DEF l
  <2>3. SchedulerPc[t] = "schedule" /\ SchedulerPc' = [SchedulerPc EXCEPT ![t] = l]
    BY <2>1, <2>2, ViewOwn
  <2>4. GS!Keep(t)
    BY <1>1, <2>1, <2>3, SameCardinality DEF G!Keep, GS!Keep
  <2> QED BY <2>4 DEF GS!Next, GS!Step, GS!Schedule
<1>2. CASE G!Give(t)
  <2>1. PICK keep \in G!UpToMin(nodes[t]) :
          /\ queue_sets' = queue_sets \cup (nodes[t] \ keep)
          /\ nodes' = [nodes EXCEPT ![t] = G!Pop(@, @ \ keep)]
          /\ pc' = G!NotifyAll([pc EXCEPT ![t] = G!Onward(nodes'[t])])
    BY <1>2 DEF G!Give
  <2>2. /\ SchedulerPc[t] = "schedule"
        /\ SchedulerPc' = GS!NotifyAll([SchedulerPc EXCEPT ![t] = GS!Onward(nodes'[t])])
    <3> DEFINE l == G!Onward(nodes'[t])
    <3>1. pc[t] = "schedule" /\ "schedule" \in OwnLabel
      BY <1>2, OwnLabels DEF G!Give
    <3>2. l \in OwnLabel /\ pc' = G!NotifyAll([pc EXCEPT ![t] = l])
      BY <2>1, SameGiving
    <3>3. GS!Onward(nodes'[t]) = l
      BY SameGiving
    <3> HIDE DEF l
    <3> QED BY <3>1, <3>2, <3>3, ViewOwn
  <2>3. /\ keep \in GS!UpToMin(nodes[t])
        /\ nodes' = [nodes EXCEPT ![t] = GS!Pop(@, @ \ keep)]
    BY <2>1, SameGiving
  <2>4. GS!Give(t)
    BY <1>2, <2>1, <2>2, <2>3, SameCardinality DEF G!Give, GS!Give
  <2> QED BY <2>4 DEF GS!Next, GS!Step, GS!Schedule
<1>3. CASE G!Enlist(t)
  <2>1. GS!Enlist(t)
    BY <1>3, AwaitUses, ViewOwn, OwnLabels, SameGiving DEF G!Enlist, GS!Enlist
  <2> QED BY <2>1 DEF GS!Next, GS!Step, GS!Schedule
<1>4. CASE G!Resume(t)
  <2>1. GS!Resume(t)
    BY <1>4, AwaitUses, ViewOwn, OwnLabels DEF G!Resume, GS!Resume
  <2> QED BY <2>1 DEF GS!Next, GS!Step, GS!Schedule
<1>5. CASE G!SpuriousWakeup(t)
  <2>1. GS!SpuriousWakeup(t)
    BY <1>5, ViewOwn, OwnLabels DEF G!SpuriousWakeup, GS!SpuriousWakeup
  <2> QED BY <2>1 DEF GS!Next
<1> QED BY <1>1, <1>2, <1>3, <1>4, <1>5 DEF G!Schedule

LEMMA InitInUse == Init => SchedulerInUse
BY DEF Init, SchedulerInUse

LEMMA StepInUse == Frame /\ SchedulerInUse /\ [Next]_vars => SchedulerInUse'
<1> SUFFICES ASSUME Frame, SchedulerInUse, [Next]_vars,
                    phase' \in {"fork", "clean", "done"}, ~g_interruped'
             PROVE  /\ scheduler' = "requesting" => RS!Inv'
                    /\ scheduler' = "giving" => GS!Inv'
  BY DEF SchedulerInUse
<1>1. scheduler' = scheduler /\ ~g_interruped
  BY DEF Next, Main, SeedBranch, SeedDone, Deal, SkipThreads, Fork, Join, Return, Worker, Branch,
         Compare, Publish, Schedule, Exit, SpuriousWakeup, Interrupt, vars, mainVars
<1>2. CASE Deal
  BY <1>1, <1>2, DealStarts, RequestingStartsNext, GivingStartsNext DEF Frame
<1>3. CASE ~Deal
  <2>1. phase \in {"fork", "clean", "done"}
    BY <1>1, <1>3 DEF Next, Main, SeedBranch, SeedDone, SkipThreads, Fork, Join, Return, Worker,
                  Branch, Compare, Publish, Schedule, Exit, SpuriousWakeup, Interrupt, vars, mainVars
  <2>2. (scheduler = "requesting" => RS!Inv) /\ (scheduler = "giving" => GS!Inv)
    BY <1>1, <2>1 DEF SchedulerInUse
  <2>3. /\ scheduler = "requesting" => [RS!Next]_(RS!vars)
        /\ scheduler = "giving" => [GS!Next]_(GS!vars)
    <3>1. CASE Join \/ Return \/ UNCHANGED vars
      BY <3>1 DEF Join, Return, vars, schedulerVars, SchedulerPc, RS!vars, GS!vars
    <3>2. ASSUME NEW t \in Thread,
                 Fork(t) \/ Branch(t) \/ Compare(t) \/ Publish(t) \/ Exit(t)
          PROVE  [RS!Next]_(RS!vars) /\ [GS!Next]_(GS!vars)
      BY <1>1, <3>2, CallerUses
    <3>3. ASSUME NEW t \in Thread, Schedule(t) \/ SpuriousWakeup(t)
          PROVE  /\ scheduler = "requesting" => [RS!Next]_(RS!vars)
                 /\ scheduler = "giving" => [GS!Next]_(GS!vars)
      BY <3>3, RequestingUses, GivingUses DEF Schedule, SpuriousWakeup, Frame
    <3>4. /\ ~SeedBranch /\ ~SeedDone /\ ~SkipThreads /\ ~Interrupt
      BY <1>1, <2>1 DEF SeedBranch, SeedDone, SkipThreads, Interrupt
    <3> QED BY <1>3, <3>1, <3>2, <3>3, <3>4 DEF Next, Main, Worker
  <2>4. (scheduler = "requesting" => RS!Inv') /\ (scheduler = "giving" => GS!Inv')
    BY <2>2, <2>3, RequestingSteps, GivingSteps
  <2> QED BY <1>1, <2>4
<1> QED BY <1>2, <1>3

THEOREM SchedulerInUseHolds == Spec => []SchedulerInUse
BY InitInUse, StepInUse, FrameHolds, PTL DEF Spec

\* Workers that nothing has interrupted go home only after the last node.
LEMMA NothingLeftBehind ==
  ASSUME Frame, SchedulerInUse, phase = "done", ~g_interruped
  PROVE  queue_sets = {} /\ \A t \in Thread : pc[t] = "exit" /\ nodes[t] = {}
<1>1. \A t \in Thread : pc[t] = "exit" /\ nodes[t] = {}
  BY DEF Frame, Phases, Joined
<1>2. PICK t \in Thread : TRUE
  BY EngineAssumption
<1>3. SchedulerPc[t] = "exit"
  BY <1>1 DEF SchedulerPc, View
<1>4. CASE scheduler = "requesting"
  <2>1. RS!Unused \/ RS!InUse \/ RS!Over
    BY <1>4 DEF SchedulerInUse, RS!Inv
  <2>2. ~RS!InUse
    BY <1>2, <1>3 DEF RS!InUse, RS!Quitting
  <2> QED BY <1>1, <2>1, <2>2 DEF RS!Unused, RS!Over, RS!NothingOpen
<1>5. CASE scheduler = "giving"
  <2>1. GS!Unused \/ GS!InUse \/ GS!Over
    BY <1>5 DEF SchedulerInUse, GS!Inv
  <2>2. ~GS!InUse
    BY <1>2, <1>3 DEF GS!InUse, GS!Quitting
  <2> QED BY <1>1, <2>1, <2>2 DEF GS!Unused, GS!Over, GS!NothingOpen
<1> QED BY <1>1, <1>4, <1>5, EngineAssumption DEF Frame, TypeOK

\* When solve returns no container holds a node, the seeds' or a worker's, signal or not;
\* without a signal the queue holds none either, because the last thread is sent home
\* from an empty queue.  (AllFreed, which has no such condition, is false.)
THEOREM NodesReleasedHolds == Spec => []NodesReleased
<1>1. Frame /\ SchedulerInUse => NodesReleased
  BY NothingLeftBehind DEF NodesReleased, Frame, Phases, Joined
<1> QED BY <1>1, FrameHolds, SchedulerInUseHolds, PTL

----------------------------------------------------------------------------
(* The result.                                                             *)

LEMMA StartAssumption == Abstract!BB!RecordAssumption
<1>1. \A s \in Solution : Cost[s] \in Int
  BY TypeAssumption
<1>2. GivenRecord \subseteq Int
  BY EngineAssumption
<1>3. StartRecords \subseteq Int
  <2> SUFFICES ASSUME NEW r \in StartRecords PROVE r \in Int
    OBVIOUS
  <2>1. r \in GivenRecord \/ r = 0 \/ \E s \in Solution : r = Cost[s]
    BY DEF StartRecords
  <2>2. CASE r \in GivenRecord
    BY <1>2, <2>2
  <2>3. CASE r = 0
    BY <2>3
  <2>4. CASE \E s \in Solution : r = Cost[s]
    BY <1>1, <2>4
  <2> QED BY <2>1, <2>2, <2>3, <2>4
<1> QED BY <1>3 DEF Abstract!BB!RecordAssumption, StartRecords

LEMMA SameContract == SolverContract => Abstract!SolverContract
BY DEF SolverContract, Bounds, Attains, Covers, AllTours, ChildSet,
       Abstract!SolverContract, Abstract!Bounds, Abstract!Attains, Abstract!Covers,
       Abstract!AllTours, Abstract!ChildSet

LEMMA AbstractInvHolds ==
  ASSUME SolverContract
  PROVE  Spec => []Abstract!AbstractInv
<1>1. Init => Abstract!AbstractInv
  BY InitRefines, StartAssumption, SameContract, Abstract!AbstractInitInv, TreeAssumption, TypeAssumption, AsSerial
     DEF ChildSet, Abstract!ChildSet
<1>2. Abstract!AbstractInv /\ [Abstract!BB!Next]_(Abstract!BB!vars) => Abstract!AbstractInv'
  BY StartAssumption, SameContract, Abstract!AbstractStepInv, TreeAssumption, TypeAssumption, AsSerial
     DEF ChildSet, Abstract!ChildSet
<1>3. Abstract!AbstractInv /\ Sound /\ [Next]_vars => Abstract!AbstractInv'
  BY <1>2, StepSound
<1> QED BY <1>1, <1>3, SoundHolds, PTL DEF Spec

\* A solve that no signal cuts short returns the length of a shortest tour, or a given
\* record that no tour beats: for every search tree, any number of threads, either
\* scheduler and any order of the containers.
THEOREM ResultOptimalHolds ==
  ASSUME SolverContract
  PROVE  Spec => []ResultOptimal
<1>1. Frame /\ SchedulerInUse /\ Abstract!AbstractInv => ResultOptimal
  <2> SUFFICES ASSUME Frame, SchedulerInUse, Abstract!AbstractInv, phase = "done", searched, ~g_interruped
               PROVE  \A s \in Solution : record_ <= Cost[s]
    BY DEF ResultOptimal
  <2>1. queue_sets = {} /\ \A t \in Thread : pc[t] = "exit" /\ nodes[t] = {}
    BY NothingLeftBehind
  <2>2. Open = {}
    BY <2>1 DEF Open, Frame, Phases
  <2>3. Incumbent = record_
    BY <2>1, KnownToMain DEF Frame, Quiet, MainKnows, MainValue
  <2>4. ~Cut
    BY DEF Cut
  <2> QED BY <2>2, <2>3, <2>4 DEF Abstract!AbstractInv, Abstract!BB!Coverage
<1> QED BY <1>1, FrameHolds, SchedulerInUseHolds, AbstractInvHolds, PTL
=============================================================================
