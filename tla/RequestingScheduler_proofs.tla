--------------------- MODULE RequestingScheduler_proofs ---------------------
(***************************************************************************)
(* RequestingScheduler retires no thread while a node is open and lets no  *)
(* wake-up go missing, for any number of threads and any forest of nodes,  *)
(* although its counter is raised outside the mutex.                       *)
(***************************************************************************)
EXTENDS RequestingScheduler, FiniteSetTheorems, TLAPS

\* The threads that num_waiting_threads counts while the scheduler is in use.
Asking == {t \in Thread : pc[t] \in Enlisted}

NothingOpen == queue_sets = {} /\ \A t \in Thread : nodes[t] = {}

\* Only the thread between lock and unlock holds the mutex.
MutexHeld == \A t \in Thread : pc[t] \in {"receive", "leave"} <=> mutex_sets = t

\* Whoever asks for nodes has none, and has some when it leaves.
AskersAreDry ==
  \A t \in Thread : /\ pc[t] \in {"enlist", "acquire", "sleep", "receive", "exit"} => nodes[t] = {}
                    /\ pc[t] = "leave" => nodes[t] # {}

\* What the predicate of the wait has found holds until the mutex is released.
ReceiverIsDue == \A t \in Thread : pc[t] = "receive" => MayProceed

\* Nobody sleeps while there are nodes on offer; and when the last thread enlists,
\* somebody is on the way to the predicate.
SleepersAreDue ==
  (\E t \in Thread : pc[t] = "sleep") =>
    /\ queue_sets = {}
    /\ num_waiting_threads >= NumThreads =>
         \E u \in Thread : pc[u] \in {"acquire", "receive"}

\* Nothing was dealt out, and the scheduler is never called.
Unused ==
  /\ NothingOpen
  /\ num_waiting_threads = 0
  /\ \A t \in Thread : pc[t] \in {"loop", "exit"}

\* Nobody has been sent home, and the counter counts.
InUse ==
  /\ num_waiting_threads = Cardinality(Asking)
  /\ \A t \in Thread : ~Quitting(t)

\* The last thread has run dry; the counter stays where it is, and the others follow.
Over ==
  /\ NothingOpen
  /\ num_waiting_threads = NumThreads
  /\ \A t \in Thread : pc[t] \in {"acquire", "receive", "loop", "exit"}

Inv ==
  /\ TypeOK /\ MutexHeld /\ AskersAreDry /\ ReceiverIsDue /\ SleepersAreDue
  /\ Unused \/ InUse \/ Over

----------------------------------------------------------------------------
(* Counting.                                                               *)

LEMMA CountType ==
  \A S \in SUBSET Thread :
    Cardinality(S) \in 0..NumThreads /\ (Cardinality(S) = NumThreads => S = Thread)
<1> TAKE S \in SUBSET Thread
<1>1. /\ IsFiniteSet(S) /\ Cardinality(S) <= NumThreads
      /\ NumThreads = Cardinality(S) => S = Thread
  BY WorkAssumption, FS_Subset DEF NumThreads
<1>2. Cardinality(S) \in Nat /\ NumThreads \in Nat
  BY <1>1, WorkAssumption, FS_CardinalityType DEF NumThreads
<1> QED BY <1>1, <1>2

LEMMA CountLess ==
  ASSUME NEW S \in SUBSET Thread, NEW t \in S
  PROVE  Cardinality(S \ {t}) = Cardinality(S) - 1
<1>1. IsFiniteSet(S)
  BY WorkAssumption, FS_Subset
<1> QED BY <1>1, FS_RemoveElement

LEMMA CountMore ==
  ASSUME NEW S \in SUBSET Thread, NEW t \in Thread \ S
  PROVE  Cardinality(S \cup {t}) = Cardinality(S) + 1
<1>1. IsFiniteSet(S)
  BY WorkAssumption, FS_Subset
<1> QED BY <1>1, FS_AddElement

LEMMA ThreadCount == NumThreads \in Nat /\ NumThreads > 0
<1>1. NumThreads \in Nat
  BY WorkAssumption, FS_CardinalityType DEF NumThreads
<1>2. NumThreads # 0
  BY WorkAssumption, FS_EmptySet DEF NumThreads
<1> QED BY <1>1, <1>2

\* Something is picked from a container that is not empty.
LEMMA UpToMinNonEmpty ==
  ASSUME NEW S, NEW T \in UpToMin(S)
  PROVE  T \subseteq S /\ (S # {} => T # {})
<1>1. Cardinality({}) = 0
  BY FS_EmptySet
<1> QED BY <1>1, MinNodesAssumption DEF UpToMin

----------------------------------------------------------------------------
LEMMA InitInv == Init => Inv
<1> SUFFICES ASSUME Init PROVE Inv
  OBVIOUS
<1>1. nodes \in [Thread -> SUBSET Node]
  BY PoolsAssumption DEF Init
<1>2. TypeOK
  BY <1>1, ThreadCount DEF Init, TypeOK, Label
<1>3. MutexHeld /\ AskersAreDry /\ ReceiverIsDue /\ SleepersAreDue
  BY WorkAssumption DEF Init, MutexHeld, AskersAreDry, ReceiverIsDue, SleepersAreDue
<1>4. CASE nodes = [t \in Thread |-> {}]
  <2>1. Unused
    BY <1>4 DEF Init, Unused, NothingOpen
  <2> QED BY <1>2, <1>3, <2>1 DEF Inv
<1>5. CASE nodes \in [Thread -> (SUBSET Node) \ {{}}]
  <2>1. Asking = {}
    BY DEF Init, Asking, Enlisted
  <2>2. Cardinality(Asking) = 0
    BY <2>1, FS_EmptySet
  <2>3. \A t \in Thread : ~Quitting(t)
    <3> SUFFICES ASSUME NEW t \in Thread PROVE ~Quitting(t)
      OBVIOUS
    <3>1. nodes[t] # {} /\ pc[t] = "loop"
      BY <1>5 DEF Init
    <3> QED BY <3>1 DEF Quitting
  <2>4. InUse
    BY <2>2, <2>3 DEF Init, InUse
  <2> QED BY <1>2, <1>3, <2>4 DEF Inv
<1> QED BY <1>4, <1>5, PoolsAssumption DEF Init

\* A thread with work, or one that is going to ask for it, is there only while the
\* scheduler is in use.
LEMMA BusyMeansInUse ==
  ASSUME Inv, NEW t \in Thread,
         pc[t] \in {"schedule", "donate", "enlist", "leave"} \/ (pc[t] = "loop" /\ nodes[t] # {})
  PROVE  InUse
BY DEF Inv, Unused, Over, NothingOpen

LEMMA BranchInv ==
  ASSUME Inv, NEW t \in Thread, Branch(t)
  PROVE  Inv' /\ InUse'
<1>0. InUse /\ pc[t] = "loop"
  BY BusyMeansInUse DEF Branch
<1>1. TypeOK'
  <2>1. PICK n \in nodes[t] : \E new \in SUBSET Offspring[n] :
          nodes' = [nodes EXCEPT ![t] = (@ \ {n}) \cup new]
    BY DEF Branch
  <2>2. PICK new \in SUBSET Offspring[n] :
          nodes' = [nodes EXCEPT ![t] = (@ \ {n}) \cup new]
    BY <2>1
  <2>3. n \in Node /\ new \subseteq Node /\ nodes[t] \subseteq Node
    BY WorkAssumption DEF Inv, TypeOK
  <2>4. nodes' \in [Thread -> SUBSET Node]
    BY <2>2, <2>3 DEF Inv, TypeOK
  <2> QED BY <2>4 DEF Inv, TypeOK, Branch, Label
<1>2. pc' = [pc EXCEPT ![t] = "schedule"]
      /\ UNCHANGED <<queue_sets, mutex_sets, num_waiting_threads>>
      /\ \A u \in Thread \ {t} : nodes'[u] = nodes[u]
  BY DEF Branch, Inv, TypeOK
<1>3. MutexHeld' /\ AskersAreDry' /\ ReceiverIsDue'
  BY <1>0, <1>2 DEF Inv, TypeOK, MutexHeld, AskersAreDry, ReceiverIsDue, MayProceed
<1>4. SleepersAreDue'
  BY <1>0, <1>2 DEF Inv, TypeOK, SleepersAreDue
<1>5. Asking' = Asking
  BY <1>0, <1>2 DEF Inv, TypeOK, Asking, Enlisted
<1>6. \A u \in Thread : ~Quitting(u)'
  BY <1>0, <1>2 DEF Inv, TypeOK, InUse, Quitting
<1>7. InUse'
  BY <1>0, <1>2, <1>5, <1>6 DEF InUse
<1> QED BY <1>1, <1>3, <1>4, <1>7 DEF Inv

LEMMA ExitInv ==
  ASSUME Inv, NEW t \in Thread, Exit(t)
  PROVE  Inv'
<1>1. TypeOK'
  BY DEF Inv, TypeOK, Exit, Label
<1>2. MutexHeld' /\ AskersAreDry' /\ ReceiverIsDue'
  BY DEF Inv, TypeOK, MutexHeld, AskersAreDry, ReceiverIsDue, MayProceed, Exit
<1>3. SleepersAreDue'
  BY DEF Inv, TypeOK, SleepersAreDue, Exit
<1>4. ~InUse
  BY DEF InUse, Quitting, Exit
<1>5. Unused' \/ Over'
  BY <1>4 DEF Inv, TypeOK, Unused, Over, NothingOpen, Exit
<1> QED BY <1>1, <1>2, <1>3, <1>5 DEF Inv

LEMMA ProbeInv ==
  ASSUME Inv, NEW t \in Thread, Probe(t)
  PROVE  Inv' /\ InUse'
<1>0. InUse /\ pc[t] = "schedule"
  BY BusyMeansInUse DEF Probe
<1>1. /\ \/ pc' = [pc EXCEPT ![t] = "donate"]
         \/ pc' = [pc EXCEPT ![t] = "enlist"] /\ nodes[t] = {}
         \/ pc' = [pc EXCEPT ![t] = "loop"] /\ nodes[t] # {}
      /\ UNCHANGED <<nodes, queue_sets, mutex_sets, num_waiting_threads>>
  BY DEF Probe, Onward
<1>2. TypeOK'
  BY <1>1 DEF Inv, TypeOK, Label
<1>3. MutexHeld' /\ AskersAreDry' /\ ReceiverIsDue'
  BY <1>0, <1>1 DEF Inv, TypeOK, MutexHeld, AskersAreDry, ReceiverIsDue, MayProceed
<1>4. SleepersAreDue'
  BY <1>0, <1>1 DEF Inv, TypeOK, SleepersAreDue
<1>5. Asking' = Asking
  BY <1>0, <1>1 DEF Inv, TypeOK, Asking, Enlisted
<1>6. \A u \in Thread : ~Quitting(u)'
  BY <1>0, <1>1 DEF Inv, TypeOK, InUse, Quitting
<1>7. InUse'
  BY <1>0, <1>1, <1>5, <1>6 DEF InUse
<1> QED BY <1>2, <1>3, <1>4, <1>7 DEF Inv

\* What donating comes to: the thread keeps some nodes if it has any.
LEMMA DonateEffect ==
  ASSUME Inv, NEW t \in Thread, Donate(t)
  PROVE  \E keep \in SUBSET nodes[t] :
           /\ nodes[t] # {} => keep # {}
           /\ queue_sets' = queue_sets \cup (nodes[t] \ keep)
           /\ nodes' = [nodes EXCEPT ![t] = keep]
           /\ pc' = [u \in Thread |-> IF u = t THEN Onward(keep)
                                      ELSE IF pc[u] = "sleep" THEN "acquire" ELSE pc[u]]
<1>1. PICK keep \in UpToMin(nodes[t]) :
        /\ queue_sets' = queue_sets \cup (nodes[t] \ keep)
        /\ nodes' = [nodes EXCEPT ![t] = Pop(@, @ \ keep)]
        /\ pc' = NotifyAll([pc EXCEPT ![t] = Onward(nodes'[t])])
  BY DEF Donate
<1>2. keep \subseteq nodes[t] /\ (nodes[t] # {} => keep # {})
  BY UpToMinNonEmpty
<1>3. nodes' = [nodes EXCEPT ![t] = keep] /\ nodes'[t] = keep
  BY <1>1, <1>2 DEF Pop, Inv, TypeOK
<1>4. pc' = [u \in Thread |-> IF u = t THEN Onward(keep)
                              ELSE IF pc[u] = "sleep" THEN "acquire" ELSE pc[u]]
  BY <1>1, <1>3 DEF NotifyAll, Onward, Inv, TypeOK
<1> QED BY <1>1, <1>2, <1>3, <1>4

LEMMA DonateInv ==
  ASSUME Inv, NEW t \in Thread, Donate(t)
  PROVE  Inv' /\ InUse'
<1>0. InUse /\ pc[t] = "donate" /\ mutex_sets = None
  BY BusyMeansInUse DEF Donate
<1>1. UNCHANGED <<mutex_sets, num_waiting_threads>>
  BY DEF Donate
<1>2. PICK keep \in SUBSET nodes[t] :
        /\ queue_sets' = queue_sets \cup (nodes[t] \ keep)
        /\ nodes' = [nodes EXCEPT ![t] = keep]
        /\ pc' = [u \in Thread |-> IF u = t THEN Onward(keep)
                                   ELSE IF pc[u] = "sleep" THEN "acquire" ELSE pc[u]]
  BY DonateEffect
<1>3. TypeOK'
  <2>1. nodes' \in [Thread -> SUBSET Node] /\ queue_sets' \subseteq Node
    BY <1>2 DEF Inv, TypeOK
  <2>2. pc' \in [Thread -> Label]
    BY <1>2 DEF Inv, TypeOK, Label, Enlisted, Onward
  <2> QED BY <2>1, <2>2, <1>1 DEF Inv, TypeOK
<1>4. \A u \in Thread : pc[u] \notin {"receive", "leave"}
  BY <1>0, WorkAssumption DEF Inv, MutexHeld
<1>5. MutexHeld' /\ ReceiverIsDue'
  BY <1>0, <1>1, <1>2, <1>4, WorkAssumption DEF MutexHeld, ReceiverIsDue, Onward
<1>6. AskersAreDry'
  BY <1>2, <1>4 DEF Inv, TypeOK, AskersAreDry, Onward
<1>7. SleepersAreDue'
  BY <1>2 DEF SleepersAreDue, Onward
<1>8. Asking' = Asking
  BY <1>0, <1>2 DEF Inv, TypeOK, Asking, Enlisted, Onward
<1>9. \A u \in Thread : ~Quitting(u)'
  BY <1>0, <1>2 DEF Inv, TypeOK, InUse, Quitting, Onward
<1>10. InUse'
  BY <1>0, <1>1, <1>8, <1>9 DEF InUse
<1> QED BY <1>3, <1>5, <1>6, <1>7, <1>10 DEF Inv

LEMMA EnlistInv ==
  ASSUME Inv, NEW t \in Thread, Enlist(t)
  PROVE  Inv' /\ InUse'
<1>0. InUse /\ pc[t] = "enlist"
  BY BusyMeansInUse DEF Enlist
<1>1. /\ num_waiting_threads' = num_waiting_threads + 1
      /\ pc' = [pc EXCEPT ![t] = "acquire"]
      /\ UNCHANGED <<nodes, queue_sets, mutex_sets>>
  BY DEF Enlist
<1>2. t \in Thread \ Asking /\ Asking \in SUBSET Thread
  BY <1>0 DEF Asking, Enlisted
<1>3. Asking' = Asking \cup {t}
  BY <1>1 DEF Inv, TypeOK, Asking, Enlisted
<1>4. num_waiting_threads' = Cardinality(Asking')
  BY <1>0, <1>1, <1>2, <1>3, CountMore DEF InUse
<1>5. num_waiting_threads' \in 0..NumThreads
  BY <1>2, <1>3, <1>4, CountType
<1>6. TypeOK'
  BY <1>1, <1>5 DEF Inv, TypeOK, Label, Enlisted
<1>7. MutexHeld' /\ AskersAreDry'
  BY <1>0, <1>1 DEF Inv, TypeOK, MutexHeld, AskersAreDry
<1>8. MayProceed => MayProceed'
  BY <1>1, ThreadCount DEF MayProceed, Inv, TypeOK
<1>9. ReceiverIsDue'
  BY <1>0, <1>1, <1>8 DEF Inv, TypeOK, ReceiverIsDue
<1>10. SleepersAreDue'
  BY <1>0, <1>1 DEF Inv, TypeOK, SleepersAreDue
<1>11. \A u \in Thread : ~Quitting(u)'
  BY <1>0, <1>1 DEF Inv, TypeOK, InUse, Quitting
<1>12. InUse'
  BY <1>4, <1>11 DEF InUse
<1> QED BY <1>6, <1>7, <1>9, <1>10, <1>12 DEF Inv

LEMMA AcquireInv ==
  ASSUME Inv, NEW t \in Thread, Acquire(t)
  PROVE  Inv'
<1>0. /\ pc[t] = "acquire" /\ mutex_sets = None
      /\ UNCHANGED <<nodes, queue_sets, num_waiting_threads>>
  BY DEF Acquire
<1>1. \A u \in Thread : pc[u] \notin {"receive", "leave"}
  BY <1>0, WorkAssumption DEF Inv, MutexHeld
<1>2. CASE MayProceed
  <2>1. mutex_sets' = t /\ pc' = [pc EXCEPT ![t] = "receive"]
    BY <1>2 DEF Acquire
  <2>2. TypeOK'
    BY <1>0, <2>1 DEF Inv, TypeOK, Label, Enlisted
  <2>3. MutexHeld' /\ AskersAreDry' /\ ReceiverIsDue'
    BY <1>0, <1>1, <1>2, <2>1
       DEF Inv, TypeOK, MutexHeld, AskersAreDry, ReceiverIsDue, MayProceed
  <2>4. SleepersAreDue'
    BY <1>0, <2>1 DEF Inv, TypeOK, SleepersAreDue
  <2>5. Asking' = Asking
    BY <1>0, <2>1 DEF Inv, TypeOK, Asking, Enlisted
  <2>6. InUse => InUse'
    BY <1>0, <2>1, <2>5 DEF Inv, TypeOK, InUse, Quitting
  <2>7. Over => Over'
    BY <1>0, <2>1 DEF Inv, TypeOK, Over, NothingOpen
  <2> QED BY <1>0, <2>2, <2>3, <2>4, <2>6, <2>7 DEF Inv, Unused
<1>3. CASE ~MayProceed
  <2>1. mutex_sets' = None /\ pc' = [pc EXCEPT ![t] = "sleep"]
    BY <1>0, <1>3 DEF Acquire
  <2>2. TypeOK'
    BY <1>0, <2>1 DEF Inv, TypeOK, Label, Enlisted
  <2>3. MutexHeld' /\ AskersAreDry' /\ ReceiverIsDue'
    BY <1>0, <1>1, <2>1, WorkAssumption
       DEF Inv, TypeOK, MutexHeld, AskersAreDry, ReceiverIsDue
  <2>4. SleepersAreDue'
    BY <1>0, <1>3, <2>1 DEF Inv, TypeOK, SleepersAreDue, MayProceed
  <2>5. Asking' = Asking
    BY <1>0, <2>1 DEF Inv, TypeOK, Asking, Enlisted
  <2>6. InUse => InUse'
    BY <1>0, <2>1, <2>5 DEF Inv, TypeOK, InUse, Quitting
  <2>7. ~Over
    BY <1>3, ThreadCount DEF Over, MayProceed
  <2> QED BY <1>0, <2>2, <2>3, <2>4, <2>6, <2>7 DEF Inv, Unused
<1> QED BY <1>2, <1>3

LEMMA SpuriousInv ==
  ASSUME Inv, NEW t \in Thread, SpuriousWakeup(t)
  PROVE  Inv'
<1>0. /\ pc[t] = "sleep" /\ pc' = [pc EXCEPT ![t] = "acquire"]
      /\ UNCHANGED <<nodes, queue_sets, mutex_sets, num_waiting_threads>>
  BY DEF SpuriousWakeup
<1>1. TypeOK'
  BY <1>0 DEF Inv, TypeOK, Label, Enlisted
<1>2. MutexHeld' /\ AskersAreDry' /\ ReceiverIsDue'
  BY <1>0 DEF Inv, TypeOK, MutexHeld, AskersAreDry, ReceiverIsDue, MayProceed
<1>3. SleepersAreDue'
  BY <1>0 DEF Inv, TypeOK, SleepersAreDue
<1>4. Asking' = Asking
  BY <1>0 DEF Inv, TypeOK, Asking, Enlisted
<1>5. InUse => InUse'
  BY <1>0, <1>4 DEF Inv, TypeOK, InUse, Quitting
<1> QED BY <1>0, <1>1, <1>2, <1>3, <1>5 DEF Inv, Unused, Over

\* A thread that receives nothing is the last one: all the others are asking, too.
LEMMA ReceiveCases ==
  ASSUME Inv, NEW t \in Thread, Receive(t)
  PROVE  \/ /\ InUse /\ queue_sets # {}
            /\ \E taken \in (SUBSET queue_sets) \ {{}} :
                 /\ queue_sets' = queue_sets \ taken
                 /\ nodes' = [nodes EXCEPT ![t] = taken]
            /\ pc' = [pc EXCEPT ![t] = "leave"]
            /\ UNCHANGED <<mutex_sets, num_waiting_threads>>
         \/ /\ NothingOpen /\ UNCHANGED <<nodes, queue_sets, num_waiting_threads>>
            /\ num_waiting_threads = NumThreads
            /\ \A u \in Thread : u # t => pc[u] \in {"acquire", "sleep", "loop", "exit"}
            /\ mutex_sets' = None
            /\ pc' = [u \in Thread |-> IF u = t THEN "loop"
                                       ELSE IF pc[u] = "sleep" THEN "acquire" ELSE pc[u]]
<1>0. pc[t] = "receive" /\ nodes[t] = {} /\ MayProceed /\ num_waiting_threads' = num_waiting_threads
  BY DEF Receive, Inv, AskersAreDry, ReceiverIsDue
<1>1. PICK taken \in UpToMin(queue_sets) :
        /\ queue_sets' = Pop(queue_sets, taken)
        /\ nodes' = [nodes EXCEPT ![t] = @ \cup taken]
  BY DEF Receive
<1>2. queue_sets' = queue_sets \ taken /\ nodes' = [nodes EXCEPT ![t] = taken]
      /\ nodes'[t] = taken
  BY <1>0, <1>1 DEF Pop, Inv, TypeOK
<1>3. CASE queue_sets # {}
  <2>1. taken \in (SUBSET queue_sets) \ {{}}
    BY <1>3, UpToMinNonEmpty
  <2>2. pc' = [pc EXCEPT ![t] = "leave"] /\ mutex_sets' = mutex_sets
    BY <1>2, <2>1 DEF Receive
  <2>3. InUse
    BY <1>3 DEF Inv, Unused, Over, NothingOpen
  <2> QED BY <1>0, <1>2, <1>3, <2>1, <2>2, <2>3
<1>4. CASE queue_sets = {}
  <2>1. taken = {} /\ nodes' = nodes /\ queue_sets' = queue_sets
    BY <1>0, <1>2, <1>4, UpToMinNonEmpty DEF Inv, TypeOK
  <2>2. num_waiting_threads = NumThreads
    BY <1>0, <1>4, ThreadCount DEF MayProceed, Inv, TypeOK
  <2>3. mutex_sets' = None /\ pc' = NotifyAll([pc EXCEPT ![t] = "loop"])
    BY <1>2, <2>1, <2>2, ThreadCount DEF Receive
  <2>4. pc' = [u \in Thread |-> IF u = t THEN "loop"
                                ELSE IF pc[u] = "sleep" THEN "acquire" ELSE pc[u]]
    BY <2>3 DEF NotifyAll, Inv, TypeOK
  <2>5. \A u \in Thread : u # t => pc[u] \notin {"receive", "leave"}
    BY <1>0 DEF Inv, MutexHeld
  <2>6. CASE InUse
    <3>1. Asking = Thread
      <4>1. Asking \in SUBSET Thread
        BY DEF Asking
      <4> QED BY <4>1, <2>2, <2>6, CountType DEF InUse
    <3>2. \A u \in Thread : u # t => pc[u] \in {"acquire", "sleep"}
      BY <3>1, <2>5 DEF Asking, Enlisted
    <3>3. NothingOpen
      BY <1>0, <1>4, <3>2 DEF NothingOpen, Inv, AskersAreDry
    <3> QED BY <1>0, <2>1, <2>2, <2>3, <2>4, <3>2, <3>3
  <2>7. CASE Over
    BY <1>0, <2>1, <2>2, <2>3, <2>4, <2>5, <2>7 DEF Over
  <2> QED BY <1>0, <2>6, <2>7 DEF Inv, Unused
<1> QED BY <1>3, <1>4

LEMMA ReceiveInv ==
  ASSUME Inv, NEW t \in Thread, Receive(t)
  PROVE  Inv' /\ (queue_sets # {} => InUse')
<1>0. pc[t] = "receive" /\ mutex_sets = t
  BY DEF Receive, Inv, MutexHeld
<1>1. ASSUME InUse, queue_sets # {}, NEW taken \in (SUBSET queue_sets) \ {{}},
             queue_sets' = queue_sets \ taken,
             nodes' = [nodes EXCEPT ![t] = taken],
             pc' = [pc EXCEPT ![t] = "leave"],
             UNCHANGED <<mutex_sets, num_waiting_threads>>
      PROVE  Inv' /\ InUse'
  <2>1. TypeOK'
    BY <1>1 DEF Inv, TypeOK, Label, Enlisted
  <2>2. MutexHeld' /\ AskersAreDry'
    BY <1>0, <1>1 DEF Inv, TypeOK, MutexHeld, AskersAreDry
  <2>3. ReceiverIsDue'
    BY <1>0, <1>1 DEF Inv, TypeOK, ReceiverIsDue, MutexHeld
  <2>4. SleepersAreDue'
    BY <1>1 DEF Inv, TypeOK, SleepersAreDue
  <2>5. Asking' = Asking
    BY <1>0, <1>1 DEF Inv, TypeOK, Asking, Enlisted
  <2>6. \A u \in Thread : ~Quitting(u)'
    BY <1>0, <1>1 DEF Inv, TypeOK, InUse, Quitting
  <2>7. InUse'
    BY <1>1, <2>5, <2>6 DEF InUse
  <2> QED BY <2>1, <2>2, <2>3, <2>4, <2>7 DEF Inv
<1>2. ASSUME NothingOpen, UNCHANGED <<nodes, queue_sets, num_waiting_threads>>,
             num_waiting_threads = NumThreads,
             \A u \in Thread : u # t => pc[u] \in {"acquire", "sleep", "loop", "exit"},
             mutex_sets' = None,
             pc' = [u \in Thread |-> IF u = t THEN "loop"
                                     ELSE IF pc[u] = "sleep" THEN "acquire" ELSE pc[u]]
      PROVE  Inv'
  <2>1. TypeOK'
    BY <1>2 DEF Inv, TypeOK, Label, Enlisted
  <2>2. MutexHeld' /\ ReceiverIsDue' /\ SleepersAreDue'
    BY <1>2, WorkAssumption DEF MutexHeld, ReceiverIsDue, SleepersAreDue
  <2>3. AskersAreDry'
    BY <1>2 DEF AskersAreDry, NothingOpen
  <2>4. Over'
    BY <1>2 DEF Over, NothingOpen
  <2> QED BY <2>1, <2>2, <2>3, <2>4 DEF Inv
<1>3. CASE queue_sets # {}
  BY <1>1, <1>3, ReceiveCases DEF NothingOpen
<1>4. CASE queue_sets = {}
  BY <1>2, <1>4, ReceiveCases
<1> QED BY <1>3, <1>4

LEMMA LeaveInv ==
  ASSUME Inv, NEW t \in Thread, Leave(t)
  PROVE  Inv' /\ InUse'
<1>0. InUse /\ pc[t] = "leave"
  BY BusyMeansInUse DEF Leave
<1>1. /\ num_waiting_threads' = num_waiting_threads - 1
      /\ mutex_sets' = None
      /\ pc' = [pc EXCEPT ![t] = "loop"]
      /\ UNCHANGED <<nodes, queue_sets>>
  BY DEF Leave
<1>2. nodes[t] # {} /\ \A u \in Thread : u # t => pc[u] \notin {"receive", "leave"}
  BY <1>0 DEF Inv, AskersAreDry, MutexHeld
<1>3. t \in Asking /\ Asking \in SUBSET Thread
  BY <1>0 DEF Asking, Enlisted
<1>4. Asking' = Asking \ {t}
  BY <1>1 DEF Inv, TypeOK, Asking, Enlisted
<1>5. num_waiting_threads' = Cardinality(Asking')
  BY <1>0, <1>1, <1>3, <1>4, CountLess DEF InUse
<1>6. num_waiting_threads' \in 0..NumThreads /\ num_waiting_threads' < NumThreads
  <2>1. num_waiting_threads' \in 0..NumThreads
    BY <1>3, <1>4, <1>5, CountType
  <2> QED BY <2>1, <1>1, ThreadCount DEF Inv, TypeOK
<1>7. TypeOK'
  BY <1>1, <1>6 DEF Inv, TypeOK, Label
<1>8. MutexHeld' /\ AskersAreDry' /\ ReceiverIsDue'
  BY <1>1, <1>2, WorkAssumption DEF Inv, TypeOK, MutexHeld, AskersAreDry, ReceiverIsDue
<1>9. SleepersAreDue'
  BY <1>1, <1>6, ThreadCount DEF Inv, TypeOK, SleepersAreDue
<1>10. \A u \in Thread : ~Quitting(u)'
  BY <1>0, <1>1, <1>2 DEF Inv, TypeOK, InUse, Quitting
<1>11. InUse'
  BY <1>5, <1>10 DEF InUse
<1> QED BY <1>7, <1>8, <1>9, <1>11 DEF Inv

LEMMA StepInv == Inv /\ [Next]_vars => Inv'
<1> SUFFICES ASSUME Inv, [Next]_vars PROVE Inv'
  OBVIOUS
<1>1. ASSUME NEW t \in Thread, Step(t) PROVE Inv'
  BY <1>1, BranchInv, ExitInv, ProbeInv, DonateInv, EnlistInv, AcquireInv, ReceiveInv,
     LeaveInv DEF Step, Schedule
<1>2. ASSUME NEW t \in Thread, SpuriousWakeup(t) PROVE Inv'
  BY <1>2, SpuriousInv
<1>3. CASE UNCHANGED vars
  BY <1>3 DEF vars, Inv, TypeOK, MutexHeld, AskersAreDry, ReceiverIsDue, SleepersAreDue,
              MayProceed, Unused, InUse, Over, NothingOpen, Asking, Quitting
<1> QED BY <1>1, <1>2, <1>3 DEF Next

----------------------------------------------------------------------------
(* Every step is one of WorkSharing, or a stuttering step of it.           *)

Quitters == {t \in Thread : Quitting(t)}

LEMMA BranchRefines ==
  ASSUME Inv, NEW t \in Thread, Branch(t)
  PROVE  WS!Process(t)
<1>1. InUse /\ InUse'
  BY BranchInv, BusyMeansInUse DEF Branch
<1>2. Quitters = {} /\ Quitters' = {}
  BY <1>1 DEF InUse, Quitters
<1> QED BY <1>2 DEF WS!Process, Branch, Quitters

\* A thread that donates what it has beyond num_minimum_nodes, if anything.
LEMMA DonateRefines ==
  ASSUME Inv, NEW t \in Thread, Donate(t)
  PROVE  WS!Offer(t) \/ UNCHANGED WS!vars
<1>1. InUse /\ InUse'
  BY DonateInv, BusyMeansInUse DEF Donate
<1>2. Quitters = {} /\ Quitters' = {}
  BY <1>1 DEF InUse, Quitters
<1>3. PICK keep \in SUBSET nodes[t] :
        /\ nodes[t] # {} => keep # {}
        /\ queue_sets' = queue_sets \cup (nodes[t] \ keep)
        /\ nodes' = [nodes EXCEPT ![t] = keep]
  BY DonateEffect
<1> DEFINE given == nodes[t] \ keep
<1>4. queue_sets' = queue_sets \cup given /\ nodes' = [nodes EXCEPT ![t] = @ \ given]
  BY <1>3 DEF Inv, TypeOK
<1>5. CASE given = {}
  <2>1. nodes' = nodes /\ queue_sets' = queue_sets
    BY <1>4, <1>5 DEF Inv, TypeOK
  <2> QED BY <2>1, <1>2 DEF WS!vars, Quitters
<1>6. CASE given # {}
  <2>1. given \in (SUBSET nodes[t]) \ {{}, nodes[t]}
    BY <1>3, <1>6
  <2> HIDE DEF given
  <2> QED BY <2>1, <1>2, <1>4 DEF WS!Offer, Quitters
<1> QED BY <1>5, <1>6

LEMMA ReceiveRefines ==
  ASSUME Inv, NEW t \in Thread, Receive(t)
  PROVE  WS!Take(t) \/ WS!Quit(t)
<1>0. nodes[t] = {} /\ pc[t] = "receive"
  BY DEF Receive, Inv, AskersAreDry
<1>1. CASE queue_sets # {}
  <2>1. InUse /\ InUse'
    BY <1>1, ReceiveCases, ReceiveInv DEF NothingOpen
  <2>2. Quitters = {} /\ Quitters' = {}
    BY <2>1 DEF InUse, Quitters
  <2>3. PICK taken \in (SUBSET queue_sets) \ {{}} :
          /\ queue_sets' = queue_sets \ taken
          /\ nodes' = [nodes EXCEPT ![t] = taken]
    BY <1>1, ReceiveCases DEF NothingOpen
  <2> QED BY <1>0, <2>2, <2>3 DEF WS!Take, Quitters
<1>2. CASE queue_sets = {}
  <2>1. /\ NothingOpen /\ UNCHANGED <<nodes, queue_sets>>
        /\ pc' = [u \in Thread |-> IF u = t THEN "loop"
                                   ELSE IF pc[u] = "sleep" THEN "acquire" ELSE pc[u]]
    BY <1>2, ReceiveCases
  <2>2. \A u \in Thread : Quitting(u)' <=> (u = t \/ Quitting(u))
    BY <2>1 DEF Quitting, NothingOpen
  <2>3. Quitters' = Quitters \cup {t} /\ t \notin Quitters
    BY <1>0, <2>2 DEF Quitters, Quitting
  <2>4. WS!Open = {}
    BY <2>1 DEF WS!Open, NothingOpen
  <2> QED BY <2>1, <2>3, <2>4 DEF WS!Quit, Quitters
<1> QED BY <1>1, <1>2

\* The other steps move only the counter, the mutex and the threads.
LEMMA OthersRefine ==
  ASSUME Inv, NEW t \in Thread,
         Exit(t) \/ Probe(t) \/ Enlist(t) \/ Acquire(t) \/ Leave(t) \/ SpuriousWakeup(t)
  PROVE  UNCHANGED WS!vars
<1>1. UNCHANGED <<nodes, queue_sets>>
  BY DEF Exit, Probe, Enlist, Acquire, Leave, SpuriousWakeup
<1>2. \A u \in Thread : Quitting(u)' <=> Quitting(u)
  <2>1. CASE Exit(t)
    BY <2>1 DEF Inv, TypeOK, Exit, Quitting
  <2>2. CASE Probe(t)
    BY <2>2 DEF Inv, TypeOK, Probe, Onward, Quitting
  <2>3. CASE Enlist(t)
    BY <2>3 DEF Inv, TypeOK, Enlist, Quitting
  <2>4. CASE Acquire(t)
    BY <2>4 DEF Inv, TypeOK, Acquire, Quitting
  <2>5. CASE Leave(t)
    BY <2>5 DEF Inv, TypeOK, AskersAreDry, Leave, Quitting
  <2>6. CASE SpuriousWakeup(t)
    BY <2>6 DEF Inv, TypeOK, SpuriousWakeup, Quitting
  <2> QED BY <2>1, <2>2, <2>3, <2>4, <2>5, <2>6
<1>3. Quitters' = Quitters
  BY <1>2 DEF Quitters
<1> QED BY <1>1, <1>3 DEF WS!vars, Quitters

LEMMA InitRefines == Init => WS!Init
<1> SUFFICES ASSUME Init PROVE WS!Init
  OBVIOUS
<1>1. CASE nodes = [t \in Thread |-> {}]
  <2>1. Quitters = Thread /\ WS!Open = {}
    BY <1>1 DEF Init, Quitters, Quitting, WS!Open
  <2> QED BY <2>1 DEF Init, WS!Init, Quitters
<1>2. CASE nodes \in [Thread -> (SUBSET Node) \ {{}}]
  <2>1. \A t \in Thread : nodes[t] # {} /\ pc[t] = "loop"
    BY <1>2 DEF Init
  <2>2. Quitters = {}
    BY <2>1 DEF Quitters, Quitting
  <2> QED BY <2>2 DEF Init, WS!Init, Quitters
<1> QED BY <1>1, <1>2, PoolsAssumption DEF Init

LEMMA StepRefines == Inv /\ [Next]_vars => [WS!Next]_(WS!vars)
<1> SUFFICES ASSUME Inv, [Next]_vars PROVE [WS!Next]_(WS!vars)
  OBVIOUS
<1>1. ASSUME NEW t \in Thread, Step(t) PROVE [WS!Next]_(WS!vars)
  BY <1>1, BranchRefines, DonateRefines, ReceiveRefines, OthersRefine
     DEF Step, Schedule, WS!Next
<1>2. ASSUME NEW t \in Thread, SpuriousWakeup(t) PROVE [WS!Next]_(WS!vars)
  BY <1>2, OthersRefine
<1>3. CASE UNCHANGED vars
  BY <1>3 DEF vars, WS!vars, Quitting
<1> QED BY <1>1, <1>2, <1>3 DEF Next

----------------------------------------------------------------------------
THEOREM InvHolds == Spec => []Inv
BY InitInv, StepInv, PTL DEF Spec

\* The counter of waiting threads stays between zero and their number, and the mutex
\* has one holder at most.
THEOREM TypeOKHolds == Spec => []TypeOK
<1>1. Inv => TypeOK
  BY DEF Inv
<1> QED BY <1>1, InvHolds, PTL

\* Nobody returns from schedule with nothing while a node is in a container or in the
\* queue, although the counter that decides it is raised outside the mutex.
THEOREM QuitOnlyWhenDoneHolds == Spec => []QuitOnlyWhenDone
<1>1. Inv => QuitOnlyWhenDone
  <2> SUFFICES ASSUME Inv, NEW t \in Thread, Quitting(t)
               PROVE  WS!Open = {}
    BY DEF QuitOnlyWhenDone, WS!QuitOnlyWhenDone
  <2>1. NothingOpen
    BY DEF Inv, InUse, Unused, Over
  <2> QED BY <2>1 DEF WS!Open, NothingOpen
<1> QED BY <1>1, InvHolds, PTL

\* A sleeping thread whose predicate has become true has been notified, or somebody is
\* on the way to notify it: donors notify under the mutex, and the last thread to
\* enlist looks at the predicate itself.
THEOREM NoMissedWakeupHolds == Spec => []NoMissedWakeup
<1>1. Inv => NoMissedWakeup
  BY DEF Inv, SleepersAreDue, NoMissedWakeup, MayProceed
<1> QED BY <1>1, InvHolds, PTL

\* The scheduler does nothing that WorkSharing does not allow, for any number of
\* threads: the safety part of ImplementsWorkSharing.
THEOREM RefinesWorkSharing == Spec => WS!Init /\ [][WS!Next]_(WS!vars)
BY InitRefines, StepRefines, InvHolds, PTL DEF Spec
=============================================================================
