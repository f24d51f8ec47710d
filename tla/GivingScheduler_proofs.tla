----------------------- MODULE GivingScheduler_proofs -----------------------
(***************************************************************************)
(* GivingScheduler retires no thread while a node is open, for any number  *)
(* of threads, any limits and any forest of nodes; and its counter never   *)
(* wraps.                                                                  *)
(***************************************************************************)
EXTENDS GivingScheduler, FiniteSetTheorems, TLAPS

\* The threads that num_working_threads does not count, and those it counts.
Waiting == {t \in Thread : pc[t] \in {"sleep", "woken"}}
Working == Thread \ Waiting

NothingOpen == queue_sets = {} /\ \A t \in Thread : nodes[t] = {}

\* Whoever asks for nodes has none.
AskersAreDry ==
  \A t \in Thread : pc[t] \in {"enlist", "sleep", "woken", "exit"} => nodes[t] = {}

\* The scheduler goes through one of these: nothing was dealt out, and it is never
\* called; threads are working, and the counter says how many; the last thread has run
\* dry, and the others follow it.
Unused ==
  /\ NothingOpen
  /\ \A t \in Thread : pc[t] \in {"loop", "exit"}

InUse ==
  /\ num_working_threads = Cardinality(Working) /\ num_working_threads > 0
  /\ \A t \in Thread : ~Quitting(t)

Over ==
  /\ NothingOpen
  /\ num_working_threads = 0
  /\ \A t \in Thread : pc[t] \in {"sleep", "woken", "loop", "exit"}

Inv == TypeOK /\ AskersAreDry /\ (Unused \/ InUse \/ Over)

----------------------------------------------------------------------------
(* Counting.                                                               *)

LEMMA CountType ==
  \A S \in SUBSET Thread :
    Cardinality(S) \in 0..NumThreads /\ (Cardinality(S) = 0 <=> S = {})
<1> TAKE S \in SUBSET Thread
<1>1. IsFiniteSet(S) /\ Cardinality(S) <= NumThreads
  BY WorkAssumption, FS_Subset DEF NumThreads
<1>2. Cardinality(S) \in Nat /\ NumThreads \in Nat
  BY <1>1, WorkAssumption, FS_CardinalityType DEF NumThreads
<1>3. Cardinality(S) = 0 <=> S = {}
  BY <1>1, FS_EmptySet
<1> QED BY <1>1, <1>2, <1>3

LEMMA CountLess ==
  ASSUME NEW S \in SUBSET Thread, NEW t \in S
  PROVE  Cardinality(S \ {t}) = Cardinality(S) - 1
<1>1. IsFiniteSet(S)
  BY WorkAssumption, FS_Subset
<1> QED BY <1>1, FS_RemoveElement

LEMMA CountMore ==
  ASSUME NEW S \in SUBSET Thread, NEW t \in Thread \ S
  PROVE  Cardinality(S \cup {t}) = Cardinality(S) + 1
<1>1. IsFiniteSet(S)
  BY WorkAssumption, FS_Subset
<1> QED BY <1>1, FS_AddElement

LEMMA ThreadCount == NumThreads \in Nat /\ NumThreads > 0
<1>1. Thread \in SUBSET Thread /\ Thread # {}
  BY WorkAssumption
<1> QED BY <1>1, CountType DEF NumThreads

\* Something is picked from a container that is not empty.
LEMMA UpToMinNonEmpty ==
  ASSUME NEW S, NEW T \in UpToMin(S)
  PROVE  T \subseteq S /\ (S # {} => T # {})
<1>1. Cardinality({}) = 0
  BY FS_EmptySet
<1> QED BY <1>1, MinNodesAssumption DEF UpToMin

----------------------------------------------------------------------------
LEMMA InitInv == Init => Inv
<1> SUFFICES ASSUME Init PROVE Inv
  OBVIOUS
<1>1. nodes \in [Thread -> SUBSET Node]
  BY PoolsAssumption DEF Init
<1>2. TypeOK
  BY <1>1, ThreadCount DEF Init, TypeOK, Label
<1>3. AskersAreDry
  BY DEF Init, AskersAreDry
<1>4. CASE nodes = [t \in Thread |-> {}]
  <2>1. Unused
    BY <1>4 DEF Init, Unused, NothingOpen
  <2> QED BY <1>2, <1>3, <2>1 DEF Inv
<1>5. CASE nodes \in [Thread -> (SUBSET Node) \ {{}}]
  <2>1. Working = Thread
    BY DEF Init, Working, Waiting
  <2>2. \A t \in Thread : ~Quitting(t)
    BY <1>5 DEF Init, Quitting
  <2>3. InUse
    BY <2>1, <2>2, ThreadCount DEF Init, InUse, NumThreads
  <2> QED BY <1>2, <1>3, <2>3 DEF Inv
<1> QED BY <1>4, <1>5, PoolsAssumption DEF Init

\* While a thread is about to branch, to look at its container or to enlist, the
\* scheduler is in use.
LEMMA BusyMeansInUse ==
  ASSUME Inv, NEW t \in Thread,
         pc[t] \in {"schedule", "enlist"} \/ (pc[t] = "loop" /\ nodes[t] # {})
  PROVE  InUse
BY DEF Inv, Unused, Over, NothingOpen

LEMMA BranchInv ==
  ASSUME Inv, NEW t \in Thread, Branch(t)
  PROVE  Inv' /\ InUse'
<1>0. InUse
  BY BusyMeansInUse DEF Branch
<1>1. TypeOK'
  <2>1. PICK n \in nodes[t] : \E new \in SUBSET Offspring[n] :
          nodes' = [nodes EXCEPT ![t] = (@ \ {n}) \cup new]
    BY DEF Branch
  <2>2. PICK new \in SUBSET Offspring[n] :
          nodes' = [nodes EXCEPT ![t] = (@ \ {n}) \cup new]
    BY <2>1
  <2>3. n \in Node /\ new \subseteq Node /\ nodes[t] \subseteq Node
    BY WorkAssumption DEF Inv, TypeOK
  <2>4. nodes' \in [Thread -> SUBSET Node]
    BY <2>2, <2>3 DEF Inv, TypeOK
  <2> QED BY <2>4 DEF Inv, TypeOK, Branch, Label
<1>2. AskersAreDry'
  BY DEF Inv, TypeOK, AskersAreDry, Branch
<1>3. Working' = Working
  BY DEF Inv, TypeOK, Working, Waiting, Branch
<1>4. \A u \in Thread : ~Quitting(u)'
  BY <1>0 DEF Inv, TypeOK, InUse, Quitting, Branch
<1>5. InUse'
  BY <1>0, <1>3, <1>4 DEF InUse, Branch
<1> QED BY <1>1, <1>2, <1>5 DEF Inv

LEMMA ExitInv ==
  ASSUME Inv, NEW t \in Thread, Exit(t)
  PROVE  Inv'
<1>1. TypeOK'
  BY DEF Inv, TypeOK, Exit, Label
<1>2. AskersAreDry'
  BY DEF Inv, TypeOK, AskersAreDry, Exit
<1>3. ~InUse
  BY DEF InUse, Quitting, Exit
<1>4. Unused' \/ Over'
  BY <1>3 DEF Inv, TypeOK, Unused, Over, NothingOpen, Exit
<1> QED BY <1>1, <1>2, <1>4 DEF Inv

LEMMA KeepInv ==
  ASSUME Inv, NEW t \in Thread, Keep(t)
  PROVE  Inv' /\ InUse'
<1>0. InUse
  BY BusyMeansInUse DEF Keep
<1>1. TypeOK'
  BY DEF Inv, TypeOK, Keep, Onward, Label
<1>2. AskersAreDry'
  BY DEF Inv, TypeOK, AskersAreDry, Keep, Onward
<1>3. Working' = Working
  BY DEF Inv, TypeOK, Working, Waiting, Keep, Onward
<1>4. \A u \in Thread : ~Quitting(u)'
  BY <1>0 DEF Inv, TypeOK, InUse, Quitting, Keep, Onward
<1>5. InUse'
  BY <1>0, <1>3, <1>4 DEF InUse, Keep
<1> QED BY <1>1, <1>2, <1>5 DEF Inv

LEMMA GiveInv ==
  ASSUME Inv, NEW t \in Thread, Give(t)
  PROVE  Inv' /\ InUse'
<1>0. InUse
  BY BusyMeansInUse DEF Give
<1>1. PICK keep \in UpToMin(nodes[t]) :
        /\ queue_sets' = queue_sets \cup (nodes[t] \ keep)
        /\ nodes' = [nodes EXCEPT ![t] = Pop(@, @ \ keep)]
        /\ pc' = NotifyAll([pc EXCEPT ![t] = Onward(nodes'[t])])
  BY DEF Give
<1>2. nodes[t] # {}
  <2>1. Cardinality({}) = 0
    BY FS_EmptySet
  <2> QED BY <2>1, LimitsAssumption DEF Give
<1>3. keep \subseteq nodes[t] /\ keep # {}
  BY <1>2, UpToMinNonEmpty
<1>4. nodes' = [nodes EXCEPT ![t] = keep]
  BY <1>1, <1>3 DEF Pop, Inv, TypeOK
<1>5. nodes'[t] = keep
  BY <1>4 DEF Inv, TypeOK
<1>6. pc' = [u \in Thread |-> IF u = t THEN "loop"
                              ELSE IF pc[u] = "sleep" THEN "woken" ELSE pc[u]]
  BY <1>1, <1>3, <1>5 DEF NotifyAll, Onward, Inv, TypeOK
<1>7. pc[t] = "schedule"
  BY DEF Give
<1>8. TypeOK'
  <2>1. nodes' \in [Thread -> SUBSET Node] /\ queue_sets' \subseteq Node
    BY <1>1, <1>3, <1>4 DEF Inv, TypeOK
  <2>2. pc' \in [Thread -> Label]
    BY <1>6 DEF Inv, TypeOK, Label
  <2> QED BY <2>1, <2>2 DEF Inv, TypeOK, Give
<1>9. AskersAreDry'
  BY <1>4, <1>6 DEF Inv, TypeOK, AskersAreDry
<1>10. Working' = Working
  BY <1>6, <1>7 DEF Working, Waiting
<1>11. \A u \in Thread : ~Quitting(u)'
  BY <1>0, <1>3, <1>4, <1>6 DEF Inv, TypeOK, InUse, Quitting
<1>12. InUse'
  BY <1>0, <1>10, <1>11 DEF InUse, Give
<1> QED BY <1>8, <1>9, <1>12 DEF Inv

----------------------------------------------------------------------------
(* The wait, which Enlist and Resume end in.                               *)

\* There are nodes on offer: the thread takes some and is counted again.
LEMMA FetchSome ==
  ASSUME Inv, InUse, NEW t \in Thread, nodes[t] = {}, queue_sets # {},
         NEW working, Fetch(t, working),
         pc[t] \in {"enlist", "woken"},
         working = Cardinality(Working \ {t})
  PROVE  Inv' /\ InUse'
<1>1. PICK taken \in UpToMin(queue_sets) :
        /\ queue_sets' = Pop(queue_sets, taken)
        /\ nodes' = [nodes EXCEPT ![t] = @ \cup taken]
        /\ LET returned == [pc EXCEPT ![t] = "loop"]
           IN IF nodes'[t] = {} /\ working = 0
              THEN pc' = NotifyAll(returned) /\ num_working_threads' = working
              ELSE pc' = returned /\ num_working_threads' = Increment(working)
  BY DEF Fetch
<1>2. taken \subseteq queue_sets /\ taken # {}
  BY UpToMinNonEmpty
<1>3. nodes' = [nodes EXCEPT ![t] = taken] /\ nodes'[t] = taken
  BY <1>1 DEF Inv, TypeOK
<1>4. pc' = [pc EXCEPT ![t] = "loop"] /\ num_working_threads' = Increment(working)
  BY <1>1, <1>2, <1>3
<1>5. Working' = (Working \ {t}) \cup {t}
  BY <1>4 DEF Working, Waiting, Inv, TypeOK
<1>6. Cardinality(Working') = working + 1 /\ working + 1 \in 1..NumThreads
  <2>1. Working \ {t} \in SUBSET Thread /\ t \in Thread \ (Working \ {t})
    BY DEF Working
  <2>2. Cardinality(Working') = working + 1
    BY <2>1, <1>5, CountMore
  <2>3. Working' \in SUBSET Thread
    BY <1>5 DEF Working
  <2>4. Cardinality(Working') \in 0..NumThreads /\ working \in 0..NumThreads
    BY <2>1, <2>3, CountType
  <2> QED BY <2>2, <2>4, ThreadCount
<1>7. num_working_threads' = working + 1
  BY <1>4, <1>6, LimitsAssumption, ThreadCount DEF Increment
<1>8. TypeOK'
  <2>1. nodes' \in [Thread -> SUBSET Node] /\ queue_sets' \subseteq Node
    BY <1>1, <1>2, <1>3 DEF Inv, TypeOK, Pop
  <2>2. pc' \in [Thread -> Label]
    BY <1>4 DEF Inv, TypeOK, Label
  <2>3. num_working_threads' \in 0..NumThreads
    BY <1>6, <1>7, ThreadCount
  <2> QED BY <2>1, <2>2, <2>3 DEF TypeOK
<1>9. AskersAreDry'
  BY <1>3, <1>4 DEF Inv, TypeOK, AskersAreDry
<1>10. \A u \in Thread : ~Quitting(u)'
  BY <1>2, <1>3, <1>4 DEF Inv, TypeOK, InUse, Quitting
<1>11. InUse'
  BY <1>6, <1>7, <1>10, ThreadCount DEF InUse
<1> QED BY <1>8, <1>9, <1>11 DEF Inv

\* There is nothing on offer, nor anybody left who works: the thread is sent home, and
\* those who wait are woken.
LEMMA FetchNone ==
  ASSUME Inv, NEW t \in Thread, Fetch(t, 0), NothingOpen,
         \A u \in Thread : u # t => pc[u] \in {"sleep", "woken", "loop", "exit"}
  PROVE  Inv'
<1>1. PICK taken \in UpToMin(queue_sets) :
        /\ queue_sets' = Pop(queue_sets, taken)
        /\ nodes' = [nodes EXCEPT ![t] = @ \cup taken]
        /\ LET returned == [pc EXCEPT ![t] = "loop"]
           IN IF nodes'[t] = {} /\ 0 = 0
              THEN pc' = NotifyAll(returned) /\ num_working_threads' = 0
              ELSE pc' = returned /\ num_working_threads' = Increment(0)
  BY DEF Fetch
<1>2. taken = {}
  BY UpToMinNonEmpty DEF NothingOpen
<1>3. nodes' = nodes /\ queue_sets' = {} /\ nodes'[t] = {}
  BY <1>1, <1>2 DEF Inv, TypeOK, NothingOpen, Pop
<1>4. pc' = [u \in Thread |-> IF u = t THEN "loop"
                              ELSE IF pc[u] = "sleep" THEN "woken" ELSE pc[u]]
  BY <1>1, <1>3 DEF NotifyAll, Inv, TypeOK
<1>5. num_working_threads' = 0
  BY <1>1, <1>3
<1>6. TypeOK'
  <2>1. pc' \in [Thread -> Label]
    BY <1>4 DEF Inv, TypeOK, Label
  <2> QED BY <2>1, <1>3, <1>5, ThreadCount DEF Inv, TypeOK
<1>7. AskersAreDry'
  BY <1>3 DEF AskersAreDry, NothingOpen
<1>8. Over'
  BY <1>3, <1>4, <1>5 DEF Over, NothingOpen
<1> QED BY <1>6, <1>7, <1>8 DEF Inv

LEMMA EnlistCount ==
  ASSUME Inv, NEW t \in Thread, Enlist(t)
  PROVE  /\ InUse /\ pc[t] = "enlist" /\ nodes[t] = {}
         /\ t \in Working /\ Working \in SUBSET Thread
         /\ Decrement(num_working_threads) = Cardinality(Working \ {t})
         /\ Decrement(num_working_threads) \in 0..NumThreads
<1>1. InUse /\ pc[t] = "enlist"
  BY BusyMeansInUse DEF Enlist
<1>2. nodes[t] = {}
  BY <1>1 DEF Inv, AskersAreDry
<1>3. t \in Working /\ Working \in SUBSET Thread
  BY <1>1 DEF Working, Waiting
<1>4. Decrement(num_working_threads) = num_working_threads - 1
  BY <1>1 DEF InUse, Decrement, Inv, TypeOK
<1>5. Decrement(num_working_threads) = Cardinality(Working \ {t})
  BY <1>1, <1>3, <1>4, CountLess DEF InUse
<1>6. Decrement(num_working_threads) \in 0..NumThreads
  BY <1>3, <1>5, CountType
<1> QED BY <1>1, <1>2, <1>3, <1>5, <1>6

\* Nobody else is working when the counter reaches zero with an empty queue.
LEMMA LastToEnlist ==
  ASSUME Inv, NEW t \in Thread, Enlist(t),
         queue_sets = {}, Decrement(num_working_threads) = 0
  PROVE  NothingOpen /\ \A u \in Thread : u # t => pc[u] \in {"sleep", "woken"}
<1>1. Working \ {t} = {}
  BY EnlistCount, CountType
<1>2. \A u \in Thread : u # t => pc[u] \in {"sleep", "woken"}
  BY <1>1 DEF Working, Waiting
<1>3. NothingOpen
  BY <1>2, EnlistCount DEF NothingOpen, Inv, AskersAreDry
<1> QED BY <1>2, <1>3

LEMMA EnlistInv ==
  ASSUME Inv, NEW t \in Thread, Enlist(t)
  PROVE  Inv'
<1> DEFINE working == Decrement(num_working_threads)
<1>1. InUse /\ pc[t] = "enlist" /\ nodes[t] = {} /\ working = Cardinality(Working \ {t})
  BY EnlistCount
<1>2. Await(t, working)
  BY DEF Enlist
<1>3. CASE queue_sets # {}
  <2>1. Fetch(t, working)
    BY <1>2, <1>3 DEF Await
  <2> HIDE DEF working
  <2> QED BY <1>1, <1>3, <2>1, FetchSome
<1>4. CASE queue_sets = {} /\ working = 0
  <2>1. Fetch(t, 0)
    BY <1>2, <1>4 DEF Await
  <2> QED BY <2>1, <1>4, LastToEnlist, FetchNone
<1>5. CASE queue_sets = {} /\ working # 0
  <2>1. /\ pc' = [pc EXCEPT ![t] = "sleep"]
        /\ num_working_threads' = working
        /\ UNCHANGED <<nodes, queue_sets>>
    BY <1>2, <1>5 DEF Await
  <2>2. working \in 0..NumThreads
    BY EnlistCount
  <2>3. TypeOK'
    BY <2>1, <2>2 DEF Inv, TypeOK, Label
  <2>4. AskersAreDry'
    BY <2>1, <1>1 DEF Inv, TypeOK, AskersAreDry
  <2>5. Working' = Working \ {t}
    BY <2>1 DEF Inv, TypeOK, Working, Waiting
  <2>6. \A u \in Thread : ~Quitting(u)'
    BY <2>1, <1>1 DEF Inv, TypeOK, InUse, Quitting
  <2>7. InUse'
    <3> HIDE DEF working
    <3>1. num_working_threads' > 0
      BY <2>1, <2>2, <1>5, ThreadCount
    <3>2. num_working_threads' = Cardinality(Working')
      BY <2>1, <2>5, <1>1
    <3> QED BY <3>1, <3>2, <2>6 DEF InUse
  <2> QED BY <2>3, <2>4, <2>7 DEF Inv
<1> QED BY <1>3, <1>4, <1>5

LEMMA ResumeInv ==
  ASSUME Inv, NEW t \in Thread, Resume(t)
  PROVE  Inv'
<1>0. pc[t] = "woken" /\ Await(t, num_working_threads)
  BY DEF Resume
<1>1. nodes[t] = {}
  BY <1>0 DEF Inv, AskersAreDry
<1>2. CASE InUse
  <2>1. Working \ {t} = Working
    BY <1>0 DEF Working, Waiting
  <2>2. CASE queue_sets # {}
    <3>1. Fetch(t, num_working_threads)
      BY <1>0, <2>2 DEF Await
    <3> QED BY <1>0, <1>1, <1>2, <2>1, <2>2, <3>1, FetchSome DEF InUse
  <2>3. CASE queue_sets = {}
    <3>1. /\ pc' = [pc EXCEPT ![t] = "sleep"]
          /\ UNCHANGED <<nodes, queue_sets, num_working_threads>>
      BY <1>0, <1>2, <2>3 DEF Await, InUse
    <3>2. TypeOK'
      BY <3>1 DEF Inv, TypeOK, Label
    <3>3. AskersAreDry'
      BY <3>1, <1>1 DEF Inv, TypeOK, AskersAreDry
    <3>4. Working' = Working
      BY <3>1, <1>0 DEF Inv, TypeOK, Working, Waiting
    <3>5. \A u \in Thread : ~Quitting(u)'
      BY <3>1, <1>2 DEF Inv, TypeOK, InUse, Quitting
    <3>6. InUse'
      BY <3>1, <3>4, <3>5, <1>2 DEF InUse
    <3> QED BY <3>2, <3>3, <3>6 DEF Inv
  <2> QED BY <2>2, <2>3
<1>3. CASE Over
  <2>1. Fetch(t, 0) /\ NothingOpen
    BY <1>0, <1>3 DEF Over, Await
  <2> QED BY <1>3, <2>1, FetchNone DEF Over
<1> QED BY <1>0, <1>2, <1>3 DEF Inv, Unused

LEMMA SpuriousInv ==
  ASSUME Inv, NEW t \in Thread, SpuriousWakeup(t)
  PROVE  Inv'
<1>1. TypeOK'
  BY DEF Inv, TypeOK, SpuriousWakeup, Label
<1>2. AskersAreDry'
  BY DEF Inv, TypeOK, AskersAreDry, SpuriousWakeup
<1>3. ~Unused
  BY DEF Unused, SpuriousWakeup
<1>4. Working' = Working
  BY DEF Inv, TypeOK, Working, Waiting, SpuriousWakeup
<1>5. InUse => InUse'
  BY <1>4 DEF Inv, TypeOK, InUse, Quitting, SpuriousWakeup
<1>6. Over => Over'
  BY DEF Inv, TypeOK, Over, NothingOpen, SpuriousWakeup
<1> QED BY <1>1, <1>2, <1>3, <1>5, <1>6 DEF Inv

LEMMA StepInv == Inv /\ [Next]_vars => Inv'
<1> SUFFICES ASSUME Inv, [Next]_vars PROVE Inv'
  OBVIOUS
<1>1. ASSUME NEW t \in Thread, Step(t) PROVE Inv'
  BY <1>1, BranchInv, ExitInv, KeepInv, GiveInv, EnlistInv, ResumeInv DEF Step, Schedule
<1>2. ASSUME NEW t \in Thread, SpuriousWakeup(t) PROVE Inv'
  BY <1>2, SpuriousInv
<1>3. CASE UNCHANGED vars
  BY <1>3 DEF vars, Inv, TypeOK, AskersAreDry, Unused, InUse, Over, NothingOpen, Working,
              Waiting, Quitting
<1> QED BY <1>1, <1>2, <1>3 DEF Next

----------------------------------------------------------------------------
(* Every step is one of WorkSharing, or a stuttering step of it.           *)

Quitters == {t \in Thread : Quitting(t)}

LEMMA BranchRefines ==
  ASSUME Inv, NEW t \in Thread, Branch(t)
  PROVE  WS!Process(t)
<1>1. InUse /\ InUse'
  BY BranchInv, BusyMeansInUse DEF Branch
<1>2. Quitters = {} /\ Quitters' = {}
  BY <1>1 DEF InUse, Quitters
<1> QED BY <1>2 DEF WS!Process, Branch, Quitters

LEMMA ExitRefines ==
  ASSUME Inv, NEW t \in Thread, Exit(t)
  PROVE  UNCHANGED WS!vars
<1>1. \A u \in Thread : Quitting(u)' <=> Quitting(u)
  BY DEF Inv, TypeOK, Exit, Quitting
<1>2. Quitters' = Quitters
  BY <1>1 DEF Quitters
<1> QED BY <1>2 DEF WS!vars, Exit, Quitters

LEMMA KeepRefines ==
  ASSUME Inv, NEW t \in Thread, Keep(t)
  PROVE  UNCHANGED WS!vars
<1>1. InUse /\ InUse'
  BY KeepInv, BusyMeansInUse DEF Keep
<1>2. Quitters = {} /\ Quitters' = {}
  BY <1>1 DEF InUse, Quitters
<1> QED BY <1>2 DEF WS!vars, Keep, Quitters

\* A thread with no more than num_minimum_nodes nodes gives nothing away.
LEMMA GiveRefines ==
  ASSUME Inv, NEW t \in Thread, Give(t)
  PROVE  WS!Offer(t) \/ UNCHANGED WS!vars
<1>1. InUse /\ InUse'
  BY GiveInv, BusyMeansInUse DEF Give
<1>2. Quitters = {} /\ Quitters' = {}
  BY <1>1 DEF InUse, Quitters
<1>3. PICK keep \in UpToMin(nodes[t]) :
        /\ queue_sets' = queue_sets \cup (nodes[t] \ keep)
        /\ nodes' = [nodes EXCEPT ![t] = Pop(@, @ \ keep)]
  BY DEF Give
<1>4. nodes[t] # {}
  <2>1. Cardinality({}) = 0
    BY FS_EmptySet
  <2> QED BY <2>1, LimitsAssumption DEF Give
<1>5. keep \subseteq nodes[t] /\ keep # {}
  BY <1>4, UpToMinNonEmpty
<1> DEFINE given == nodes[t] \ keep
<1>6. queue_sets' = queue_sets \cup given /\ nodes' = [nodes EXCEPT ![t] = @ \ given]
  BY <1>3 DEF Pop, Inv, TypeOK
<1>7. CASE given = {}
  <2>1. nodes' = nodes /\ queue_sets' = queue_sets
    BY <1>6, <1>7 DEF Inv, TypeOK
  <2> QED BY <2>1, <1>2 DEF WS!vars, Quitters
<1>8. CASE given # {}
  <2>1. given \in (SUBSET nodes[t]) \ {{}, nodes[t]}
    BY <1>5, <1>8
  <2> HIDE DEF given
  <2> QED BY <2>1, <1>2, <1>6 DEF WS!Offer, Quitters
<1> QED BY <1>7, <1>8

\* A thread that finds nodes takes some of them.
LEMMA FetchTakes ==
  ASSUME Inv, InUse, InUse', NEW t \in Thread, nodes[t] = {}, queue_sets # {},
         NEW working, Fetch(t, working)
  PROVE  WS!Take(t)
<1>1. PICK taken \in UpToMin(queue_sets) :
        /\ queue_sets' = Pop(queue_sets, taken)
        /\ nodes' = [nodes EXCEPT ![t] = @ \cup taken]
  BY DEF Fetch
<1>2. taken \in (SUBSET queue_sets) \ {{}}
  BY UpToMinNonEmpty
<1>3. nodes' = [nodes EXCEPT ![t] = taken] /\ queue_sets' = queue_sets \ taken
  BY <1>1 DEF Pop, Inv, TypeOK
<1>4. Quitters = {} /\ Quitters' = {}
  BY DEF InUse, Quitters
<1> QED BY <1>2, <1>3, <1>4 DEF WS!Take, Quitters

\* A thread that finds neither nodes nor anybody working is sent home.
LEMMA FetchQuits ==
  ASSUME Inv, NEW t \in Thread, Fetch(t, 0), NothingOpen, pc[t] \in {"enlist", "woken"}
  PROVE  WS!Quit(t)
<1>1. PICK taken \in UpToMin(queue_sets) :
        /\ queue_sets' = Pop(queue_sets, taken)
        /\ nodes' = [nodes EXCEPT ![t] = @ \cup taken]
        /\ LET returned == [pc EXCEPT ![t] = "loop"]
           IN IF nodes'[t] = {} /\ 0 = 0
              THEN pc' = NotifyAll(returned) /\ num_working_threads' = 0
              ELSE pc' = returned /\ num_working_threads' = Increment(0)
  BY DEF Fetch
<1>2. taken = {}
  BY UpToMinNonEmpty DEF NothingOpen
<1>3. nodes' = nodes /\ queue_sets' = queue_sets /\ nodes'[t] = {}
  BY <1>1, <1>2 DEF Inv, TypeOK, NothingOpen, Pop
<1>4. pc' = [u \in Thread |-> IF u = t THEN "loop"
                              ELSE IF pc[u] = "sleep" THEN "woken" ELSE pc[u]]
  BY <1>1, <1>3 DEF NotifyAll, Inv, TypeOK
<1>5. \A u \in Thread : Quitting(u)' <=> (u = t \/ Quitting(u))
  BY <1>3, <1>4 DEF Quitting, NothingOpen
<1>6. Quitters' = Quitters \cup {t} /\ t \notin Quitters
  BY <1>5 DEF Quitters, Quitting
<1>7. WS!Open = {}
  BY DEF WS!Open, NothingOpen
<1> QED BY <1>3, <1>6, <1>7 DEF WS!Quit, Quitters

\* A thread that goes to sleep changes nothing that others can see.
LEMMA SleepRefines ==
  ASSUME Inv, NEW t \in Thread, pc[t] \in {"enlist", "woken"},
         pc' = [pc EXCEPT ![t] = "sleep"], UNCHANGED <<nodes, queue_sets>>
  PROVE  UNCHANGED WS!vars
<1>1. \A u \in Thread : Quitting(u)' <=> Quitting(u)
  BY DEF Inv, TypeOK, Quitting
<1>2. Quitters' = Quitters
  BY <1>1 DEF Quitters
<1> QED BY <1>2 DEF WS!vars, Quitters
LEMMA EnlistRefines ==
  ASSUME Inv, NEW t \in Thread, Enlist(t)
  PROVE  WS!Take(t) \/ WS!Quit(t) \/ UNCHANGED WS!vars
<1> DEFINE working == Decrement(num_working_threads)
<1>1. InUse /\ pc[t] = "enlist" /\ nodes[t] = {} /\ working = Cardinality(Working \ {t})
  BY EnlistCount
<1>2. Await(t, working)
  BY DEF Enlist
<1> HIDE DEF working
<1>3. CASE queue_sets # {}
  <2>1. Fetch(t, working)
    BY <1>2, <1>3 DEF Await
  <2>2. InUse'
    BY <1>1, <1>3, <2>1, FetchSome
  <2> QED BY <1>1, <1>3, <2>1, <2>2, FetchTakes
<1>4. CASE queue_sets = {} /\ working = 0
  <2>1. Fetch(t, 0)
    BY <1>2, <1>4 DEF Await
  <2>2. NothingOpen
    BY <1>4, LastToEnlist DEF working
  <2> QED BY <1>1, <2>1, <2>2, FetchQuits
<1>5. CASE queue_sets = {} /\ working # 0
  BY <1>1, <1>2, <1>5, SleepRefines DEF Await
<1> QED BY <1>3, <1>4, <1>5

LEMMA ResumeRefines ==
  ASSUME Inv, NEW t \in Thread, Resume(t)
  PROVE  WS!Take(t) \/ WS!Quit(t) \/ UNCHANGED WS!vars
<1>1. pc[t] = "woken" /\ Await(t, num_working_threads)
  BY DEF Resume
<1>2. nodes[t] = {}
  BY <1>1 DEF Inv, AskersAreDry
<1>3. CASE InUse /\ queue_sets # {}
  <2>1. Fetch(t, num_working_threads)
    BY <1>1, <1>3 DEF Await
  <2>2. Working \ {t} = Working
    BY <1>1 DEF Working, Waiting
  <2>3. InUse'
    BY <1>1, <1>2, <1>3, <2>1, <2>2, FetchSome DEF InUse
  <2> QED BY <1>2, <1>3, <2>1, <2>3, FetchTakes
<1>4. CASE InUse /\ queue_sets = {}
  BY <1>1, <1>4, SleepRefines DEF Await, InUse
<1>5. CASE Over
  <2>1. Fetch(t, 0) /\ NothingOpen
    BY <1>1, <1>5 DEF Over, Await
  <2> QED BY <1>1, <2>1, FetchQuits
<1> QED BY <1>1, <1>3, <1>4, <1>5 DEF Inv, Unused

LEMMA SpuriousRefines ==
  ASSUME Inv, NEW t \in Thread, SpuriousWakeup(t)
  PROVE  UNCHANGED WS!vars
<1>1. \A u \in Thread : Quitting(u)' <=> Quitting(u)
  BY DEF Inv, TypeOK, SpuriousWakeup, Quitting
<1>2. Quitters' = Quitters
  BY <1>1 DEF Quitters
<1> QED BY <1>2 DEF WS!vars, SpuriousWakeup, Quitters

LEMMA InitRefines == Init => WS!Init
<1> SUFFICES ASSUME Init PROVE WS!Init
  OBVIOUS
<1>1. CASE nodes = [t \in Thread |-> {}]
  <2>1. Quitters = Thread /\ WS!Open = {}
    BY <1>1 DEF Init, Quitters, Quitting, WS!Open
  <2> QED BY <2>1 DEF Init, WS!Init, Quitters
<1>2. CASE nodes \in [Thread -> (SUBSET Node) \ {{}}]
  <2>1. Quitters = {}
    BY <1>2 DEF Init, Quitters, Quitting
  <2> QED BY <2>1 DEF Init, WS!Init, Quitters
<1> QED BY <1>1, <1>2, PoolsAssumption DEF Init

LEMMA StepRefines == Inv /\ [Next]_vars => [WS!Next]_(WS!vars)
<1> SUFFICES ASSUME Inv, [Next]_vars PROVE [WS!Next]_(WS!vars)
  OBVIOUS
<1>1. ASSUME NEW t \in Thread, Step(t) PROVE [WS!Next]_(WS!vars)
  BY <1>1, BranchRefines, ExitRefines, KeepRefines, GiveRefines, EnlistRefines, ResumeRefines
     DEF Step, Schedule, WS!Next
<1>2. ASSUME NEW t \in Thread, SpuriousWakeup(t) PROVE [WS!Next]_(WS!vars)
  BY <1>2, SpuriousRefines
<1>3. CASE UNCHANGED vars
  BY <1>3 DEF vars, WS!vars, Quitting
<1> QED BY <1>1, <1>2, <1>3 DEF Next

----------------------------------------------------------------------------
THEOREM InvHolds == Spec => []Inv
BY InitInv, StepInv, PTL DEF Spec

\* The unsigned counter of working threads stays between zero and their number: it
\* never wraps, whoever is woken when and for what reason.
THEOREM TypeOKHolds == Spec => []TypeOK
<1>1. Inv => TypeOK
  BY DEF Inv
<1> QED BY <1>1, InvHolds, PTL

\* Nobody returns from schedule with nothing while a node is in a container or in the
\* queue, for any number of threads and any limits.
THEOREM QuitOnlyWhenDoneHolds == Spec => []QuitOnlyWhenDone
<1>1. Inv => QuitOnlyWhenDone
  <2> SUFFICES ASSUME Inv, NEW t \in Thread, Quitting(t)
               PROVE  WS!Open = {}
    BY DEF QuitOnlyWhenDone, WS!QuitOnlyWhenDone
  <2>1. NothingOpen
    BY DEF Inv, InUse, Unused, Over
  <2> QED BY <2>1 DEF WS!Open, NothingOpen
<1> QED BY <1>1, InvHolds, PTL

\* The scheduler does nothing that WorkSharing does not allow, for any number of
\* threads: the safety part of ImplementsWorkSharing.
THEOREM RefinesWorkSharing == Spec => WS!Init /\ [][WS!Next]_(WS!vars)
BY InitRefines, StepRefines, InvHolds, PTL DEF Spec
=============================================================================
