----------------------------- MODULE Pms_proofs -----------------------------
(***************************************************************************)
(* The campaign tool has collected the logs of exactly the runs that ended *)
(* well, for any settings, any number of runs and whatever the solvers log *)
(* and the timer does; and the report says of each task what its runs have *)
(* measured.                                                               *)
(***************************************************************************)
EXTENDS Pms, FiniteSetTheorems, TLAPS

(* The lemmas of TransformNode_proofs on finite sets and sums: they say    *)
(* nothing of the parameters of that module.                               *)
Data == INSTANCE TransformNode_proofs WITH
  Vertex <- {}, None <- 0, BigValue <- 1, Matrices <- {}, MinVal <- 0, MVal <- 0,
  MaxLevel <- 0, MaxIncluded <- 0, MaxExcluded <- 0,
  rows <- {}, cols <- {}, matrix <- <<>>, pc <- 0, dual_u <- 0, dual_v <- 0, primal <- 0,
  row_ <- 0, pred_ <- 0, pi <- 0, scanned_u <- {}, scanned_v <- {}, labeled_v <- {},
  root <- 0, i <- 0, j <- 0, original <- 0, included <- {}, excluded <- {}, level <- 0

\* Sequences of whatever there is.
IsSequence(s) == \E S : s \in Seq(S)

Shapes ==
  /\ solver = [phase |-> solver.phase, task |-> solver.task,
               code |-> solver.code, output |-> solver.output]
  /\ IsSequence(logs) /\ IsSequence(ended)

\* There is a solver only while the tool waits for it, and it is the one the tool has
\* started last.
Waiting ==
  /\ solver.phase # "none" => pc = "communicate"
  /\ pc \in {"communicate", "cancel", "collect"} => solver.task = Head(config_list)

\* What the tool is about to collect is what the solver that ended last has left.
ToCollect == solver.phase = "exited" \/ pc \in {"cancel", "collect"}

LastEnded ==
  ToCollect =>
    /\ Len(ended) > 0
    /\ ended[Len(ended)] = [task |-> solver.task, code |-> solver.code,
                            output |-> solver.output]

\* The logs are those of the good runs among the first n.
Accounted(n) ==
  /\ Len(logs) = Cardinality(Goods(n))
  /\ \A i \in Goods(n) :
       logs[Cardinality(Goods(i))] = [task_name |-> ended[i].task, output |-> ended[i].output]

Inv == Shapes /\ Waiting /\ LastEnded /\ Accounted(Through)

----------------------------------------------------------------------------
(* Sequences, and the good runs of one that grows.                         *)

LEMMA Appended ==
  ASSUME NEW s, IsSequence(s), NEW x
  PROVE  /\ IsSequence(Append(s, x)) /\ Len(s) \in Nat
         /\ Len(Append(s, x)) = Len(s) + 1
         /\ Append(s, x)[Len(s) + 1] = x
         /\ \A i \in 1 .. Len(s) : Append(s, x)[i] = s[i]
<1>1. PICK S : s \in Seq(S)
  BY DEF IsSequence
<1>2. s \in Seq(S \cup {x})
  BY <1>1
<1>3. Append(s, x) \in Seq(S \cup {x})
  BY <1>2
<1>4. IsSequence(Append(s, x))
  BY <1>3 DEF IsSequence
<1> QED BY <1>2, <1>4

LEMMA GoodsType ==
  ASSUME NEW n \in Nat
  PROVE  IsFiniteSet(Goods(n)) /\ Cardinality(Goods(n)) \in Nat
<1>1. IsFiniteSet(1 .. n) /\ Goods(n) \subseteq 1 .. n
  BY FS_Interval DEF Goods
<1> QED BY <1>1, FS_Subset, FS_CardinalityType

\* One run more is a good one or not.
LEMMA GoodsNext ==
  ASSUME NEW n \in Nat
  PROVE  /\ ~Good(n + 1) => Goods(n + 1) = Goods(n)
         /\ Good(n + 1) => /\ Goods(n + 1) = Goods(n) \cup {n + 1}
                           /\ Cardinality(Goods(n + 1)) = Cardinality(Goods(n)) + 1
<1>1. 1 .. n + 1 = (1 .. n) \cup {n + 1} /\ n + 1 \notin 1 .. n
  OBVIOUS
<1>2. ~Good(n + 1) => Goods(n + 1) = Goods(n)
  BY <1>1 DEF Goods
<1>3. ASSUME Good(n + 1) PROVE Goods(n + 1) = Goods(n) \cup {n + 1}
  BY <1>1, <1>3 DEF Goods
<1>4. n + 1 \notin Goods(n)
  BY <1>1 DEF Goods
<1> QED BY <1>2, <1>3, <1>4, GoodsType, FS_AddElement

\* A good run has a place of its own among the logs.
LEMMA GoodsPlace ==
  ASSUME NEW n \in Nat, NEW i \in Goods(n)
  PROVE  Cardinality(Goods(i)) \in 1 .. Cardinality(Goods(n))
<1>1. i \in 1 .. n /\ i \in Goods(i) /\ Goods(i) \subseteq Goods(n) /\ i \in Nat
  BY DEF Goods
<1>2. /\ IsFiniteSet(Goods(i)) /\ Cardinality(Goods(i)) \in Nat
      /\ IsFiniteSet(Goods(n)) /\ Cardinality(Goods(n)) \in Nat
  BY <1>1, GoodsType
<1>3. Cardinality(Goods(i)) <= Cardinality(Goods(n))
  BY <1>1, <1>2, FS_Subset
<1>4. Cardinality(Goods(i)) # 0
  BY <1>1, <1>2, FS_EmptySet
<1> QED BY <1>2, <1>3, <1>4

\* The same runs and the same logs.
LEMMA AccountedSame ==
  ASSUME NEW n, Accounted(n), UNCHANGED <<logs, ended>>
  PROVE  Accounted(n)'
BY DEF Accounted, Goods, Good

\* A run that is not among the first n does not matter to them.
LEMMA AccountedMore ==
  ASSUME NEW n \in Nat, IsSequence(ended), n <= Len(ended), Accounted(n), logs' = logs,
         NEW x, ended' = Append(ended, x)
  PROVE  Accounted(n)'
<1>1. \A i \in 1 .. n : ended'[i] = ended[i] /\ (Good(i)' <=> Good(i))
  BY Appended DEF Good
<1>2. Goods(n)' = Goods(n) /\ \A i \in 1 .. n : Goods(i)' = Goods(i)
  BY <1>1 DEF Goods
<1>3. Goods(n) \subseteq 1 .. n
  BY DEF Goods
<1> QED BY <1>1, <1>2, <1>3 DEF Accounted

\* A bad run has no log, a good one has the last.
LEMMA AccountedBad ==
  ASSUME NEW n \in Nat, Accounted(n), ~Good(n + 1), UNCHANGED <<logs, ended>>
  PROVE  Accounted(n + 1)'
<1>1. Accounted(n + 1)
  BY GoodsNext DEF Accounted
<1> QED BY <1>1, AccountedSame

LEMMA AccountedGood ==
  ASSUME NEW n \in Nat, IsSequence(logs), Accounted(n), Good(n + 1), ended' = ended,
         logs' = Append(logs, [task_name |-> ended[n + 1].task,
                               output |-> ended[n + 1].output])
  PROVE  Accounted(n + 1)'
<1>0. \A i : Goods(i)' = Goods(i)
  BY DEF Goods, Good
<1>1. /\ Goods(n + 1) = Goods(n) \cup {n + 1}
      /\ Cardinality(Goods(n + 1)) = Cardinality(Goods(n)) + 1
      /\ Len(logs) = Cardinality(Goods(n))
  BY GoodsNext DEF Accounted
<1>2. Len(logs') = Cardinality(Goods(n + 1))
  BY <1>1, Appended
<1>3. ASSUME NEW i \in Goods(n + 1)
      PROVE  logs'[Cardinality(Goods(i))] = [task_name |-> ended[i].task,
                                             output |-> ended[i].output]
  <2>1. CASE i = n + 1
    BY <1>1, <2>1, Appended
  <2>2. CASE i \in Goods(n)
    <3>1. Cardinality(Goods(i)) \in 1 .. Len(logs)
      BY <1>1, <2>2, GoodsPlace
    <3>2. logs'[Cardinality(Goods(i))] = logs[Cardinality(Goods(i))]
      BY <3>1, Appended
    <3> QED BY <2>2, <3>2 DEF Accounted
  <2> QED BY <1>1, <2>1, <2>2
<1> QED BY <1>0, <1>2, <1>3 DEF Accounted

----------------------------------------------------------------------------
(* Each step.                                                              *)

LEMMA InitInv == Init => Inv
<1> SUFFICES ASSUME Init PROVE Inv
  OBVIOUS
<1>1. << >> \in Seq({}) /\ Len(<< >>) = 0
  OBVIOUS
<1>2. Shapes
  BY <1>1 DEF Init, NoSolver, Shapes, IsSequence
<1>3. Waiting /\ LastEnded /\ Through = 0
  BY <1>1 DEF Init, NoSolver, Waiting, LastEnded, ToCollect, Through
<1>4. Goods(0) = {}
  BY DEF Goods
<1>5. Accounted(0)
  BY <1>1, <1>4, FS_EmptySet DEF Init, Accounted
<1> QED BY <1>2, <1>3, <1>5 DEF Inv

\* The tool goes from one thing to the next without a solver.
LEMMA MoveInv ==
  ASSUME Inv, UNCHANGED <<solver, logs, ended>>,
         pc \notin {"communicate", "cancel", "collect"},
         pc' \notin {"communicate", "cancel", "collect"}
  PROVE  Inv'
<1> USE DEF Inv
<1>1. solver.phase = "none"
  BY DEF Waiting
<1>2. Through' = Through
  BY <1>1 DEF Through
<1>3. Accounted(Through)'
  BY <1>2, AccountedSame
<1>4. Shapes' /\ Waiting' /\ LastEnded'
  BY <1>1 DEF Shapes, Waiting, LastEnded, ToCollect
<1> QED BY <1>3, <1>4

\* A new solver, which is given the configuration at the head of the list.
LEMMA RunTaskInv ==
  ASSUME Inv, RunTask
  PROVE  Inv'
<1> USE DEF Inv
<1>0. /\ pc = "task" /\ pc' = "communicate" /\ logs' = logs /\ ended' = ended
      /\ config_list' = config_list
      /\ solver' = [NoSolver EXCEPT !.phase = "starting", !.task = Head(config_list)]
  BY DEF RunTask, toolVars
<1>1. solver.phase = "none"
  BY <1>0 DEF Waiting
<1>2. solver' = [phase |-> "starting", task |-> Head(config_list),
                 code |-> 0, output |-> NoLog]
  BY <1>0 DEF NoSolver
<1>3. Through' = Through
  BY <1>0, <1>1, <1>2 DEF Through
<1>4. Accounted(Through)'
  BY <1>0, <1>3, AccountedSame
<1>5. Shapes'
  BY <1>0, <1>2 DEF Shapes
<1>6. Waiting' /\ LastEnded'
  BY <1>0, <1>2 DEF Waiting, LastEnded, ToCollect
<1> QED BY <1>4, <1>5, <1>6

\* The solver that has exited is reaped, and what it left is still to be collected.
LEMMA CommunicateInv ==
  ASSUME Inv, Communicate \/ Cancel
  PROVE  Inv'
<1> USE DEF Inv
<1>0. /\ ToCollect /\ pc' \in {"cancel", "collect"} /\ logs' = logs /\ ended' = ended
      /\ config_list' = config_list /\ pc \in {"communicate", "cancel", "collect"}
  BY DEF Communicate, Cancel, toolVars, ToCollect
<1>1. solver' = [phase |-> "none", task |-> solver.task,
                 code |-> solver.code, output |-> solver.output]
  <2>1. CASE Communicate
    BY <2>1 DEF Communicate, Shapes
  <2>2. CASE Cancel
    <3>1. solver.phase = "none" /\ solver' = solver
      BY <2>2 DEF Cancel, Waiting
    <3> QED BY <3>1 DEF Shapes
  <2> QED BY <2>1, <2>2
<1>2. Through' = Through
  BY <1>0 DEF Through, ToCollect
<1>3. Accounted(Through)'
  BY <1>0, <1>2, AccountedSame
<1>4. Shapes'
  BY <1>0, <1>1 DEF Shapes
<1>5. Waiting' /\ LastEnded'
  BY <1>0, <1>1 DEF Waiting, LastEnded, ToCollect
<1> QED BY <1>3, <1>4, <1>5

\* The log of the run that ended last is read if it ended well, and the tool fails if
\* there is none then.
LEMMA CollectInv ==
  ASSUME Inv, Collect
  PROVE  Inv'
<1> USE DEF Inv
<1>0. /\ pc = "collect" /\ pc' \in {"crashed", "task"} /\ ended' = ended /\ solver' = solver
      /\ config_list' = config_list
  BY DEF Collect
<1>1. ToCollect /\ solver.phase = "none" /\ solver.task = Head(config_list)
  BY <1>0 DEF ToCollect, Waiting
<1> PICK n : n = Through
  OBVIOUS
<1>2. /\ n \in Nat /\ Len(ended) = n + 1
      /\ ended[n + 1] = [task |-> solver.task, code |-> solver.code,
                         output |-> solver.output]
  <2>1. Len(ended) \in Nat
    BY Appended DEF Shapes
  <2> QED BY <1>1, <2>1 DEF LastEnded, Through, ToCollect
<1>3. Good(n + 1) <=> solver.code = 0 /\ solver.output # NoLog
  BY <1>2 DEF Good
<1>4. Through' = n + 1
  BY <1>0, <1>1, <1>2 DEF Through
<1>5. IsSequence(logs') /\ Accounted(n + 1)'
  <2>1. CASE Good(n + 1)
    <3>1. logs' = Append(logs, [task_name |-> ended[n + 1].task,
                                output |-> ended[n + 1].output])
      BY <1>1, <1>2, <1>3, <2>1 DEF Collect
    <3> QED BY <1>0, <1>2, <2>1, <3>1, Appended, AccountedGood DEF Shapes
  <2>2. CASE ~Good(n + 1)
    <3>1. logs' = logs
      BY <1>3, <2>2 DEF Collect
    <3> QED BY <1>0, <1>2, <2>2, <3>1, AccountedBad DEF Shapes
  <2> QED BY <2>1, <2>2
<1>6. Accounted(Through)'
  BY <1>4, <1>5
<1>7. Shapes'
  BY <1>0, <1>5 DEF Shapes
<1>8. Waiting' /\ LastEnded'
  BY <1>0, <1>1 DEF Waiting, LastEnded, ToCollect
<1> QED BY <1>6, <1>7, <1>8

\* A solver gets on: whether by itself or by a signal makes no difference here.
LEMMA EntersInv ==
  ASSUME Inv, Running, UNCHANGED <<toolVars, pc>>,
         NEW phase \in {"solving", "interrupted", "returned", "stuck"}, Enters(phase)
  PROVE  Inv'
<1> USE DEF Inv
<1>0. /\ logs' = logs /\ ended' = ended /\ config_list' = config_list /\ pc' = pc
      /\ pc = "communicate" /\ solver.phase # "exited"
  BY DEF Enters, toolVars, Waiting, Running
<1>1. solver' = [phase |-> phase, task |-> solver.task,
                 code |-> solver.code, output |-> solver.output]
  BY DEF Enters, Shapes
<1>2. Through' = Through
  BY <1>0, <1>1 DEF Through
<1>3. Accounted(Through)'
  BY <1>0, <1>2, AccountedSame
<1>4. Shapes'
  BY <1>0, <1>1 DEF Shapes
<1>5. Waiting' /\ LastEnded'
  BY <1>0, <1>1 DEF Waiting, LastEnded, ToCollect
<1> QED BY <1>3, <1>4, <1>5

LEMMA EndsInv ==
  ASSUME Inv, Running, UNCHANGED <<toolVars, pc>>,
         NEW code, NEW output, Ends(code, output)
  PROVE  Inv'
<1> USE DEF Inv
<1> PICK x : x = [task |-> solver.task, code |-> code, output |-> output]
  OBVIOUS
<1>0. /\ logs' = logs /\ ended' = Append(ended, x) /\ config_list' = config_list
      /\ pc' = pc /\ pc = "communicate" /\ solver.phase # "exited"
  BY DEF Ends, toolVars, Waiting, Running
<1>1. solver' = [phase |-> "exited", task |-> solver.task, code |-> code, output |-> output]
  BY DEF Ends, Shapes
<1>2. /\ Len(ended) \in Nat /\ Len(ended') = Len(ended) + 1 /\ IsSequence(ended')
      /\ ended'[Len(ended) + 1] = x
  BY <1>0, Appended DEF Shapes
<1>3. Through = Len(ended) /\ Through' = Len(ended)
  BY <1>0, <1>1, <1>2 DEF Through
<1>4. Accounted(Through)'
  <2> PICK n : n = Len(ended)
    OBVIOUS
  <2>1. Accounted(n)'
    BY <1>0, <1>2, <1>3, AccountedMore DEF Shapes
  <2> QED BY <1>3, <2>1
<1>5. Shapes'
  BY <1>0, <1>1, <1>2 DEF Shapes
<1>6. Waiting' /\ LastEnded'
  BY <1>0, <1>1, <1>2 DEF Waiting, LastEnded, ToCollect
<1> QED BY <1>4, <1>5, <1>6

\* Nothing changes but the timer.
LEMMA StutterInv ==
  ASSUME Inv, UNCHANGED <<toolVars, pc, solver, ended>>
  PROVE  Inv'
<1> USE DEF Inv
<1>1. UNCHANGED <<logs, ended>> /\ Through' = Through
  BY DEF toolVars, Through
<1>2. Accounted(Through)'
  BY <1>1, AccountedSame
<1> QED BY <1>1, <1>2 DEF toolVars, Shapes, Waiting, LastEnded, ToCollect

LEMMA ToolInv ==
  ASSUME Inv, Tool
  PROVE  Inv'
<1>1. CASE ReadSettings \/ WriteConfig \/ NextConfig \/ Save \/ MakeReport
  BY <1>1, MoveInv DEF ReadSettings, WriteConfig, NextConfig, Save, MakeReport
<1> QED BY <1>1, RunTaskInv, CommunicateInv, CollectInv DEF Tool

LEMMA SolverInv ==
  ASSUME Inv, Solver
  PROVE  Inv'
<1>1. UNCHANGED <<toolVars, pc>>
  BY DEF Solver
<1>2. CASE Install \/ Return \/ ReturnEarly \/ Strand
  BY <1>1, <1>2, EntersInv DEF Install, Return, ReturnEarly, Strand, Running
<1>3. CASE Exit
  BY <1>1, <1>3, EndsInv DEF Exit, Running
<1>4. CASE Fail
  BY <1>1, <1>4, EndsInv DEF Fail
<1> QED BY <1>2, <1>3, <1>4 DEF Solver

\* The signal of the timer ends a solver, interrupts it, or comes too late.
LEMMA TimerInv ==
  ASSUME Inv, Timer
  PROVE  Inv'
<1>1. CASE Expire
  BY <1>1, StutterInv DEF Expire
<1>2. CASE Terminate
  <2>1. UNCHANGED <<toolVars, pc>>
    BY <1>2 DEF Terminate
  <2>2. CASE solver.phase = "solving"
    BY <1>2, <2>1, <2>2, EntersInv DEF Terminate, Running
  <2>3. CASE solver.phase \in {"starting", "returned"}
    BY <1>2, <2>1, <2>3, EndsInv DEF Terminate, Running
  <2>4. CASE solver.phase \notin {"solving", "starting", "returned"}
    BY <1>2, <2>1, <2>4, StutterInv DEF Terminate
  <2> QED BY <2>2, <2>3, <2>4
<1> QED BY <1>1, <1>2 DEF Timer

LEMMA StepInv == Inv /\ [Next]_vars => Inv'
<1> SUFFICES ASSUME Inv, [Next]_vars PROVE Inv'
  OBVIOUS
<1>1. CASE UNCHANGED vars
  BY <1>1, StutterInv DEF vars
<1> QED BY <1>1, ToolInv, SolverInv, TimerInv DEF Next, Halted

\* What the tool has collected are the logs of exactly the runs that ended well, each
\* under the configuration its solver was given: it waits for the solver, and no signal
\* can make a solver leave two results or none.
THEOREM RunsAccountedHolds == Spec => []RunsAccounted
<1>1. Inv => RunsAccounted
  BY DEF Inv, Accounted, RunsAccounted
<1> QED
  BY InitInv, StepInv, <1>1, PTL DEF Spec

----------------------------------------------------------------------------
(* Sums and averages.                                                      *)

LEMMA SameFinite == \A S : Data!IsFiniteSet(S) <=> IsFiniteSet(S)
BY DEF Data!IsFiniteSet, IsFiniteSet

LEMMA SameSum == \A f, S : Data!SumFunctionOnSet(f, S) = SumFunctionOnSet(f, S)
BY DEF Data!SumFunctionOnSet, Data!FoldFunctionOnSet, Data!MapThenFoldSet,
       SumFunctionOnSet, FoldFunctionOnSet, MapThenFoldSet

LEMMA NoData ==
  Data!VertexAssumption /\ Data!BigAssumption /\ Data!MatrixAssumption /\ Data!LevelAssumption
<1>1. Data!IsFiniteSet({})
  BY FS_EmptySet, SameFinite
<1>2. Data!VertexAssumption /\ Data!BigAssumption
  BY DEF Data!VertexAssumption, Data!BigAssumption
<1>3. Data!MatrixAssumption /\ Data!LevelAssumption
  BY <1>1 DEF Data!MatrixAssumption, Data!LevelAssumption
<1> QED BY <1>2, <1>3

LEMMA InductionOnSubsets ==
  ASSUME NEW S, IsFiniteSet(S), NEW F,
         \A T \in SUBSET S : (\A x \in T : T \ {x} \in F) => T \in F
  PROVE  SUBSET S \subseteq F
BY Data!InductionOnSubsets, NoData, SameFinite

LEMMA SumStep ==
  ASSUME NEW S, IsFiniteSet(S), NEW f, \A x \in S : f[x] \in Int
  PROVE  /\ SumFunctionOnSet(f, S) \in Int
         /\ SumFunctionOnSet(f, {}) = 0
         /\ \A x \in S : SumFunctionOnSet(f, S) = f[x] + SumFunctionOnSet(f, S \ {x})
BY Data!SumStep, NoData, SameFinite, SameSum

\* A sum is as many times the least and the greatest of its terms as there are terms,
\* or something between the two.
LEMMA SumBetween ==
  ASSUME NEW S, IsFiniteSet(S), NEW f, NEW low \in Int, NEW high \in Int,
         \A x \in S : f[x] \in Int /\ low <= f[x] /\ f[x] <= high
  PROVE  /\ SumFunctionOnSet(f, S) \in Int /\ Cardinality(S) \in Nat
         /\ low * Cardinality(S) <= SumFunctionOnSet(f, S)
         /\ SumFunctionOnSet(f, S) <= high * Cardinality(S)
<1> DEFINE Sum(T) == SumFunctionOnSet(f, T)
           F == {T \in SUBSET S : low * Cardinality(T) <= Sum(T) /\ Sum(T) <= high * Cardinality(T)}
<1>1. \A T \in SUBSET S : IsFiniteSet(T) /\ Cardinality(T) \in Nat
  BY FS_Subset, FS_CardinalityType
<1>2. \A T \in SUBSET S : Sum(T) \in Int /\ Sum({}) = 0
                          /\ \A x \in T : Sum(T) = f[x] + Sum(T \ {x})
  BY <1>1, SumStep
<1> HIDE DEF Sum
<1>3. ASSUME NEW T \in SUBSET S, \A x \in T : T \ {x} \in F PROVE T \in F
  <2>1. CASE T = {}
    <3>1. Cardinality(T) = 0 /\ Sum(T) = 0
      BY <1>2, <2>1, FS_EmptySet
    <3> QED BY <3>1
  <2>2. CASE T # {}
    <3>1. PICK x \in T : TRUE
      BY <2>2
    <3> DEFINE c == Cardinality(T)
               d == Cardinality(T \ {x})
    <3>2. c \in Nat /\ d \in Nat /\ d = c - 1
      BY <1>1, FS_RemoveElement
    <3>3. low * d <= Sum(T \ {x}) /\ Sum(T \ {x}) <= high * d
      BY <1>3
    <3>4. /\ Sum(T) = f[x] + Sum(T \ {x}) /\ Sum(T) \in Int /\ Sum(T \ {x}) \in Int
          /\ f[x] \in Int /\ low <= f[x] /\ f[x] <= high
      BY <1>2
    <3> HIDE DEF c, d
    <3>5. low * d = low * c - low /\ high * d = high * c - high
      BY <3>2
    <3>6. low * c \in Int /\ high * c \in Int
      BY <3>2
    <3>7. low * c <= Sum(T) /\ Sum(T) <= high * c
      BY <3>3, <3>4, <3>5, <3>6
    <3> QED BY <3>7 DEF c
  <2> QED BY <2>1, <2>2
<1>4. SUBSET S \subseteq F
  <2> HIDE DEF F
  <2> QED BY <1>3, InductionOnSubsets
<1>5. S \in F
  BY <1>4
<1> QED BY <1>1, <1>2, <1>5 DEF Sum

LEMMA Extremes ==
  ASSUME NEW S, IsFiniteSet(S), S # {}, NEW f, \A x \in S : f[x] \in Int
  PROVE  \E m, n \in S : \A x \in S : f[m] <= f[x] /\ f[x] <= f[n]
<1> DEFINE Has(T) == \E m, n \in T : \A x \in T : f[m] <= f[x] /\ f[x] <= f[n]
           F == {T \in SUBSET S : T = {} \/ Has(T)}
<1>1. ASSUME NEW T \in SUBSET S, \A x \in T : T \ {x} \in F, T # {} PROVE Has(T)
  <2>1. PICK x \in T : TRUE
    BY <1>1
  <2>2. CASE T \ {x} = {}
    <3>1. T = {x}
      BY <2>1, <2>2
    <3> QED BY <3>1
  <2>3. CASE T \ {x} # {}
    <3>1. Has(T \ {x})
      BY <1>1, <2>3
    <3>2. PICK m, n \in T \ {x} : \A y \in T \ {x} : f[m] <= f[y] /\ f[y] <= f[n]
      BY <3>1
    <3>3. f[m] \in Int /\ f[n] \in Int /\ \A y \in T : f[y] \in Int
      OBVIOUS
    <3>4. PICK a \in T : a = IF f[x] < f[m] THEN x ELSE m
      OBVIOUS
    <3>5. PICK b \in T : b = IF f[n] < f[x] THEN x ELSE n
      OBVIOUS
    <3>6. \A y \in T : f[a] <= f[y] /\ f[y] <= f[b]
      BY <3>2, <3>3, <3>4, <3>5
    <3> QED BY <3>6
  <2> QED BY <2>2, <2>3
<1>2. SUBSET S \subseteq F
  <2>1. \A T \in SUBSET S : (\A x \in T : T \ {x} \in F) => T \in F
    BY <1>1
  <2> HIDE DEF F
  <2> QED BY <2>1, InductionOnSubsets
<1> QED BY <1>2

LEMMA Quotient ==
  ASSUME NEW s \in Int, NEW n \in Nat, n > 0, NEW low \in Int, NEW high \in Int,
         low * n <= s, s <= high * n
  PROVE  s \div n \in Int /\ low <= s \div n /\ s \div n <= high
<1> DEFINE q == s \div n
<1>1. q \in Int /\ n * q <= s /\ s < n * q + n
  OBVIOUS
<1> HIDE DEF q
<1>2. low <= q
  <2> SUFFICES ASSUME q <= low - 1 PROVE FALSE
    BY <1>1
  <2>1. n * q <= n * (low - 1)
    BY <1>1
  <2> QED BY <1>1, <2>1
<1>3. q <= high
  <2> SUFFICES ASSUME high + 1 <= q PROVE FALSE
    BY <1>1
  <2>1. n * (high + 1) <= n * q
    BY <1>1
  <2> QED BY <1>1, <2>1
<1> QED BY <1>1, <1>2, <1>3 DEF q

LEMMA ResultType ==
  ASSUME NEW output \in LogFiles, NEW title, Parsed(output, title) # {}
  PROVE  Result(output, title) \in Nat
<1> DEFINE P == Parsed(output, title)
           g == [i \in P |-> i]
<1>1. output \in Seq(Titles \X Nat) /\ Len(output) \in Nat /\ DOMAIN output = 1 .. Len(output)
  BY LogAssumption
<1>2. P \subseteq 1 .. Len(output) /\ IsFiniteSet(P) /\ P # {}
  <2>1. P \subseteq 1 .. Len(output) /\ P # {}
    BY <1>1 DEF Parsed
  <2>2. IsFiniteSet(1 .. Len(output))
    BY <1>1, FS_Interval
  <2> HIDE DEF P
  <2> QED BY <2>1, <2>2, FS_Subset
<1>3. \A i \in P : g[i] = i /\ g[i] \in Int
  BY <1>1, <1>2
<1> HIDE DEF P, g
<1>4. PICK m \in P : \A i \in P : g[i] <= g[m]
  BY <1>2, <1>3, Extremes
<1>5. Max(P) \in P
  <2>1. \E x \in P : \A y \in P : x >= y
    BY <1>1, <1>2, <1>3, <1>4
  <2> QED BY <2>1 DEF Max
<1> PICK k \in 1 .. Len(output) : k = Max(P)
  BY <1>2, <1>5
<1>6. output[k] \in Titles \X Nat
  <2> PICK X : X = Titles \X Nat
    OBVIOUS
  <2>1. output \in Seq(X)
    BY <1>1
  <2>2. output[k] \in X
    BY <2>1
  <2> QED BY <2>2
<1>7. output[k][2] \in Nat
  BY <1>6
<1> QED BY <1>7 DEF Result, P

\* The cell of a measurement that all runs have made.
LEMMA AverageBetween ==
  ASSUME NEW l, NEW S, IsFiniteSet(S), S # {}, NEW title,
         \A i \in S : l[i].output \in LogFiles /\ Parsed(l[i].output, title) # {}
  PROVE  LET cell == Average(l, S, title)
         IN /\ \E i \in S : Result(l[i].output, title) * cell.den <= cell.num
            /\ \E i \in S : cell.num <= Result(l[i].output, title) * cell.den
<1> DEFINE f == [i \in S |-> Counted(l[i].output, title)]
           n == Cardinality(S)
           sum == SumFunctionOnSet(f, S)
           cell == Average(l, S, title)
<1>1. \A i \in S : /\ f[i] = Result(l[i].output, title) /\ f[i] \in Nat
                   /\ Result(l[i].output, title) \in Nat
  BY ResultType DEF Counted
<1>2. cell = IF title \in Whole THEN [num |-> sum \div n, den |-> 1]
             ELSE [num |-> sum, den |-> n]
  BY DEF Average, SumFunction
<1>3. n \in Nat /\ n > 0
  BY FS_CardinalityType, FS_EmptySet
<1> HIDE DEF f, cell
<1>4. PICK a, b \in S : \A i \in S : f[a] <= f[i] /\ f[i] <= f[b]
  <2>1. \A i \in S : f[i] \in Int
    BY <1>1
  <2> QED BY <2>1, Extremes
<1>5. f[a] \in Nat /\ f[b] \in Nat
  BY <1>1
<1>6. sum \in Int /\ f[a] * n <= sum /\ sum <= f[b] * n
  BY <1>1, <1>4, <1>5, SumBetween
<1> HIDE DEF n, sum
<1>7. f[a] * cell.den <= cell.num /\ cell.num <= f[b] * cell.den
  <2>1. CASE title \in Whole
    <3>1. cell.num = sum \div n /\ cell.den = 1
      BY <1>2, <2>1
    <3>2. sum \div n \in Int /\ f[a] <= sum \div n /\ sum \div n <= f[b]
      BY <1>3, <1>5, <1>6, Quotient
    <3> QED BY <1>5, <3>1, <3>2
  <2>2. CASE title \notin Whole
    <3>1. cell.num = sum /\ cell.den = n
      BY <1>2, <2>2
    <3> QED BY <1>6, <3>1
  <2> QED BY <2>1, <2>2
<1>8. /\ Result(l[a].output, title) * cell.den <= cell.num
      /\ cell.num <= Result(l[b].output, title) * cell.den
  BY <1>1, <1>7
<1> QED BY <1>8 DEF cell

\* The cell of one that a run has not made: what is counted for that outweighs the rest.
LEMMA AverageNegative ==
  ASSUME NEW l, NEW S, IsFiniteSet(S), NEW title, NEW j \in S, NEW most \in Nat,
         Cardinality(S) <= most, Parsed(l[j].output, title) = {},
         \A i \in S : Parsed(l[i].output, title) # {} =>
           l[i].output \in LogFiles /\ most * Result(l[i].output, title) < -Missing
  PROVE  Average(l, S, title).num < 0
<1> DEFINE f == [i \in S |-> Counted(l[i].output, title)]
           R == S \ {j}
           n == Cardinality(R)
           Sum(T) == SumFunctionOnSet(f, T)
<1>1. \A i \in S : \/ f[i] = Missing
                   \/ f[i] \in Nat /\ most * f[i] < -Missing
  BY ResultType DEF Counted
<1>2. \A i \in S : f[i] \in Int
  BY <1>1, LogAssumption
<1>3. Average(l, S, title).num = Sum(S)
  BY DEF Average, SumFunction
<1>4. f[j] = Missing
  BY DEF Counted
<1> HIDE DEF f
<1>5. IsFiniteSet(R) /\ n \in Nat /\ n <= most
  <2>1. IsFiniteSet(R)
    BY FS_Subset
  <2>2. Cardinality(S) \in Nat /\ n = Cardinality(S) - 1 /\ n \in Nat
    BY <2>1, FS_CardinalityType, FS_RemoveElement
  <2> QED BY <2>1, <2>2
<1>6. Sum(S) = Missing + Sum(R) /\ Sum({}) = 0
  BY <1>2, <1>4, SumStep
<1> HIDE DEF n
<1>7. Sum(R) \in Int /\ Sum(R) < -Missing
  <2>1. CASE R = {}
    <3>1. Sum(R) = 0
      BY <1>6, <2>1
    <3> QED BY <3>1, LogAssumption
  <2>2. CASE R # {}
    <3>1. /\ \A x \in R : f[x] \in Int
          /\ R \subseteq S
      BY <1>2
    <3> HIDE DEF R
    <3>2. PICK a, b \in R : \A i \in R : f[a] <= f[i] /\ f[i] <= f[b]
      BY <1>5, <2>2, <3>1, Extremes
    <3>3. f[a] \in Int /\ f[b] \in Int
      BY <3>1
    <3>4. Sum(R) \in Int /\ Sum(R) <= f[b] * n
      BY <1>5, <3>1, <3>2, <3>3, SumBetween DEF n
    <3>5. CASE f[b] = Missing
      <4>0. \A x \in Int : \A k \in Nat : x < 0 => x * k <= 0
        OBVIOUS
      <4>1. f[b] * n <= 0
        BY <1>5, <3>5, <4>0, LogAssumption
      <4> QED BY <1>5, <3>3, <3>4, <4>1, LogAssumption
    <3>6. CASE f[b] \in Nat /\ most * f[b] < -Missing
      <4>1. f[b] * n <= most * f[b]
        BY <1>5, <3>6
      <4>2. f[b] * n \in Int /\ most * f[b] \in Int
        BY <1>5, <3>6
      <4> QED BY <3>4, <3>6, <4>1, <4>2, LogAssumption
    <3> QED BY <1>1, <3>1, <3>5, <3>6
  <2> QED BY <2>1, <2>2
<1> HIDE DEF Sum
<1> QED BY <1>3, <1>6, <1>7, LogAssumption

----------------------------------------------------------------------------
(* The report.                                                             *)

\* A good run has logged something; the report is made of the logs collected.
Reported ==
  /\ \A i \in 1 .. Len(ended) : Good(i) => ended[i].output \in LogFiles
  /\ pc \in {"report", "done"} => saved = logs
  /\ pc = "done" => report = Report(logs)

LEMMA EndsReported ==
  ASSUME Inv, Reported, NEW code, NEW output \in LogFiles \cup {NoLog}, Ends(code, output),
         UNCHANGED <<toolVars, pc>>
  PROVE  Reported'
<1> DEFINE x == [task |-> solver.task, code |-> code, output |-> output]
           n == Len(ended)
<1>1. IsSequence(ended) /\ ended' = Append(ended, x) /\ UNCHANGED <<logs, saved, report, pc>>
  BY DEF Inv, Shapes, Ends, toolVars
<1>2. /\ n \in Nat /\ Len(ended') = n + 1 /\ ended'[n + 1] = x
      /\ \A i \in 1 .. n : ended'[i] = ended[i]
  <2> HIDE DEF x
  <2> QED BY <1>1, Appended
<1>3. ASSUME NEW i \in 1 .. n + 1, Good(i)' PROVE ended'[i].output \in LogFiles
  <2>1. CASE i = n + 1
    BY <1>2, <1>3, <2>1 DEF Good
  <2>2. CASE i \in 1 .. n
    BY <1>2, <1>3, <2>2 DEF Good, Reported
  <2> QED BY <1>2, <2>1, <2>2
<1> QED BY <1>1, <1>2, <1>3 DEF Reported

LEMMA SameReported ==
  ASSUME Reported, UNCHANGED <<toolVars, pc, ended>>
  PROVE  Reported'
BY DEF Reported, Good, toolVars

LEMMA ReportedStep == Inv /\ Reported /\ [Next]_vars => Reported'
<1> SUFFICES ASSUME Inv, Reported, [Next]_vars PROVE Reported'
  OBVIOUS
<1>1. CASE Tool
  <2>1. ended' = ended
    BY <1>1 DEF Tool, ReadSettings, WriteConfig, RunTask, Communicate, Cancel, Collect,
       NextConfig, Save, MakeReport
  <2>2. CASE Save
    BY <2>1, <2>2 DEF Save, Reported, Good
  <2>3. CASE MakeReport
    BY <2>1, <2>3 DEF MakeReport, Reported, Good
  <2>4. CASE ~Save /\ ~MakeReport
    <3>1. pc' \notin {"report", "done"}
      BY <1>1, <2>4 DEF Tool, ReadSettings, WriteConfig, RunTask, Communicate, Cancel,
         Collect, NextConfig
    <3> QED BY <2>1, <3>1 DEF Reported, Good
  <2> QED BY <2>2, <2>3, <2>4
<1>2. CASE Solver
  <2>1. UNCHANGED <<toolVars, pc>>
    BY <1>2 DEF Solver
  <2>2. CASE Install \/ Return \/ ReturnEarly \/ Strand
    BY <2>1, <2>2, SameReported DEF Install, Return, ReturnEarly, Strand, Enters
  <2>3. CASE Exit
    BY <2>1, <2>3, EndsReported DEF Exit
  <2>4. CASE Fail
    BY <2>1, <2>4, EndsReported DEF Fail
  <2> QED BY <1>2, <2>2, <2>3, <2>4 DEF Solver
<1>3. CASE Timer
  <2>1. UNCHANGED <<toolVars, pc>>
    BY <1>3 DEF Timer, Expire, Terminate, toolVars
  <2>2. CASE ended' = ended
    BY <2>1, <2>2, SameReported
  <2>3. CASE ended' # ended
    <3>1. Ends(-15, NoLog)
      BY <1>3, <2>3 DEF Timer, Expire, Terminate, Enters
    <3> QED BY <2>1, <3>1, EndsReported
  <2> QED BY <2>2, <2>3
<1>4. CASE UNCHANGED vars
  BY <1>4, SameReported DEF vars
<1> QED BY <1>1, <1>2, <1>3, <1>4 DEF Next, Halted

\* The logs are those of the good runs, one by one.
LEMMA Places ==
  ASSUME NEW n \in Nat, Accounted(n), IsSequence(logs)
  PROVE  LET place == [i \in Goods(n) |-> Cardinality(Goods(i))]
         IN /\ place \in Bijection(Goods(n), DOMAIN logs)
            /\ DOMAIN logs = 1 .. Len(logs)
            /\ \A i \in Goods(n) : /\ logs[place[i]].task_name = ended[i].task
                                   /\ logs[place[i]].output = ended[i].output
<1> DEFINE G == Goods(n)
           D == 1 .. Len(logs)
           place == [i \in G |-> Cardinality(Goods(i))]
<1>1. IsFiniteSet(G) /\ Cardinality(G) \in Nat /\ Len(logs) = Cardinality(G)
  BY GoodsType DEF Accounted
<1>2. \A i \in G : place[i] \in D
  BY <1>1, GoodsPlace
<1>3. \A i \in G : i \in Nat /\ i \in Goods(i) /\ IsFiniteSet(Goods(i)) /\ Cardinality(Goods(i)) \in Nat
  <2>1. \A i \in G : i \in Nat /\ i \in Goods(i)
    BY DEF Goods
  <2> QED BY <2>1, GoodsType
<1>4. ASSUME NEW i \in G, NEW j \in G, i < j PROVE place[i] < place[j]
  <2>1. Goods(i) \subseteq Goods(j) \ {j}
    BY <1>3, <1>4 DEF Goods
  <2>2. /\ IsFiniteSet(Goods(j) \ {j})
        /\ Cardinality(Goods(j) \ {j}) = Cardinality(Goods(j)) - 1
    BY <1>3, FS_RemoveElement
  <2>3. Cardinality(Goods(i)) <= Cardinality(Goods(j) \ {j})
    BY <2>1, <2>2, FS_Subset
  <2> QED BY <1>3, <2>2, <2>3
<1>5. \A i, j \in G : place[i] = place[j] => i = j
  <2> SUFFICES ASSUME NEW i \in G, NEW j \in G, place[i] = place[j], i # j PROVE FALSE
    OBVIOUS
  <2>1. i \in Nat /\ j \in Nat /\ place[i] \in Nat /\ place[j] \in Nat
    BY <1>3
  <2>2. i < j \/ j < i
    BY <2>1
  <2> HIDE DEF place
  <2> QED BY <1>4, <2>1, <2>2
<1>6. place \in Injection(G, D)
  BY <1>2, <1>5 DEF Injection, IsInjective
<1>7. IsFiniteSet(D) /\ Cardinality(D) = Cardinality(G)
  <2>1. IsFiniteSet(D) /\ Cardinality(D) = Len(logs)
    BY <1>1, FS_Interval
  <2> QED BY <1>1, <2>1
<1>8. place \in Surjection(G, D)
  <2> HIDE DEF place, G, D
  <2> QED BY <1>1, <1>6, <1>7, FS_Injection
<1>9. DOMAIN logs = D
  BY DEF IsSequence
<1>10. \A i \in G : /\ logs[place[i]].task_name = ended[i].task
                    /\ logs[place[i]].output = ended[i].output
  <2> TAKE i \in G
  <2>1. place[i] = Cardinality(Goods(i))
    OBVIOUS
  <2>2. logs[Cardinality(Goods(i))]
          = [task_name |-> ended[i].task, output |-> ended[i].output]
    BY DEF Accounted
  <2> HIDE DEF place
  <2> QED BY <2>1, <2>2
<1> QED BY <1>6, <1>8, <1>9, <1>10 DEF Bijection

\* As many logs as good runs have a task of some kind.
LEMMA SameNumber ==
  ASSUME NEW G, IsFiniteSet(G), NEW D, NEW place \in Bijection(G, D),
         NEW S \in SUBSET G, NEW T \in SUBSET D, \A i \in G : i \in S <=> place[i] \in T
  PROVE  IsFiniteSet(T) /\ Cardinality(T) = Cardinality(S)
<1> DEFINE p == [i \in S |-> place[i]]
<1>1. /\ place \in [G -> D] /\ \A i, j \in G : place[i] = place[j] => i = j
      /\ \A d \in D : \E i \in G : place[i] = d
  BY DEF Bijection, Injection, IsInjective, Surjection
<1>2. p \in Bijection(S, T)
  <2>1. p \in [S -> T] /\ \A i, j \in S : p[i] = p[j] => i = j
    BY <1>1
  <2>2. \A d \in T : \E i \in S : p[i] = d
    BY <1>1
  <2> QED BY <2>1, <2>2 DEF Bijection, Injection, IsInjective, Surjection
<1>3. IsFiniteSet(S)
  BY FS_Subset
<1> HIDE DEF p
<1> QED BY <1>2, <1>3, FS_Bijection DEF ExistsBijection

\* No measurement is so large, and no campaign so long, that what is counted for a missing
\* one (-1e20) does not outweigh the rest.
FewRuns ==
  \A output \in LogFiles : \A title \in Titles :
    Parsed(output, title) # {} => Len(ended) * Result(output, title) < -Missing

LEMMA Fair ==
  ASSUME Inv, Reported, FewRuns
  PROVE  ReportFair
<1> SUFFICES ASSUME pc = "done" PROVE ReportFair
  BY DEF ReportFair
<1> DEFINE n == Len(ended)
           good == {i \in DOMAIN ended : Good(i)}
           of(task) == {i \in good : ended[i].task = task}
           runs(task) == {i \in DOMAIN logs : logs[i].task_name = task}
           G == Goods(n)
           D == DOMAIN logs
           place == [i \in G |-> Cardinality(Goods(i))]
<1>1. /\ n \in Nat /\ good = G /\ Accounted(n) /\ IsSequence(logs)
      /\ report = Report(logs)
  <2>1. IsSequence(ended) /\ n \in Nat /\ DOMAIN ended = 1 .. n
    BY Appended DEF Inv, Shapes, IsSequence
  <2>2. Through = n
    BY DEF Inv, Waiting, Through
  <2>3. good = G
    BY <2>1 DEF Goods
  <2> QED BY <2>1, <2>2, <2>3 DEF Inv, Shapes, Reported
<1>2. /\ place \in Bijection(G, D) /\ D = 1 .. Len(logs)
      /\ \A i \in G : logs[place[i]].task_name = ended[i].task
      /\ \A i \in G : logs[place[i]].output = ended[i].output
  BY <1>1, Places
<1> HIDE DEF place
<1>3. /\ \A i \in G : place[i] \in D
      /\ \A d \in D : \E i \in G : place[i] = d
  BY <1>2 DEF Bijection, Injection, Surjection
<1>4. /\ IsFiniteSet(G) /\ Cardinality(G) \in Nat /\ IsFiniteSet(D)
      /\ Len(logs) = Cardinality(G) /\ Cardinality(D) = Len(logs) /\ Cardinality(G) <= n
  <2>1. IsFiniteSet(G) /\ Cardinality(G) \in Nat /\ Len(logs) = Cardinality(G)
    BY <1>1, GoodsType DEF Accounted
  <2>2. IsFiniteSet(D) /\ Cardinality(D) = Len(logs)
    BY <1>2, <2>1, FS_Interval
  <2>3. G \subseteq 1 .. n /\ IsFiniteSet(1 .. n) /\ Cardinality(1 .. n) = n
    <3>1. G \subseteq 1 .. n
      BY DEF Goods
    <3> HIDE DEF n, G
    <3> QED BY <1>1, <3>1, FS_Interval
  <2>4. Cardinality(G) <= n
    BY <2>3, FS_Subset
  <2> QED BY <2>1, <2>2, <2>4
<1>5. \A i \in G : ended[i].output \in LogFiles
  BY <1>1 DEF Goods, Reported
<1>6. \A task : \A i \in of(task) : place[i] \in runs(task) /\ logs[place[i]].output = ended[i].output
  BY <1>1, <1>2, <1>3
<1>7. \A task : \A d \in runs(task) :
        \E i \in of(task) : place[i] = d /\ logs[d].output = ended[i].output
  BY <1>1, <1>2, <1>3
<1>8. report.rows = {[task |-> task, cells |-> [title \in Titles |-> Average(logs, runs(task), title)]]
                       : task \in TaskNames(logs)}
  BY <1>1 DEF Report
<1>9. TaskNames(logs) = {ended[i].task : i \in good}
  BY <1>1, <1>2, <1>3 DEF TaskNames
<1>10. {row.task : row \in report.rows} = {ended[i].task : i \in good}
  <2>1. {row.task : row \in report.rows} = TaskNames(logs)
    <3> DEFINE row(task) ==
          [task |-> task, cells |-> [title \in Titles |-> Average(logs, runs(task), title)]]
    <3>1. \A task : row(task).task = task
      OBVIOUS
    <3>2. report.rows = {row(task) : task \in TaskNames(logs)}
      BY <1>8
    <3> HIDE DEF row
    <3> QED BY <3>1, <3>2
  <2> QED BY <1>9, <2>1
<1>11. \A task \in TaskNames(logs) : IsFiniteSet(runs(task)) /\ runs(task) # {}
                                     /\ Cardinality(runs(task)) <= n
  <2> SUFFICES ASSUME NEW task \in TaskNames(logs)
               PROVE  IsFiniteSet(runs(task)) /\ runs(task) # {} /\ Cardinality(runs(task)) <= n
    OBVIOUS
  <2>1. runs(task) \subseteq D /\ runs(task) # {}
    BY DEF TaskNames
  <2> HIDE DEF runs, D
  <2>2. /\ IsFiniteSet(runs(task)) /\ Cardinality(runs(task)) <= Cardinality(D)
        /\ Cardinality(runs(task)) \in Nat
    BY <1>4, <2>1, FS_Subset, FS_CardinalityType
  <2> QED BY <1>1, <1>4, <2>1, <2>2
<1>12. ASSUME NEW task \in TaskNames(logs), NEW title \in Titles
       PROVE  LET cell == Average(logs, runs(task), title)
              IN IF \A i \in of(task) : Parsed(ended[i].output, title) # {}
                 THEN /\ \E i \in of(task) : Result(ended[i].output, title) * cell.den <= cell.num
                      /\ \E i \in of(task) : cell.num <= Result(ended[i].output, title) * cell.den
                 ELSE cell.num < 0
  <2> DEFINE S == runs(task)
             cell == Average(logs, S, title)
  <2>1. /\ IsFiniteSet(S) /\ S # {} /\ Cardinality(S) <= n /\ n \in Nat
        /\ \A d \in S : \E i \in of(task) : logs[d].output = ended[i].output
        /\ \A i \in of(task) : place[i] \in S /\ logs[place[i]].output = ended[i].output
        /\ \A d \in S : logs[d].output \in LogFiles
    <3>1. IsFiniteSet(S) /\ S # {} /\ Cardinality(S) <= n /\ n \in Nat
      BY <1>1, <1>11
    <3>2. \A d \in S : \E i \in of(task) : place[i] = d /\ logs[d].output = ended[i].output
      BY <1>7
    <3>3. \A i \in of(task) : place[i] \in S /\ logs[place[i]].output = ended[i].output
      BY <1>6
    <3>4. \A i \in of(task) : ended[i].output \in LogFiles
      BY <1>1, <1>5
    <3> HIDE DEF S, of, n
    <3> QED BY <3>1, <3>2, <3>3, <3>4
  <2> HIDE DEF S, n, of
  <2>2. CASE \A i \in of(task) : Parsed(ended[i].output, title) # {}
    <3>1. \A d \in S : Parsed(logs[d].output, title) # {}
      BY <2>1, <2>2
    <3>2. /\ \E d \in S : Result(logs[d].output, title) * cell.den <= cell.num
          /\ \E d \in S : cell.num <= Result(logs[d].output, title) * cell.den
      BY <2>1, <3>1, AverageBetween
    <3> HIDE DEF cell
    <3>3. /\ \E i \in of(task) : Result(ended[i].output, title) * cell.den <= cell.num
          /\ \E i \in of(task) : cell.num <= Result(ended[i].output, title) * cell.den
      BY <2>1, <3>2
    <3> QED BY <2>2, <3>3 DEF cell, S
  <2>3. CASE \E i \in of(task) : Parsed(ended[i].output, title) = {}
    <3>1. PICK j \in S : Parsed(logs[j].output, title) = {}
      BY <2>1, <2>3
    <3>2. \A d \in S : Parsed(logs[d].output, title) # {} =>
            logs[d].output \in LogFiles /\ n * Result(logs[d].output, title) < -Missing
      BY <2>1 DEF FewRuns, n
    <3>3. cell.num < 0
      BY <2>1, <3>1, <3>2, AverageNegative
    <3> QED BY <2>3, <3>3 DEF S
  <2> QED BY <2>2, <2>3
<1>13. ASSUME NEW row \in report.rows, NEW title \in Titles
       PROVE  LET cell == row.cells[title]
              IN IF \A i \in of(row.task) : Parsed(ended[i].output, title) # {}
                 THEN /\ \E i \in of(row.task) :
                           Result(ended[i].output, title) * cell.den <= cell.num
                      /\ \E i \in of(row.task) :
                           cell.num <= Result(ended[i].output, title) * cell.den
                 ELSE cell.num < 0
  <2>1. PICK task \in TaskNames(logs) :
          row = [task |-> task, cells |-> [t \in Titles |-> Average(logs, runs(task), t)]]
    BY <1>8
  <2>2. row.task = task /\ row.cells[title] = Average(logs, runs(task), title)
    <3> HIDE DEF runs
    <3> QED BY <2>1
  <2> HIDE DEF runs, of
  <2> QED BY <1>12, <2>2
<1>14. ASSUME NEW label \in DOMAIN report.shown
       PROVE  Cardinality(report.shown[label])
                = Cardinality({i \in good : ParseTaskName(ended[i].task) = label})
  <2> DEFINE S == {i \in good : ParseTaskName(ended[i].task) = label}
             T == {i \in DOMAIN logs : ParseTaskName(logs[i].task_name) = label}
  <2>1. report.shown[label] = T
    BY <1>1 DEF Report
  <2>2. S \in SUBSET G /\ T \in SUBSET D
    BY <1>1
  <2>3. \A i \in G : i \in S <=> place[i] \in T
    BY <1>1, <1>2, <1>3
  <2> HIDE DEF S, T, G, D
  <2>4. Cardinality(T) = Cardinality(S)
    <3>1. IsFiniteSet(G) /\ place \in Bijection(G, D)
      BY <1>2, <1>4 DEF D
    <3> QED BY <2>2, <2>3, <3>1, SameNumber
  <2> QED BY <2>1, <2>4 DEF S
<1> HIDE DEF G, D
<1> QED BY <1>10, <1>13, <1>14 DEF ReportFair

\* The report is made of the runs that ended well, all of them and each under its own
\* task: a row for each task, cells between the extremes of what was measured (negative if
\* something was not), and as many logs behind a label as there are such runs.
THEOREM ReportFairHolds == Spec => [](FewRuns => ReportFair)
<1>1. Init => Reported
  BY DEF Init, Reported
<1>2. Inv /\ Reported => (FewRuns => ReportFair)
  BY Fair
<1> QED
  BY InitInv, StepInv, ReportedStep, <1>1, <1>2, PTL DEF Spec

=============================================================================
