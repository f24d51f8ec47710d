# A verification project for optimer

optimer solves travelling-salesman problems exactly, by branch and bound, on one
thread or on many, and approximately with an ant-colony heuristic.  Python tools
go with it: a static checker of its sources, and a tool that runs the solver over
many configurations and reports on the runs.  This directory holds TLA+ models of the
program, TLC runs that check them and
TLAPS proofs.

Run TLC here with `tlc -config X.cfg MCX.tla` and the prover with
`tlapm X_proofs.tla`.  PROJECT.json lists the runs, the mutants, the lines of code
behind every definition, the hazards and the theorems.

Contents: [Inventory](#inventory) · [How the parts interact](#how-the-parts-interact) ·
[Modules and code](#modules-and-code) · [Runs](#runs) · [Fairness](#fairness) ·
[Proofs](#proofs) · [Known departures](#known-departures) ·
[What is not modelled](#what-is-not-modelled) · [Plan](#plan)

## Inventory

| Component | State | Operations | Hard behaviour | What makes it correct |
|---|---|---|---|---|
| `bnb::ParallelBNB` (`bnb/parallel_bnb-inl.h`) | containers of open nodes, shared record `record_`, seeding record, per-thread records | `solve`: seed, deal, fork, join, clean; `start`: pop, branch, publish, schedule | unlocked record reads, moving nodes between threads, termination, signals | the result is a shortest tour; no node is lost or doubled; solve returns |
| `bnb::RequestingScheduler` | `queue_sets_`, mutex, condition variable, atomic `num_waiting_threads_` | `schedule` | the counter moves outside the mutex | nobody retires while work is left; nobody sleeps for ever |
| `bnb::GivingScheduler` | `queue_sets_`, mutex, condition variable, unsigned `num_working_threads_` | `schedule` | wrap-around, wake-ups that find nothing | the same |
| `bnb::SerialBNB`, `bnb::SimpleBNB` | one container, one record | `solve` | signals; which record the search starts from | the result is a shortest tour |
| Search tree (`bnb/tree-inl.h`, `mt_tree.h`, `locked_tree.h`, `common/allocator-inl.h`) | nodes, reference counts, counts of nodes per thread | `create_node`, `release_node`, `inc_refs`, `dec_refs` | counts updated by several threads without a lock | nothing is freed early, everything is freed in the end |
| Asymmetric solver (`tsp/asymmetric`) | matrices, included and excluded edges, assignment solutions | `branch`, five branching rules, `transform_node`, `ApSolver` | warm starts, incomplete branching | bounds are bounds, children cover the parent |
| Symmetric solvers (`tsp/symmetric`) | one-trees, multipliers | `branch`, three rules, `LagrangeanRelaxation::solve`, `MSOneTree::solve` | incomplete branching, an algorithm that must return a minimum | the same |
| Greedy and 2-opt (`tsp/common/types.cpp`) | a route and its value | `get_greedy_solution`, `two_opt` | an incremental value | the value is the length of the route |
| Ant colony (`heuristics/aco`) | pheromones, candidate lists, ants | `solve`, `build_tour` | candidate lists that run out, signals | every ant makes a tour, the best one is kept |
| Files and configuration | section being read | `DataLoader::load`, `IniFile` | keyword order | the matrix is the one of the file |
| Signals | `g_interruped`, saved handlers | guard, handler | arrive at any moment | see ParallelBNB |
| Static checker (`tools/cpplint.py`) | error counts and suppressions (global), and for each file the cleansed lines, the includes, the function, the stack of blocks | `ParseArguments`, `ProcessFile`, `ProcessLine` and the checks it calls | state carried from line to line and file to file; look-ahead and look-back over lines; a loop without a bound | what it says agrees with what the whole file says; it ends |
| Campaign tools (`tools/pms.py`, `config_generator.py`, `pms_report.py`) | configurations, the running solver, its timer, the logs | `run_configs`, `RunningResult`, `_Node.process`, `pms_report.main` | a timer thread whose signal races with the end of the solver; failing runs | every run that ended well is in the report, under its task; the campaign ends |

## How the parts interact

The programs (`atsp.cpp`, `stsp.cpp`, their `simple_` variants, `aco_tsp.cpp`) read
a matrix, make a solver and hand it to an engine.  An engine keeps open nodes in a
container and calls `Solver::branch` for one of them at a time; `branch` compares
the bound of the node with the record it is given, makes children, bounds each of
them, lowers the record when a child is a tour, and pushes the children worth
keeping.  Nodes live in a search tree with reference counts; a node is needed as
long as it has children, because a child stores only the edges its parent lacks.

`ParallelBNB` branches nodes on the main thread until there are
`num_minimum_nodes` for each thread, deals them out and starts the threads.  They
share `record_`, which they read without a lock and write under one, and a
scheduler with a queue through which nodes change hands.  A signal sets
`g_interruped`, which every loop tests.

The ant colony shares with the solvers the cost matrices and `two_opt`, nothing else.

`pms.py` makes configurations out of a tree of settings, starts the solver with one
after the other and waits for each.  Its only way to end a run is SIGTERM, sent by a
timer thread, which the solver handles by returning early from `solve`.  It gets back
an exit code and the name of a log, and hands all logs to `pms_report.py`.

`cpplint.py` is run over the sources by `tools/static_checker.sh`.  It goes through each
file once, line by line, and every line may read and change the state that the lines
before it have left.

## Modules and code

| Module | Code | State and actions |
|---|---|---|
| `SearchProblem` | what the engines need of `Solver::branch` | a search tree as constants (`Children`, `Value`, `Tour`, `Sols`), the promise a solver makes (`SolverContract`), and `branch` as two functions, `Kept` and `Records` |
| `BranchAndBound` | what every engine promises | open nodes and an incumbent: `Prune`, `Expand`, `Interrupt`, `Abandon` |
| `SerialBNB` | `serial_bnb-inl.h`, `simple_bnb-inl.h` | one round of the loop is one action, the order of the container is open |
| `WorkSharing` | what either scheduler promises | threads process nodes, offer some, take some, and quit when nothing is open |
| `SchedulerParams` | constructors of the two schedulers, `config.h` | constants and assumptions they share |
| `RequestingScheduler` | `requesting_scheduler.h` | `schedule` in steps: `Probe` the counter, `Donate` under the mutex, `Enlist` by raising the counter, `Acquire` the mutex and sleep or go on, `Receive`, `Leave` |
| `GivingScheduler` | `giving_scheduler.h` | `schedule` between two releases of the mutex: `Keep`, `Give`, `Enlist` (which may go to sleep), `Resume` |
| `ParallelBNB` | `parallel_bnb.h`, `parallel_bnb-inl.h` | phases of `solve` on the main thread, the loop of `start` for each worker, and the actions of the two schedulers by INSTANCE |
| `SearchTree` | `tree-inl.h`, `mt_tree.h`, `locked_tree.h`, `allocator-inl.h` | counts, release and the walk to the parent, with the load and the store of a decrement apart |
| `Routes` | `tsp/common/types.cpp` | vertices, matrices, greedy route, 2-opt and the length of a route, as functions |
| `ApSolver` | `ap_solver.h` | the Hungarian method: reduce, label, lower the duals, flip the path |
| `TransformNode` | `transform_node` in `tsp/asymmetric/tsp.cpp` | a path down the tree: constrain a child, adopt the duals and part of the assignment of the parent, solve |
| `AsymmetricSolver` | `branch` and rules 2 to 5 in `tsp/asymmetric/tsp.cpp` | open nodes with included and excluded edges; `Branch` picks one, `Transform` bounds one child |
| `OneTree`, `MSOneTree` | `ms_one_tree-inl.h` | Prim's algorithm with remembered nearest vertices, one edge for each step |
| `Lagrangean` | `LagrangeanRelaxation::solve` in `lagrangean.cpp` | prices at the vertices, raised from iteration to iteration, as functions |
| `SymmetricSolver` | `ClassicalSolver` in `tsp/symmetric/stsp.cpp`, `LagrangeanSolver` in `lagrangean_stsp.cpp` | a stack of nodes with included and excluded edges; `Branch` by one of the rules, and `Visit` for each child |
| `CleanLines` | `CleansedLines`, the comment removers | a file as a sequence of lines, a line as a sequence of words; what is left of it without comments and strings |
| `Brackets` | `CloseExpression`, the angle bracket searches | where an expression that opens on a line ends, as functions |
| `LintErrors` | `Error`, `_CppLintState`, the NOLINT table | the complaints raised, which of them are printed, and the count |
| `FileStates` | `_NestingState` and its blocks, `_IncludeState`, `_FunctionState` | the stack of blocks and of preprocessor groups after a line; the section and the header last seen; the function being counted |
| `StyleChecks` | the checks that look at more than one line, or at the whole file | operators that return complaints |
| `Cpplint` | `main`, `ParseArguments`, `ProcessFile`, `ProcessFileData`, `ProcessLine` | `ReadOption`, `Skip`, `OpenFile`, `ProcessLine`, `CloseFile`, `Finish` |
| `ConfigGenerator` | `config_generator.py` | the configurations a tree stands for, as a function |
| `PmsReport` | `pms_report.py` | rows, averages and the logs behind a label, as functions |
| `Pms` | `pms.py`, and the solver as it sees it | the tool (`RunTask`, `Communicate`, `Cancel`, `Collect`, ...), the timer (`Expire`, `Terminate`), the solver (`Install`, `Return`, `Exit`, `Fail`, `Strand`) |
| `AntColony` | `aco.cpp`, `ant.cpp`, `params.cpp` | one point of a walk, one pass of 2-opt, one comparison for each step |

How the modules build on each other:

    SearchProblem <- BranchAndBound <=(implements)= SerialBNB, ParallelBNB
    SchedulerParams <- RequestingScheduler, GivingScheduler
    WorkSharing   <=(implements)= RequestingScheduler, GivingScheduler
    RequestingScheduler, GivingScheduler  <-(actions)- ParallelBNB
    Routes <- AsymmetricSolver, AntColony
    Routes <- OneTree <- MSOneTree, Lagrangean <- SymmetricSolver
    ApSolver <- TransformNode
    CleanLines <- Brackets, FileStates, LintErrors <- StyleChecks <- Cpplint
    ConfigGenerator, PmsReport <- Pms

An `MC` module gives a module its constants for TLC; `MCTree` is the search tree of
the runs of the engines, and
`MCSchedulers` has both schedulers, one of which a program is built with.  A module named `X_proofs` holds the theorems about `X`.

An operator whose comment begins with "Mutant:" is a wrong variant of the
operator that follows it or of the one it is named after.  It is used nowhere.
Putting it in the place of the right one makes the run named in PROJECT.json fail:
that is the evidence that the property can tell the difference.

Choices that hold for several modules:

* **Atomicity.**  What happens with a mutex held touches only state that the mutex
  protects and is one action.  What happens without it (the atomic counter of the
  requesting scheduler, the reads of `record_`, the two halves of the decrement of a
  count) is an action of its own.  A read of `record_`, a double, is taken to be
  atomic, as it is on the machines the program is built for.
* **Containers are sets** in the engines: depth-first, best-first and breadth-first
  containers are all covered because any open node may be popped.
  `SymmetricSolver` has the stack of the program, because its children are visited in order.
* **Costs are integers**; `M_VAL` is a number above all sums of costs.
* **A line is a sequence of words** in the static checker.  `Space` marks a space
  where the code asks for one, two words side by side stand for one space, and words
  that no check tells apart are one word.  The model was compared with the
  tool itself on some thousands of the files of the run: they raise the same
  complaints at the same lines.
* **The solver of a campaign** is what `pms.py` can see of it.  `Strand` is the hang
  that `ParallelBNB` shows (departure 2).  Process ids are not given out
  again, and a signal to a process that has been reaped only raises in the timer thread.

## Runs

Every run uses two or three actors or four or five vertices.  What that leaves out
is said in the last column, and what proofs add below.

| Run | What it asks | Bounds, and why they suffice |
|---|---|---|
| `schedulers` | of either scheduler: nobody goes home early (`QuitOnlyWhenDone`), no wake-up is missed (`NoMissedWakeup`); the unsigned counter of the giving one never wraps (`TypeOK`); `WorkSharing` is implemented, its fairness included, so everybody goes home in the end (`ImplementsWorkSharing`) | 3 threads, so that a donor, a receiver and a bystander differ; eight nodes, of which one opens three and one of these two more; surplus above 1 node; each thread dealt a node or nobody dealt any; safety is proved for every number |
| `parallel` | one whole `solve`: `OneOwner`, `ResultOptimal`, `ResultGenuine`, `NodesReleased`, `RecordNeverRises`, `SolveReturns`, `InterruptEnds`, and that it implements `BranchAndBound` | 2 threads, either scheduler, `MCTree`, a signal at any moment or never, a record that no tour beats or one that tours beat, searched and too small problems; safety is proved for every tree and number of threads |
| `queue_after_signal` | shows the second finding below: `AllFreed` is false after a signal | the constants of `parallel` |
| `serial` | the same for `SerialBNB` and `SimpleBNB` | any order of the container, three given records |
| `tree` | `NoUseAfterFree`, `LockedFreesAll` | 2 threads, five nodes on three levels: two threads release children of one node and meet at the parent, whose release reaches the root; proved for every tree and number |
| `one_tree_near_zero` | shows the first finding below | four vertices |
| `symmetric` | `Coverage`, `RecordGenuine`, `BoundUnlessNearZero` of whole searches with `ClassicalSolver` and with each rule of `LagrangeanSolver`: no tour is lost, the record is a length, the value of a node bounds its tours; a failing CHECK would be a deadlock | `ClassicalSolver`: all 5832 matrices with weights 1, 2, 4 (1, 4, and 5 to vertex 1, at vertex 0) on five vertices; `LagrangeanSolver`: those with weights 1, 4 (60 to vertex 1) up to the order of vertices 2 to 4, three iterations, so that prices rise twice, by 1 or 3 for each edge: free and included edges then differ and rules follow one another on a path |
| `transform_node` | the duals certify the assignment at every step, so that it is a minimum in the end, its value bounds the tours of the node, `ApSolver` ends | four vertices, rows of two shapes, the root and every child that includes and excludes one more edge at most; `Certificate` and `Bounds` are proved for every size |
| `asymmetric` | `Coverage`, `RecordGenuine`, `ChildrenProper` of whole searches: a search that is over has no open nodes, so by `Coverage` its record is the optimum | nine matrices on five vertices, six whose relaxations fall into subtours on two levels with each of the rules 2 to 5, three whose root relaxation is a tour with rule 3; any optimal assignment; all three are proved for every number of vertices and all costs (`Coverage` under `RootIsNoTour`) |
| `ant_colony` | 2-opt's incremental value is the length, the best route is kept, the heuristic ends | five vertices, asymmetric costs, two ants, two iterations, with and without candidate lists, a signal at any moment; but for the end, proved for every size |
| `lint` | `MarksApplyToTheirLine`, `NestingFollowsFirstBranches`, `SystemIncludesInOrder`, `LongFunctionsReported`, `ExpressionsEndBalanced`, `BraceLoopEnds` | every file of up to 3 to 6 lines from ten small alphabets, one for each kind of state; two files at a time for what outlives a file; the limits (namespace, class and function length, copyright lines) lowered to 1 or 2 so that both sides of each are met |
| `campaign` | `RunsAccounted`, `ReportFair`, `CampaignEnds` | six trees of settings with up to two configurations, two runs each, a solver that ends in every way at every moment, a timer that fires at any moment; `RunsAccounted` and `ReportFair` are proved for all settings |

`parallel` has also been run with three threads: 978 000 states, no error.  The two
threads of the run already show every pair of a stale read and a write, of a
donor and a receiver, and of the last two threads to run dry; the third adds a
bystander, which `schedulers` has and the proofs of the schedulers generalise.

Deadlock is checked in every run: the specifications have an explicit step that
leaves everything as it is when the program has ended, and only then.  In `lint` that
is the liveness too: a file has finitely many lines, each step takes one, and the one
loop that may not end is an outcome of its own (`pc = "spinning"`).

The counters of the program are bounded by what they count (threads, nodes,
references).  `UIntMax` is the largest value of an unsigned, so that one decrement
too many wraps as in the program and is caught by `TypeOK` of `GivingScheduler`.
`MaxLevel`, `MaxIncluded`, `MaxExcluded` bound the path of `TransformNode`, `MinVal` and
`MVal` its costs;
`Iterations` and `Factors` are parameters of the ant colony.

## Fairness

* `RequestingScheduler`, `GivingScheduler`, `ParallelBNB`: weak fairness for each
  thread, and for the main thread.  The operating system runs every thread that
  can run.  Fairness is
  weak, so that a thread waiting for the mutex is promised nothing while others hold
  it; it is free again after a few of their steps.  A thread on a condition variable can run when it has been notified.
  Spurious wake-ups and signals have no fairness: they may never come.
* `TransformNode`, `AntColony`: weak fairness of the only thread.
* `Pms`: weak fairness of the tool, of the timer, and of the solver outside its
  search.  The search itself has none: nobody knows how long it takes, and
  `CampaignEnds` holds although it may take for ever.
* The others have none and state safety properties only.

`SolveReturns` is stated for calls that no signal interrupts.  `InterruptEnds` is its
counterpart after a signal: solve returns, or a worker is left asleep in the
scheduler with nobody to wake it (departure 2), and nothing else keeps it.

## Proofs

All theorems hold for every value of the constants that the named assumptions allow.

| Module | What it proves |
|---|---|
| `SerialBNB_proofs` | of `BranchAndBound`: `CoverageHolds`, `ApartHolds`; of `SerialBNB`: `RefinesBranchAndBound`, `ResultOptimalHolds`, `ResultGenuineHolds` |
| `RequestingScheduler_proofs`, `GivingScheduler_proofs` | `QuitOnlyWhenDoneHolds`, `RefinesWorkSharing`, `TypeOKHolds`; `NoMissedWakeupHolds` for the former |
| `ParallelBNB_proofs` | `RecordNeverRisesHolds`, `OneOwnerHolds`, `RefinesBranchAndBound`, `ResultGenuineHolds`, `NodesReleasedHolds`, `ResultOptimalHolds`, `TypeOKHolds` |
| `SearchTree_proofs` | `NoUseAfterFreeHolds`, `LockedFreesAllHolds`, `TypeOKHolds` |
| `TransformNode_proofs` | `CertificateHolds`, `BoundsHolds`, `TypeOKHolds` |
| `AsymmetricSolver_proofs` | of `AsymmetricSolver`: `RecordGenuineHolds`, `ChildrenProperHolds`, `CoverageHolds`, `OptimalHolds`; of `AntColony`: `ValueIsLengthHolds`, `BestOfAllHolds` |
| `Pms_proofs` | `RunsAccountedHolds`, `ReportFairHolds` |

**`SerialBNB_proofs`, the abstract algorithm.**  Under `SolverContract`, `TreeAssumption`,
`TypeAssumption` and `RecordAssumption`, for any tree, finite or not:
`CoverageHolds` (every tour is no better than the incumbent or inside an open node)
and `OptimalHolds` (a search that ends by itself has found a shortest tour).
`Coverage` alone is not inductive: the contract says nothing about the children
of a node whose relaxation is a tour, so the invariant adds that such nodes are
never open, the root excepted (`OpenNonTours`).  Each of `Prune` and `Expand` is
shown to keep each conjunct: pruning is safe because the bound is below every
tour of the node; expanding is safe because the children cover the node and the
ones dropped have reached the incumbent.  The lemmas at its head (`RecordType`,
`DroppedChild`, ...) say what one call of `branch` does, and serve the engines too.

`ApartHolds` (no open node lies below another) needs no contract.  "Below" is the
least set that has the children of a node and those of its members; that the
nodes form a tree (`TreeAssumption`) keeps two open nodes apart when one is expanded.

`RecordAssumption` (the record given is an integer) is a hypothesis of
each theorem rather than an assumption of the module, so that the engines can
use the theorems for their own start record.

**`SerialBNB_proofs`, the engines.** `RefinesBranchAndBound`: `SerialBNB` and
`SimpleBNB` implement `BranchAndBound`, with a signal at any moment. A round of the loop
that finds the bound above the record is `Prune`, one that branches is `Expand`, the
signal is `Interrupt`, and the return after one is `Abandon`. The invariant of the
abstract algorithm, read under the refinement mapping, is one of the engine; to it the
invariant adds what the record may be (`Reported`), which the abstract algorithm does
not tell apart by engine, and that nothing is open once solve has returned.
`ResultOptimalHolds` and `ResultGenuineHolds` follow.

**`GivingScheduler_proofs`.**  Under the assumptions of `SchedulerParams`: `WorkAssumption`,
`PoolsAssumption` (each thread is dealt a node, or nobody is), `MinNodesAssumption` and
`LimitsAssumption` (no relation between the two limits is assumed), for any finite number of threads and nodes:
`TypeOKHolds` (the counter never wraps), `QuitOnlyWhenDoneHolds`, and
`RefinesWorkSharing`.  The scheduler goes through three phases, and the invariant says in
which it is: `Unused`, nothing was dealt out; `InUse`, the counter is the number of
threads that are working, it is positive, and nobody has been sent home; `Over`, the
counter is zero and no node is open.  Besides, whoever asks has an empty container
(`AskersAreDry`).  The step from `InUse` to `Over` is the heart of the proof: the
last working thread decrements to zero, so the counted set is empty, so every
thread asks, so every container is empty, and the queue is found empty under the
mutex.

**`RequestingScheduler_proofs`.**  The same, under the same assumptions: `TypeOKHolds`, `QuitOnlyWhenDoneHolds`,
`NoMissedWakeupHolds`, `RefinesWorkSharing`.  Here the counter is raised outside the mutex,
so the invariant also says who holds the mutex (`MutexHeld`), that what the
predicate of the wait found is still true when the thread acts on it
(`ReceiverIsDue`: others may raise the counter meanwhile, nobody lowers it or empties
the queue), and that nobody sleeps while there is something to wake up for unless
somebody is on the way (`SleepersAreDue`).

The two `RefinesWorkSharing` theorems are the safety half of `ImplementsWorkSharing`,
`Spec => WS!Init /\ [][WS!Next]_(WS!vars)`.  The run `schedulers` checks the fairness half.  The other properties
of that run say for the scheduler the program is built with what the theorems of the same
names say for each; of the giving one `NoMissedWakeup` is model-checked only.

**`ParallelBNB_proofs`.**  Under the assumptions of `SearchProblem` and
`EngineAssumption` (finitely many threads, no more than an unsigned counts; finitely many
nodes, which the schedulers count), for either scheduler, with a signal at
any moment.  Three invariants build on each other.

* `Frame` says which phase of `solve` allows what.  The counters of the
  schedulers cannot be equal to what they count here, because a worker that sees the
  signal leaves without telling; each lies between two numbers of threads (`Counters`):
  those it must count, and those it may count besides.  `RecordNeverRisesHolds`
  needs no more: `record_` is compared again under the lock.
* `Sound` adds `OneOwner`, that there is a least value among those the threads know
  (`HasLeast`), and `Apart` of the abstract algorithm under the refinement mapping.
  `OneOwner` and `Apart` depend on each other: a node branched is replaced by
  its children, which nobody else can have because they lie below it, and it
  leaves the open nodes because nobody else holds it.  Each step that preserves `Sound`
  also is a step of `BranchAndBound`, or leaves its variables alone: branching against a
  stale record, and dropping against a better one, are both `Expand` or `Prune` for the
  least of the values known.  `RefinesBranchAndBound` follows, and with it `Coverage`
  carries over by instantiating `SerialBNB_proofs`.
* `SchedulerInUse` says that without a signal the workers use their scheduler as its own
  module wants it: its whole invariant holds under the mapping `SchedulerPc`, by
  which publishing a record is a part of branching.  Each step of `ParallelBNB` is
  shown to be a step of the scheduler or to leave it alone, and the proofs of the
  two schedulers are reused by INSTANCE.  So the workers go home only when nothing is
  left, which is `NodesReleasedHolds`, and together with `Coverage` gives `ResultOptimalHolds`.

`ResultOptimalHolds` assumes `SolverContract`, `ResultGenuineHolds` only its part `Attains`.

**`SearchTree_proofs`.**  Under `TreeAssumption`: any tree, any finite number of threads.
A node is *claimed* by each of its children, by the thread that holds it, and by
each thread on its way to lower its count.  No action but `Store` changes the number of claims
of an existing node, the creation of children apart.  The invariant is that no count,
in memory or loaded, is below the number of claims: an update that is lost leaves a count too high,
never too low.  Whoever computes zero is then alone in having given up the last
claim (`LastIsLast`), and what it frees is used by nobody and has no child.  This is what
`NoUseAfterFreeHolds` says of every build but one, named by its hypothesis
`RegisterIfShared`: in a tree without a mutex dec_refs must test the value it has
computed.  Without it the theorem is false (departure 4).

Under the mutex the counts equal the claims (`Exact`), because nobody changes a count
between the load and the store.  That every node has been freed in the end
(`LockedFreesAllHolds`) needs three more facts: a count of zero does not
outlast the walk that has found it (`Positive`), any set of nodes has one at its bottom
(`Founded`, since children are always new), and the tree counts its nodes correctly.  If any
were left when nobody holds one, the lowest would have no claim and a
count that is not zero.  For `MTSearchTree` nothing of the kind holds (departure 4).

**`TransformNode_proofs`.**  Under `MatrixAssumption` (costs within `MinVal` and `MVal`),
`VertexAssumption` and `LevelAssumption`, for a matrix of any size, any shapes and any
constraints.  `CertificateHolds`: the duals are feasible and assigned edges are tight, at
every step, through warm starts and half-flipped paths, and in the end every free row has
a column of its own.  The invariant says what `augment` keeps while its tree grows: the tree is made of the root and
of the rows assigned to scanned columns (`Grown`), labels lead from column to
row over tight edges (`Labelled`), `row_` is the inverse of `primal` but for the column on the move
(`Inverted`), and `pi` holds the least reduced cost of each column (`Distances`).  From this
`dual_update` keeps feasibility and keeps tight what is tight.  `Select` always finds a column:
if all were labelled and scanned, the tree would have more rows than columns.

`BigValue` stands for `numeric_limits<double>::max()`, with which the
search for a minimum starts.  That a reduced cost stays below it is part of the
proof (`Bounded`): at each level a dual moves by no more than the spread of the costs,
hence `LevelAssumption`, `(MaxLevel + 2) * (MVal - MinVal) < BigValue`.  With `M_VAL` = 1e16 the
program could go down more than 1e290 levels.

`BoundsHolds`: the value of a node, the sum of the original costs of its assignment, is no
more than the length of any tour that obeys the constraints of the node.  From the
certificate it is the duality of assignments (`Duality`): row by row, the assignment
costs no more than the tour less the difference of the duals of their two columns, and both go
over all columns once.  That a sum over the rows is one over the columns is an
induction on finite sets, which the library's theorems do not offer to these provers; the
module builds it from the least element of a set of numbers (`LeastNumber`,
`InductionOnNat`, `InductionOnSubsets`), and from it the lemmas on sums (`SumStep`,
`SumMonotone`, `SumPermuted`).  So the contract that the proofs about engines assume, that bounds
are bounds, holds of the asymmetric solver.

**`AsymmetricSolver_proofs`, the search.**  Under `ProblemAssumption` (costs between 0
and `M_VAL`, `M_VAL` on the diagonal, and no tour as long as `M_VAL`), for any number of vertices
and any cheapest assignment as the relaxation of a node.  Two invariants.

* `Basis`: the record is the length of a tour, and every open node has a cheapest
  assignment of its own constraints.  For the record to start as one, the greedy routes must be round trips
  over all vertices, and every exchange of `two_opt` must leave one behind with the right
  value; a cycle with all vertices, which is all that `has_solution` looks for, must be
  a tour.  From `Basis` follow `RecordGenuineHolds` and `ChildrenProperHolds`: a
  relaxation whose value is below the record has no vertex that leads to itself, at the cost `M_VAL`, so
  there is a cycle of two vertices or more to break.  Only rule 3 includes edges,
  all of them edges of the assignment, so the one its child excludes shares no row or column with them.
* `Inv` adds that every tour is `Accounted` for: it is no better than the record, or it obeys
  an open node or a child not yet looked at.  A tour that obeys a node must leave the cycle
  somewhere.  The child of rule 2 or 4 that
  forbids that edge of the cycle has the tour; with rules 3 and 5 it is the child of
  the first such place (`Rule2Covers` to `Rule5Covers`).

`CoverageHolds` and `OptimalHolds` (a search that is over has the length of a shortest
tour in its record) have the hypothesis `RootIsNoTour`: the relaxation of the root is not a
tour below the initial solution, or the rule is 3.  Without it they are false (departure 5).  Rule 3
can do with such a root because its last child includes all edges but one, which leaves
room for one assignment, and `transform_node` finds it although the child excludes its last edge
(`Forced`).  Whether the search ends is another matter: with rule 4 it may not (departure 10).

The functions defined by recursion (`Walk`, the passes of `two_opt`, the growing greedy route)
are shown to exist by `Recursion`; finite sets and sums by the lemmas of `TransformNode_proofs`, which
`Pms_proofs` uses too.

**`AsymmetricSolver_proofs`, the ant colony.**  At the end of the module, by INSTANCE, because the
lemmas on routes are there.  Under `AntAssumption` (more than three vertices, positive costs, no
route as long as `M_VAL`).  `ValueIsLengthHolds` and `BestOfAllHolds` follow from `AntsInv`: an ant
under way has a path without repetition, one that has come home a round trip with its
length as value, a solution is one that no exchange shortens, and the best one so far is
such a solution or `NoAnswer`, which any solution beats.  That the loop
over the solutions leaves the least is `BestOf`, an induction on the set of ants compared.

**`Pms_proofs`.**  Under `LogAssumption` (measurements are numbers, not negative; what is counted for a missing one is negative).  `RunsAccountedHolds`: the
logs collected are those of exactly the runs that ended well.  The invariant: there is a
solver only while the tool waits for it, so a timer that fires late meets nobody's
solver (`Waiting`); and what the tool is about to collect is what the solver that
ended last has left (`LastEnded`), whether it ended by itself or by the signal.

`ReportFairHolds`: the good runs and the logs correspond one to one (`Places`), so the logs of a task are
those of its good runs; their average, rounded down or not, lies between the extremes
(`SumBetween`, `Quotient`).  A cell with a missing measurement is negative only as long as
-1e20 outweighs the rest, hence the hypothesis `FewRuns`: the number of runs so far times any
measurement is less than that.

What is model-checked only (that the search of `AsymmetricSolver` ends, for the rules for which it
does, is neither; `ChildrenProper` is the step of it):

* Liveness and fairness (`SolveReturns`, `InterruptEnds`, `CampaignEnds`, `Finishes`, the fairness of
  `WorkSharing`): outside the prover's reach.
* `Coverage`, `RecordGenuine` and `BoundUnlessNearZero` of `SymmetricSolver`: they need that Prim's algorithm
  with remembered nearest vertices returns a least spanning tree, an argument about exchanges in trees
  that has not been carried out.
* All of `lint` (folds over lines and words): what a recursive operator computes for every input.
* `SolverContract` is an assumption of the proofs about engines; of the asymmetric solver
  its two halves are proved (`BoundsHolds`; `Rule2Covers` to `Rule5Covers` under `CoverageHolds`), of the symmetric ones the run
  `symmetric` asks whether they keep it.

## Known departures

Places where the code does not do what it, or a comment, promises.  The first and
the third are findings of PROJECT.json; the others were met while modelling and are described
here because the models leave them out or the properties say less because of them.

1. **The 1-tree near vertex 0** (`ms_one_tree-inl.h:55-61`).  The vertex nearest to
   vertex 1 is looked for in the whole row, column 0 included.  When vertex 0 is
   nearest, the edge between them becomes a tree edge, some vertex is left out, and
   the result is not the minimum spanning 1-tree that `ms_one_tree.h:12` announces:
   run `one_tree_near_zero`.  In `ClassicalSolver` vertex 0 then has three edges and
   tours are lost; in `LagrangeanSolver`, whose prices and free included edges can
   make vertex 0 the nearest one, a CHECK fails as well.  `symmetric` is therefore run
   on matrices where vertex 0 is so far from vertex 1 that no prices make up for it.
2. **A signal may leave a worker asleep.**  A worker that sees `g_interruped` leaves
   its loop (`parallel_bnb-inl.h:118`) without telling the scheduler.  One that sleeps
   in `schedule` is woken by nobody, and the join at `parallel_bnb-inl.h:86` waits for
   it for ever.  `InterruptEnds` says that this is the only way for solve to hang.
3. **Nodes in the queue after a signal.**  They belong to no container: a worker that leaves
   its loop cleans its own (`parallel_bnb-inl.h:144`) and nobody the queue.  When solve returns, the
   CHECK on unfreed nodes (`parallel_bnb-inl.h:97`) fails, and later the one on an empty queue in
   the destructor (`giving_scheduler.h:34`, `requesting_scheduler.h:34`).  `AllFreed` states the former without a
   condition, and run `queue_after_signal` shows it violated: a thread gives its surplus away,
   the signal comes, and both threads leave.  `NodesReleased` says what does hold: nothing is left in
   any container, and without a signal nothing is left in the queue either.
4. **Lost updates of a count.**  `MTSearchTree` decrements a plain `size_t` in a node
   that another thread's release may decrement too (`allocator-inl.h:49`).  An update
   may be lost, and the node is never freed, against the CHECK at
   `parallel_bnb-inl.h:97`; with a build that reads the result back from memory both
   threads may see zero and free it twice.  `tree` covers the build that keeps the
   result in a register, for which nothing is ever freed too early.
5. **Rule 2 at a root that is a tour.**  When the relaxation of the root is a tour
   shorter than the initial solution, rule 2 loses it.  Rules 4 and 5 then exclude
   whole rows, and whether the tour comes back depends on how ties are broken.  The run
   `asymmetric` has such roots for rule 3 only.  The symmetric solvers do not test the
   root either: rule 1 and `ClassicalSolver` lose the tours with both its edges at
   vertex 0, rule 3 makes no child at all; only rule 2 leaves nothing out.  On the
   matrices of `symmetric` the initial solution is as short as any such root.
6. **A second solve on one object.**  `GivingScheduler` does not reset its counter, which
   is zero after the first call and would wrap in the next.  The programs call once.
7. **Small things.**  `two_opt` never tries the last inner pair of edges.  `Ant::init`
   computes the length of the candidate list from default parameters, because the
   ant's own are assigned six lines later; for three vertices or fewer it is zero, and
   the CHECK of `get_next_point` fails.  A colony interrupted before its first
   iteration returns an empty route.  `ClassicalSolver::branch` does not return when
   the bound is above the record.  `DataLoader` reads `data_action_` uninitialised
   when `EDGE_WEIGHT_SECTION` comes before `EDGE_WEIGHT_FORMAT`.
8. **The static checker.**
   - NOLINT marks are read when their line is processed.  A complaint raised before that
     (`RemoveMultiLineComments`, or one that a look ahead raises about a later line, such as an empty
     loop body) is printed in spite of its mark,
     although `_USAGE` (`cpplint.py:102`) says that NOLINT suppresses the errors on its line;
     `CheckForHeaderGuard` has a remedy of its own.  `MarksApplyToTheirLine` holds the tool to marks it has read, and
     to marks on the same line of the same file; of complaints made before their mark is read it says nothing.
   - The comment in `CheckIncludeLine` (`cpplint.py:3051`) lists the deprecated place of the file's
     own header (4) before other headers (5) and wants a complaint about any lower type that comes after.
     `CheckNextIncludeOrder` keeps one section for both: such a header behind other headers is not
     reported, and the alphabet goes on from one type to the other.
     `SystemIncludesInOrder` takes the five types from the comment, and asks about system headers only.
   - `CloseExpression` counts the brackets of whole lines (`cpplint.py:1085`), and misses the end on a
     line that opens another bracket behind it, where its docstring (`cpplint.py:1050`) promises the
     position.  `ExpressionsEndBalanced` asks that an end is never found too early, and says
     nothing of ends that are found late or not at all.
   - `_FunctionState.End` leaves the name and the count (`cpplint.py:726`): the next brace
     in the first column, one that ends a namespace for instance, is taken for the end of the
     same function, and a long one is reported twice.  `LongFunctionsReported` asks only at
     the brace that closes the function.
   - `CheckBraces` does not end when a file starts with an indented, braced statement and a semicolon
     (`cpplint.py:2626`): `GetPreviousNonBlankLine` returns an empty line for ever.
     `BraceLoopEnds` names the case.
9. **The campaign tool.**  A run that the timer ends in its search returns 0 and is
   averaged with the runs that found the optimum.  One that the signal meets before the
   handler is installed or after it was taken away dies of it and is dropped.  A run that returns
   0 without a log (logging is a build option) makes `open` fail at `pms.py:112`, and all logs collected so far are
   lost.  The temporary configuration files are never deleted.  A timeout does not end a
   campaign whose solver hangs (departure 2).  For a parallel solver the last line with
   "Generated sets" is the average of the threads, and that is what the report shows.
   Tasks that differ in entries that `parse_task_name` does not read (`record`) share a label.
10. **Rule 4 may go round in circles.**  A child of rule 4 excludes the edges between one vertex of the
   cycle and the others, those already decided left out.  Nothing may be left: the CHECK at `tsp.cpp:294`
   says that this does not happen, but it does, and in builds where CHECK is
   empty (`log.h:29`) the child is its parent once more and the search never ends.  It takes a matrix
   whose cheap edges make cycles but no tour.  Once all edges from one vertex are excluded, the relaxation
   must use one of them, at the weight `M_VAL`; the value of the node, at the original costs,
   stays below the record.  On six vertices, rows without the diagonal: 1 9 1 9 1, 9 1 9 9 1, 1 1 9 9 9,
   9 9 9 1 9, 1 9 9 1 1, 1 9 1 1 9.  The compiled program does not end on it with
   rule 4, and returns 14 with rules 2, 3 and 5.  `ChildrenProper` therefore says of rule 4 only what does hold.

## What is not modelled

* Floating point: `M_VAL` is 1e16, above 2^53, so that sums with it are rounded; the
  models have integers.  Pheromones and the random draw they weigh: any candidate may
  be drawn.
* The free list of the allocator and the reuse of addresses.
* Branching rule 1 of the asymmetric solver: the edge it takes depends on the duals,
  and leaving the edge open makes too many searches.
* In `cpplint.py`, the checks of one line by a pattern (most of `CheckLanguage`,
  `CheckCStyleCast`, the operators in `CheckSpacing`, casts, alternative tokens, line width): they keep no state, and a
  model of a regular expression on words is no check of it.  The names a header guard is
  made of, and `RepositoryName`, which look for version-control directories.  The
  exceptions of four and six spaces in the blank-line check.
* The layout of the report (HTML, CSV, the plots), and the progress output of `pms.py`.
* In the Lagrangean bound, how far the prices rise: a real number that depends on the gap
  to the record.  The model takes any of a few integers, and `epsilon` is 0.
* The reader of problem files and the configuration: planned.
* Statistics, timers, logging, geometry, option parsing and output: nothing that
  the program decides depends on them.  The logger and the unit-test framework in
  `contrib` are third-party code.

## Plan

Done: the engines, the two schedulers, the search tree, the bounds of both solvers,
four of the five asymmetric rules, both symmetric solvers, the ant colony, the
static checker, the campaign tools.  Proved: the abstract algorithm, all three engines, the
two schedulers, the counts of the search tree, the bound and the branching of the asymmetric
solver, its initial solution, the ant colony, the accounts and the report of a campaign.

What could come next:

1. **More proofs.**  `OneTree` and `MSOneTree`: that the tree is a least one, then the bounds and the
   coverage of `SymmetricSolver`.  `Pms`: every configuration has had its runs when the report is made.
   That the model `AsymmetricSolver` with `Relaxations` is what `TransformNode` computes, as a refinement.
2. **More of the system.**
   `DataLoader`: the machine of lines and sections, against the matrix a file stands
   for.  A second call of `solve` on one object.  Rule 1, with the duals of `ApSolver`.
