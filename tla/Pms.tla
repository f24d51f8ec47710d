-------------------------------- MODULE Pms ---------------------------------
(***************************************************************************)
(* tools/pms.py: a campaign runs the solver so many times with each of the *)
(* configurations, ends the runs that take too long, collects the logs of  *)
(* the runs that end well, and has the report made of them.                *)
(*                                                                         *)
(* Three actors: the tool, the thread of threading.Timer, which terminates *)
(* the solver of the run it was started for, and the solver, which dies of *)
(* the signal except in solve, where a handler makes it return early (see  *)
(* ParallelBNB for what becomes of it then).  A process keeps its id until *)
(* communicate has reaped it, and no id is given out twice.                *)
(***************************************************************************)
EXTENDS ConfigGenerator, PmsReport

CONSTANTS
  Campaigns,   \* the settings files: a tree, num_runs, whether there is a timeout
  LogFiles     \* what a solver may have logged

\* The parsers look for digits; what is counted for a missing measurement is negative.
ASSUME LogAssumption ==
  /\ \A output \in LogFiles : output \in Seq(Titles \X Nat)
  /\ Missing \in Int /\ Missing < 0

NoLog == << >>

VARIABLES
  campaign,
  pc,           \* where the tool is
  config_list,  \* the configurations, the present one first
  run,          \* how many runs the present one has had
  solver,       \* the solver: where it is, and how it ended
  timer,        \* the timer of the run
  logs,         \* what the tool has collected
  saved,        \* the results file
  report,
  ended         \* every solver that has ended, in order

toolVars == <<campaign, config_list, run, logs, saved, report>>
vars == <<toolVars, pc, solver, timer, ended>>

NoSolver == [phase |-> "none", task |-> << >>, code |-> 0, output |-> NoLog]

Init ==
  /\ campaign \in Campaigns
  /\ pc = "start" /\ config_list = << >> /\ run = 0
  /\ solver = NoSolver /\ timer = "none"
  /\ logs = << >> /\ saved = << >> /\ report = NoReport
  /\ ended = << >>

-----------------------------------------------------------------------------
(* The tool                                                                *)

\* main, up to the runs
ReadSettings ==
  /\ pc = "start"
  /\ IF Readable(campaign.tree)
     THEN pc' = "config" /\ config_list' = ConfigList(campaign.tree)
     ELSE pc' = "crashed" /\ UNCHANGED config_list
  /\ UNCHANGED <<campaign, run, solver, timer, logs, saved, report, ended>>

\* The next configuration, in a temporary file that nobody ever deletes.
WriteConfig ==
  /\ pc = "config" /\ config_list # << >>
  /\ run' = 0
  /\ pc' = "task"
  /\ UNCHANGED <<campaign, config_list, solver, timer, logs, saved, report, ended>>

\* Mutant: the timer is cancelled before the tool waits for the solver.
RunTask_CancelledFirst ==
  /\ pc = "task" /\ run < campaign.num_runs
  /\ solver' = [NoSolver EXCEPT !.phase = "starting", !.task = Head(config_list)]
  /\ timer' = "over"
  /\ pc' = "communicate"
  /\ UNCHANGED <<toolVars, ended>>

\* run_task: Popen, and the timer if there is a timeout.
RunTask ==
  /\ pc = "task" /\ run < campaign.num_runs
  /\ solver' = [NoSolver EXCEPT !.phase = "starting", !.task = Head(config_list)]
  /\ timer' = IF campaign.timeout THEN "waiting" ELSE "none"
  /\ pc' = "communicate"
  /\ UNCHANGED <<toolVars, ended>>

\* communicate returns when the solver has exited, and only then.
Communicate ==
  /\ pc = "communicate" /\ solver.phase = "exited"
  /\ solver' = [solver EXCEPT !.phase = "none"]
  /\ pc' = "cancel"
  /\ UNCHANGED <<toolVars, timer, ended>>

\* cancel does nothing to a timer that has seen its time pass.
Cancel ==
  /\ pc = "cancel"
  /\ timer' = IF timer = "waiting" THEN "over" ELSE timer
  /\ pc' = "collect"
  /\ UNCHANGED <<toolVars, solver, ended>>

\* Mutant: whatever became of the solver, its log is collected.
Collect_AnyCode ==
  /\ pc = "collect"
  /\ IF solver.output = NoLog THEN pc' = "crashed" /\ UNCHANGED <<logs, run>>
     ELSE /\ logs' = Append(logs, [task_name |-> Head(config_list),
                                   output |-> solver.output])
          /\ pc' = "task" /\ run' = run + 1
  /\ UNCHANGED <<campaign, config_list, saved, report, solver, timer, ended>>

\* The rest of the loop of run_configs: the log of a run that returned 0 is read,
\* and deleted; without one the tool itself fails, and with it go all other logs.
Collect ==
  /\ pc = "collect"
  /\ IF solver.code = 0 /\ solver.output = NoLog
     THEN pc' = "crashed" /\ UNCHANGED <<logs, run>>
     ELSE /\ logs' = IF solver.code # 0 THEN logs
                     ELSE Append(logs, [task_name |-> Head(config_list),
                                        output |-> solver.output])
          /\ pc' = "task" /\ run' = run + 1
  /\ UNCHANGED <<campaign, config_list, saved, report, solver, timer, ended>>

NextConfig ==
  /\ pc = "task" /\ run = campaign.num_runs
  /\ config_list' = Tail(config_list)
  /\ pc' = "config"
  /\ UNCHANGED <<campaign, run, logs, saved, report, solver, timer, ended>>

\* The results are written when all runs are over.
Save ==
  /\ pc = "config" /\ config_list = << >>
  /\ saved' = logs
  /\ pc' = "report"
  /\ UNCHANGED <<campaign, config_list, run, logs, report, solver, timer, ended>>

\* pms_report.main, which cannot do without certain entries in a task name.
MakeReport ==
  /\ pc = "report"
  /\ IF \A task \in TaskNames(saved) : Parsable(task)
     THEN pc' = "done" /\ report' = Report(saved)
     ELSE pc' = "crashed" /\ UNCHANGED report
  /\ UNCHANGED <<campaign, config_list, run, logs, saved, solver, timer, ended>>

Tool == ReadSettings \/ WriteConfig \/ RunTask \/ Communicate \/ Cancel \/ Collect
          \/ NextConfig \/ Save \/ MakeReport

-----------------------------------------------------------------------------
(* The solver                                                              *)

Running == solver.phase \in {"starting", "solving", "interrupted", "returned"}

\* How a solver ends: with a code, and with a log unless logging is compiled out
\* or it fails before it has said where the log is.
Ends(code, output) ==
  /\ solver' = [solver EXCEPT !.phase = "exited", !.code = code, !.output = output]
  /\ ended' = Append(ended, [task |-> solver.task, code |-> code, output |-> output])

Enters(phase) == solver' = [solver EXCEPT !.phase = phase] /\ UNCHANGED ended

\* It installs its handler, solves, restores the old handler, and exits.
Install == solver.phase = "starting" /\ Enters("solving")

Return == solver.phase = "solving" /\ Enters("returned")

ReturnEarly == solver.phase = "interrupted" /\ Enters("returned")

Exit == solver.phase = "returned" /\ \E output \in LogFiles \cup {NoLog} : Ends(0, output)

\* A CHECK fails, a file cannot be read: the code is not 0.
Fail == Running /\ \E output \in LogFiles \cup {NoLog} : Ends(1, output)

\* Workers that the signal has left asleep keep the solver for ever.
Strand == solver.phase = "interrupted" /\ Enters("stuck")

Solver ==
  /\ Install \/ Return \/ ReturnEarly \/ Exit \/ Fail \/ Strand
  /\ UNCHANGED <<toolVars, pc, timer>>

\* What a solver does without searching: it gets to its search, and away from it
\* when it is told to.
Obeys ==
  /\ Install \/ ReturnEarly \/ Exit \/ Strand
  /\ UNCHANGED <<toolVars, pc, timer>>

-----------------------------------------------------------------------------
(* The timer                                                               *)

\* The time is up, and the timer has not been cancelled.
Expire ==
  /\ timer = "waiting"
  /\ timer' = "firing"
  /\ UNCHANGED <<toolVars, pc, solver, ended>>

\* terminate_process: the signal interrupts a search, and ends a solver that is
\* not searching; a process that is gone, or about to be, cannot be harmed.
Terminate ==
  /\ timer = "firing"
  /\ timer' = "over"
  /\ CASE solver.phase = "solving" -> Enters("interrupted")
       [] solver.phase \in {"starting", "returned"} -> Ends(-15, NoLog)
       [] OTHER -> UNCHANGED <<solver, ended>>
  /\ UNCHANGED <<toolVars, pc>>

Timer == Expire \/ Terminate

-----------------------------------------------------------------------------
Halted == (pc \in {"done", "crashed"} \/ solver.phase = "stuck") /\ UNCHANGED vars

Next == Tool \/ Solver \/ Timer \/ Halted

\* The tool and its timer run, and so does a solver; but how long a search takes
\* is not known.
Spec == Init /\ [][Next]_vars /\ WF_vars(Tool) /\ WF_vars(Timer) /\ WF_vars(Obeys)

-----------------------------------------------------------------------------
(* Properties                                                              *)

Good(i) == ended[i].code = 0 /\ ended[i].output # NoLog

Goods(n) == {i \in 1 .. n : Good(i)}

\* How many runs the tool is through with: all but one that it has not collected yet.
Through ==
  IF solver.phase = "exited" \/ pc \in {"cancel", "collect"} THEN Len(ended) - 1 ELSE Len(ended)

\* The tool has collected the logs of exactly the runs that returned 0, in order
\* and each under the configuration its solver was given, however the timer's
\* signal falls between the end of a solver and cancel (run_configs).
RunsAccounted ==
  /\ Len(logs) = Cardinality(Goods(Through))
  /\ \A i \in Goods(Through) :
       logs[Cardinality(Goods(i))] = [task_name |-> ended[i].task, output |-> ended[i].output]

\* The report has a row for every task with a run that ended well, each cell lies
\* between the least and the greatest of what the runs of the task measured last,
\* or is negative where one of them has not measured it; and behind the rows with
\* a label are as many logs as there are such runs (build_table_data).
ReportFair ==
  pc = "done" =>
    LET good == {i \in DOMAIN ended : Good(i)}
        of(task) == {i \in good : ended[i].task = task}
        last(i, title) == Result(ended[i].output, title)
    IN /\ {row.task : row \in report.rows} = {ended[i].task : i \in good}
       /\ \A row \in report.rows : \A title \in Titles :
            LET cell == row.cells[title]
            IN IF \A i \in of(row.task) : Parsed(ended[i].output, title) # {}
               THEN /\ \E i \in of(row.task) : last(i, title) * cell.den <= cell.num
                    /\ \E i \in of(row.task) : cell.num <= last(i, title) * cell.den
               ELSE cell.num < 0
       /\ \A label \in DOMAIN report.shown :
            Cardinality(report.shown[label])
              = Cardinality({i \in good : ParseTaskName(ended[i].task) = label})

\* A campaign with a timeout ends, however long the searches would take, unless a
\* solver does not survive its interruption in working order.
CampaignEnds ==
  campaign.timeout => <>(pc \in {"done", "crashed"} \/ solver.phase = "stuck")

=============================================================================
