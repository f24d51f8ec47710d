----------------------------- MODULE PmsReport ------------------------------
(***************************************************************************)
(* tools/pms_report.py: from the logs of a campaign to a table with one    *)
(* row per task and the average of every measurement.                      *)
(*                                                                         *)
(* A log has the name of its task, which is the configuration, and an      *)
(* output: the measurements in it, line by line, as a title and a value.   *)
(***************************************************************************)
EXTENDS Integers, SequencesExt

CONSTANTS
  Titles,      \* the measurements the parsers look for
  Whole,       \* those that are converted to integers
  Missing,     \* what counts for a measurement that a log does not have (-1e20)
  Basename     \* os.path.basename of the problem files

\* The entries of a task name: of two lines with the same key the last one counts.
Keys(task) == {task[i][1] : i \in {k \in DOMAIN task : Len(task[k]) = 2}}

Entry(task, key, default) ==
  IF key \notin Keys(task) THEN default
  ELSE task[Max({i \in DOMAIN task : Len(task[i]) = 2 /\ task[i][1] = key})][2]

\* parse_task_name fails without these.
Parsable(task) == {"problem_path", "container_type", "valuation_type"} \subseteq Keys(task)

ParseTaskName(task) ==
  LET limit(key) == Entry(task, key, "")
  IN [problem |-> <<Basename[limit("problem_path")], limit("problem_size")>>,
      settings |-> <<limit("container_type"), limit("branching_rule"),
                     limit("valuation_type"), Entry(task, "num_threads", "1"),
                     Entry(task, "type", "none"), limit("num_minimum_nodes"),
                     IF "num_minimum_nodes" \in Keys(task)
                     THEN limit("num_maximum_nodes") ELSE "">>]

\* LogData: a line with a title overwrites what an earlier one said.
Parsed(output, title) == {i \in DOMAIN output : output[i][1] = title}

Result(output, title) == output[Max(Parsed(output, title))][2]

\* Mutant: a measurement that is missing counts as nothing.
Counted_Zero(output, title) ==
  IF Parsed(output, title) = {} THEN 0 ELSE Result(output, title)

Counted(output, title) ==
  IF Parsed(output, title) = {} THEN Missing ELSE Result(output, title)

\* One cell of build_table_data, for the logs with these numbers.  Python 2 divides
\* integers without a remainder.
Average(logs, chosen, title) ==
  LET sum == SumFunction([i \in chosen |-> Counted(logs[i].output, title)])
      whole == title \in Whole /\ \A i \in chosen : Parsed(logs[i].output, title) # {}
  IN IF whole THEN [num |-> sum \div Cardinality(chosen), den |-> 1]
     ELSE [num |-> sum, den |-> Cardinality(chosen)]

TaskNames(logs) == {logs[i].task_name : i \in DOMAIN logs}

\* main: the rows, and the numbers of the logs that are shown behind each of them.
Report(logs) ==
  LET runs(task) == {i \in DOMAIN logs : logs[i].task_name = task}
      row(task) == [task |-> task,
                    cells |-> [title \in Titles |-> Average(logs, runs(task), title)]]
      labels == {ParseTaskName(task) : task \in TaskNames(logs)}
  IN [rows |-> {row(task) : task \in TaskNames(logs)},
      shown |-> [label \in labels |->
                   {i \in DOMAIN logs : ParseTaskName(logs[i].task_name) = label}]]

NoReport == [rows |-> {}, shown |-> << >>]

=============================================================================
