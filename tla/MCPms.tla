------------------------------- MODULE MCPms --------------------------------
(***************************************************************************)
(* Small campaigns: trees with alternatives at several levels, two tasks   *)
(* with the same name, two with the same label in the report, a task that  *)
(* the report cannot parse, and settings that cannot be read.              *)
(***************************************************************************)
EXTENDS Pms

Property(name, values, childs) ==
  [kind |-> "property", name |-> name, values |-> values, childs |-> childs]

Section(name, childs) ==
  [kind |-> "section", name |-> name, values |-> << >>, childs |-> childs]

Base == <<Section("general", <<2>>),
          Property("problem_path", <<"data/a">>, <<3>>),
          Property("container_type", <<"lifo">>, <<4>>)>>

MCTrees ==
  {Base \o <<Property("valuation_type", <<"serial">>, <<5>>), Section("tsp", <<6>>),
             Property("branching_rule", <<"2", "3">>, << >>)>>,
   Base \o <<Property("valuation_type", <<"parallel-lock">>, <<5, 6>>),
             Property("num_threads", <<"2">>, << >>), Property("record", <<"9">>, << >>)>>,
   [Base EXCEPT ![2].values = <<"data/a", "old/a">>]
     \o <<Property("valuation_type", <<"serial">>, << >>)>>,
   Base \o <<Property("valuation_type", <<"serial", "serial">>, << >>)>>,
   <<Property("problem_path", <<"data/a">>, << >>)>>,
   <<Section("general", <<2>>), [Property("x", << >>, << >>) EXCEPT !.kind = "other"]>>}

MCCampaigns ==
  [tree : MCTrees, num_runs : {2}, timeout : BOOLEAN]
    \cup [tree : MCTrees, num_runs : {0}, timeout : {TRUE}]

MCMissing == -1000

MCBasename == [path \in {"data/a", "old/a"} |-> "a"]

\* Two stretches of a search, of which the second counts; one without a time.
MCLogFiles == {<<<<"sets", 9>>, <<"time", 3>>, <<"sets", 4>>>>, <<<<"sets", 7>>>>}

=============================================================================
