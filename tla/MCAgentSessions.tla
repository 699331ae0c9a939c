---------------------------- MODULE MCAgentSessions ----------------------------
(***************************************************************************)
(* Two workspaces, three clients, two attempts of each cycle, one pipe.     *)
(* Each Budget is a scenario: what a session may do and what may fail.      *)
(***************************************************************************)
EXTENDS AgentSessions

CONSTANTS wa, wb, q1, q2, n1, n2, n3, out

Metric == [signal |-> "metric", scope |-> "app", name |-> "latency",
           metricKind |-> {"gauge"}, metricUnit |-> {"ms"}, parentSpan |-> {}]

MCContract == [authority |-> <<"o", "p", "e">>, digest |-> "d1", sources |-> {Metric}]

Row(id, source, contract, size) ==
  [observation |-> id, authority |-> MCContract.authority, source |-> source,
   contract |-> contract, size |-> size]

\* Two measures, a decision of the contract and one of another: more than the
\* limit; one measure; one that is too large.
MCSnapshots ==
  {<<Row("m1", Metric, {}, 1), Row("x", DecisionObservation, {"d2"}, 1),
     Row("r", DecisionObservation, {"d1"}, 1), Row("m2", Metric, {}, 1)>>,
   <<Row("m1", Metric, {}, 1)>>,
   <<Row("m1", Metric, {}, 3)>>}

Query(functions, selects) ==
  [statements |-> <<"query">>, recursive |-> FALSE, ctes |-> <<>>,
   relations |-> {"observations"}, functions |-> functions,
   columns |-> <<"observation_id">>, binary |-> FALSE, selects |-> selects]

MCQueries == {Query({}, {"m1", "x", "r", "m2"}), Query({"load_extension"}, {"m1"})}

Path(names) == <<"", "workspace">> \o names
Attempt(id, rest) == Path(<<"analysis", "attempts", id>> \o rest)

Edit(op, path, target) ==
  [op |-> op, path |-> path, target |-> target, item |-> "text",
   recursive |-> TRUE, force |-> FALSE]

MCEdits ==
  {Edit("write", Attempt("second", <<"draft.json">>), <<>>),
   Edit("append", Attempt("first", <<"draft.json">>), <<>>),
   Edit("append", Path(<<"handoffs", "checkpoint.md">>), <<>>),
   Edit("write", Path(<<"analysis", "executions", "q1", "result.json">>), <<>>),
   Edit("write", Path(<<"analysis", "attempts", "first", "..", "second", "x">>), <<>>),
   Edit("mkdir", Path(<<"analysis", ".copilot", "state">>), <<>>),
   Edit("rm", Attempt("first", <<>>), <<>>),
   Edit("rm", Path(<<"analysis">>), <<>>),
   Edit("rename", Attempt("first", <<>>), Attempt("second", <<"kept">>)),
   Edit("rename", Path(<<"analysis", "queries">>), Attempt("first", <<"kept">>))}

MCScripts == {[inline |-> {<<"print">>}, path |-> <<>>],
              [inline |-> {}, path |-> <<"findings.md">>]}

Scenario(attempts, queries, scripts, edits, proposals, failures, crashes, stops) ==
  [attempts |-> attempts, queries |-> queries, scripts |-> scripts, edits |-> edits,
   proposals |-> proposals, failures |-> failures, crashes |-> crashes, stops |-> stops,
   spaces |-> {s \in Spaces : attempts[s] > 0}]

Once  == [s \in Spaces |-> IF s = wa THEN 1 ELSE 0]
Twice == [s \in Spaces |-> IF s = wa THEN 2 ELSE 0]
Both  == [s \in Spaces |-> 1]

\* Two sessions and a client that fails; one, a crash and a stop; edits of two
\* attempts and a proposal; a query with edits; two queries; one with a
\* proposal, a crash and a stop; a script.
MCBudgets ==
  {Scenario(Both, 0, 0, 0, 0, 1, 0, 0),
   Scenario(Once, 0, 0, 0, 0, 1, 1, 1),
   Scenario(Twice, 0, 0, 2, 1, 0, 0, 0),
   Scenario(Twice, 1, 0, 1, 0, 0, 0, 0),
   Scenario(Once, 2, 0, 0, 0, 0, 0, 0),
   Scenario(Once, 1, 0, 0, 1, 0, 1, 1),
   Scenario(Once, 0, 1, 0, 0, 0, 0, 0)}

MCAttempts == <<"second", "first">>
=============================================================================
