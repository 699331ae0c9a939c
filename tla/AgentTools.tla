------------------------------ MODULE AgentTools ------------------------------
(***************************************************************************)
(* The tool calls of analysis sessions and the records they leave: queries, *)
(* their saved results, history and audit; Python executions with their     *)
(* submission, process, captured output and report.                        *)
(*                                                                         *)
(* A call is a task of its own.  Every write takes the I/O gate of its      *)
(* lease, so it is one action; other calls, the session's own edits, the    *)
(* coordinator and a crash come between two writes of a call.  The Python   *)
(* process is the operating system's: it and what it starts write to the    *)
(* pipes as they like, and touch no records.                               *)
(***************************************************************************)
EXTENDS AgentFiles, EvidenceQueries

CONSTANTS
  Spaces,      \* the workspaces in use, one for each worker of the service
  Calls,       \* identities of tool calls: their query and execution ids
  Contract,    \* the contract analysed: its authority, digest and sources
  Snapshots,   \* what the Evidence Store may hold when a query runs
  Queries,     \* the queries a session may ask
  RowLimits,   \* the row limits it may ask for
  MaxRows,     \* the service's ceiling
  MaxBytes,    \* limit of the result of a query
  Scripts,     \* what a session may run: paths and inline code
  Streams,     \* the pipes of a process: stdout and stderr
  MaxCaptured, \* bytes kept of each
  MaxWritten   \* bound: what a process writes to a pipe

ASSUME ToolsAssumption ==
  /\ MaxRows \in Nat \ {0} /\ MaxBytes \in Nat
  /\ MaxCaptured \in Nat \ {0} /\ MaxWritten \in Nat
  /\ EvidenceScope(Contract) # {}
  /\ "history.jsonl" \notin Calls

\* What the store holds and what is run are lists, and a row has a size.
ASSUME ListsAssumption ==
  /\ \A evidence \in Snapshots :
       evidence \in Seq(ToSet(evidence)) /\ \A row \in ToSet(evidence) : row.size \in Nat
  /\ \A script \in Scripts : \A source \in script.inline : source \in Seq(ToSet(source))

VARIABLES
  disk,   \* the files of each workspace's cycle
  lease,  \* LeaseState of the workspace, and the yield signal of its attempt
  call    \* the tool calls, with their locals

toolVars == <<disk, lease, call>>

Scope == CHOOSE scope \in EvidenceScope(Contract) : TRUE

NoAttempt == [attempt |-> {}, writable |-> FALSE, signal |-> "active"]

Unused == [pc |-> "unused"]
Ended == [pc |-> "ended"]
InFlight(c) == call[c].pc \notin {"unused", "ended"}
CallsOf(s) == {c \in Calls : InFlight(c) /\ call[c].space = s}

Yielding(s) == lease[s].signal # "active"

\* The first request to yield stands.
RequestYield(s, signal) ==
  lease' = [lease EXCEPT ![s].signal = IF @ = "active" THEN signal ELSE @]

-----------------------------------------------------------------------------
(* Where a call leaves its records *)

ResultFile(c) == <<"analysis", "queries", c>>
HistoryFile == <<"analysis", "queries", "history.jsonl">>
CodeFile(c) == <<"analysis", "executions", c, "script.py">>
RuntimeFile(c) == <<"analysis", "executions", c, "runtime.json">>
RecordFile(c) == <<"analysis", "executions", c, "result.json">>
AuditFile(category, c) == <<"audit", category, c>>

Step(c, pc) ==
  call' = [call EXCEPT ![c] = IF pc = "ended" THEN Ended ELSE [@ EXCEPT !.pc = pc]]

\* A write of a call through the gate; one that fails ends the call.
Writes(c, written, next) ==
  LET s == call[c].space
  IN /\ UNCHANGED lease
     /\ IF lease[s].writable
        THEN /\ \E d \in written : disk' = [disk EXCEPT ![s] = d]
             /\ Step(c, next)
        ELSE UNCHANGED disk /\ Step(c, "ended")

DiskOf(c) == disk[call[c].space]

\* Any write may also fail for the file system's own reasons.
WriteFails(c) ==
  /\ call[c].pc \in {"save", "history", "audit", "script", "submit", "report", "complete"}
  /\ Step(c, "ended") /\ UNCHANGED <<disk, lease>>

-----------------------------------------------------------------------------
(* run_sql *)

RunSql(s, c, query, rows) ==
  /\ call[c] = Unused /\ ~Yielding(s)
  /\ rows \in 1..MaxRows
  /\ call' = [call EXCEPT ![c] = [pc |-> "query", space |-> s, query |-> query, rows |-> rows]]
  /\ UNCHANGED <<disk, lease>>

\* What the history says of an answer: of a result, where it is and what it holds.
HistoryRecord(c, answer) ==
  IF answer.status = "failed" THEN [id |-> c, status |-> "failed"]
  ELSE [id |-> c, status |-> "succeeded", saved |-> Len(answer.rows),
        total |-> {n \in {Len(answer.rows)} : ~answer.truncated},
        truncated |-> answer.truncated, content |-> answer]

\* A failed query is recorded at once; a result only while the attempt is active.
Answers(c) ==
  /\ call[c].pc = "query"
  /\ \E evidence \in Snapshots :
       \E answer \in QueryAnswers(call[c].query, Scope,
                                  [rows |-> call[c].rows, bytes |-> MaxBytes], evidence) :
         call' = [call EXCEPT ![c] =
                    IF answer.status # "failed" /\ Yielding(@.space) THEN Ended
                    ELSE [pc |-> IF answer.status = "failed" THEN "history" ELSE "save",
                          space |-> @.space, answer |-> answer]]
  /\ UNCHANGED <<disk, lease>>

SavesResult(c) ==
  /\ call[c].pc = "save"
  /\ Writes(c, WriteText(DiskOf(c), ResultFile(c), <<call[c].answer>>), "history")

AppendsHistory(c) ==
  /\ call[c].pc = "history"
  /\ Writes(c, AppendText(DiskOf(c), HistoryFile, <<HistoryRecord(c, call[c].answer)>>), "audit")

AppendsAudit(c) ==
  /\ call[c].pc = "audit"
  /\ Writes(c, WriteText(DiskOf(c), AuditFile("queries", c),
                         <<HistoryRecord(c, call[c].answer)>>), "ended")

-----------------------------------------------------------------------------
(* code_interpreter *)

\* The source of a script in the analysis directory, or of inline code.
SourceOf(s, script) ==
  IF script.inline # {} THEN script.inline
  ELSE UNION {ReadText(disk[s], <<"analysis">> \o p) :
                p \in {q \in {script.path} : q # <<>> /\ ToSet(q) \intersect
                         (Unnamed \union {Backslashed, ".."}) = {}}}

CodeInterpreter(s, c, script) ==
  /\ call[c] = Unused /\ ~Yielding(s)
  /\ \E source \in SourceOf(s, script) :
       call' = [call EXCEPT ![c] = [pc |-> "script", space |-> s, source |-> source]]
  /\ UNCHANGED <<disk, lease>>

CopiesScript(c) ==
  /\ call[c].pc = "script"
  /\ Writes(c, WriteText(DiskOf(c), CodeFile(c), call[c].source), "submit")

Submitted(c) == [id |-> c, code |-> call[c].source]

AuditsSubmission(c) ==
  /\ call[c].pc = "submit"
  /\ Writes(c, WriteText(DiskOf(c), AuditFile("pythonSubmitted", c), <<Submitted(c)>>), "launch")

-----------------------------------------------------------------------------
(* PythonConfig::run: the process, its pipes, and the loop that watches it.  *)
(* Processes it starts (heirs) may keep the pipes open after it ended.       *)

NoCapture == [bytes |-> 0, truncated |-> FALSE, complete |-> FALSE]

\* count bytes arrived; none at the end of the file.
Accept(capture, count) ==
  IF count = 0 THEN [capture EXCEPT !.complete = TRUE]
  ELSE LET remaining == MaxCaptured - capture.bytes
       IN [capture EXCEPT !.bytes = @ + (IF count <= remaining THEN count ELSE remaining),
                          !.truncated = @ \/ count > remaining]

\* Slip: output that was cut off with its pipe counts as all of it.
ReportedAsRead(capture) == capture

Reported(capture) ==
  [bytes |-> capture.bytes, truncated |-> capture.truncated \/ ~capture.complete,
   complete |-> capture.complete]

Report(status, captured) ==
  [status |-> status, captured |-> [stream \in Streams |-> Reported(captured[stream])]]

\* An execution that ends without a process, or whose loop fails.
RunnerFailed == [status |-> "runnerFailed", captured |-> <<>>]
NotStarted == Report("launchFailed", [stream \in Streams |-> Accept(NoCapture, 0)])

Reports(c, report, next) ==
  call' = [call EXCEPT ![c] =
    [pc |-> next, space |-> @.space, source |-> @.source, report |-> report,
     wrote |-> IF @.pc = "running" THEN @.wrote ELSE [stream \in Streams |-> 0]]]

Started(c) ==
  [pc |-> "running", space |-> call[c].space, source |-> call[c].source,
   alive |-> TRUE, heirs |-> FALSE, outcome |-> "none",
   wrote |-> [stream \in Streams |-> 0], read |-> [stream \in Streams |-> 0],
   captured |-> [stream \in Streams |-> NoCapture]]

\* A yield before the launch is an error of the runner.
Launches(c) ==
  /\ call[c].pc = "launch"
  /\ IF Yielding(call[c].space) THEN Reports(c, RunnerFailed, "report")
     ELSE \/ Reports(c, NotStarted, "report")
          \/ call' = [call EXCEPT ![c] = Started(c)]
  /\ UNCHANGED <<disk, lease>>

Running(c) == call[c].pc = "running"
PipesOpen(c) == call[c].alive \/ call[c].heirs

\* The process writes its runtime identity itself, first an empty file.
RecordsRuntime(c) ==
  /\ Running(c) /\ call[c].alive
  /\ \E text \in {<<>>, <<[runtime |-> "python"]>>} :
       /\ (text = <<>>) <=> ~Exists(DiskOf(c), RuntimeFile(c))
       /\ \E d \in WriteText(DiskOf(c), RuntimeFile(c), text) :
            disk' = [disk EXCEPT ![call[c].space] = d]
  /\ UNCHANGED <<lease, call>>

ProcessWrites(c) ==
  /\ Running(c) /\ PipesOpen(c)
  /\ \E stream \in Streams :
       /\ call[c].wrote[stream] < MaxWritten
       /\ call' = [call EXCEPT ![c].wrote[stream] = @ + 1]
  /\ UNCHANGED <<disk, lease>>

ProcessForks(c) ==
  /\ Running(c) /\ call[c].alive /\ ~call[c].heirs
  /\ call' = [call EXCEPT ![c].heirs = TRUE]
  /\ UNCHANGED <<disk, lease>>

HeirsEnd(c) ==
  /\ Running(c) /\ call[c].heirs
  /\ call' = [call EXCEPT ![c].heirs = FALSE]
  /\ UNCHANGED <<disk, lease>>

\* The process ends by itself, which the loop notices.
ProcessExits(c) ==
  /\ Running(c) /\ call[c].outcome = "none"
  /\ \E status \in {"succeeded", "failed"} :
       call' = [call EXCEPT ![c].alive = FALSE, ![c].outcome = status]
  /\ UNCHANGED <<disk, lease>>

Kills(c, outcome) ==
  /\ Running(c) /\ call[c].outcome = "none"
  /\ call' = [call EXCEPT ![c].alive = FALSE, ![c].outcome = outcome]
  /\ UNCHANGED <<disk, lease>>

TimesOut(c) == Kills(c, "timedOut")
Cancels(c) == Running(c) /\ Yielding(call[c].space) /\ Kills(c, "cancelled")

\* A read of a pipe: some of what is in it, or its end.
ReadsPipe(c, stream) ==
  /\ Running(c) /\ ~call[c].captured[stream].complete
  /\ LET unread == call[c].wrote[stream] - call[c].read[stream]
     IN \E count \in 0..unread :
          /\ count = 0 => unread = 0 /\ ~PipesOpen(c)
          /\ call' = [call EXCEPT ![c].read[stream] = @ + count,
                                  ![c].captured[stream] = Accept(@, count)]
  /\ UNCHANGED <<disk, lease>>

\* Slip: the loop waits for the pipes without a limit.
DrainedWhole(c) ==
  call[c].outcome # "none" /\ \A stream \in Streams : call[c].captured[stream].complete

\* Everything was read, or the second after the end of the process is over.
Drained(c) == call[c].outcome # "none"

LoopEnds(c) ==
  /\ Running(c) /\ Drained(c)
  /\ Reports(c, Report(call[c].outcome, call[c].captured), "runtime")
  /\ UNCHANGED <<disk, lease>>

\* Waiting for the process or reading a pipe fails; the process is dropped.
LoopFails(c) ==
  /\ Running(c)
  /\ Reports(c, RunnerFailed, "report")
  /\ UNCHANGED <<disk, lease>>

\* A runtime identity that the process could not finish ends the call.
ReadsRuntime(c) ==
  /\ call[c].pc = "runtime"
  /\ Step(c, IF ReadText(DiskOf(c), RuntimeFile(c)) = {<<>>} THEN "ended" ELSE "report")
  /\ UNCHANGED <<disk, lease>>

SavesReport(c) ==
  /\ call[c].pc = "report"
  /\ Writes(c, WriteText(DiskOf(c), RecordFile(c),
                         <<[submission |-> Submitted(c), report |-> call[c].report]>>),
            "complete")

AuditsCompletion(c) ==
  /\ call[c].pc = "complete"
  /\ Writes(c, WriteText(DiskOf(c), AuditFile("pythonCompleted", c),
                         <<[id |-> c, status |-> call[c].report.status]>>), "ended")

-----------------------------------------------------------------------------

\* What the service itself does next for a call; time is its only other need.
CallStep(c) ==
  \/ Answers(c) \/ SavesResult(c) \/ AppendsHistory(c) \/ AppendsAudit(c)
  \/ CopiesScript(c) \/ AuditsSubmission(c) \/ Launches(c)
  \/ TimesOut(c) \/ LoopEnds(c)
  \/ ReadsRuntime(c) \/ SavesReport(c) \/ AuditsCompletion(c)

CallInterference(c) ==
  \/ WriteFails(c) \/ LoopFails(c) \/ Cancels(c)
  \/ RecordsRuntime(c) \/ ProcessWrites(c) \/ ProcessForks(c) \/ HeirsEnd(c)
  \/ ProcessExits(c) \/ \E stream \in Streams : ReadsPipe(c, stream)
=============================================================================
