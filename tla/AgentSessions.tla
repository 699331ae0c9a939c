----------------------------- MODULE AgentSessions -----------------------------
(***************************************************************************)
(* The workers of Async Analysis with the agent sessions they run: the one  *)
(* Copilot client they share, session creation with its retry, the ways a   *)
(* run ends, closing, shutdown, and a crash; with the sessions' edits and   *)
(* tool calls (AgentTools).                                                *)
(*                                                                         *)
(* There is a worker for each workspace: which of the workers takes it up   *)
(* makes no difference, and the agent pool has a permit for each.  What the *)
(* attempts of a cycle add up to is AnalysisCycle's.  The SDK is external:  *)
(* a client may fail at any time, a session breaks with its client, and a   *)
(* session whose disconnect failed lasts until the SDK drops it.           *)
(***************************************************************************)
EXTENDS AgentTools

CONSTANTS
  Clients,   \* identities of Copilot clients
  Attempts,  \* the attempts of a cycle, the last one first
  Edits,     \* what a session may try to do to the files
  Budgets    \* bounds: how much of what happens, one for each scenario

\* An attempt's name is letters, digits, "-" and "_" (validate_segment).
ASSUME SessionsAssumption ==
  /\ Attempts \in Seq(ToSet(Attempts))
  /\ (Unnamed \union {"checkpoint.md"}) \intersect ToSet(Attempts) = {}
  /\ \A edit \in Edits :
       /\ edit.op \in {"write", "append", "mkdir", "rm", "rename"}
       /\ \A path \in PathsOf(edit) : path \in Seq(ToSet(path))
  /\ Budgets \subseteq [attempts : [Spaces -> 0..Len(Attempts)], queries : Nat, scripts : Nat,
                        edits : Nat, proposals : Nat, failures : Nat, crashes : Nat,
                        stops : Nat, spaces : SUBSET Spaces]

VARIABLES
  service,   \* "running", "stopping" or "stopped"
  clients,   \* the clients and their state
  current,   \* the runtime's client, at most one
  lock,      \* the worker that starts a client under the runtime's lock
  worker,    \* run_worker and the attempt it is in, with its locals
  session,   \* the client of each workspace's open session
  budget     \* what may still happen of a Budget

sessionVars == <<service, clients, current, lock, worker, session, budget>>
vars == <<toolVars, sessionVars>>

Resting(pc) == [pc |-> pc, client |-> {}, retried |-> FALSE, mode |-> "run", next |-> "none"]
\* The service has a worker for the workspaces of the scenario.
Starting(s) == Resting(IF s \in budget.spaces THEN "idle" ELSE "returned")
Goto(s, pc) == worker' = [worker EXCEPT ![s].pc = pc]

Unborn == {n \in Clients : clients[n] = "unborn"}
Fresh == CHOOSE n \in Unborn : TRUE

Works(ns) == \E n \in ns : clients[n] = "running"

Spends(what) == budget[what] > 0 /\ budget' = [budget EXCEPT ![what] = @ - 1]

SessionsInit ==
  /\ disk = [s \in Spaces |-> <<>>]
  /\ lease = [s \in Spaces |-> NoAttempt]
  /\ call = [c \in Calls |-> Unused]
  /\ service = "running"
  /\ \E n \in Clients :
       /\ n = CHOOSE m \in Clients : TRUE
       /\ clients = [m \in Clients |-> IF m = n THEN "running" ELSE "unborn"]
       /\ current = {n}
  /\ lock = {}
  /\ budget \in Budgets
  /\ worker = [s \in Spaces |-> Starting(s)]
  /\ session = [s \in Spaces |-> {}]

-----------------------------------------------------------------------------
(* The files of an attempt *)

FailureFile(a) == <<"attempts", a>>
HandoffFile(a) == <<"handoffs", a>>
ProposalFile == <<"proposal.json">>
OutcomeFile == <<"outcome.json">>
AttemptDirectory(a) == <<"analysis", "attempts", a>>
NoteFiles == {Below(path) : path \in LifecycleNotes}

Records(s, location, text) == disk' = [disk EXCEPT ![s] = With(@, location, FileEntry(text))]
RecordsFailure(s) == \E a \in lease[s].attempt : Records(s, FailureFile(a), <<"failed">>)

\* prepare_agent_workspace, and the directory of the attempt.
Prepared(files, a) ==
  LET absent == {note \in NoteFiles : ~Exists(files, note)}
      needed == {AttemptDirectory(a)}
                  \union UNION {Parents(l) : l \in absent \union {AttemptDirectory(a)}}
  IN Over([note \in absent |-> FileEntry(<<"template">>)],
          Over(files, [l \in needed |-> DirEntry]))

-----------------------------------------------------------------------------
(* run_worker and the claim *)

\* The shared lease lives as long as a session or a call of the workspace.
InUse(s) == session[s] # {} \/ CallsOf(s) # {}

Polls(s) ==
  /\ worker[s].pc = "idle"
  /\ Goto(s, IF service = "running" THEN "polling" ELSE "returned")
  /\ UNCHANGED <<toolVars, service, clients, current, lock, session, budget>>

Rests == Resting(IF service = "running" THEN "idle" ELSE "returned")
Finishes(s) == worker' = [worker EXCEPT ![s] = Rests]

FindsNothing(s) ==
  /\ worker[s].pc = "polling"
  /\ Finishes(s)
  /\ UNCHANGED <<toolVars, service, clients, current, lock, session, budget>>

\* A cycle with a sealed proposal takes no session any more.
Claims(s) ==
  /\ worker[s].pc = "polling" /\ ~InUse(s)
  /\ budget.attempts[s] > 0
  /\ ~Exists(disk[s], ProposalFile) /\ ~Exists(disk[s], OutcomeFile)
  /\ LET a == Attempts[budget.attempts[s]]
     IN /\ disk' = [disk EXCEPT ![s] = Prepared(@, a)]
        /\ lease' = [lease EXCEPT ![s] = [attempt |-> {a}, writable |-> TRUE, signal |-> "active"]]
  /\ budget' = [budget EXCEPT !.attempts[s] = @ - 1]
  /\ worker' = [worker EXCEPT ![s] = Resting("client")]
  /\ UNCHANGED <<call, service, clients, current, lock, session>>

-----------------------------------------------------------------------------
(* CopilotRuntime and start_session *)

Unlocked == lock = {}

TakesClient(s) ==
  /\ worker[s].pc = "client" /\ Unlocked /\ current # {}
  /\ worker' = [worker EXCEPT ![s].pc = "creating", ![s].client = current]
  /\ UNCHANGED <<toolVars, service, clients, current, lock, session, budget>>

StartsClient(s) ==
  /\ worker[s].pc = "client" /\ Unlocked /\ current = {}
  /\ lock' = {s}
  /\ Goto(s, "launching")
  /\ UNCHANGED <<toolVars, service, clients, current, session, budget>>

ClientStarts(s) ==
  /\ worker[s].pc = "launching" /\ Unborn # {}
  /\ clients' = [clients EXCEPT ![Fresh] = "running"]
  /\ current' = {Fresh} /\ lock' = {}
  /\ worker' = [worker EXCEPT ![s].pc = "creating", ![s].client = {Fresh}]
  /\ UNCHANGED <<toolVars, service, session, budget>>

SessionStarts(s) ==
  /\ worker[s].pc = "creating" /\ Works(worker[s].client)
  /\ session' = [session EXCEPT ![s] = worker[s].client]
  /\ Goto(s, "running")
  /\ UNCHANGED <<toolVars, service, clients, current, lock, budget>>

\* The client is given up once, and another tried.
CreationBreaks(s) ==
  /\ worker[s].pc = "creating" /\ ~Works(worker[s].client) /\ ~worker[s].retried
  /\ worker' = [worker EXCEPT ![s].pc = "invalidating", ![s].retried = TRUE]
  /\ UNCHANGED <<toolVars, service, clients, current, lock, session, budget>>

\* Slip: whichever client the runtime has is given up.
TakenAnyway(failed) == current
\* The client that failed, if the runtime still has it.
Taken(failed) == IF current = failed THEN current ELSE {}

\* A creation is tried again, a run reports its error.
AfterInvalidation(s) == IF session[s] = {} THEN "client" ELSE "broken"

Invalidates(s) ==
  /\ worker[s].pc = "invalidating" /\ Unlocked
  /\ LET taken == Taken(worker[s].client)
     IN /\ current' = current \ taken
        /\ worker' = [worker EXCEPT ![s].client = taken,
                        ![s].pc = IF taken = {} THEN AfterInvalidation(s) ELSE "stopping"]
  /\ UNCHANGED <<toolVars, service, clients, lock, session, budget>>

\* The clients ns stop; those that failed are gone for good.
Stopped(ns) ==
  [n \in Clients |-> IF n \notin ns THEN clients[n]
                     ELSE IF clients[n] = "running" THEN "stopped" ELSE "discarded"]

StopsClient(s) ==
  /\ worker[s].pc = "stopping"
  /\ clients' = Stopped(worker[s].client)
  /\ Goto(s, AfterInvalidation(s))
  /\ UNCHANGED <<toolVars, service, current, lock, session, budget>>

Acquiring(s) ==
  /\ session[s] = {}
  /\ worker[s].pc \in {"client", "launching", "creating", "invalidating", "stopping"}

\* Slip: the lock is left behind.
LockKept(s) == lock
LockDropped(s) == lock \ {s}

\* There is no session: an error, or the allowance of the attempt is used up.
AcquisitionEnds(s) ==
  /\ Acquiring(s)
  /\ lock' = LockDropped(s)
  /\ RecordsFailure(s)
  /\ Finishes(s)
  /\ UNCHANGED <<lease, call, service, clients, current, session, budget>>

-----------------------------------------------------------------------------
(* The run of a session, and what interrupts it *)

InRun(s) ==
  /\ session[s] # {}
  /\ worker[s].pc \in {"running", "invalidating", "stopping", "broken"}

RunBreaks(s) ==
  /\ worker[s].pc = "running" /\ ~Works(session[s])
  /\ worker' = [worker EXCEPT ![s].pc = "invalidating", ![s].client = session[s]]
  /\ UNCHANGED <<toolVars, service, clients, current, lock, session, budget>>

\* The session is to be closed; then, if it could be, the rest of the attempt.
ToClose(s, next) == worker' = [worker EXCEPT ![s].pc = "closing", ![s].next = next]

\* An outcome that ends the cycle, one that hands it on, or an error.
RunEnds(s) ==
  /\ InRun(s) /\ worker[s].mode \in {"run", "yielding"}
  /\ \/ /\ worker[s].pc = "running" /\ Works(session[s])
        /\ \/ ToClose(s, "complete") /\ UNCHANGED disk
           \/ /\ lease[s].writable
              /\ \E a \in lease[s].attempt : Records(s, HandoffFile(a), <<"handoff">>)
              /\ ToClose(s, "none")
     \/ /\ worker[s].pc \in {"running", "broken"}
        /\ RecordsFailure(s) /\ ToClose(s, "none")
  /\ UNCHANGED <<lease, call, service, clients, current, lock, session, budget>>

\* A handoff of a sealed cycle is refused, and the session closed only once.
HandoffRefused(s) ==
  /\ worker[s].pc = "running" /\ worker[s].mode \in {"run", "yielding"}
  /\ Works(session[s]) /\ ~lease[s].writable
  /\ Goto(s, "closingAgain")
  /\ UNCHANGED <<toolVars, service, clients, current, lock, session, budget>>

\* The allowance is used up, or the contract cannot be looked up.
Interrupted(s) ==
  /\ InRun(s) /\ worker[s].mode = "run"
  /\ RequestYield(s, "shutdown") \/ UNCHANGED lease
  /\ ToClose(s, "record")
  /\ UNCHANGED <<disk, call, service, clients, current, lock, session, budget>>

Superseded(s) ==
  /\ InRun(s) /\ worker[s].mode = "run"
  /\ RequestYield(s, "superseded")
  /\ worker' = [worker EXCEPT ![s].mode = "superseded"]
  /\ UNCHANGED <<disk, call, service, clients, current, lock, session, budget>>

\* The agent has acknowledged it, or has not in time.
SupersessionEnds(s) ==
  /\ InRun(s) /\ worker[s].mode = "superseded"
  /\ RecordsFailure(s) \/ UNCHANGED disk
  /\ ToClose(s, "complete")
  /\ UNCHANGED <<lease, call, service, clients, current, lock, session, budget>>

ShutsDown(s) ==
  /\ InRun(s) /\ worker[s].mode = "run" /\ service = "stopping"
  /\ RequestYield(s, "shutdown")
  /\ worker' = [worker EXCEPT ![s].mode = "yielding"]
  /\ UNCHANGED <<disk, call, service, clients, current, lock, session, budget>>

GraceElapses(s) ==
  /\ InRun(s) /\ worker[s].mode = "yielding"
  /\ RecordsFailure(s)
  /\ ToClose(s, "none")
  /\ UNCHANGED <<lease, call, service, clients, current, lock, session, budget>>

\* The SDK disconnects the session; a failed abort is ignored.
Closes(s) ==
  /\ worker[s].pc \in {"closing", "closingAgain"}
  /\ session' = [session EXCEPT ![s] = {}]
  /\ CASE worker[s].next = "none" -> UNCHANGED <<disk, lease>>
       [] worker[s].next = "record" -> RecordsFailure(s) /\ UNCHANGED lease
       [] worker[s].next = "complete" ->
            Records(s, OutcomeFile, <<"outcome">>) /\ lease' = [lease EXCEPT ![s] = NoAttempt]
  /\ Finishes(s)
  /\ UNCHANGED <<call, service, clients, current, lock, budget>>

\* An attempt whose session cannot be closed is left as it is.
CloseFails(s) ==
  /\ worker[s].pc \in {"closing", "closingAgain"}
  /\ IF worker[s].pc = "closing"
     THEN worker' = [worker EXCEPT ![s].pc = "closingAgain", ![s].next = "none"]
     ELSE Finishes(s)
  /\ UNCHANGED <<toolVars, service, clients, current, lock, session, budget>>

WorkerStep(s) ==
  \/ Polls(s) \/ FindsNothing(s) \/ Claims(s)
  \/ TakesClient(s) \/ StartsClient(s) \/ ClientStarts(s) \/ SessionStarts(s)
  \/ CreationBreaks(s) \/ Invalidates(s) \/ StopsClient(s) \/ AcquisitionEnds(s)
  \/ RunBreaks(s) \/ RunEnds(s) \/ HandoffRefused(s) \/ Interrupted(s) \/ Superseded(s)
  \/ SupersessionEnds(s) \/ ShutsDown(s) \/ GraceElapses(s) \/ Closes(s) \/ CloseFails(s)

-----------------------------------------------------------------------------
(* The agent *)

Acts(s) == Works(session[s])
NewCalls ==
  {c \in Calls : call[c] = Unused /\ c = CHOOSE d \in Calls : call[d] = Unused}

AgentAsks(s) ==
  /\ Acts(s) /\ Spends("queries")
  /\ \E c \in NewCalls, query \in Queries, rows \in RowLimits : RunSql(s, c, query, rows)
  /\ UNCHANGED <<service, clients, current, lock, worker, session>>

AgentExecutes(s) ==
  /\ Acts(s) /\ Spends("scripts")
  /\ \E c \in NewCalls, script \in Scripts : CodeInterpreter(s, c, script)
  /\ UNCHANGED <<service, clients, current, lock, worker, session>>

AgentEdits(s) ==
  /\ Acts(s) /\ Spends("edits")
  /\ \E edit \in Edits, a \in lease[s].attempt :
       \E files \in Edited(disk[s], edit, a, lease[s]) : disk' = [disk EXCEPT ![s] = files]
  /\ UNCHANGED <<lease, call, service, clients, current, lock, worker, session>>

\* A proposal seals the cycle before it is submitted.
AgentProposes(s) ==
  /\ Acts(s) /\ lease[s].writable /\ ~Yielding(s) /\ Spends("proposals")
  /\ Records(s, ProposalFile, <<"proposal">>)
  /\ lease' = [lease EXCEPT ![s].writable = FALSE]
  /\ UNCHANGED <<call, service, clients, current, lock, worker, session>>

AgentStep(s) == AgentAsks(s) \/ AgentExecutes(s) \/ AgentEdits(s) \/ AgentProposes(s)

-----------------------------------------------------------------------------
(* What the SDK, the operator and the operating system do *)

ClientFails(n) ==
  /\ clients[n] = "running" /\ Spends("failures")
  /\ clients' = [clients EXCEPT ![n] = "failed"]
  /\ UNCHANGED <<toolVars, service, current, lock, worker, session>>

SessionDropped(s) ==
  /\ session[s] # {} /\ worker[s].pc \in {"idle", "polling", "returned"}
  /\ session' = [session EXCEPT ![s] = {}]
  /\ UNCHANGED <<toolVars, service, clients, current, lock, worker, budget>>

StopRequested ==
  /\ service = "running" /\ Spends("stops")
  /\ service' = "stopping"
  /\ UNCHANGED <<toolVars, clients, current, lock, worker, session>>

\* The process ends: the tasks, sessions and leases it had are gone.
ProcessEnds ==
  /\ call' = [c \in Calls |-> IF InFlight(c) THEN Ended ELSE call[c]]
  /\ lease' = [s \in Spaces |-> NoAttempt]
  /\ session' = [s \in Spaces |-> {}]
  /\ lock' = {}
  /\ UNCHANGED disk

\* Every worker has returned; the runtime's client is stopped, and the process ends.
ServiceEnds ==
  /\ service = "stopping" /\ \A s \in Spaces : worker[s].pc = "returned"
  /\ Unlocked
  /\ clients' = Stopped(current) /\ current' = {}
  /\ service' = "stopped"
  /\ ProcessEnds
  /\ UNCHANGED <<worker, budget>>

Crashed ==
  [n \in Clients |-> IF n = Fresh THEN "running"
                     ELSE IF clients[n] = "running" THEN "failed" ELSE clients[n]]

\* A crash, and the start after it.
Crash ==
  /\ service # "stopped" /\ Unborn # {} /\ Spends("crashes")
  /\ clients' = Crashed /\ current' = {Fresh}
  /\ service' = "running"
  /\ worker' = [s \in Spaces |-> Starting(s)]
  /\ ProcessEnds

-----------------------------------------------------------------------------

SessionsNext ==
  \/ \E s \in Spaces : WorkerStep(s) \/ AgentStep(s) \/ SessionDropped(s)
  \/ \E c \in Calls : (CallStep(c) \/ CallInterference(c)) /\ UNCHANGED sessionVars
  \/ \E n \in Clients : ClientFails(n)
  \/ StopRequested \/ ServiceEnds \/ Crash

SessionsSpec == SessionsInit /\ [][SessionsNext]_vars

\* What is awaited answers or is given up: the calls of the service have
\* deadlines, and the SDK answers a disconnect.
FairSessionsSpec ==
  /\ SessionsSpec
  /\ \A c \in Calls : WF_vars(CallStep(c) /\ UNCHANGED sessionVars)
  /\ \A s \in Spaces : WF_vars(WorkerStep(s))
  /\ WF_vars(ServiceEnds)

-----------------------------------------------------------------------------
(* Properties *)

\* The service has one working client at a time, the runtime's; no other
\* worker's failure takes it away, only the end of the service stops it
\* (CopilotRuntime's lock and its pointer comparison).
ClientsAccounted ==
  /\ \A n \in Clients : clients[n] = "running" => current = {n}
  /\ \A n \in Clients : clients[n] = "stopped" => service = "stopped"
  /\ \A n \in current : clients[n] \in {"running", "failed"}

\* What a session owns: its attempt's directory, its state and its notes, or
\* what it moved to the place of a note.
Owned(s, location) ==
  \/ \E a \in lease[s].attempt : Inside(location, AttemptDirectory(a))
  \/ IsProviderState(location) \/ \E note \in NoteFiles : Inside(location, note)

\* Every other record stays, and is at most added to: whatever a session's
\* edits, its tool calls, a failed close, a crash or the next attempt do, what
\* earlier attempts and calls left is there (the checks of ProfileFileSystem,
\* the I/O gate, and the names of the records).
RecordsOnlyGrow ==
  [][\A s \in Spaces : \A location \in DOMAIN disk[s] :
       \/ Owned(s, location)
       \/ /\ location \in DOMAIN disk'[s]
          /\ disk'[s][location].kind = disk[s][location].kind
          /\ IsPrefix(disk[s][location].text, disk'[s][location].text)]_vars

HistoryOf(s) ==
  UNION {ToSet(text) : text \in ReadText(disk[s], HistoryFile)}

\* An answer that says it is whole is whole, and stays within its limits and
\* within what the contract may see.
AnswerFaithful(answer) ==
  \E evidence \in Snapshots, query \in Queries, rows \in RowLimits :
    LET seen == View(evidence, Scope)
    IN /\ Len(answer.rows) <= rows /\ ResultBytes(answer.rows) <= MaxBytes
       /\ IsPrefix(answer.rows, Computed(query, seen))
       /\ ~answer.truncated => answer.rows = Computed(query, seen)

\* The history tells no more than what was saved, the audits no more than the
\* history; a completed execution has its submission, script and report; the
\* output a report calls whole is all the process wrote, whatever inherited
\* its pipes.  So at every step, with calls ending anywhere (run_sql,
\* code_interpreter, PythonConfig::run).
RecordsFaithful ==
  /\ \A s \in Spaces :
       /\ \A line \in HistoryOf(s) :
            line.status = "succeeded" =>
              /\ ReadText(disk[s], ResultFile(line.id)) = {<<line.content>>}
              /\ AnswerFaithful(line.content)
       /\ \A c \in Calls :
            /\ \A audit \in ReadText(disk[s], AuditFile("queries", c)) :
                 ToSet(audit) \subseteq HistoryOf(s)
            /\ Exists(disk[s], AuditFile("pythonCompleted", c)) =>
                 /\ IsRegular(disk[s], AuditFile("pythonSubmitted", c))
                 /\ IsRegular(disk[s], RecordFile(c))
                 /\ \A code \in ReadText(disk[s], CodeFile(c)),
                       record \in ReadText(disk[s], RecordFile(c)) :
                      record[1].submission = [id |-> c, code |-> code]
  /\ \A c \in Calls :
       call[c].pc \in {"runtime", "report", "complete"} =>
         \A stream \in DOMAIN call[c].report.captured :
           ~call[c].report.captured[stream].truncated =>
             call[c].report.captured[stream].bytes = call[c].wrote[stream]

\* Every call comes to an end, even when its process does not end or what the
\* process started keeps its pipes open.
CallsEnd == \A c \in Calls : InFlight(c) ~> ~InFlight(c)

\* A service that is asked to stop stops (or crashes and is started again),
\* whatever its workers, its agents and the client are in the middle of.
ServiceStops == (service = "stopping") ~> (service # "stopping")
=============================================================================
