---------------------------- MODULE AnalysisCycle ----------------------------
(***************************************************************************)
(* Async Analysis on one contract name: the coordinator's workers, the     *)
(* agent session with its submission tool, the durable cycle journal, and  *)
(* the Contract Service at the other end of an unreliable connection.      *)
(*                                                                         *)
(* An action is the code between two awaits that another task, the network *)
(* or a failure can intervene at.  A crash between two file writes of an   *)
(* action leaves one of the disks the operation goes through, one inside a *)
(* write its temporary too (Durably).                                      *)
(***************************************************************************)
EXTENDS AnalysisWorkspace

CONSTANTS
  Workers,       \* coordinator worker tasks of the process
  General,       \* the provider runs one general profile for every step
  MaxRevisions,  \* cycle limit: revised drafts
  Refused,       \* rule sets the Contract Service will not compile
  MaxDeploys,    \* bound: replacements of the current contract
  MaxFaults,     \* bound: crashes and failed or lost calls
  MaxStrays,     \* bound: crashes inside a file write, per cycle
  Horizon        \* bound: the clock

ASSUME CycleAssumption ==
  /\ General \in BOOLEAN /\ MaxRevisions \in Nat /\ Refused \subseteq Rules
  /\ MaxDeploys \in Nat /\ MaxFaults \in Nat /\ MaxStrays \in Nat /\ Horizon \in Nat

VARIABLES
  disk,      \* the workspace directory
  fetched,   \* the contract each worker has read and not yet claimed
  attempt,   \* the attempt that holds the workspace, with its locals
  lease,     \* LeaseState of the claim: the active cycle, writable or not
  tool,      \* the propose_executable call in progress
  wire,      \* submissions the Contract Service has not processed
  admitted,  \* its admission of each cycle
  current,   \* its current contract
  now, deploys, faults

claimVars == <<attempt, lease, tool>>
remoteVars == <<wire, admitted>>
worldVars == <<current, now, deploys>>
vars == <<disk, fetched, claimVars, remoteVars, worldVars, faults>>

Free == [pc |-> "free"]
NoLease == [cycle |-> None, writable |-> FALSE]

\* Outcomes an agent can report that may complete a cycle.
Terminal == {"candidate", "noChange", "noCandidate", "failure"}

CycleInit ==
  /\ disk = EmptyDisk
  /\ fetched = [w \in Workers |-> None]
  /\ attempt = Free /\ lease = NoLease /\ tool = None
  /\ wire = {} /\ admitted = [c \in Cycles |-> None]
  /\ current \in Digests
  /\ now = 0 /\ deploys = 0 /\ faults = 0

-----------------------------------------------------------------------------

\* The process dies: its tasks, its claim and its tool call are gone.
Die ==
  /\ faults < MaxFaults /\ faults' = faults + 1
  /\ fetched' = [w \in Workers |-> None]
  /\ attempt' = Free /\ lease' = NoLease /\ tool' = None

Fault == faults < MaxFaults /\ faults' = faults + 1

\* The writes ws, after which the action continues; or a crash after some of
\* them or inside the next.
Durably(ws, continuation) ==
  \/ disk' = Last(ws) /\ continuation
  \/ \E k \in 1..(Len(ws) - 1) :
       /\ disk' \in {ws[k], LeaveTemporary(ws[k], ws[k + 1])}
       /\ \A c \in Cycles : ws[k].cycles[c] # None => disk'.cycles[c].strays <= MaxStrays
       /\ Die /\ UNCHANGED remoteVars

\* What the directory holds about the cycle of the attempt.
Files == disk.cycles[attempt.cycle]

\* The lease is shared by the attempt and the tools of its session; the claim
\* lasts until both are gone.
Claimed == attempt # Free \/ tool # None
Relinquish(call) ==
  attempt' = Free /\ lease' = IF call = None THEN NoLease ELSE lease

\* clear_active_state, when a completion went through.
Completion(d, c, kind) == IF CanComplete(d, c, kind) THEN CompleteCycle(d, c, kind, now) ELSE <<d>>
\* Slip: the lease of a completed cycle stays active.
KeepActiveState(c, kind) == lease
ClearActiveState(c, kind) == IF CanComplete(disk, c, kind) THEN NoLease ELSE lease

Goto(pc) == attempt' = [attempt EXCEPT !.pc = pc]

\* The attempt returns to run_contract_observed, which settles what it has
\* reserved; a reconciliation has reserved nothing and drops its lease.
Return ==
  IF attempt.number = 0 THEN Relinquish(tool) ELSE Goto("settle") /\ UNCHANGED lease

-----------------------------------------------------------------------------
(* Discovery and claim. *)

\* run_once reads the current contract.
Fetch(w) ==
  /\ fetched[w] = None
  /\ fetched' = [fetched EXCEPT ![w] = current]
  /\ UNCHANGED <<disk, claimVars, remoteVars, worldVars, faults>>

\* The worker goes on with what it has read.
Took(w) == fetched' = [fetched EXCEPT ![w] = None]

Busy(w) ==
  /\ fetched[w] # None /\ Claimed
  /\ Took(w)
  /\ UNCHANGED <<disk, claimVars, remoteVars, worldVars, faults>>

Begin(pc, d, c, number) ==
  attempt' = [pc |-> pc, digest |-> d, cycle |-> c, number |-> number, outcome |-> None]

Call(by, d, c, number, rules) ==
  [by |-> by, step |-> "check", digest |-> d, cycle |-> c, number |-> number, rules |-> rules]

\* A claim goes through prepare_cycle, whose writes are prepared, and on from
\* the disk it leaves.  No cycle may be due.
NotEligible(w, prepared) ==
  /\ Last(prepared).pointer = None
  /\ Durably(prepared, Took(w) /\ UNCHANGED <<claimVars, remoteVars, faults>>)

\* A sealed proposal is reconciled before any limit, without an agent.
Reconciles(w, prepared) ==
  LET c == Last(prepared).pointer IN
  /\ c # None
  /\ Last(prepared).cycles[c].pending # None
  /\ Durably(prepared,
       /\ Took(w)
       /\ Begin("reconcile", fetched[w], c, 0)
       /\ lease' = [cycle |-> c, writable |-> FALSE]
       /\ tool' = Call("reconcile", fetched[w], c, 0, Last(prepared).cycles[c].pending.rules)
       /\ UNCHANGED <<remoteVars, faults>>)

\* The limits are used up: the cycle fails.
LimitExceeded(w, prepared) ==
  LET c == Last(prepared).pointer IN
  /\ c # None
  /\ Last(prepared).cycles[c].pending = None /\ Exhausted(Last(prepared).cycles[c])
  /\ Durably(prepared \o Completion(Last(prepared), c, "failure"),
             Took(w) /\ UNCHANGED <<claimVars, remoteVars, faults>>)

\* An attempt is reserved and its session started.  Preparing the session
\* writes into the workspace, which a sealed one refuses.
StartAttempt(w, prepared) ==
  LET c == Last(prepared).pointer
      files == Last(prepared).cycles[c]
      writable == WritableOnResume(files)
  IN /\ c # None
     /\ files.pending = None /\ ~Exhausted(files)
     /\ Durably(prepared \o ReserveAttempt(Last(prepared), c),
          /\ Took(w)
          /\ Begin(IF writable THEN "agent" ELSE "settle", fetched[w], c, files.attempts + 1)
          /\ lease' = [cycle |-> c, writable |-> writable]
          /\ UNCHANGED <<tool, remoteVars, faults>>)

ClaimFails(w) ==
  /\ fetched[w] # None /\ ~Claimed
  /\ ~CanPrepareCycle(disk, fetched[w])
  /\ Took(w)
  /\ UNCHANGED <<disk, claimVars, remoteVars, worldVars, faults>>

Claim(w) ==
  /\ fetched[w] # None /\ ~Claimed
  /\ CanPrepareCycle(disk, fetched[w])
  /\ \E prepared \in {PrepareCycle(disk, fetched[w], now)} :
       \/ NotEligible(w, prepared)
       \/ Reconciles(w, prepared)
       \/ LimitExceeded(w, prepared)
       \/ StartAttempt(w, prepared)
  /\ UNCHANGED worldVars

-----------------------------------------------------------------------------
(* The agent session.  What the agent does and reports is arbitrary, within *)
(* what the workflow provider permits.  A write of the agent that a crash   *)
(* tears is one that changed the artifacts.                                 *)

AgentWrites ==
  /\ attempt.pc \in {"agent", "yielding"} /\ lease.writable
  /\ disk' = WriteArtifact(disk, attempt.cycle)
  /\ UNCHANGED <<fetched, claimVars, remoteVars, worldVars, faults>>

\* Slip: the tool takes the last draft, whatever its review said.
AgentProposesDraft ==
  /\ attempt.pc = "agent" /\ tool = None
  /\ Files.handoff.rules # None
  /\ tool' = Call("agent", attempt.digest, attempt.cycle, attempt.number, Files.handoff.rules)
  /\ UNCHANGED <<disk, fetched, attempt, lease, remoteVars, worldVars, faults>>

\* The restricted tool takes exactly the committed draft, in DraftReady only.
AgentProposes ==
  /\ attempt.pc = "agent" /\ tool = None
  /\ Files.handoff.state = "draftReady"
  /\ tool' = Call("agent", attempt.digest, attempt.cycle, attempt.number, Files.handoff.rules)
  /\ UNCHANGED <<disk, fetched, attempt, lease, remoteVars, worldVars, faults>>

\* DraftReady is the reviewer's, who may not report an end without a candidate
\* (it rejects); a general profile may report anything.
Permitted(kind) ==
  LET state == Files.handoff.state IN
  \/ kind = "candidate" /\ state = "draftReady"
  \/ kind \in {"noChange", "noCandidate"} /\ (General \/ state # "draftReady")
  \/ kind = "failure"

\* The session ends, no call outstanding, with an outcome it may report: a
\* candidate if and only if one is recorded.
AgentFinishes(kind) ==
  /\ attempt.pc = "agent" /\ tool = None
  /\ Permitted(kind) /\ (kind = "candidate") = (Files.candidate # None)
  /\ attempt' = [attempt EXCEPT !.pc = "ended", !.outcome = kind]
  /\ UNCHANGED <<disk, fetched, lease, tool, remoteVars, worldVars, faults>>

\* A review rejects the draft: the rejection is recorded, which a sealed
\* workspace refuses, and reaches the coordinator as noCandidate.
AgentRejects ==
  /\ attempt.pc = "agent" /\ tool = None
  /\ Files.handoff.state = "draftReady" /\ Files.candidate = None /\ lease.writable
  /\ disk' = WriteArtifact(disk, attempt.cycle)
  /\ attempt' = [attempt EXCEPT !.pc = "ended", !.outcome = "noCandidate"]
  /\ UNCHANGED <<fetched, lease, tool, remoteVars, worldVars, faults>>

\* The workflow transitions, and a checkpoint, which changes no state.
Transition(from, to) ==
  \/ to = from
  \/ /\ from.state = "analysisReady" /\ to.state = "draftReady"
     /\ to.revision = 0 /\ to.drafter = attempt.number
  \/ /\ from.state = "requestChange" /\ to.state = "draftReady"
     /\ to.revision = from.revision + 1 /\ to.revision <= MaxRevisions
     /\ to.drafter = attempt.number
  \/ /\ from.state = "draftReady" /\ from.revision < MaxRevisions
     /\ to = [from EXCEPT !.state = "requestChange"]

Handoff == [state : {"draftReady", "requestChange"}, revision : 0..MaxRevisions,
            drafter : 1..MaxAttempts, rules : Rules] \union {InitialHandoff}

AgentHandsOff(to) ==
  /\ attempt.pc = "agent" /\ tool = None
  /\ Files.candidate = None /\ lease.writable
  /\ Transition(Files.handoff, to)
  /\ Durably(RecordHandoff(disk, attempt.cycle, to),
             /\ Goto("settle")
             /\ UNCHANGED <<fetched, lease, tool, remoteVars, faults>>)
  /\ UNCHANGED worldVars

\* The allowance is used up, the service shuts down, the session fails, or it
\* reports what it may not or cannot report: the attempt is recoverable.
AttemptFails ==
  /\ attempt.pc = "agent"
  /\ Goto("settle")
  /\ UNCHANGED <<disk, fetched, lease, tool, remoteVars, worldVars, faults>>

\* The poll finds another contract: the attempt is told to stop.
Poll ==
  /\ attempt.pc = "agent" /\ current # attempt.digest
  /\ Durably(<<disk, MarkSuperseding(disk, attempt.cycle)>>,
       /\ attempt' = [attempt EXCEPT !.pc = "yielding", !.outcome = "superseded"]
       /\ UNCHANGED <<fetched, lease, tool, remoteVars, faults>>)
  /\ UNCHANGED worldVars

-----------------------------------------------------------------------------
(* The verdict. *)

\* The coordinator reads the current contract again.
Reread ==
  /\ attempt.pc = "ended"
  /\ attempt' = [attempt EXCEPT !.pc = "verdict",
                   !.outcome = IF current = attempt.digest THEN @ ELSE "superseded"]
  /\ UNCHANGED <<disk, fetched, lease, tool, remoteVars, worldVars, faults>>

\* The outcome is journaled; what it was worth against a recorded candidate
\* was the session's last check, and no call is outstanding since.
Conclude ==
  LET c == attempt.cycle
      marked == IF attempt.outcome = "superseded" THEN MarkSuperseding(disk, c) ELSE disk
  IN /\ attempt.pc \in {"verdict", "yielding"}
     /\ Durably(<<disk>> \o Completion(marked, c, attempt.outcome),
          /\ IF attempt.number = 0 THEN Relinquish(tool)
             ELSE Goto("settle") /\ lease' = ClearActiveState(c, attempt.outcome)
          /\ UNCHANGED <<fetched, tool, remoteVars, faults>>)
     /\ UNCHANGED worldVars

\* The contract cannot be read, or the session cannot be closed.
ConcludeFails ==
  /\ attempt.pc \in {"ended", "verdict", "yielding"} /\ Fault
  /\ Return
  /\ UNCHANGED <<disk, fetched, tool, remoteVars, worldVars>>

Settle ==
  /\ attempt.pc = "settle"
  /\ LET c == attempt.cycle IN
     IF OwnReservation(Files, attempt.number)
     THEN \E elapsed \in 0..Files.reservation.time :
            Durably(SettleAttempt(disk, c, elapsed),
                    Relinquish(tool) /\ UNCHANGED <<fetched, tool, remoteVars, faults>>)
     ELSE Relinquish(tool) /\ UNCHANGED <<disk, fetched, tool, remoteVars, faults>>
  /\ UNCHANGED worldVars

-----------------------------------------------------------------------------
(* The submission tool: currentness, seal, submit, record. *)

ToolAt(step) == tool # None /\ tool.step = step

\* The call answers.  The agent only learns it; a reconciliation goes on with
\* it.  A call that outlived its attempt gives up the claim.
ToolReturns(result) ==
  /\ tool' = None
  /\ IF tool.by = "agent"
     THEN /\ UNCHANGED attempt
          /\ lease' = IF attempt = Free THEN NoLease ELSE lease
     ELSE IF result = "error" THEN Relinquish(None)
     ELSE /\ attempt' = [attempt EXCEPT !.pc = "ended", !.outcome = result]
          /\ UNCHANGED lease

ToolChecks ==
  /\ ToolAt("check")
  /\ IF current = tool.digest
     THEN tool' = [tool EXCEPT !.step = "seal"] /\ UNCHANGED <<attempt, lease>>
     ELSE ToolReturns("superseded")
  /\ UNCHANGED <<disk, fetched, remoteVars, worldVars, faults>>

\* Slip: a repeated submission names the attempt that repeats it.
OwnSubmission(proposal) ==
  [cycle |-> tool.cycle, digest |-> tool.digest, attempt |-> tool.number,
   rules |-> proposal.rules, manifest |-> proposal.manifest]

\* The request is the sealed one, with its original attempt.
Submission(proposal) ==
  [cycle |-> tool.cycle, digest |-> tool.digest, attempt |-> proposal.attempt,
   rules |-> proposal.rules, manifest |-> proposal.manifest]

CanSeal ==
  /\ lease.cycle = tool.cycle
  /\ CanPrepareProposal(disk, tool.cycle, tool.rules, lease.writable)

\* The proposal is sealed; with a candidate on record that is the answer,
\* otherwise the submission is sent.
ToolSeals ==
  LET c == tool.cycle
      seal == PrepareCandidateProposal(disk, c, tool.number, tool.rules)
  IN /\ ToolAt("seal") /\ CanSeal
     /\ Durably(seal,
          /\ UNCHANGED <<fetched, admitted, faults>>
          /\ IF disk.cycles[c].candidate # None
             THEN ToolReturns("candidate") /\ UNCHANGED wire
             ELSE /\ wire' = wire \union {Submission(Last(seal).cycles[c].pending)}
                  /\ tool' = [tool EXCEPT !.step = "wait"]
                  /\ lease' = [lease EXCEPT !.writable = FALSE]
                  /\ UNCHANGED attempt)
     /\ UNCHANGED worldVars

\* The response arrives and is recorded, if the cycle is still the active one.
ToolRecords ==
  /\ ToolAt("admitted") /\ lease.cycle = tool.cycle
  /\ Durably(RecordCandidate(disk, tool.cycle),
             ToolReturns("candidate") /\ UNCHANGED <<fetched, remoteVars, faults>>)
  /\ UNCHANGED worldVars

\* The tool is refused by the workspace or by the Contract Service.
ToolRefused ==
  /\ \/ ToolAt("seal") /\ ~CanSeal
     \/ ToolAt("admitted") /\ lease.cycle # tool.cycle
     \/ ToolAt("refused")
  /\ ToolReturns("error")
  /\ UNCHANGED <<disk, fetched, remoteVars, worldVars, faults>>

ToolStale ==
  /\ ToolAt("stale")
  /\ ToolReturns("superseded")
  /\ UNCHANGED <<disk, fetched, remoteVars, worldVars, faults>>

\* A request fails or times out, or its response is lost.
ToolFails ==
  /\ tool # None /\ tool.step # "seal" /\ Fault
  /\ ToolReturns("error")
  /\ UNCHANGED <<disk, fetched, remoteVars, worldVars>>

\* The call of a session that was closed is cut off.
ToolCut ==
  /\ tool # None /\ tool.by = "agent" /\ attempt.pc # "agent"
  /\ tool' = None
  /\ lease' = IF attempt = Free THEN NoLease ELSE lease
  /\ UNCHANGED <<disk, fetched, attempt, remoteVars, worldVars, faults>>

-----------------------------------------------------------------------------
(* The Contract Service and the environment. *)

\* POST of a candidate: compiled, checked against the current contract, and
\* admitted under its cycle; an admission already there must be the same.
Answer(m) ==
  IF m.rules \in Refused THEN "refused"
  ELSE IF m.digest # current THEN "stale"
  ELSE IF admitted[m.cycle] \notin {None, m} THEN "refused"
  ELSE "admitted"

Serve(m) ==
  /\ m \in wire
  /\ wire' = wire \ {m}
  /\ admitted' = IF Answer(m) = "admitted" THEN [admitted EXCEPT ![m.cycle] = m] ELSE admitted
  /\ tool' = IF ToolAt("wait") /\ tool.cycle = m.cycle
             THEN [tool EXCEPT !.step = Answer(m)] ELSE tool
  /\ UNCHANGED <<disk, fetched, attempt, lease, worldVars, faults>>

Deploy(d) ==
  /\ deploys < MaxDeploys /\ d # current /\ now >= Accepted[d]
  /\ current' = d /\ deploys' = deploys + 1
  /\ UNCHANGED <<disk, fetched, claimVars, remoteVars, now, faults>>

Tick ==
  /\ now < Horizon /\ now' = now + 1
  /\ UNCHANGED <<disk, fetched, claimVars, remoteVars, current, deploys, faults>>

Crash == Die /\ UNCHANGED <<disk, remoteVars, worldVars>>

-----------------------------------------------------------------------------

Discovery(w) == Fetch(w) \/ Busy(w) \/ ClaimFails(w) \/ Claim(w)

AttemptStep == AttemptFails \/ Reread \/ Conclude \/ Settle

ToolStep == ToolChecks \/ ToolSeals \/ ToolRecords \/ ToolRefused \/ ToolStale

CycleNext ==
  \/ \E w \in Workers : Discovery(w)
  \/ AgentWrites \/ AgentProposes
  \/ \E kind \in Terminal : AgentFinishes(kind)
  \/ AgentRejects
  \/ \E to \in Handoff : AgentHandsOff(to)
  \/ AttemptStep \/ Poll \/ ConcludeFails
  \/ ToolStep \/ ToolFails \/ ToolCut
  \/ \E m \in wire : Serve(m)
  \/ \E d \in Digests : Deploy(d)
  \/ Tick \/ Crash

CycleSpec == CycleInit /\ [][CycleNext]_vars

\* Workers poll; the coordinator drives an attempt to its end, by its deadline
\* at the latest; a tool call goes on, or is cut with its session; the Contract
\* Service answers.  The agent, the clock and faults owe nothing.
CycleFairness ==
  /\ \A w \in Workers : WF_vars(Discovery(w))
  /\ WF_vars(AttemptStep)
  /\ WF_vars(ToolStep \/ ToolCut)
  /\ WF_vars(\E m \in wire : Serve(m))

FairCycleSpec == CycleSpec /\ CycleFairness

-----------------------------------------------------------------------------
(* Properties. *)

Manifests == [work : {0, 1}, strays : 0..MaxStrays]
Times == 0..Horizon
Proposal == [attempt : 0..MaxAttempts, rules : Rules, manifest : Manifests]
FilesOfCycle ==
  [digest : Digests, status : {"active", "superseding", "terminal"}, handoff : Handoff,
   work : {0, 1}, strays : 0..MaxStrays, manifest : Manifests \union {None},
   pending : Proposal \union {None}, proposal : Proposal \union {None},
   candidate : Manifests \union {None},
   outcome : [kind : Terminal \union {"superseded"}, at : Times] \union {None},
   attempts : 0..MaxAttempts, charged : 0..Total,
   reservation : [attempt : 1..MaxAttempts, time : 1..Timeout] \union {None}]
Submissions ==
  [cycle : Cycles, digest : Digests, attempt : 0..MaxAttempts, rules : Rules, manifest : Manifests]

Attempts ==
  [pc : {"reconcile", "agent", "yielding", "ended", "verdict", "settle"},
   digest : Digests, cycle : Cycles, number : 0..MaxAttempts,
   outcome : Terminal \union {"superseded", None}]
Calls ==
  [by : {"agent", "reconcile"}, digest : Digests, cycle : Cycles,
   number : 0..MaxAttempts, rules : Rules,
   step : {"check", "seal", "wait", "admitted", "refused", "stale"}]

\* A file that does not exist is none of the records a file can hold.
ASSUME NoneAssumption ==
  /\ None \notin FilesOfCycle /\ None \notin Manifests /\ None \notin Proposal
  /\ None \notin [kind : Terminal \union {"superseded"}, at : Times]
  /\ None \notin [attempt : 1..MaxAttempts, time : 1..Timeout]
  /\ None \notin [digest : Digests, next : Nat]
  /\ None \notin Submissions
  /\ None \notin Calls

\* Every variable has its type: in particular a cycle never has more attempts,
\* nor more time charged, than its limits (reserve_attempt).
AnalysisTypeOK ==
  /\ disk \in [pointer : Cycles \union {None},
               schedule : [digest : Digests, next : Nat] \union {None},
               cycles : [Cycles -> FilesOfCycle \union {None}]]
  /\ fetched \in [Workers -> Digests \union {None}]
  /\ attempt \in Attempts \union {Free}
  /\ lease \in [cycle : Cycles \union {None}, writable : BOOLEAN]
  /\ tool \in Calls \union {None}
  /\ wire \subseteq Submissions
  /\ admitted \in [Cycles -> Submissions \union {None}]
  /\ current \in Digests /\ now \in Times
  /\ deploys \in 0..MaxDeploys /\ faults \in 0..MaxFaults

Created == {c \in Cycles : disk.cycles[c] # None}
Ended == {c \in Created : disk.cycles[c].outcome # None}

\* No artifact is written in a sealed workspace, through crashes between the
\* files of a seal and by whichever lease, session or call outlives another.
SealIntact ==
  \A c \in Created :
    disk.cycles[c].manifest # None => disk.cycles[c].manifest.work = disk.cycles[c].work

\* What the Contract Service admitted for a cycle is the proposal sealed in
\* its journal, with its original attempt, however often it was submitted;
\* so no retry conflicts with an earlier admission.
AdmissionMatchesJournal ==
  \A c \in Cycles : admitted[c] # None =>
    /\ c \in Created /\ disk.cycles[c].pending # None
    /\ admitted[c] = [cycle |-> c, digest |-> disk.cycles[c].digest,
                     attempt |-> disk.cycles[c].pending.attempt,
                     rules |-> disk.cycles[c].pending.rules,
                     manifest |-> disk.cycles[c].pending.manifest]

\* A cycle that ends with a Candidate has one at the Contract Service, and of
\* the sealed analysis.
CandidateIsAdmitted ==
  \A c \in Ended : disk.cycles[c].outcome.kind = "candidate" =>
    /\ admitted[c] # None
    /\ admitted[c].manifest = disk.cycles[c].manifest

\* No cycle on which an attempt was spent is lost: it is the current one or
\* it has an outcome, whatever write of whatever operation a crash follows.
NothingAbandoned ==
  \A c \in Created :
    disk.cycles[c].attempts > 0 => disk.pointer = c \/ c \in Ended

\* Sealed rules are the committed draft, drafted in another attempt than the
\* one that submits them.
ReviewedBeforeSubmitted ==
  \A c \in Created : disk.cycles[c].pending # None =>
    LET files == disk.cycles[c] IN
    /\ files.handoff.state = "draftReady"
    /\ files.pending.rules = files.handoff.rules
    /\ files.pending.attempt > files.handoff.drafter

\* The attempt that runs is the latest of its cycle, in the cycle the journal
\* points to, and is covered by its own reservation.
AttemptCharged ==
  attempt.pc \in {"agent", "yielding", "ended", "verdict"} =>
    /\ disk.pointer = attempt.cycle /\ attempt.cycle \notin Ended
    /\ attempt.number # 0 =>
         /\ Files.attempts = attempt.number
         /\ OwnReservation(Files, attempt.number)
         /\ Files.reservation.time <= Files.charged

\* Once an outcome is journaled, neither it nor the analysis it concludes ever
\* changes, even by calls that outlive the attempt.
OutcomeFinal ==
  [][\A c \in Ended :
       LET was == disk.cycles[c]  is == disk'.cycles[c] IN
       /\ is.outcome = was.outcome /\ is.work = was.work /\ is.manifest = was.manifest
       /\ is.handoff = was.handoff /\ is.pending = was.pending
       /\ is.candidate = was.candidate]_vars

\* While the contract stays, a new cycle starts no earlier than an interval
\* after the last one ended, also when the completion was interrupted.
CyclesSpaced ==
  [][\A c \in Ended, n \in Cycles :
       deploys = 0 /\ disk'.pointer = n /\ disk.pointer # n
         => now >= disk.cycles[c].outcome.at + Interval]_vars

\* Every cycle that was opened ends.
CyclesEnd == \A c \in Cycles : disk.pointer = c ~> c \in Ended
=============================================================================
