-------------------------- MODULE AnalysisWorkspace --------------------------
(***************************************************************************)
(* The durable journal of one analysis workspace (one contract name): what *)
(* each operation of the local provider writes, file by file.              *)
(*                                                                         *)
(* Every file is written by rename of a synced temporary beside it, so the *)
(* file itself changes atomically.  An operation is therefore the sequence *)
(* of the disks it goes through, from the disk it finds to the disk it     *)
(* leaves; a crash leaves any one of them, and one that falls inside a     *)
(* write into a cycle directory leaves the temporary there as well.        *)
(***************************************************************************)
EXTENDS Naturals, Sequences, SequencesExt

CONSTANTS
  Digests,      \* contract digests the name can have
  Cycles,       \* cycle identifiers, in the order they are generated: 1..n
  Rules,        \* rule sets an agent can draft
  Accepted,     \* acceptance time of a contract
  Interval,     \* evaluation interval of the contracts
  MaxAttempts,  \* cycle limit: attempts
  Total,        \* cycle limit: accumulated execution time
  Timeout,      \* configured attempt timeout
  None          \* a file that does not exist

ASSUME WorkspaceAssumption ==
  /\ Cycles \subseteq Nat \ {0}
  /\ Accepted \in [Digests -> Nat]
  /\ Interval \in Nat /\ MaxAttempts \in Nat \ {0}
  /\ Total \in Nat \ {0} /\ Timeout \in Nat \ {0}
  /\ None \notin Digests \union Cycles \union Rules

\* The work state before any handoff: AnalysisReady, at revision 0.
InitialHandoff == [state |-> "analysisReady", revision |-> 0, drafter |-> 0, rules |-> None]

\* The files of a cycle directory.  work is the version of the artifacts (a
\* write changes it: two versions tell a changed artifact from an unchanged
\* one), strays the number of temporaries left behind.
NewCycle(d) ==
  [digest |-> d, status |-> "active", handoff |-> InitialHandoff, work |-> 0, strays |-> 0,
   manifest |-> None, pending |-> None, proposal |-> None, candidate |-> None,
   outcome |-> None, attempts |-> 0, charged |-> 0, reservation |-> None]

EmptyDisk ==
  [pointer |-> None, schedule |-> None, cycles |-> [c \in Cycles |-> None]]

\* Writing one file of a cycle, the schedule or the pointer.
SetCycle(disk, c, files) == [disk EXCEPT !.cycles[c] = files]
SetSchedule(disk, d, anchor) ==
  [disk EXCEPT !.schedule = [digest |-> d, next |-> anchor + Interval]]
SetPointer(disk, c) == [disk EXCEPT !.pointer = c]

-----------------------------------------------------------------------------

\* What a manifest lists: every file that is not a control file by its name,
\* the temporary of a control file included.
BuildManifest(files) == [work |-> files.work, strays |-> files.strays]

\* verify_manifest, for a manifest that exists.
Verified(files) == files.manifest # None => files.manifest = BuildManifest(files)

\* A crash inside the write that leads from one disk to the next.
LeaveTemporary(disk, next) ==
  [disk EXCEPT !.cycles = [c \in Cycles |->
     IF disk.cycles[c] \in {None, next.cycles[c]} THEN disk.cycles[c]
     ELSE [disk.cycles[c] EXCEPT !.strays = @ + 1]]]

\* ensure_manifest on a cycle without one; an existing manifest is verified.
EnsureManifest(disk, c) ==
  IF disk.cycles[c].manifest = None
  THEN <<[disk EXCEPT !.cycles[c].manifest = BuildManifest(disk.cycles[c])]>> ELSE <<>>

\* The three writes that follow a durable outcome, repeated by whoever finds
\* an outcome under the pointer: cycle.json, schedule.json, current-cycle.json.
ReconcileTerminalCycle(disk, c) ==
  LET ended == [disk EXCEPT !.cycles[c].status = "terminal"]
      scheduled == SetSchedule(ended, disk.cycles[c].digest, disk.cycles[c].outcome.at)
  IN <<ended, scheduled, SetPointer(scheduled, None)>>

\* Completion: seal what is not sealed, journal the outcome, reconcile.
CompleteCycle(disk, c, kind, now) ==
  LET sealed == <<disk>> \o EnsureManifest(disk, c)
      journaled == [Last(sealed) EXCEPT !.cycles[c].outcome = [kind |-> kind, at |-> now]]
  IN sealed \o <<journaled>> \o ReconcileTerminalCycle(journaled, c)

\* A completion writes nothing when the manifest does not match the artifacts,
\* or when a Candidate outcome has no Candidate record.
CanComplete(disk, c, kind) ==
  /\ Verified(disk.cycles[c])
  /\ kind = "candidate" => disk.cycles[c].candidate # None

\* The cycle of another digest ends as superseded; its schedule is dropped
\* later in the same preparation.
FinishSupersededCycle(disk, c, now) ==
  LET sealed == <<disk>> \o EnsureManifest(disk, c)
      journaled == [Last(sealed) EXCEPT !.cycles[c].outcome = [kind |-> "superseded", at |-> now]]
      ended == [journaled EXCEPT !.cycles[c].status = "terminal"]
  IN Tail(sealed) \o <<journaled, ended, SetPointer(ended, None)>>

-----------------------------------------------------------------------------
(* prepare_cycle for digest d at time now. *)

\* A pointer to a cycle with an outcome: the completion was interrupted.
Interrupted(disk) == disk.pointer # None /\ disk.cycles[disk.pointer].outcome # None

\* Closing an interrupted or superseded cycle verifies its manifest before it
\* writes anything; prepare_cycle fails when that does.
CanPrepareCycle(disk, d) ==
  disk.pointer # None /\ (Interrupted(disk) \/ disk.cycles[disk.pointer].digest # d)
    => Verified(disk.cycles[disk.pointer])

\* Slip: an interrupted completion is only unlinked.
Unlink(disk) ==
  <<disk>> \o IF Interrupted(disk) THEN <<SetPointer(disk, None)>> ELSE <<>>

Reconcile(disk) ==
  <<disk>> \o IF Interrupted(disk) THEN ReconcileTerminalCycle(disk, disk.pointer) ELSE <<>>

LoadOrCreateSchedule(disk, d) ==
  IF disk.schedule = None THEN <<SetSchedule(disk, d, Accepted[d])>> ELSE <<>>

\* Slip: the pointer moves on without closing the cycle of the other digest.
ForgetSuperseded(disk, d, now) ==
  IF disk.pointer # None /\ disk.cycles[disk.pointer].digest # d
  THEN <<SetPointer(disk, None)>> ELSE <<>>

Supersede(disk, d, now) ==
  IF disk.pointer # None /\ disk.cycles[disk.pointer].digest # d
  THEN FinishSupersededCycle(disk, disk.pointer, now) ELSE <<>>

Reschedule(disk, d) ==
  IF disk.pointer = None /\ disk.schedule.digest # d
  THEN <<SetSchedule(disk, d, Accepted[d])>> ELSE <<>>

Fresh(disk) ==
  {c \in Cycles : disk.cycles[c] = None /\ \A b \in Cycles : b < c => disk.cycles[b] # None}

\* The files of a new cycle, then the pointer to it.
OpenCycle(disk, d, now) ==
  IF disk.pointer = None /\ now >= disk.schedule.next /\ Fresh(disk) # {}
  THEN LET c == CHOOSE c \in Fresh(disk) : TRUE
           created == SetCycle(disk, c, NewCycle(d))
       IN <<created, SetPointer(created, c)>>
  ELSE <<>>

\* The writes of prepare_cycle, one stage after the other.  It ends with a
\* pointer (resumed or new cycle) or without one (NotEligible).
PrepareCycle(disk, d, now) ==
  LET s1 == Reconcile(disk)
      s2 == s1 \o LoadOrCreateSchedule(Last(s1), d)
      s3 == s2 \o Supersede(Last(s2), d, now)
      s4 == s3 \o Reschedule(Last(s3), d)
  IN s4 \o OpenCycle(Last(s4), d, now)

\* Slip: a manifest without a proposal leaves the resumed cycle writable.
WritableUnlessPending(files) == files.pending = None

\* A resumed cycle with a manifest or a sealed proposal is not writable.
WritableOnResume(files) == files.manifest = None /\ files.pending = None

-----------------------------------------------------------------------------
(* The attempt budget. *)

Remaining(files) == Total - files.charged
Exhausted(files) == files.attempts >= MaxAttempts \/ files.charged >= Total
Allowance(files) == IF Timeout <= Remaining(files) THEN Timeout ELSE Remaining(files)

\* Slip: a reservation left by a crash serves the next attempt.
ReserveOnce(disk, c) ==
  LET f == disk.cycles[c] IN
  IF f.reservation # None THEN <<disk>>
  ELSE <<disk,
    SetCycle(disk, c,
      [f EXCEPT !.attempts = @ + 1, !.charged = @ + Allowance(f),
                !.reservation = [attempt |-> f.attempts + 1, time |-> Allowance(f)]])>>

\* The attempt is numbered, its whole allowance charged and reserved; what an
\* earlier attempt left unsettled stays charged.
ReserveAttempt(disk, c) ==
  LET f == disk.cycles[c] IN
  <<disk,
    SetCycle(disk, c,
      [f EXCEPT !.attempts = @ + 1, !.charged = @ + Allowance(f),
                !.reservation = [attempt |-> f.attempts + 1, time |-> Allowance(f)]])>>

OwnReservation(files, attempt) ==
  files.reservation # None /\ files.reservation.attempt = attempt

SettleAttempt(disk, c, elapsed) ==
  LET f == disk.cycles[c] IN
  <<disk,
    SetCycle(disk, c,
      [f EXCEPT !.charged = @ - (f.reservation.time - elapsed), !.reservation = None])>>

-----------------------------------------------------------------------------
(* Proposals, candidates and handoffs. *)

\* Slip: a repeated proposal needs a writable workspace too.
CanPrepareWhileWritable(disk, c, rules, writable) == writable

\* A sealed proposal can only be repeated with its own rules, and must still
\* match the artifacts; a first one needs a writable workspace.
CanPrepareProposal(disk, c, rules, writable) ==
  LET f == disk.cycles[c] IN
  IF f.pending # None
  THEN /\ f.pending.rules = rules
       /\ f.pending.manifest = BuildManifest(f)
       /\ Verified(f)
  ELSE writable

\* Slip: the candidate is recorded with the proposal.
PrepareAsRecorded(disk, c, attempt, rules) ==
  LET f == disk.cycles[c]
      journal == [attempt |-> attempt, rules |-> rules, manifest |-> BuildManifest(f)]
  IN <<disk, SetCycle(disk, c,
       [f EXCEPT !.pending = journal, !.manifest = BuildManifest(f), !.proposal = journal,
                 !.candidate = BuildManifest(f)])>>

\* proposal.pending.json, analysis-manifest.json, proposal.json.
PrepareCandidateProposal(disk, c, attempt, rules) ==
  LET f == disk.cycles[c]
      journal == IF f.pending # None THEN f.pending
                 ELSE [attempt |-> attempt, rules |-> rules, manifest |-> BuildManifest(f)]
      journaled == SetCycle(disk, c, [f EXCEPT !.pending = journal])
      sealed == SetCycle(disk, c, [f EXCEPT !.pending = journal, !.manifest = journal.manifest])
      published == [sealed EXCEPT !.cycles[c].proposal = journal]
  IN <<disk, journaled, sealed, published>>

RecordCandidate(disk, c) ==
  <<disk, SetCycle(disk, c, [disk.cycles[c] EXCEPT !.candidate = disk.cycles[c].proposal.manifest])>>

MarkSuperseding(disk, c) == [disk EXCEPT !.cycles[c].status = "superseding"]

WriteArtifact(disk, c) == [disk EXCEPT !.cycles[c].work = 1 - @]

\* The handoff record is an artifact; then cycle.json publishes it.
RecordHandoff(disk, c, handoff) ==
  LET recorded == WriteArtifact(disk, c)
  IN <<disk, recorded, [recorded EXCEPT !.cycles[c].handoff = handoff]>>

=============================================================================
