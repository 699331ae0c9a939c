---------------------------- MODULE EvidenceStore ----------------------------
(***************************************************************************)
(* The Evidence Store: accepted observations in the order of their         *)
(* sequence numbers, each with the provenance row inserted beside it,      *)
(* conflicts, diagnostics, the forward checkpoints of the materializer     *)
(* versions, and the cached contract catalog.  A commit is one BEGIN       *)
(* IMMEDIATE transaction, so one atomic action.                            *)
(***************************************************************************)
EXTENDS Naturals, Sequences, FiniteSets, FiniteSetsExt, SequencesExt

CONSTANTS
  Versions,  \* keys of the checkpoint rows: the five materializer versions
  AuthorityNames, \* texts AuthorityScope::new accepts
  DigestTexts     \* texts that are a lower-case sha256 digest

ASSUME VersionsAssumption == Versions # {}

VARIABLES
  observations,  \* accepted observations, their content by its digest
  conflicts,     \* candidates refused for the content of an accepted one
  diagnostics,   \* the durable diagnostics
  checkpoints,   \* last batch committed by each version; 0 when it has no row
  cachedCatalog  \* the catalog singleton: at most one ETag

storeVars == <<observations, conflicts, diagnostics, checkpoints, cachedCatalog>>

EvidenceInit ==
  /\ observations = <<>> /\ conflicts = {} /\ diagnostics = {}
  /\ checkpoints = [v \in Versions |-> 0]
  /\ cachedCatalog = {}

-----------------------------------------------------------------------------

\* The largest batch any version has committed.
ForwardCheckpoint == Max({checkpoints[v] : v \in Versions})

\* The fields a source key has follow from its signal.
SourceShape(source) ==
  /\ source.scope # "" /\ source.name # ""
  /\ CASE source.signal = "metric" ->
            /\ source.metricKind \notin {{}, {""}} /\ source.metricUnit # {}
            /\ source.parentSpan = {}
       [] source.signal = "spanEvent" ->
            /\ source.metricKind = {} /\ source.metricUnit = {}
            /\ source.parentSpan \notin {{}, {""}}
       [] source.signal \in {"log", "span"} ->
            source.metricKind = {} /\ source.metricUnit = {} /\ source.parentSpan = {}

ValidObservation(o) ==
  /\ SourceShape(o.source)
  /\ o.authority \in AuthorityNames \X AuthorityNames \X AuthorityNames
  /\ o.contract \subseteq DigestTexts

\* A commit that fails this fails as InvalidWrite and writes nothing.
ValidCommit(commit) ==
  commit.id > 0 /\ \A i \in DOMAIN commit.observations : ValidObservation(commit.observations[i])

AcceptedFor(rows, logical) == {i \in DOMAIN rows : rows[i].logical = logical}

\* The columns that are read again; the others follow from the content.
Row(id, o) ==
  [batch |-> id, ordinal |-> o.ordinal, logical |-> o.logical, content |-> o.content,
   protocol |-> o.protocol, contract |-> o.contract]

\* The identity of a conflict holds the versions that detected it.
ConflictWith(accepted, o, version) ==
  [logical |-> o.logical, accepted |-> accepted.content, rejected |-> o.content,
   by |-> version]

ConflictDiagnostic(id, o) ==
  [batch |-> id, of |-> [code |-> "logical-source-conflict", ordinal |-> {o.ordinal},
                         detail |-> ""]]

\* Slip: the later content replaces the accepted one.
LastWriterWins(rows, id, o, version) ==
  LET accepted == AcceptedFor(rows.observations, o.logical)
  IN IF accepted = {}
     THEN [rows EXCEPT !.observations = Append(@, Row(id, o))]
     ELSE [rows EXCEPT !.observations[Min(accepted)] = Row(id, o)]

\* The first content of a logical source is accepted; the same again is a
\* duplicate, another a conflict, recorded with a diagnostic once.
WriteObservation(rows, id, o, version) ==
  LET accepted == AcceptedFor(rows.observations, o.logical)
  IN IF accepted = {}
     THEN [rows EXCEPT !.observations = Append(@, Row(id, o))]
     ELSE LET first == rows.observations[Min(accepted)]
              conflict == ConflictWith(first, o, version)
          IN IF first.content = o.content \/ conflict \in rows.conflicts
             THEN rows
             ELSE [rows EXCEPT !.conflicts = @ \union {conflict},
                               !.diagnostics = @ \union {ConflictDiagnostic(id, o)}]

\* The loop over the observations of a commit.
WriteAll(commit, version) ==
  LET written[n \in 0..Len(commit.observations)] ==
        IF n = 0
        THEN [observations |-> observations, conflicts |-> conflicts,
              diagnostics |-> diagnostics]
        ELSE WriteObservation(written[n - 1], commit.id, commit.observations[n], version)
  IN written[Len(commit.observations)]

AlreadyCheckpointed(commit) == ForwardCheckpoint >= commit.id

\* Observations, diagnostics and the checkpoint move together or not at all.
CommitBatch(version, commit) ==
  /\ ValidCommit(commit) /\ ~AlreadyCheckpointed(commit)
  /\ LET rows == WriteAll(commit, version)
     IN /\ observations' = rows.observations
        /\ conflicts' = rows.conflicts
        /\ diagnostics' = rows.diagnostics \union
                            {[batch |-> commit.id, of |-> d] : d \in commit.diagnostics}
  /\ checkpoints' = [checkpoints EXCEPT ![version] = Max({@, commit.id})]
  /\ UNCHANGED cachedCatalog

\* An ETag is the digest of its document and stands for it; 0 is the empty one.
SaveCatalog(etag) ==
  /\ etag # 0
  /\ cachedCatalog' = {etag}
  /\ UNCHANGED <<observations, conflicts, diagnostics, checkpoints>>
=============================================================================
