# A verification of flaggo

flaggo serves runtime decisions from small rule programs ("executables") that
are bound to decision contracts, collects evidence about them, and lets an
analysis service propose better executables.  This directory holds TLA+
specifications of the parts that decide *which executable is in force*, of the
decisions made with it, of the evidence that is collected, of the analysis that
proposes executables and of the TypeScript SDK applications use; TLC
configurations that check them on small instances; and TLAPS proofs for every
size of the instance.  Paths below are relative to the repository (`src/`).

## 1. The system

| component | state it keeps | operations that change it | interacts with |
|---|---|---|---|
| Contract Store (`modules/contract-store`) | SQLite tables: owner scope of a name, contract versions, current pointer | `put`, `set_current` | Contract Service; its current pointer is read by the Executable Store's transactions |
| Executable Store (`modules/executable-store`) | SQLite tables: executables with lifecycle state and version, analysis admissions | `put_candidate`, `put_analysis_candidate`, `activate`, `activate_if_none`, `activate_candidate`, `resolve` | Contract Service, activation worker, Decision Service (reads) |
| Contract Service (`apps/contract-service`) | a mutex, the worker's cursor; requests in flight | `deploy`, `submit`, `activate` handlers; worker `run_once` | both stores; Async Analysis over HTTP |
| Decision Service and runtime (`apps/decision-service`, `modules/decision`) | bounded cache of compiled executables | `decide` | reads contracts and active executables |
| OTel Ingestion (`apps/otel-ingestion`) | none of its own | append per request, retention timer | exporters, Raw OTLP Inbox |
| Raw OTLP Inbox (`modules/raw-otlp-inbox`) | SQLite log of batches, head and tail counters | `append`, `enforce_retention` | read by the materializer |
| Evidence Materializer (`apps/evidence-materializer`) | catalog in use, saved catalog, HTTP etag | `activate_catalog`, `run_once` | inbox, Evidence Store, Contract Service |
| Evidence Store (`modules/evidence-store`) | SQLite evidence and checkpoint | `commit` of a batch with its checkpoint | materializer, analysis queries |
| Async Analysis (`apps/async-analysis`) | catalog revision, running attempts, tool calls in flight | coordinator `run_once`; the SQL and Python capabilities; shutdown | Contract Service, Evidence Store, workspace, agent, Python processes |
| Analysis Workspace (`modules/analysis-workspace`) | one directory of JSON files per contract name, an OS lock; a lease with its I/O gate | cycle journal: prepare, reserve, settle, propose, record, complete; a session's file system, saved results, histories, audit records | coordinator and tools |
| Analysis Agent (`modules/analysis-agent`) | the Copilot client its sessions share; external model sessions | start, run, yield, close, invalidate, stop | tools, virtual filesystem |
| contract, expression, otlp-codec, analysis-domain | none (pure) | validation, digests, compilation, evaluation | everything |
| TypeScript SDK (`packages/sdk-typescript`) | calls in progress with their timers and listeners | `decide`, the contract client's five operations, exporters | all three HTTP services; its events become evidence |
| hosting, service-observability, examples, tools | none the system depends on | | |

What is hard in it: handlers interleave at every `await` and may be dropped at
any of them; the stores are shared by processes while the mutex is not; a
deployment is seven separate transactions; the worker acts on snapshots that
may be stale; the materializer, the inbox and the analysis workspace must
recover from a crash between any two writes; the decision cache is shared by
concurrent requests; canonical texts are parsed again long after they were
written; a call of the SDK races its timeout, its caller and its retries.
`PROJECT.json` lists each such hazard at its line.

What makes each component correct:

* Contract Store: one owner scope per name, a current pointer that selects a
  stored version of that name.
* Executable Store: at most one active executable per contract, replaced
  atomically, and lifecycle tokens (digest, version) that identify one tenure.
* Contract Service: a current contract has an active executable; default
  before authored before candidates; candidates are admitted for the current
  contract only, and each of them is resolved; retired executables stay retired.
* Decision runtime: an answer is what the texts of the executable that was
  active when it was read mean; the cache stays bounded and serves neither a
  compilation of another digest nor of a damaged row.
* Evidence pipeline: an acknowledged batch is materialized exactly once, in
  order, unless retention removed it first; evidence once accepted is final.
* SDK: an attempt repeats the request that was begun, a call ends and leaves
  nothing behind, a decision that is returned was logged once, and what is
  logged is evidence to the materializer.
* Analysis cycle: one unfinished cycle per workspace, one admission per cycle
  that matches its sealed proposal, an outcome that agrees with the admission.
* Agent sessions: one working client at a time, whoever fails; what earlier
  attempts and calls left stays, and what the records say is true, whatever
  ends where; every call and the service come to an end.

## 2. Modules

| module | models |
|---|---|
| `ContractStore` | the Contract Store's tables and transactions |
| `ExecutableStore` | the Executable Store's tables and transactions, and `StoreSpec`, in which any caller issues any transaction with any arguments |
| `ContractService` | the Contract Service's handlers, worker, failures, over the stores |
| `RuntimeAuthority` | the abstract specification: what the Contract Service promises about authority |
| `AnalysisWorkspace` | the journal of one analysis workspace: what each operation writes, file by file |
| `AnalysisCycle` | coordinator workers, agent session, submission tool and Contract Service over that journal, with crashes, lost calls and replaced contracts |
| `EvidenceQueries` | the scope of a contract's analysis, which queries are taken, and their answers |
| `AgentFiles` | virtual paths, what a session may write, and the file system's operations with the Copilot adapter before them |
| `AgentTools` | `run_sql` and `code_interpreter`, write by write, with Python processes and what those leave running |
| `AgentSessions` | the workers and their sessions over one Copilot client, closing, shutdown and crashes, over those three |
| `RawOtlpInbox` | the inbox's rows and counters, append, retention, read |
| `OtlpCodec` | which requests the receiver and the codec refuse, and what they make of the others |
| `EvidenceProjection` | the materializer's catalog, routes and the projection of a batch |
| `EvidenceStore` | the Evidence Store's tables and its two writing transactions |
| `EvidencePipeline` | receiver, retention, overlapping materializer processes with crashes, over those four |
| `EvidenceLedger` | the abstract specification: a log consumed in order, once, with final evidence |
| `ValueSchema` | value schemas, values and the issues of either |
| `ContractModel` | the validation of contracts and the compatibility of versions |
| `ExpressionSyntax` | the parser and the canonical text of expressions |
| `ExpressionProfile` | limits, types and costs of expressions, and what they evaluate to |
| `DecisionRules` | compilation to an executable, what is stored, materialisation, selection of a rule |
| `DecisionRuntime` | concurrent decisions over the bounded cache; the stores are parameters |
| `AuthoredPrograms` | the documents, programs and inputs of the instances: what is compiled for them, which digests coincide, what a stored row materialises to and what a submitted text means |
| `AuthoredDecisions` | deployments, submissions, damaged rows and decisions over all of these |
| `SdkValues` | what the SDK checks before a request and of an answer |
| `SdkClient` | its calls from await to await, its decision events and its exporters |
| `MCExecutableStore`, `MCContractService`, `MCAnalysisCycle`, `MCEvidencePipeline`, `MCAuthoredDecisions`, `MCSdkClient`, `MCAgentSessions` | the small instances TLC checks |
| `Selections` | what a filter keeps of a list, for the filters that are reasoned about |
| `ContractServiceProofs`, `DecisionRuntimeProofs`, `AnalysisCycleProofs`, `EvidenceProjectionProofs`, `EvidencePipelineProofs`, `SdkClientProofs`, `AgentSessionsProofs` | theorems and proofs, those of the stores and of the journal with the modules that use them |
| `LoopProofs` | the lemmas about numbers, loops and lists those proofs share |

`AnalysisCycle` EXTENDS `AnalysisWorkspace`, and abstracts the Contract Service
to what one workspace sees of it (`Answer`).  `AgentSessions` EXTENDS
`AgentTools` EXTENDS `AgentFiles` and `EvidenceQueries`: it is what goes on
*inside* the attempts of a cycle, in several workspaces at once, and takes from
the journal only what a session sees of it (a proposal seals, an outcome ends).
`ContractService` EXTENDS `ExecutableStore` EXTENDS `ContractStore`: the two
stores are modules over one database file, and the Executable Store reads
`decision_contract_current` inside its own transactions.
`EvidencePipeline` EXTENDS `RawOtlpInbox` (over `OtlpCodec`), `EvidenceStore` and
`EvidenceProjection`, and shows the composition to implement `EvidenceLedger`.
`AuthoredPrograms` EXTENDS `DecisionRules` (over `ExpressionProfile`,
`ExpressionSyntax`, `ContractModel`, `ValueSchema`), `AuthoredDecisions` EXTENDS
it and `DecisionRuntime`.  The runtime and the composition take what they ask
of a contract, a row or a text as operator constants, and the configurations
bind them to the operators of `AuthoredPrograms` that end in `Of`;
`EvidencePipeline` takes its `Projection` (`ProjectionOf`) in the same way.  `SdkClient`
EXTENDS `SdkValues` and instantiates `EvidenceProjection`, so that what the SDK
exports is put before the checks of the program that receives it.

Filters over lists (`View`, `Components`, what a query returns, what an exporter
sends on) are written with `Kept`, a recursive function along the places of a
list, in place of `SelectSeq`, about which the prover knows nothing.

### State and actions against the code

*One action is one transaction or one wait for the mutex*: the code between two
awaits at which another task, process or failure can intervene.  Every store
operation is a `BEGIN IMMEDIATE` transaction (the listings are one SELECT), so
it is one atomic step; an early return rolls it back.

* A contract or an executable stands for its digest, as everywhere in the
  code; digests commit to their content, so `NameOf`, `ScopeOf`, `ContractOf`
  are constant functions.  Executables and names are numbers because the code
  orders them (`ORDER BY executable_digest DESC`, `contract_name > ?`).
* `lifecycle_state`, `state_version`, `admissions`, `resources`, `versions`,
  `current` are the tables; `"absent"` and `None` are missing rows.  Timestamps
  of admissions are kept because they rank candidates; other columns are not.
* `request[s]` is the future of one HTTP handler with the locals that outlive
  an await; `pc` names the call it is about to make.  The mutex guard is a
  local of that future, so the mutex is held by the request whose `pc` is past
  the wait (`HoldsMutex`): dropping the future (`Abandon`) releases it.
* `worker[i]` is the worker of process `i`: its cursor, the snapshots of the
  scan not yet processed, and the assessment of the first of them.
* `Abandon` is a dropped connection or a store error at any await, `Restart` a
  death of a process at any moment, `WorkerSkip` the error branch of the scan.
* Validation, compilation, encoding and projection are pure.  A candidate that
  no longer compiles to its digest, or a contract whose learning policy is not
  automatic, is an element of the constants `Conforming`, `AutoActivation`.

The store specification is *open*: its snapshots and tokens are arbitrary, so
what is proved about it needs nothing from the Contract Service.  The service
then is shown to use the store (`ServiceUsesStore`) and inherits all of it.

### The analysis cycle against the code

One contract name, hence one workspace.  Here an action is the code between two
awaits that something can intervene at; the file writes inside it are the steps
of a *sequence of disks* (`PrepareCycle`, `CompleteCycle`,
`PrepareCandidateProposal`, ...), and `Durably` lets the process die after any
prefix of them or inside the next write, whose temporary then stays in the
cycle directory (`LeaveTemporary`).  An I/O error is treated as such a death:
it stops the operation at the same places and drops the attempt.

* `disk` is the directory: `current-cycle.json` (`pointer`), `schedule.json`,
  and per cycle `cycle.json`, `budget.json`, `proposal.pending.json`,
  `analysis-manifest.json`, `proposal.json`, `candidate.json`, `outcome.json`.
  Artifacts are one version that every write changes; a manifest is the
  version and the leftovers it was computed from.
* `lease` is `LeaseState`, `attempt` the locals of `execute_attempt`, `tool`
  the `propose_executable` call.  A session that is closed at its deadline or
  on a replacement may leave that call running (`ToolCut` is its end); the call
  shares the lease, so the claim outlives the attempt.  A session reports an
  outcome only when none of its calls is outstanding.
* `wire` and `admitted` are submissions under way and the Contract Service's
  admissions.  A response is lost when the caller fails or dies first
  (`ToolFails`, `Crash`) and `Serve` still happens.
* The agent does anything: it writes, proposes, hands off, rejects and reports
  in any order that `WorkflowSession::run` and the lease permit.  `General` says
  whether one profile serves every step or drafting and review are split.
* `fetched` is the contract a worker has read; a replacement may come before
  its claim.  The instant `run_once` is given is read with the claim here.
* Shutdown, the deadline, and every failed or forbidden outcome of a session
  are `AttemptFails`; failed reads of the current contract are `ConcludeFails`.
* Processes that share a workspace directory exclude each other by the file
  lock as workers of one process do by the claim set, so workers stand for both.

### Agent sessions against the code

Several workspaces with a worker each: which worker of the service takes a
workspace up makes no difference, and the agent pool has a permit for each.
An action is one write through the I/O gate of a lease, or what happens between
two awaits.

* `disk[s]` is the directory of a cycle, `lease[s]` its `LeaseState` with the
  yield signal of the attempt.  `call[c]` is a tool call with its locals: a
  task of its own, which a session that is closed may leave running.
* `clients`, `current`, `lock` are the Copilot processes, the one the runtime
  hands out, and its async mutex.  `worker[s]` is `run_worker` in
  `execute_attempt`, with the client it is about to use or to give up.
* A query is what its checks see of it (statements, relations, functions,
  column names, what it selects); the SQL engine is external.
* The Python process and the processes it leaves behind are the operating
  system's: they write to the pipes, end, or keep them open as they like
  (`CallInterference`).  They touch no records.
* What a session owns (`Owned`) is its attempt's directory, its state, and the
  notes with all that lies below them: a session may rename a directory of its
  own to the place of a note, whose path `ProfileFileSystem` permits.
* The SDK is external: a client may fail at any time, and reports a failed
  transport only when it no longer works; a session whose disconnect failed
  lasts until the SDK drops it.
* There are no symbolic links, which the code refuses wherever it meets one.
  Temporaries of atomic writes are the subject of `AnalysisCycle`.

### The evidence pipeline against the code

* A request is content type, encodings and a payload; a payload is a member of
  the constant `Bytes`: its size, whether JSON, the key pairs its objects hold,
  and the records the typed reader makes of it.  `Refusal` runs the receiver's
  checks in their order, `Decodes` the codec's.
* `Ingest` is append and acknowledgement: a lost acknowledgement is the same
  step, and an exporter that repeats the request is the step once more.
* `worker[w]` is one materializer process of one version: the catalog it uses,
  the page it holds, and where in `refresh_catalog` or `run_once` it is.  Two
  of them overlap while a deployment replaces one; each version has its own
  checkpoint row.  `Stop` is a crash, a failed write or the exit of the
  process anywhere; `Start` is what the supervisor does next.
* A commit is one transaction per batch.  `received` is a history variable.
* Identities are hashes in the code and here the tuples that are hashed: the
  hash is taken to be injective, the framing of what goes into it is kept.

### Decisions against the code

* `task[t]` is one `decide` with its locals; a step ends where the code awaits
  a store or takes the mutex of the cache.  `cell` is the `OnceLock` of a cache
  entry, and a slot its `Arc` address: it may be used again when no task, map
  or order holds it.  Threads and slots are interchangeable (symmetry).
* A text is its sequence of tokens; numbers are integers and halves with small
  limits in place of i64 and f64, texts are sequences of letters.
* A digest is represented by the first document or submission that has it, so
  equal content has an equal digest and nothing else has.
* `Damage` and `Repair` change the stored tree of a row as a disk error or
  another version of the program could; the text and the digests stay.

### The SDK against the code

* An action is what JavaScript does between two awaits.  `ready` says whether
  what a call awaits is still pending, has a value, failed, or was overtaken by
  the abort of its controller; timers fire only when no microtask is left.
* Answers, failures and aborts come whenever they like, and an answer is
  anything that may come from a service or a proxy before it.
* Checks are pure operators over abstract values: a text is one of the sets of
  texts that have the syntax a pattern demands, a JSON value is the set of the
  values inside it with their depths and sizes.

## 3. Runs

| run | instance | shows |
|---|---|---|
| `store_transactions` | 1 name, 2 scopes, 3 contracts, 4 executables, 3 proposals (two of one cycle, two of one executable), 2 clock values, versions to 3 | `StoreInvariant`, `NameAuthority`, `TokensNameOneTenure`, `AuthorityNeverLost` under arbitrary callers |
| `service_replicas` | 2 processes with one request slot each, 2 versions of a name, one with an authored executable, 2 candidates | `BootstrapOrder`, `WorkerGrantsAssessed`, and `ImplementsAuthority`, the refinement of `RuntimeAuthority` |
| `service_single` | 1 process, 2 request slots, fairness | `AdmissionFenced` (the mutex does fence within a process) and `RequestsFinish` |
| `service_candidates` | 1 process, 2 names, 3 proposals, one name per page, fairness | `CandidatesResolve` |
| `analysis_safety` | 2 workers, 2 digests and one replacement, 2 cycles of 2 attempts, one rule set that compiles and one that does not, 1 fault, one leftover per cycle | `SealIntact`, `AdmissionMatchesJournal`, `CandidateIsAdmitted`, `NothingAbandoned`, `OutcomeFinal`, `CyclesSpaced` |
| `analysis_workflow` | 4 attempts of one cycle, a revision, a general profile, 1 fault, fairness | `AttemptCharged`, `ReviewedBeforeSubmitted`, `CyclesEnd` |
| `leftover_temporary` | 1 cycle, 1 crash inside a write, fairness | `CyclesEnd` is violated: see findings |
| `evidence_pipeline` | 9 requests, 5 of them to refuse; 2 batches, capacity 2 bytes, pages of 2, a clock that jumps, 2 catalogs, 2 versions that overlap, 1 fault, fairness | `InboxBooks`, `NoPoison`, `OneObservationPerSource`, `DecisionEvidenceSound`, `CatalogDurable`, `BatchesSettle`, and `ImplementsLedger`, the refinement of `EvidenceLedger` |
| `authored_decisions` | 7 worlds of one contract in one or two versions, 5 programs, 12 inputs; 2 decisions, 3 slots, a cache of 1, 1 damage | `CacheAccounted`, `AnswersFollowSource`, `AnswersSound`, `SoundRowsMaterialize` |
| `unary_rejected` | 1 contract with a doubly negated rule | `DeploymentsAccepted` is violated: see findings |
| `sdk_calls` | 2 calls on one AbortSignal, one of them any operation asked well or badly, 11 answers, 3 configurations, 5 batches, fairness | `CallsEndClean`, `DecisionsObserved`, `ExportsAreEvidence`, `AttemptsRepeatTheRequest`, `CallsSettle` |
| `agent_sessions` | 2 workspaces, 3 clients, 2 calls, 2 attempts, one pipe; seven scenarios: two sessions and a client that fails; one with a failure, a crash and a stop; edits of two attempts and a proposal; a query among edits; two queries; a query with a proposal, a crash and a stop; a script; fairness | `ClientsAccounted`, `RecordsFaithful`, `RecordsOnlyGrow`, `CallsEnd`, `ServiceStops` |

Bounds.  The properties concern one contract, one name, two competitors for
each, or two executables in succession; the instances have at least two of each
actor and value a property can tell apart, a third proposal where ranking
matters, and a page smaller than the number of names so that the cursor
wraps.  `MaxVersion` caps `state_version` (an i64 in the code, `wrapping_add`);
transactions that would exceed it are disabled.  In the service runs it is large enough
that no execution reaches it: each executable of a contract is activated at most once.
In `store_transactions` it cuts off long histories, which the theorems then
cover for any `MaxVersion`.

The analysis instances have two cycles where one must be compared with the
next, two attempts where a retry matters and four where draft, review, revision
and submission take one each, and a fault for every call that can be lost.
`Horizon`, `MaxDeploys`, `MaxFaults` and `MaxStrays` bound the clock, the
replacements, the failures and the crashes inside a write; nothing stops when
they are used up, and no run disables the deadlock check of the cycle.
`MaxStrays = 0` in `analysis_workflow` because of the finding below.

`evidence_pipeline`: two batches show every pair of contents in either order
and a page that retention empties behind the reader; two bytes let one batch of
two or two of one fit.  `MaxBatches`, `MaxFaults` and the two `Clocks` bound it,
which is why it may stop.  `authored_decisions`: a cache of one evicts whenever
a second executable is compiled, two decisions share or replace an entry, and
three slots are one more than the decisions, so that an address is used again.
Every world is there for one thing (grouping of operators, versions with equal
digests, branches of unlike types, range checks, run time failures, rules in
words).  `sdk_calls`: two attempts of either call show a
retry, its delay (given, computed or zero), and an abort in each wait; one
decision is asked with an integer, another number and a list, the other with a
text, so that what an event carries of its request, and of which, can be told.

`agent_sessions`: the state is too large for everything at once, so a scenario
(`Budgets`) says how much of what may happen.  Each lets one kind of behaviour
meet the ones it can disturb: clients are shared by two sessions, a query's
records are written among edits, next to another query's, while a proposal seals
the cycle, and around a crash.  A pipe keeps one byte of at
most two, an answer two rows of two bytes, so each limit is met and exceeded.
Three clients are the first one, one for a failure and one for a crash.  The
service may stop, and then nothing happens, which is why this run does not
check for deadlock.

Fairness (`FairPipelineSpec`).  The worker loop polls and the supervisor starts
it again: weak fairness of one action, `Proceed(w)`.  Exporters, the clock,
faults, retention and the catalog endpoint owe nothing; faults are finitely
many, as is every acknowledged log of a run.

Fairness (`FairSdkSpec`).  Microtasks run and timers fire; services, callers
and the application owe nothing, which is why `CallsSettle` speaks of calls
with a timeout or an abort only.

Fairness (`FairCycleSpec`).  A worker polls on a timer: weak fairness of
`Discovery`.  An attempt has a deadline: weak fairness of `AttemptStep`, which
`AttemptFails` always enables.  A tool call goes on or is cut, and the HTTP
client has a deadline of its own.  The Contract Service answers.  The agent,
the clock and faults owe nothing.  `CyclesEnd` takes `Refused = {}`: the
documents leave "unrelated submission errors" retryable, and a sealed proposal
that is refused for good is repeated until the contract is replaced.

Fairness (`FairSessionsSpec`).  The steps of a tool call have deadlines, those
of a worker are awaits that answer or time out, and the SDK answers a
disconnect, if only with an error: weak fairness of `CallStep(c)`,
`WorkerStep(s)` and `ServiceEnds`.  The agent, failures of clients, Python
processes, the operator and faults owe nothing.

Fairness (`service_single`, `service_candidates`).  A handler that is not
dropped is polled to its end: weak fairness of its steps.  tokio's mutex is
first come first served: strong fairness of taking it.  The worker's loop polls
forever: weak fairness of its scan.  Its steps fail only transiently: strong
fairness of assessing and resolving, which says a step tried infinitely often
succeeds in the end, and is the weakest assumption under which anything can be
promised.  New requests, drops, restarts and operators need no fairness.

## 4. Proofs

Assumptions: only those named in the modules, which TLC evaluates on every run.
`ContractsAssumption`, `ExecutablesAssumption`, `ServiceAssumption`: digests
commit to what they commit to, digests and names are numbers, a contract
compiles to at most one authored executable, the page size is positive.
`RuntimeAssumption`: the entries of a cache are finitely many, its size is
positive, a result is not both compiled and invalid.  `WorkspaceAssumption`,
`CycleAssumption`, `ToolsAssumption`, `LimitsAssumption`, `PipelineAssumption`,
`VersionsAssumption`: constants are of their types, limits are positive where
the code refuses zero, the clock has a last instant.  `NoneAssumption`: the
missing file is no file.  `BytesAssumption`: what a payload holds is listed by
the codec in its order.  `TextAssumption`, `DigestAssumption`: identifiers of
unlike kinds are apart, and a digest stands for one value.
`ProjectionAssumption`: the parameter `Projection` of the pipeline is the
projection of `EvidenceProjection`; runs give it as a table, and TLC compares
that with the definition.

`SdkAssumption`, `RequestsAssumption`, `ResponsesAssumption`,
`CorrelationAssumption`: there are identifiers (UUIDs) for all calls, and the
runtime gives none twice; objects have finitely many members and batches are
lists; only the SDK writes under the SDK's scope name; an answer has a
correlation id and a rule at most once, and its result has a digest; the keys
of correlation attributes are none of the protocol's own, and differ for
different names.  `ListsAssumption`: what the store holds and what is run are
lists, a row has a size.  `ToolsAssumption` and `SessionsAssumption` also say
which *names* cannot be: no call is named `history.jsonl` and no attempt
`checkpoint.md`, `.` or the empty name, because the name of a call is a UUID
and `validate_segment` (`local.rs:1341`) admits letters, digits, `-` and `_`.

*Open store.*  `StoreInvariant` is inductive: `OneActive`, `FreshAtZero` (a row
is at version 0 exactly while it was never activated or retired) and
`RetiredBelowActive` (no retired row is ahead of the active one).  Uniqueness
alone is not enough for the tokens: the version of a newly activated row comes
from the row it replaces, and only the other two conjuncts show that it is new
for that row as well.  From it follow `TokensNameOneTenure`,
`AuthorityNeverLost` and `VersionsNeverDecrease`, action by action.
`NameAuthority` is inductive by itself.

*Contract Service.*  `ServiceInvariant == ServiceTypeOK /\ StoreInvariant /\
BootstrapOrder`.  Each action either leaves the store alone or is a `StoreNext`
step, so `StoreInvariant` is inherited.  `BootstrapOrder` carries what no
transaction checks: which requests may rely on which authority, that the
default has been in force before anything else, and that admissions and the
current pointer only concern contracts that are *ready* (authority present,
authored executable settled).  It is needed because `activate` accepts
executables in any state: only this order shows that a bootstrap activation
never meets a retired executable, which is the crux of
`ServiceImplementsAuthority`.

*Decision runtime.*  `RuntimeSpec` is open as the store's is: every read may
return any row.  `CacheAccounted` is not inductive; `CacheInvariant` adds whose
entry is whose.  A decision that inserted an entry is the only one that will
enter it in the order (`OwnSlots`); until it does, the entry is under its own
key, or is invalid (`OwnKeys`); and only compiled entries are in the order
(`OrderCompiled`), so an invalid entry that leaves the map leaves no pair behind.
An eviction is the least number of the oldest pairs after which the map fits:
that it exists is `EvictedCount`, and that the order is then short enough
follows because the pairs in it name different keys of the map.
`OriginInvariant` adds what an entry was made from: whoever holds an entry, in
the map, evicted or at an address used before, has read a row of one key
(`OneKey`), and it was filled for that key (`EntriesMade`).  From it follows
`AnswersOfOwnKey`, which no run needs: no decision is answered by an
executable of another key than that of the row it read.  It is the part of
`AnswersFollowSource` that the sharing and the eviction could break.

*What the worker grants, and what the mutex fences.*  `WorkerGrantsAssessed`
follows from `GrantInvariant`: a cycle admits once (`OncePerCycle`), so a name
has one newest candidate although admissions may share an instant; and a
worker's page holds one fresh candidate for each name, the first of which is
assessed when it is about to be activated, however stale it is by then
(`WorkerSound`).  `AdmissionFenced` follows from `FenceInvariant`: one request
at most is past the wait (`MutexExclusive`), and one that passed the check finds
its contract still current (`CheckedIsCurrent`).  The theorem's hypothesis, one
process on the database, is the one the code needs (see findings).

*Analysis cycle.*  None of the six invariants is inductive, and they are proved
together from `CycleInvariant`: types, and what each actor holds.  The heart of
it is *who may still write*: a writable lease is on the open current cycle, which has
neither manifest nor sealed proposal (`LeaseSound`); the attempt is the latest
of its cycle, under its own reservation (`AttemptSound`); a call that outlived
its attempt is about the committed draft or repeats the sealed proposal
(`ToolSound`); and every request on the wire, whoever sent it, is the sealed one
(`DiskSound`).  Crashes are handled once, in the lemmas about the journal: each
operation is a *Journal*, a sequence of sound directories each of which takes
back nothing an earlier one holds (`Later`), and a leftover temporary keeps a
directory sound, so a death after any write or inside one needs no case of its own
afterwards.  The action properties `OutcomeFinal` and `CyclesSpaced` are read
off `Later`.

*Evidence pipeline.*  `PipelineInv` ties the components together: the inbox's
books, the history of what was received (`ReceiptsInOrder`), one accepted
observation to a logical source and refusals over one source (`AcceptedOnce`),
and pages behind whose rows nothing is left out but what expired (`PageSound`):
what makes overlapping processes with stale pages safe.  `PageSound` is needed
for the refinement, since a process that commits a page it read long ago must
still consume in order.  The loop over the observations of a batch is then read
as one step (`Settled`), which maps to a step of `EvidenceLedger` or a stutter.
The byte counter is a sum over rows; sums run through tallies, which need no
induction of our own.  `NoPoison` and `DecisionEvidenceSound` rest on what the
projection may hold, proved for any bytes and catalog in
`EvidenceProjectionProofs`: observations come in the order of their candidates
and pass `validate_commit` (`ObservationsInOrder`, `AdmittedIsValid`).
`OneObservationPerSource` needs that framing is not lost: two rows have one
logical source just when they are of one source.

*Calls of the SDK.*  `CallsInv` adds to `CallsEndClean` what a call holds at
every await: it is within its policy, with an attempt left where it would make
one, it knows of the abort that cut it off (`WaitingCalls`), one that is over
was answered or rejected (`ResolvedCalls`), and all it has sent are
copies of the one message its request makes (`SentSoFar`), whose first attempt and whose repeats
are built at different places of the code.  `AttemptsRepeatTheRequest` is an
action property: it is proved step by step, from lemmas about one step of the
transport (`Rejects`, `Retries`, `Resolves`) that serve both clients'
operations.

*Decisions and exports.*  `DecisionsInv` adds to it where the answers come from
(`AnsweredCalls`: one that passed the checks for the binding the client was built
with), that every record logged is the one of a call that is past its event, with
an identifier of its own (`EventsSound`), and that a decision that was returned
is there (`DecisionsLogged`).  What such a record says
under keys that are not the protocol's is exactly the scalar attributes of its
call's request (`AskedApart`): none is lost, and none of another call, or of the
SDK's own (`_random`), is there.  That an identifier is left for the next call is
a pigeonhole argument.  `ExportsAreEvidence` needs the materializer's
`Disposition` for *any* such record: which attributes are there, that each key
is there once, and that what the SDK admits as a correlation key or an
identifier passes the materializer's stricter checks.

*Clients of the agent.*  `ClientsAccounted` is not inductive: `ClientsInv` adds
that who holds the lock starts alone (`StartsAlone`), that a client being stopped
was taken from the runtime before (`TakenApart`), that only failed clients are
given up (`GivenUpFailed`), and that nobody refers to a client that does not
exist yet (`NoneUnborn`).

*Records of the agent.*  `RecordsFaithful` relates files that different steps
of one call wrote, with edits, other calls, a proposal and crashes in between.
`RecordsInv` is the inductive invariant.  It says of the directory of a cycle
that it is a tree of lists, that the control files have what the coordinator
writes, that every line of the history that reports a success has its result
file, and that a completed Python record has its submission and its code; and
of every call what its next step takes for granted: a query that is about to be
saved has no result file yet, one that is about to be audited is in the
history, a script that runs has its code in place.  A pipe's capture has what
was read of it, or is marked as truncated; one that is complete had all that
was written, and nobody can write to it any more, which is why inherited pipes
(`heirs`) are part of it.  The invariant holds because no session can reach the
places of records (`SessionPlace` against `Places`: by first components and
lengths of paths, for paths of any length) and because the places of different
calls and attempts are apart; the types of workers come from `ClientsInv`.
`RecordsOnlyGrow` is proved from it action by action: every write is of a place
that was absent, appends, or is of what the session owns (`Grow`).  A renamed
directory takes along all below it, so that case needs where a path lies after
its prefix was replaced.

Proved for all constants: the theorems listed in `PROJECT.json`.  `ServiceTypeOK`,
`PipelineTypeOK`, `AnalysisTypeOK`, `CurrentHasActive`, `DeployFindsAuthority`,
`AuthoredReplacesDefault` and `VersionsNeverDecrease` are proved and need no run
of their own.

Only model-checked, and why:

* `RequestsFinish`, `CandidatesResolve`, `CyclesEnd`, `BatchesSettle`,
  `CallsSettle`, `CallsEnd`, `ServiceStops`: liveness under fairness is out of
  reach of the prover.
* `AnswersFollowSource`, `AnswersSound`, `SoundRowsMaterialize`: they are about
  `ExpressionSyntax`, `ExpressionProfile`, `ValueSchema` and `DecisionRules`,
  which are recursive as the texts are (RECURSIVE operators), and the prover
  takes no module that reaches one.  What the cache does between a row and
  an answer is proved (`AnswersOfOwnKey`).

Every other property of a passing run is a theorem.

## 5. Findings

* `leftover_temporary`.  `write_bytes_atomic` (`local.rs:1307`) puts its
  temporary beside its target, for control files the root of the cycle
  directory.  A kill before the rename leaves it, and manifests skip control
  files by exact name only.  If the manifest was computed before,
  `verify_manifest` fails for good: no sealed submission can be repeated, no
  exhausted cycle completed, and after a replacement `prepare_cycle` itself
  fails.  All safety properties above hold nevertheless: `analysis_safety`
  includes such crashes, and so do the theorems.
* `unary_rejected`.  Canonical text is not a fixed point of canonicalisation:
  `canonical` writes unary operators without parentheses (`profile.rs:633`) and
  the parser counts a run of them by its parity (`syntax.rs:293`), so `-(-x)`
  becomes `--x`, which reads as `x`.  `validate_stored` takes the digest of an
  executable with a canonicalizer and finds another one than `compile` took of
  the same texts: the contract validates and can never be deployed.  An
  attribute named like a word token (`true`, `in`) and a double literal that
  overflows have the same effect.

Disagreements that were met and have no run of their own:

* Admission and replicas.  `submit` checks the current digest and inserts the
  candidate in two transactions under a mutex of the process
  (`lifecycle.rs:440`); a second process may publish another contract between
  them.  The README of the service allows replicas.  The worker retires such a
  candidate, and `ImplementsAuthority` holds with two processes.
* Listing of versions.  `put` makes a version durable before anything is active
  for it; `versions` (`lifecycle.rs:368`) and `catalog` (`:297`) require an
  active executable and fail as a whole otherwise; the former until somebody
  deploys the abandoned version again.
* Misreported submission.  Whether "no Candidate" contradicts a submission is
  decided by `candidate.json` alone (`coordinator.rs:622`, `workflow.rs:294`).
  After a lost response it is missing although `proposal.pending.json` exists; a
  general profile may then end the cycle without the Candidate that was
  admitted, against ASYNC_ANALYSIS.md:233.
* `apps/evidence-materializer/README.md:26` speaks of committing a page
  atomically; the code commits each batch of a page by itself
  (`materializer.rs:70`), which the model does and the ledger allows.
* EVIDENCE.md:240 makes a new version "a new global forward-checkpoint
  namespace"; the checkpoint read is the maximum over all versions.
  EVIDENCE.md:319 has exactly one active materializer; nothing enforces it, and
  the model lets two overlap.
* An observation id is derived from source and content, so the branch of
  `verify_existing_observation` (`evidence-store/src/sqlite.rs:723`) that finds
  the id with other content is unreachable.
* Names with a final line feed pass `validation.rs` and are refused by the
  catalog of the materializer (`catalog.rs:329`), as are null schemas.
* An integer given for a number attribute is evaluated as a CEL Int although
  it is typed Double; results of list type are checked element by element only
  at run time (`profile.rs:727`); a failure that is not the fault of the row
  stays cached.
* SDK.  The retry policy of a call is first checked as if the client had none
  (`transport.ts:129`), so `{ baseDelayMs: 2000 }` alone is refused whatever the
  client's policy.  Its README says every failure is a `FlaggoError`:
  `createFlaggoResource` throws a `TypeError`, and a logger that throws rejects
  `decide()` with its own error although the decision was made, as does a
  result beyond the SDK's JSON limits.  A body that cannot be discarded ends
  the call without the retries it has left.  `request.attributes` is read again
  after the await for the event; an application that changes them meanwhile is
  not modelled.

## 6. Plan

Done: the stores, the Contract Service with its abstract authority; the analysis
cycle; the evidence pipeline with its ledger; the decision runtime, its cache,
and the pure parts it rests on; the SDK; the sessions of the agent with their
files and tools.  Proved: the safety of the stores, of the Contract Service, of
the cache, of the analysis cycle, of the evidence pipeline, of the SDK and of
the agent's clients and records, and both refinements.  Next, in this order:

1. `ExpressionSyntax` and `ExpressionProfile` with recursive functions over the
   depth of a term in place of RECURSIVE operators, so that the steps of
   `AuthoredDecisions` that do not look into a text can be proved about
   (`AnswersFollowSource` from `AnswersOfOwnKey`).
2. Listings with their cursors while versions and executables are added.

## 7. Not modelled, and why

* A request dropped after its COMMIT was handed to SQLite releases the mutex
  slightly before the commit lands; the model ends a transaction and its await
  together.
* `wrapping_add` of versions at the end of the i64 range: 2^63 activations.
* Pagination of read-only listings, ETags, HTTP error bodies, telemetry.
* Of the decisions: the bytes of texts (white space, escapes, spelling of
  numbers, Unicode), float rounding, CEL constructs no rule may use (lists, maps,
  messages, indexing, method calls, bytes and unsigned literals, names with a
  leading dot), the type rules between null and null, and rule values that are
  literals in the cache's own representation.  A rule with such a construct is
  refused by `inspect` in the code and does not parse in the model; a guardrail
  is only canonicalised (`contract/src/digests.rs`), so one with such a
  construct, which the code accepts, is left out.
* Of the evidence: protobuf and JSON bytes, gRPC framing, migrations, the SQL
  engine that analysis queries run on.
* Of the SDK: deployment manifests and endpoints, generated validators beyond
  what their schemas demand, OpenTelemetry's own processors and queues.
* Of the analysis: the catalog of names, prompts and telemetry, symbolic links,
  files a Python script itself reads or writes, and Python processes that
  outlive a crash of the service.
* The components marked `not_modelled` in `PROJECT.json`, with the reason.
