-------------------------- MODULE EvidencePipeline --------------------------
(***************************************************************************)
(* OTel Ingestion, the Raw OTLP Inbox, the Evidence Materializer and the   *)
(* Evidence Store at work: exporters send requests and send them again,    *)
(* retention runs beside appends, a materializer reads pages and commits   *)
(* their batches one by one, is killed and started again, perhaps in       *)
(* another version, and follows the contract catalog.                      *)
(*                                                                         *)
(* An action is the code between two awaits at which another task or a     *)
(* failure can intervene.  The clock is whatever the machine shows when an *)
(* operation reads it, forwards or backwards.  The projection is the        *)
(* constant Projection, which ProjectionOf below stands for.               *)
(***************************************************************************)
EXTENDS RawOtlpInbox, EvidenceStore, EvidenceProjection

CONSTANTS
  Requests,         \* what exporters send to the receiver
  MaxRequestBytes,  \* receiver limit on the decompressed body
  Published,        \* the catalogs the Contract Service publishes, in turn
  Workers,          \* materializer deployments; one runs but for a replacement
  VersionOf,        \* the materializer version of each
  ReadLimit,        \* batches a page holds
  Projection(_, _), \* what a retained batch and a catalog give
  Clocks,           \* bound: what the clock shows when it is read
  MaxBatches,       \* bound: acknowledged batches
  MaxFaults         \* bound: crashes and failed writes

ASSUME PipelineAssumption ==
  /\ MaxRequestBytes \in Nat \ {0} /\ ReadLimit \in Nat \ {0}
  /\ Clocks \subseteq Nat /\ \E latest \in Clocks : \A clock \in Clocks : clock <= latest
  /\ MaxBatches \in Nat /\ MaxFaults \in Nat
  /\ VersionOf \in [Workers -> Versions]
  /\ SizeOf = [p \in DOMAIN Bytes |-> Bytes[p].size]
  /\ \A request \in Requests :
       /\ request.signal \in OtlpSignals
       /\ \A c \in DOMAIN request.body : request.body[c] \in DOMAIN Bytes
  /\ Len(Published) \in Nat \ {0} /\ DOMAIN Published = 1..Len(Published)
  /\ AuthorityNames = Identifiers /\ DigestTexts = Sha256Digests

VARIABLES
  received,   \* history: every batch acknowledged
  published,  \* place of the catalog the Contract Service serves
  worker,     \* what each materializer process holds
  faults

vars == <<inboxVars, storeVars, received, published, worker, faults>>

Down == [pc |-> "down"]

PipelineInit ==
  /\ InboxInit /\ EvidenceInit
  /\ received = <<>>
  /\ published = 1
  /\ worker = [w \in Workers |-> Down]
  /\ faults = 0

Fault == faults < MaxFaults /\ faults' = faults + 1

-----------------------------------------------------------------------------
(* OTel Ingestion *)

\* Slip: the receiver only looks at the envelope of a JSON request.
EnvelopeOnly ==
  {request \in Requests :
     /\ RequestWireEncoding(request) # {} /\ DecompressedBody(request) # {}
     /\ \A p \in DecompressedBody(request) : Bytes[p].size <= MaxRequestBytes}

Admissible == {request \in Requests : Refusal(request, MaxRequestBytes) = {}}

\* A refused request, and one that does not fit, leaves nothing behind.  An
\* acknowledgement that is lost changes nothing either: the batch is durable.
Ingest(request, clock) ==
  /\ request \in Admissible /\ lastId < MaxBatches
  /\ AppendBatch(NewRawOtlpBatch(request), clock)
  /\ received' = Append(received, batches'[lastId'])
  /\ UNCHANGED <<storeVars, published, worker, faults>>

\* At startup and on the maintenance timer.
Maintain(clock) ==
  /\ EnforceRetention(clock)
  /\ UNCHANGED <<storeVars, received, published, worker, faults>>

-----------------------------------------------------------------------------
(* Evidence Materializer *)

\* Another catalog becomes the current one of the Contract Service.
Publish ==
  /\ published < Len(Published) /\ published' = published + 1
  /\ UNCHANGED <<inboxVars, storeVars, received, worker, faults>>

Set(w, state) == worker' = [worker EXCEPT ![w] = state]

\* A catalog by its ETag.
Catalog(etag) == IF etag = 0 THEN EmptyCatalog ELSE Published[etag]

\* The process resumes with the cached catalog, or with none; it exits again
\* when the cached one does not compile.
Start(w) ==
  /\ worker[w].pc = "down"
  /\ \A etag \in cachedCatalog : Compiles(Catalog(etag))
  /\ Set(w, [pc |-> "idle", page |-> {}, after |-> 0, offer |-> {},
             catalog |-> Max({0} \union cachedCatalog)])
  /\ UNCHANGED <<inboxVars, storeVars, received, published, faults>>

\* The catalog endpoint answers with the current catalog unless the ETag still
\* matches it.
CatalogAnswer(etag) == {published} \ {etag}

\* A catalog that does not compile is as good as no answer.
FetchCatalog(w) ==
  /\ worker[w].pc = "idle"
  /\ \E etag \in CatalogAnswer(worker[w].catalog) :
       /\ Compiles(Catalog(etag))
       /\ worker' = [worker EXCEPT ![w].pc = "activating", ![w].offer = {etag}]
  /\ UNCHANGED <<inboxVars, storeVars, received, published, faults>>

Use(w, etag) ==
  worker' = [worker EXCEPT ![w].pc = "idle", ![w].offer = {}, ![w].catalog = etag]

\* Slip: the catalog is used before it is durable.
UseUnsaved(w) ==
  /\ worker[w].pc = "activating"
  /\ \E etag \in worker[w].offer : Use(w, etag)
  /\ UNCHANGED <<inboxVars, storeVars, received, published, faults>>

\* The catalog is durable before it is used.
ActivateCatalog(w) ==
  /\ worker[w].pc = "activating"
  /\ \E etag \in worker[w].offer : SaveCatalog(etag) /\ Use(w, etag)
  /\ UNCHANGED <<inboxVars, received, published, faults>>

\* A catalog that cannot be saved is not used.
ActivationFails(w) ==
  /\ worker[w].pc = "activating" /\ Fault
  /\ worker' = [worker EXCEPT ![w].pc = "idle", ![w].offer = {}]
  /\ UNCHANGED <<inboxVars, storeVars, received, published>>

Locate(w) ==
  /\ worker[w].pc = "idle"
  /\ \E id \in DOMAIN batches : id > ForwardCheckpoint
  /\ worker' = [worker EXCEPT ![w].pc = "located", ![w].after = ForwardCheckpoint]
  /\ UNCHANGED <<inboxVars, storeVars, received, published, faults>>

\* Retention may have emptied the page since.
ReadPage(w) ==
  /\ worker[w].pc = "located"
  /\ LET page == ReadAfter(worker[w].after, ReadLimit)
     IN worker' = [worker EXCEPT ![w].pc = IF page = {} THEN "idle" ELSE "committing",
                                 ![w].page = page]
  /\ UNCHANGED <<inboxVars, storeVars, received, published, faults>>

\* Every batch that can be retained, and every catalog it can be read with.
LedgerBatches ==
  {[id |-> i, received |-> t,
    signal |-> b.signal, encoding |-> b.encoding, payload |-> b.payload] :
     i \in 1..MaxBatches, b \in {NewRawOtlpBatch(q) : q \in Admissible}, t \in 0..Max(Clocks)}

LedgerCatalogs == {0} \union {i \in DOMAIN Published : Compiles(Published[i])}

\* Projection keeps no state, so here is all of it: for each raw batch, what
\* each catalog makes of it, the empty one last.
Projected ==
  FoldSet(LAMBDA raw, table :
            table @@ (raw :> ([i \in DOMAIN Published |-> ProjectBatch(raw, Published[i])]
                                \o <<ProjectBatch(raw, EmptyCatalog)>>)),
          <<>>, {NewRawOtlpBatch(q) : q \in Admissible})

Raw(row) == [signal |-> row.signal, encoding |-> row.encoding, payload |-> row.payload]

ProjectionOf(row, etag) ==
  LET projections == Projected[Raw(row)]
  IN projections[IF etag = 0 THEN Len(projections) ELSE etag]

\* The constant stands for the projection: a table of it, or the definition.
ASSUME ProjectionAssumption ==
  \A row \in LedgerBatches, etag \in LedgerCatalogs :
    Projection(row, etag) = ProjectBatch(Raw(row), Catalog(etag))

\* The batch of the page that is next, as it is committed.
NextCommit(w) ==
  LET page == worker[w].page
      next == {row \in page : \A other \in page : row.id <= other.id}
  IN {[id |-> row.id,
       observations |-> Projection(row, worker[w].catalog).observations,
       diagnostics |-> Projection(row, worker[w].catalog).diagnostics] : row \in next}

\* Slip: a batch another process has committed is tried again.
StayOnPage(w, commit) == worker' = worker

NextOfPage(w, commit) ==
  LET rest == {row \in worker[w].page : row.id # commit.id}
  IN worker' = [worker EXCEPT ![w].page = rest,
                              ![w].pc = IF rest = {} THEN "idle" ELSE "committing"]

\* Each batch of the page is one transaction.
Commit(w) ==
  /\ worker[w].pc = "committing"
  /\ \E commit \in NextCommit(w) :
       CommitBatch(VersionOf[w], commit) /\ NextOfPage(w, commit)
  /\ UNCHANGED <<inboxVars, received, published, faults>>

\* Another process got there first.
CommitNothing(w) ==
  /\ worker[w].pc = "committing"
  /\ \E commit \in NextCommit(w) :
       ValidCommit(commit) /\ AlreadyCheckpointed(commit) /\ NextOfPage(w, commit)
  /\ UNCHANGED <<inboxVars, storeVars, received, published, faults>>

\* The process dies, or a storage error makes it exit.
Stop(w) ==
  /\ worker[w].pc # "down" /\ Fault
  /\ Set(w, Down)
  /\ UNCHANGED <<inboxVars, storeVars, received, published>>

Work(w) ==
  \/ Locate(w) \/ ReadPage(w) \/ Commit(w) \/ CommitNothing(w)
  \/ FetchCatalog(w) \/ ActivateCatalog(w) \/ ActivationFails(w)
  \/ Start(w) \/ Stop(w)

PipelineNext ==
  \/ \E request \in Requests, clock \in Clocks : Ingest(request, clock)
  \/ \E clock \in Clocks : Maintain(clock)
  \/ Publish
  \/ \E w \in Workers : Work(w)

PipelineSpec == PipelineInit /\ [][PipelineNext]_vars

\* The worker loop keeps polling, its supervisor starts it again, and a catalog
\* refresh it has begun ends.
Proceed(w) ==
  \/ Start(w) \/ Locate(w) \/ ReadPage(w) \/ Commit(w) \/ CommitNothing(w)
  \/ ActivateCatalog(w)

PipelineFairness == \A w \in Workers : WF_vars(Proceed(w))

FairPipelineSpec == PipelineSpec /\ PipelineFairness

-----------------------------------------------------------------------------
(* Properties *)

Working == {"idle", "activating", "located", "committing"}

Optional(S) == {{}} \union {{x} : x \in S}

\* What a running process holds: the batches of its page that are still to be
\* committed, its cursor, a catalog it is about to take up, and the one it uses.
Processes ==
  [pc : Working, page : SUBSET LedgerBatches, after : 0..MaxBatches,
   offer : Optional(LedgerCatalogs \ {0}), catalog : LedgerCatalogs]

\* The rows that can come out of projecting an acknowledged batch.
ObservationRows ==
  UNION {{Row(row.id, o) : o \in ToSet(Projection(row, etag).observations)} :
           row \in LedgerBatches, etag \in LedgerCatalogs}

\* The shape of the state.  In particular no checkpoint is ahead of the inbox
\* and a catalog that is cached, offered or used compiles.
PipelineTypeOK ==
  /\ lastId \in 0..MaxBatches
  /\ received \in Seq(LedgerBatches) /\ Len(received) = lastId
  /\ DOMAIN batches \subseteq 1..lastId
  /\ books \in [retained : 0..MaxBatches, bytes : Nat, expired : 0..MaxBatches,
                expiredBytes : Nat, earliestReplay : Optional(0..Max(Clocks)),
                lastReceived : Optional(0..Max(Clocks))]
  /\ observations \in Seq(ObservationRows)
  /\ checkpoints \in [Versions -> 0..lastId]
  /\ cachedCatalog \in Optional(LedgerCatalogs \ {0})
  /\ published \in DOMAIN Published
  /\ worker \in [Workers -> {Down} \union Processes]
  /\ faults \in 0..MaxFaults

\* The books of the inbox agree with its rows however appends and retention
\* interleave under a clock that jumps: the counters are the sums of what is
\* retained and expired and stay under the limit, what is retained is the tail
\* of what was received, in the order of receipt, and none of it is older than
\* the replay boundary the inbox reports (sqlite.rs expire_before, append).
InboxBooks ==
  /\ books.retained = Cardinality(DOMAIN batches)
  /\ books.bytes = PayloadBytes(batches, lastId) /\ books.bytes <= MaxRetainedBytes
  /\ books.expired + books.retained = lastId
  /\ books.expiredBytes + books.bytes = PayloadBytes(received, lastId)
  /\ DOMAIN batches = (books.expired + 1)..lastId
  /\ \A id \in DOMAIN batches : batches[id] = received[id]
  /\ \A i, j \in DOMAIN received : i < j => received[i].received <= received[j].received
  /\ \A b \in books.earliestReplay, id \in DOMAIN batches : b <= batches[id].received
  /\ books.expired > 0 => \E b \in books.earliestReplay : received[books.expired].received < b

\* Nothing the receiver acknowledged can stop the materializer for good: a
\* retained batch decodes, what is projected from it passes the validation of
\* the store, and the cached catalog compiles, so neither a batch nor a catalog
\* makes every restart fail at the same place (projector.rs, validate_commit).
NoPoison ==
  /\ \A i \in DOMAIN received :
       Decodes(received[i].signal, received[i].encoding, received[i].payload)
  /\ \A w \in Workers : worker[w].pc = "committing" =>
       \A commit \in NextCommit(w) : ValidCommit(commit)
  /\ \A etag \in cachedCatalog : Compiles(Catalog(etag))

EventTime(payload) == payload.parentSpan.events[payload.eventIndex].time

\* Two contents are of one source: a log record with the same observation id, a
\* span, an event at the same place and time of its span, or a data point of one
\* series and time window.
SameSource(a, b) ==
  /\ a.source.signal = b.source.signal
  /\ CASE a.source.signal = "log" ->
            \/ a = b
            \/ /\ NonEmptyString(a.payload.attributes, "flaggo.observation.id") # {}
               /\ NonEmptyString(a.payload.attributes, "flaggo.observation.id") =
                    NonEmptyString(b.payload.attributes, "flaggo.observation.id")
       [] a.source.signal = "span" -> SpanIdentity(a.payload) = SpanIdentity(b.payload)
       [] a.source.signal = "spanEvent" ->
            /\ SpanIdentity(a.payload.parentSpan) = SpanIdentity(b.payload.parentSpan)
            /\ a.payload.eventIndex = b.payload.eventIndex
            /\ a.source.name = b.source.name /\ EventTime(a.payload) = EventTime(b.payload)
       [] a.source.signal = "metric" ->
            /\ <<a.resource, a.source, a.payload.aggregation, a.payload.point.attributes>> =
                 <<b.resource, b.source, b.payload.aggregation, b.payload.point.attributes>>
            /\ <<a.payload.point.start, a.payload.point.time>> =
                 <<b.payload.point.start, b.payload.point.time>>

\* However often a request is sent again, in another encoding or after a crash,
\* an authority has one observation of a source, and a candidate is refused
\* only for one that really is of its source and says something else
\* (create_observation, canonical_identity, insert_conflict).
OneObservationPerSource ==
  LET Content(i) == ContentOf(observations[i].content)
  IN /\ \A i, j \in DOMAIN observations :
          /\ DeriveAuthority(Content(i)) = DeriveAuthority(Content(j))
          /\ SameSource(Content(i), Content(j))
          => i = j
     /\ \A c \in conflicts :
          c.accepted # c.rejected /\ SameSource(ContentOf(c.accepted), ContentOf(c.rejected))

\* Evidence of a decision names the contract and the result that was decided:
\* it carries each protocol attribute once, and a result that hashes to the
\* hash it was sent with (builtin.rs validate).
DecisionEvidenceSound ==
  \A i \in DOMAIN observations :
    observations[i].protocol =>
      LET sent == ContentOf(observations[i].content).payload.attributes
          Sent(key) == {k \in DOMAIN sent : sent[k].key = key}
      IN /\ \A k, l \in DOMAIN sent : sent[k].key = sent[l].key => k = l
         /\ \E k \in Sent("flaggo.contract.digest") :
              observations[i].contract = {sent[k].value}
         /\ \E j \in Sent("flaggo.result.json"), h \in Sent("flaggo.result.hash") :
              ResultHash[sent[j].value] = sent[h].value
         /\ \A k \in Sent("flaggo.evaluation.rule"), s \in Sent("flaggo.evaluation.source") :
              sent[s].value = "rule"

\* A process takes up a catalog only when that very catalog is the saved one:
\* whatever it files evidence by then, a restart would have found as well, and
\* neither a failed save nor a replaced process leaves one in use that is lost
\* (activate_catalog, run).
CatalogDurable ==
  [][\A w \in Workers :
       LET before == worker[w]
           after == worker'[w]
       IN after.pc # "down" /\ after.catalog # 0 =>
            \/ before.pc # "down" /\ before.catalog = after.catalog
            \/ cachedCatalog' = {after.catalog}]_vars

Expired == 1..books.expired

Ledger == INSTANCE EvidenceLedger WITH
  Batches <- LedgerBatches,
  Documents <- LedgerCatalogs,
  Reading <- LAMBDA row, etag : Projection(row, etag).observations,
  ledger <- received,
  expired <- Expired,
  position <- ForwardCheckpoint,
  evidence <- {[logical |-> observations[i].logical, content |-> observations[i].content,
                contract |-> observations[i].contract, place |-> observations[i].batch,
                ordinal |-> observations[i].ordinal] : i \in DOMAIN observations},
  refused <- {[logical |-> c.logical, content |-> c.rejected] : c \in conflicts}

\* Restarts, repeated pages, overlapping processes and retention under the
\* materializer's feet: the pipeline still consumes the log of acknowledged
\* batches in order, none twice and none passed over before it expired, and
\* evidence once accepted never changes.
ImplementsLedger == Ledger!LedgerSpec

\* When exporters pause, every acknowledged batch comes to be consumed or to
\* expire: no crash, failed write, overlapping process or emptied page leaves a
\* materializer where it never gets past a batch (main.rs run, run_once).
BatchesSettle == []<>(\A i \in 1..lastId : ForwardCheckpoint >= i \/ i \in Expired)
=============================================================================
