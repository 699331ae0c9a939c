------------------------- MODULE EvidenceProjection -------------------------
(***************************************************************************)
(* What the Evidence Materializer makes of one batch: its decoder, built-in *)
(* decision protocol, compiled catalog and projector, which keep no state. *)
(*                                                                         *)
(* Texts are strings of which only the syntax the code tests and the byte  *)
(* order it compares matter; both are constants.  The digest of a value is *)
(* its place among the values that are digested: SHA-256 is taken to be    *)
(* injective.  An optional value is the set of the at most one value it    *)
(* has.  An attribute is [key, indexed, type, value], type "none" when it  *)
(* carries no AnyValue.  Of times only their source is kept.               *)
(***************************************************************************)
EXTENDS OtlpCodec

CONSTANTS
  Identifiers,        \* texts that match ^[A-Za-z][A-Za-z0-9._-]{0,127}$
  UuidV4s,            \* texts that are a lower-case version 4 UUID
  Sha256Digests,      \* texts that are a lower-case sha256 digest
  ResultHash,         \* JSON texts, and the digest of each
  CorrelationKeys,    \* flaggo.correlation.<name>, the name well-formed
  MultilineTexts,     \* texts with a carriage return or a line feed
  SourceTexts,        \* texts of 1 to 256 characters
  UnitTexts,          \* texts of at most 128 characters
  ByteOrder,          \* every text that is ordered, in byte order
  Listed(_)           \* the elements of a set, in any order

ASSUME TextAssumption ==
  /\ \A json \in DOMAIN ResultHash : ResultHash[json] \in Sha256Digests
  /\ "" \notin Identifiers \union UuidV4s \union Sha256Digests \union SourceTexts
  /\ ByteOrder \in Seq(Identifiers \union Sha256Digests)

MetricKinds == {"gauge", "sum", "histogram", "exponentialHistogram", "summary"}

-----------------------------------------------------------------------------
(* Attributes *)

\* The value of an attribute: none when it is missing, repeated or empty.
LookupAttribute(attributes, key) ==
  LET at == {i \in DOMAIN attributes : attributes[i].key = key}
  IN {attributes[i] : i \in {j \in at : Cardinality(at) = 1 /\ attributes[j].type # "none"}}

NonEmptyString(attributes, key) ==
  {a.value : a \in {b \in LookupAttribute(attributes, key) : b.type = "string" /\ b.value # ""}}

-----------------------------------------------------------------------------
(* Decoder: a batch to its candidates *)

LogTime(record) ==
  CASE record.time # 0 -> "log.time_unix_nano"
    [] record.time = 0 /\ record.observed # 0 -> "log.observed_time_unix_nano"
    [] OTHER -> "inbox.received_at"

NativeTime(time) == IF time = 0 THEN "inbox.received_at" ELSE "signal.time_unix_nano"

\* The identity of a log is the observation id its producer gave it, if any.
LogCandidate(record) ==
  LET explicit == NonEmptyString(record.attributes, "flaggo.observation.id")
  IN [signal |-> "log", resource |-> record.resource, scope |-> record.scope,
      name |-> record.event, metricKind |-> {}, metricUnit |-> {}, parentSpan |-> {},
      attributes |-> record.attributes, time |-> LogTime(record),
      payload |-> record,
      identity |-> explicit, contentDerived |-> explicit = {}]

SpanIdentity(span) == <<span.trace, span.id>>

SpanCandidate(span) ==
  [signal |-> "span", resource |-> span.resource, scope |-> span.scope,
   name |-> span.name, metricKind |-> {}, metricUnit |-> {}, parentSpan |-> {},
   attributes |-> span.attributes, time |-> NativeTime(span.end),
   payload |-> span, identity |-> SpanIdentity(span), contentDerived |-> FALSE]

\* Slip: occurrences of an event in its span are not told apart.
EventWithoutOccurrence(span, i) ==
  LET event == span.events[i]
  IN [signal |-> "spanEvent", resource |-> span.resource, scope |-> span.scope,
      name |-> event.name, metricKind |-> {}, metricUnit |-> {}, parentSpan |-> {span.name},
      attributes |-> event.attributes, time |-> NativeTime(event.time),
      payload |-> [parentSpan |-> span, eventIndex |-> i],
      identity |-> [event |-> event.name, time |-> event.time, parent |-> SpanIdentity(span)],
      contentDerived |-> FALSE]

EventCandidate(span, i) ==
  LET event == span.events[i]
  IN [signal |-> "spanEvent", resource |-> span.resource, scope |-> span.scope,
      name |-> event.name, metricKind |-> {}, metricUnit |-> {}, parentSpan |-> {span.name},
      attributes |-> event.attributes, time |-> NativeTime(event.time),
      payload |-> [parentSpan |-> span, eventIndex |-> i],
      identity |-> [event |-> event.name, occurrence |-> i, time |-> event.time,
                    parent |-> SpanIdentity(span)],
      contentDerived |-> FALSE]

\* The identity of a data point leaves its value out.
PointCandidate(metric, data, point) ==
  [signal |-> "metric", resource |-> metric.resource, scope |-> metric.scope,
   name |-> metric.name, metricKind |-> {data.kind}, metricUnit |-> {metric.unit},
   parentSpan |-> {}, attributes |-> point.attributes,
   time |-> NativeTime(point.time),
   payload |-> [aggregation |-> data.aggregation, description |-> metric.description,
                point |-> point],
   identity |-> [aggregation |-> data.aggregation, attributes |-> point.attributes,
                 start |-> point.start, end |-> point.time],
   contentDerived |-> FALSE]

\* The candidates of one item of a request, in order.
DecomposeMetric(metric) ==
  FlattenSeq([d \in DOMAIN metric.data |->
    [p \in DOMAIN metric.data[d].points |->
       PointCandidate(metric, metric.data[d], metric.data[d].points[p])]])

DecomposeTraces(span) ==
  <<SpanCandidate(span)>>
    \o [i \in DOMAIN span.events |-> EventCandidate(span, i)]

Decompose(signal, item) ==
  CASE signal = "logs" -> <<LogCandidate(item)>>
    [] signal = "metrics" -> DecomposeMetric(item)
    [] signal = "traces" -> DecomposeTraces(item)

Items(batch) ==
  IF Decodes(batch.signal, batch.encoding, batch.payload)
  THEN ExportRequest(batch.signal, batch.encoding, batch.payload) ELSE <<>>

\* The ordinal of a candidate is its place in the batch.
Candidates(batch) ==
  FlattenSeq([i \in DOMAIN Items(batch) |->
                Decompose(batch.signal, Items(batch)[i])])

DecoderDiagnostics(batch) ==
  {[code |-> "otlp.decode_failed", ordinal |-> {}, detail |-> ""] :
     x \in {y \in {batch} : ~Decodes(y.signal, y.encoding, y.payload)}}
  \union
  {[code |-> "metric.data_missing", ordinal |-> {}, detail |-> Items(batch)[i].name] :
     i \in {j \in DOMAIN Items(batch) : batch.signal = "metrics" /\ Items(batch)[j].data = <<>>}}
  \union
  {[code |-> "observation.timestamp_fallback", ordinal |-> {i}, detail |-> ""] :
     i \in {j \in DOMAIN Candidates(batch) : Candidates(batch)[j].time = "inbox.received_at"}}

-----------------------------------------------------------------------------
(* Candidates *)

SourceKey(c) ==
  [signal |-> c.signal, scope |-> c.scope, name |-> c.name,
   metricKind |-> c.metricKind, metricUnit |-> c.metricUnit, parentSpan |-> c.parentSpan]

CanonicalPayload(c) ==
  [resource |-> c.resource, source |-> SourceKey(c), payload |-> c.payload]

\* Only a data point is identified by its resource and its name as well.
CanonicalIdentity(c) ==
  IF c.signal = "metric"
  THEN [kind |-> c.signal, identity |-> c.identity,
        resource |-> c.resource, source |-> SourceKey(c)]
  ELSE [kind |-> c.signal, identity |-> c.identity]

\* The authority scope the resource of a candidate states, if it states one.
DeriveAuthority(c) ==
  {<<t, a, e>> : t \in NonEmptyString(c.resource, "flaggo.tenant"),
                 a \in NonEmptyString(c.resource, "flaggo.application"),
                 e \in NonEmptyString(c.resource, "flaggo.environment")}
    \intersect (Identifiers \X Identifiers \X Identifiers)

-----------------------------------------------------------------------------
(* The built-in decision protocol *)

SdkScope == "@flaggo/sdk"
DecisionEvent == "flaggo.decision.received"

IsBuiltIn(c) ==
  /\ c.signal = "log" /\ c.scope = SdkScope
  /\ \/ c.name = DecisionEvent
     \/ \E i \in DOMAIN c.attributes : c.attributes[i].key = "flaggo.signal"

UniqueAttributes(c) ==
  /\ \A i \in DOMAIN c.attributes :
       ~c.attributes[i].indexed /\ c.attributes[i].type # "none"
  /\ \A i, j \in DOMAIN c.attributes :
       c.attributes[i].key = c.attributes[j].key => i = j

RequiredStrings(c) ==
  LET Has(key, texts) ==
        \E a \in LookupAttribute(c.attributes, key) : a.type = "string" /\ a.value \in texts
  IN /\ Has("flaggo.signal", {"decision.received"})
     /\ Has("flaggo.decision.id", UuidV4s)
     /\ Has("flaggo.contract.name", Identifiers)
     /\ Has("flaggo.contract.digest", Sha256Digests)
     /\ Has("flaggo.executable.digest", Sha256Digests)
     /\ Has("flaggo.result.json", DOMAIN ResultHash)
     /\ Has("flaggo.result.hash", Sha256Digests)
     /\ Has("flaggo.evaluation.source", {"default", "rule"})

TextAt(c, key) == {a.value : a \in LookupAttribute(c.attributes, key)}

AllStrings(c, key) == \A a \in LookupAttribute(c.attributes, key) : a.type = "string"

\* Slip: the hash is not compared with the result.
ResultIsHashed(c) == TextAt(c, "flaggo.result.hash") # {}

ResultMatches(c) ==
  \A json \in TextAt(c, "flaggo.result.json") :
    TextAt(c, "flaggo.result.hash") = {ResultHash[json]}

\* A rule is named exactly when a rule decided.
RuleMatches(c) ==
  LET rule == TextAt(c, "flaggo.evaluation.rule")
  IN /\ AllStrings(c, "flaggo.evaluation.rule")
     /\ IF TextAt(c, "flaggo.evaluation.source") = {"rule"}
        THEN rule # {} /\ rule \subseteq Identifiers ELSE rule = {}

CorrelationIdValid(c) ==
  /\ AllStrings(c, "flaggo.request.correlation_id")
  /\ TextAt(c, "flaggo.request.correlation_id") \intersect ({""} \union MultilineTexts) = {}

KnownAttributes ==
  {"flaggo.signal", "flaggo.decision.id", "flaggo.contract.name", "flaggo.contract.digest",
   "flaggo.executable.digest", "flaggo.result.json", "flaggo.result.hash",
   "flaggo.evaluation.source", "flaggo.evaluation.rule", "flaggo.request.correlation_id"}

NothingUnexpected(c) ==
  \A i \in DOMAIN c.attributes :
    LET a == c.attributes[i]
    IN \/ a.key \in KnownAttributes
       \/ a.key \in CorrelationKeys /\ a.type \in {"string", "bool", "int", "finite double"}

ValidDecision(c) ==
  /\ c.name = DecisionEvent
  /\ UniqueAttributes(c) /\ RequiredStrings(c) /\ ResultMatches(c)
  /\ RuleMatches(c) /\ CorrelationIdValid(c) /\ NothingUnexpected(c)

-----------------------------------------------------------------------------
(* The compiled contract catalog.  A document is the sequence of its       *)
(* entries [digest, name, authority, sources]; malformed JSON is {}.       *)

OrderKey(entry) == entry.authority \o <<entry.name, entry.digest>>

Position(text) == CHOOSE i \in DOMAIN ByteOrder : ByteOrder[i] = text

\* Strictly before, comparing the parts of the keys in turn.
Precedes(a, b) ==
  \E i \in 1..5 :
    /\ Position(OrderKey(a)[i]) < Position(OrderKey(b)[i])
    /\ \A j \in 1..(i - 1) : OrderKey(a)[j] = OrderKey(b)[j]

SourceCompiles(source) ==
  /\ source.scope \in SourceTexts /\ source.name \in SourceTexts
  /\ source.correlated
  /\ source.signal = "metric" =>
       source.metricKind \subseteq MetricKinds /\ source.metricUnit \subseteq UnitTexts
  /\ source.signal = "spanEvent" => source.parentSpan \subseteq SourceTexts

RouteSource(source) ==
  [f \in DOMAIN source \ {"correlated"} |-> source[f]]

Compiles(document) ==
  /\ \A i \in DOMAIN document :
       /\ document[i].digest \in Sha256Digests
       /\ document[i].name \in Identifiers
       /\ document[i].authority \in Identifiers \X Identifiers \X Identifiers
       /\ \A source \in document[i].sources : SourceCompiles(source)
  /\ \A i, j \in DOMAIN document : i < j => Precedes(document[i], document[j])
  /\ \A i, j \in DOMAIN document : i # j =>
       /\ document[i].digest # document[j].digest
       /\ <<document[i].authority, document[i].name>> #
            <<document[j].authority, document[j].name>>

\* The routes of a catalog; a contract counts once for each of its sources.
RoutesOf(document) ==
  UNION {{[authority |-> document[i].authority, source |-> RouteSource(source)] :
            source \in document[i].sources} : i \in DOMAIN document}

EmptyCatalog == <<>>

-----------------------------------------------------------------------------
(* Projector: a batch and a catalog to what is committed *)

Route(c, authority) == [authority |-> authority, source |-> SourceKey(c)]

\* What becomes of a candidate.
Disposition(c, document) ==
  IF DeriveAuthority(c) = {} THEN "observation.authority_unresolved"
  ELSE IF IsBuiltIn(c)
  THEN IF ValidDecision(c) THEN "decision" ELSE "protocol.decision_received_invalid"
  ELSE IF \E a \in DeriveAuthority(c) : Route(c, a) \in RoutesOf(document)
  THEN "routed" ELSE "unrouted"

\* The authority, and the identity or, where nothing identifies it, the content.
LogicalSource(c) ==
  [authority |-> DeriveAuthority(c), derived |-> c.contentDerived,
   of |-> IF c.contentDerived THEN CanonicalPayload(c) ELSE CanonicalIdentity(c)]

RawBatches == [signal : OtlpSignals, encoding : WireEncodings, payload : DOMAIN Bytes]

\* Every value a digest is taken of.
DigestedValues ==
  LET all == UNION {ToSet(Candidates(raw)) : raw \in RawBatches}
  IN {LogicalSource(c) : c \in all} \union {CanonicalPayload(c) : c \in all}

Digested == Listed(DigestedValues)

ASSUME DigestAssumption == DigestedValues \subseteq ToSet(Digested)

DigestOf(value) == CHOOSE i \in DOMAIN Digested : Digested[i] = value

ContentOf(digest) == Digested[digest]

CreateObservation(c, ordinal, disposition) ==
  [ordinal |-> ordinal,
   logical |-> DigestOf(LogicalSource(c)), content |-> DigestOf(CanonicalPayload(c)),
   authority |-> CHOOSE a \in DeriveAuthority(c) : TRUE, source |-> SourceKey(c),
   protocol |-> disposition = "decision",
   contract |-> IF disposition = "decision"
                THEN TextAt(c, "flaggo.contract.digest") ELSE {}]

Observations(batch, document) ==
  LET all == Candidates(batch)
      found[n \in 0..Len(all)] ==
        IF n = 0 THEN <<>>
        ELSE IF Disposition(all[n], document) \in {"decision", "routed"}
        THEN Append(found[n - 1], CreateObservation(all[n], n, Disposition(all[n], document)))
        ELSE found[n - 1]
  IN found[Len(all)]

ProjectorDiagnostics(batch, document) ==
  {[code |-> Disposition(Candidates(batch)[i], document), ordinal |-> {i}, detail |-> ""] :
     i \in {j \in DOMAIN Candidates(batch) :
              Disposition(Candidates(batch)[j], document) \in
                {"observation.authority_unresolved", "protocol.decision_received_invalid"}}}

ProjectBatch(batch, document) ==
  [observations |-> Observations(batch, document),
   diagnostics |-> DecoderDiagnostics(batch) \union ProjectorDiagnostics(batch, document)]
=============================================================================
