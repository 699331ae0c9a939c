------------------------- MODULE MCEvidencePipeline -------------------------
(* A small world for the evidence pipeline: one tenant with one contract that *)
(* selects a log, a span event and a gauge, and requests that carry what the  *)
(* code distinguishes: a valid and an invalid decision, contents that         *)
(* conflict, an event that occurs twice, a metric without data, records with  *)
(* no time or no authority, and requests the receiver has to refuse.          *)
EXTENDS EvidencePipeline

Text(key, value) == [key |-> key, indexed |-> FALSE, type |-> "string", value |-> value]

Shop == <<Text("flaggo.tenant", "acme"), Text("flaggo.application", "shop"),
          Text("flaggo.environment", "prod")>>
NoTenant == <<Text("flaggo.application", "shop"), Text("flaggo.environment", "prod")>>

MCIdentifiers == {"acme", "prod", "shop", "limits"}
MCByteOrder == <<"acme", "limits", "prod", "shop", "sha256:1", "sha256:2">>
MCDigests == {"sha256:1", "sha256:2", "sha256:e", "sha256:j"}
MCResultHash == [json \in {"{}", "1"} |-> IF json = "1" THEN "sha256:j" ELSE "sha256:e"]

Decision ==
  <<Text("flaggo.signal", "decision.received"), Text("flaggo.decision.id", "uuid"),
    Text("flaggo.contract.name", "limits"), Text("flaggo.contract.digest", "sha256:1"),
    Text("flaggo.executable.digest", "sha256:2"), Text("flaggo.result.json", "1"),
    Text("flaggo.result.hash", "sha256:j"), Text("flaggo.evaluation.source", "rule"),
    Text("flaggo.evaluation.rule", "limits")>>

Log(resource, scope, event, attributes, time, body) ==
  [resource |-> resource, scope |-> scope, event |-> event, attributes |-> attributes,
   time |-> time, observed |-> 0, body |-> body]

Decided(attributes) == Log(Shop, SdkScope, DecisionEvent, attributes, 7, "")
AppLog(time, body) == Log(Shop, "app", "sold", <<Text("flaggo.observation.id", "o1")>>, time, body)
Stray == Log(NoTenant, "app", "sold", <<>>, 7, "")

SpanItem ==
  [resource |-> Shop, scope |-> "app", trace |-> "t", id |-> "s", name |-> "checkout", end |-> 7,
   attributes |-> <<>>,
   events |-> <<[name |-> "sold", time |-> 7, attributes |-> <<>>],
                [name |-> "sold", time |-> 7, attributes |-> <<>>]>>]

Gauge(value) ==
  [resource |-> Shop, scope |-> "app", name |-> "load", unit |-> "1", description |-> "",
   data |-> <<[kind |-> "gauge", aggregation |-> {},
               points |-> <<[attributes |-> <<>>, start |-> 1, time |-> 7, value |-> value]>>]>>]
NoData == [Gauge(1) EXCEPT !.data = <<>>]

Key(name) == <<name, name>>
None == [s \in {} |-> <<>>]

Json(signal, items, objects, size) ==
  [size |-> size, json |-> TRUE, rooted |-> TRUE, wire |-> None,
   objects |-> <<<<Key(Envelope(signal))>>>> \o objects,
   typed |-> signal :> items]
Wire(signal, items, size) ==
  [size |-> size, json |-> FALSE, rooted |-> FALSE, objects |-> <<<<>>>>, typed |-> None,
   wire |-> signal :> items]

logs1 == 1
logs2 == 2
traces == 3
points == 4
twice == 5
oneof == 6
misrouted == 7
oversize == 8
stacked == 9

MCBytes ==
  <<Json("logs", <<Decided(Decision), AppLog(0, "a"), Stray>>, <<>>, 1),
    Wire("logs", <<AppLog(0, "b"),
                   Decided(Decision \o <<Text("flaggo.signal", "decision.received")>>),
                   Decided([Decision EXCEPT ![7] = Text("flaggo.result.hash", "sha256:e")])>>, 1),
    Wire("traces", <<SpanItem>>, 2),
    Wire("metrics", <<NoData, Gauge(1), Gauge(2)>>, 2),
    Json("logs", <<AppLog(1, "c")>>, <<<<<<"event_name", "eventName">>, Key("eventName")>>>>, 1),
    Json("logs", <<AppLog(1, "d")>>, <<<<Key("intValue"), Key("stringValue")>>>>, 1),
    Json("metrics", <<Gauge(3)>>, <<>>, 1),
    Wire("metrics", <<Gauge(4)>>, 3),
    Wire("metrics", <<Gauge(5)>>, 1)>>
MCSizeOf == [p \in DOMAIN MCBytes |-> MCBytes[p].size]

JsonType == "application/json"
WireType == "application/x-protobuf"

Send(signal, type, encodings, payload) ==
  [signal |-> signal, contentType |-> <<[type |-> type, params |-> {}]>>,
   contentEncoding |-> encodings,
   body |-> [c \in {IF encodings = <<"gzip">> THEN "gzip" ELSE "identity"} |-> payload]]

\* The last five are requests to refuse.
MCRequests ==
  {Send("logs", JsonType, <<>>, logs1), Send("logs", WireType, <<"gzip">>, logs2),
   Send("traces", WireType, <<"identity">>, traces),
   Send("metrics", WireType, <<>>, points),
   Send("logs", JsonType, <<>>, twice), Send("logs", JsonType, <<>>, oneof),
   Send("logs", JsonType, <<>>, misrouted), Send("metrics", WireType, <<>>, oversize),
   Send("metrics", WireType, <<"gzip", "gzip">>, stacked)}

Source(signal, name, kind, unit, span) ==
  [signal |-> signal, scope |-> "app", name |-> name, metricKind |-> kind, metricUnit |-> unit,
   parentSpan |-> span, correlated |-> TRUE]
Limits(digest, sources) ==
  [digest |-> digest, name |-> "limits", authority |-> <<"acme", "shop", "prod">>,
   sources |-> sources]

AllSources == {Source("log", "sold", {}, {}, {}), Source("spanEvent", "sold", {}, {}, {"checkout"}),
               Source("metric", "load", {"gauge"}, {"1"}, {})}
Disordered == <<Limits("sha256:2", {}), Limits("sha256:1", AllSources)>>
MCPublished == <<Disordered, <<Limits("sha256:1", AllSources)>>>>

CONSTANTS w1, w2, v1, v2
MCVersionOf == [w \in Workers |-> IF w = w1 THEN v1 ELSE v2]

MCListed(S) == FoldSet(LAMBDA value, seq : Append(seq, value), <<>>, S)

MCSourceTexts == {"app", "sold", "load", "checkout"}
=============================================================================
