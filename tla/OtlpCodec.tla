----------------------------- MODULE OtlpCodec -----------------------------
(***************************************************************************)
(* The OTLP HTTP requests the receiver accepts and the decoder both the    *)
(* receiver and the materializer read a payload with.                      *)
(*                                                                         *)
(* A payload is a place in Bytes, where a record says what its bytes are:   *)
(*   size     how many there are, after decompression                      *)
(*   json     they are one JSON text                                       *)
(*   objects  its JSON objects, each the sequence of its members' keys as  *)
(*            <<raw name, camelCase name>>; the first is the root          *)
(*   rooted   the JSON text is an object and not another value             *)
(*   wire     what the protobuf library reads from the bytes, and          *)
(*   typed    what it reads from the JSON value: functions from the signals *)
(*            it accepts them for to the items of the export request       *)
(* The two libraries are external: only whether and what they read counts. *)
(***************************************************************************)
EXTENDS Naturals, Sequences, FiniteSets, SequencesExt

CONSTANT Bytes  \* a sequence

IsSequence(s) == s \in Seq(ToSet(s))

\* Items come in sequences, and so do the parts of an item.
Ordered(read) ==
  \A signal \in DOMAIN read :
    /\ IsSequence(read[signal])
    /\ \A i \in DOMAIN read[signal] :
         LET item == read[signal][i]
         IN /\ signal = "traces" => IsSequence(item.events)
            /\ signal = "metrics" =>
                 IsSequence(item.data) /\ \A d \in DOMAIN item.data : IsSequence(item.data[d].points)

ASSUME BytesAssumption ==
  \A payload \in DOMAIN Bytes : Ordered(Bytes[payload].wire) /\ Ordered(Bytes[payload].typed)

OtlpSignals == {"logs", "metrics", "traces"}
WireEncodings == {"protobuf", "protobuf-json"}

\* Fields of which a protobuf message carries at most one.
OneofGroups ==
  { {"stringValue", "boolValue", "intValue", "doubleValue", "arrayValue",
     "kvlistValue", "bytesValue"},
    {"gauge", "sum", "histogram", "exponentialHistogram", "summary"},
    {"asDouble", "asInt"} }

ProtobufJsonName(key) == key[2]

FieldsOf(object) == {ProtobufJsonName(object[i]) : i \in DOMAIN object}

\* Two members of an object that name one protobuf field.
RepeatsField(object) ==
  \E i, j \in DOMAIN object :
    i # j /\ ProtobufJsonName(object[i]) = ProtobufJsonName(object[j])

AmbiguousOneof(object) ==
  \E group \in OneofGroups : Cardinality(group \intersect FieldsOf(object)) > 1

\* Every object of the text, however deep, is normalized as it is read.
NormalizedProtoJson(payload) ==
  /\ Bytes[payload].json
  /\ \A i \in DOMAIN Bytes[payload].objects :
       ~RepeatsField(Bytes[payload].objects[i]) /\ ~AmbiguousOneof(Bytes[payload].objects[i])

Envelope(signal) ==
  CASE signal = "logs" -> "resourceLogs"
    [] signal = "metrics" -> "resourceMetrics"
    [] signal = "traces" -> "resourceSpans"

ValidEnvelope(signal, payload) ==
  Bytes[payload].rooted /\ FieldsOf(Head(Bytes[payload].objects)) \subseteq {Envelope(signal)}

\* Does the payload decode as an export request of the signal?
Decodes(signal, encoding, payload) ==
  \/ encoding = "protobuf" /\ signal \in DOMAIN Bytes[payload].wire
  \/ /\ encoding = "protobuf-json"
     /\ NormalizedProtoJson(payload)
     /\ ValidEnvelope(signal, payload)
     /\ signal \in DOMAIN Bytes[payload].typed

\* The items of the request: log records, metrics or spans, in order.
ExportRequest(signal, encoding, payload) ==
  IF encoding = "protobuf" THEN Bytes[payload].wire[signal] ELSE Bytes[payload].typed[signal]

-----------------------------------------------------------------------------
(* The receiver.  Request headers are the sequences of their values: a     *)
(* content type is [type, params], its parameters a set of <<name, value>>; *)
(* names are compared without case, so they are written in lower case.     *)
(* The body is a function from the compressions it can be read under to    *)
(* the payload each yields; a truncated body can be read under none.       *)

WireEncodingOf(type) ==
  CASE type = "application/json" -> {"protobuf-json"}
    [] type = "application/x-protobuf" -> {"protobuf"}
    [] OTHER -> {}

\* The encoding the one Content-Type names; none when it is not supported.
RequestWireEncoding(request) ==
  IF Len(request.contentType) # 1 THEN {}
  ELSE LET header == Head(request.contentType)
       IN {e \in WireEncodingOf(header.type) :
             \A p \in header.params : e = "protobuf-json" /\ p = <<"charset", "utf-8">>}

RequestCompression(request) ==
  CASE request.contentEncoding = <<>> -> {"identity"}
    [] Len(request.contentEncoding) = 1 ->
         {"identity", "gzip"} \intersect {Head(request.contentEncoding)}
    [] OTHER -> {}

\* The payloads, at most one, the body decompresses to.
DecompressedBody(request) ==
  {request.body[c] : c \in RequestCompression(request) \intersect DOMAIN request.body}

\* Is a payload of the request an export request for the path's signal?
ValidShape(request, payload) ==
  \A e \in RequestWireEncoding(request) : Decodes(request.signal, e, payload)

\* The status a request is refused with before the inbox is tried, if any.
Refusal(request, maximumBytes) ==
  CASE RequestWireEncoding(request) = {} -> {415}
    [] RequestCompression(request) = {} -> {415}
    [] DecompressedBody(request) = {} -> {400}
    [] \E p \in DecompressedBody(request) : Bytes[p].size > maximumBytes -> {413}
    [] \E p \in DecompressedBody(request) : ~ValidShape(request, p) -> {400}
    [] OTHER -> {}

NewRawOtlpBatch(request) ==
  [signal |-> request.signal,
   encoding |-> CHOOSE e \in WireEncodings : e \in RequestWireEncoding(request),
   payload |-> CHOOSE p \in DecompressedBody(request) : TRUE]
=============================================================================
