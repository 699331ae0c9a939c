----------------------------- MODULE SdkValues -----------------------------
(***************************************************************************)
(* What the TypeScript SDK checks before it sends a request and before it   *)
(* hands over an answer.  None of it keeps state.                           *)
(*                                                                         *)
(* A plain JavaScript object is the function from its own members to their *)
(* values; a member that is undefined is not in it, and an argument that is *)
(* no plain object is one with a member nobody knows.  A JSON value is      *)
(* [type, nodes, bytes]: the values inside it, itself included, as          *)
(* [depth, type, size, longest, sound], and the length of its text.  Texts  *)
(* are strings of which only the syntax the code tests matters; the sets    *)
(* that have it are constants.  An optional value is the set of the at most *)
(* one value it has: a check that refuses returns {}.                       *)
(***************************************************************************)
EXTENDS Integers, Sequences, FiniteSets, SequencesExt

CONSTANTS
  Identifiers,       \* texts that match ^[A-Za-z][A-Za-z0-9._-]{0,127}$
  MemberNames,       \* texts that match ^[A-Za-z][A-Za-z0-9_]{0,127}$
  Sha256Digests,     \* texts that match ^sha256:[0-9a-f]{64}$
  CorrelationTexts,  \* texts of 1 to 256 bytes without a line break
  UriReferences,     \* URI references of 1 to 2048 bytes
  Signals,           \* AbortSignals
  MaximumDocumentBytes, MaximumJsonDepth, MaximumCollectionSize, MaximumStringBytes,
  MaximumAttributes, MaximumUrlLength, MaximumExposureBytes

Given(object, member, default) ==
  IF member \in DOMAIN object THEN object[member] ELSE default

HasOnlyKeys(object, allowed) == DOMAIN object \subseteq allowed

AssertDecisionName(name) == name \in Identifiers

AssertSha256Digest(digest) == digest \in Sha256Digests

AssertCorrelationId(id) == id \in CorrelationTexts

IsUriReference(text) == text \in UriReferences

-----------------------------------------------------------------------------
(* Serialization *)

\* A value that is JSON all the way down: no number that is not finite, no
\* hole, accessor, symbol or foreign prototype, nothing too deep or too large.
\* A number is an "integer" when it is whole and a "number" otherwise.
CloneJson(value, depth) ==
  \A n \in value.nodes :
    /\ n.depth + depth <= MaximumJsonDepth
    /\ n.type \in {"null", "boolean", "integer", "number", "string", "array", "object"}
    /\ n.type = "string" => n.size <= MaximumStringBytes
    /\ n.type \in {"array", "object"} => n.size <= MaximumCollectionSize /\ n.sound
    /\ n.type = "object" => n.longest <= MaximumStringBytes

SerializeJson(value) == CloneJson(value, 0) /\ value.bytes <= MaximumDocumentBytes

-----------------------------------------------------------------------------
(* Service URLs: [absolute, protocol, credentials, port, delimiter, length,  *)
(* path], the path split at its slashes.                                     *)

TrimSlashes(path) ==
  LET solid == {i \in DOMAIN path : path[i] # ""}
  IN SubSeq(path, 1, CHOOSE n \in solid \union {0} : \A i \in solid : i <= n)

NormalizeServiceBaseUrl(url) ==
  {[u EXCEPT !.path = TrimSlashes(u.path)] : u \in {v \in {url} :
     /\ v.length <= MaximumUrlLength /\ ~v.delimiter
     /\ v.absolute /\ v.protocol \in {"http", "https"} /\ ~v.credentials /\ v.port # 0}}

\* Where the exporter of a signal sends to.
SignalEndpoint(url, signalPath) ==
  {[u EXCEPT !.path = TrimSlashes(u.path) \o signalPath] : u \in {v \in {url} :
     v.absolute /\ v.protocol \in {"http", "https"} /\ ~v.credentials /\ ~v.delimiter}}

-----------------------------------------------------------------------------
(* The runtime configuration an application is given *)

AuthorityNames == {"tenant", "application", "environment"}
ServiceNames == {"contractServiceUrl", "decisionServiceUrl", "otlpIngestionUrl"}

FreezeServices(services) ==
  IF \E s \in ServiceNames : NormalizeServiceBaseUrl(services[s]) = {} THEN {}
  ELSE {[s \in ServiceNames |-> CHOOSE u \in NormalizeServiceBaseUrl(services[s]) : TRUE]}

ParseFlaggoRuntimeConfiguration(configuration) ==
  {[authority |-> configuration.authority, services |-> services,
    bindings |-> configuration.bindings] :
     services \in
       {s \in FreezeServices(configuration.services) :
          /\ \A n \in AuthorityNames : configuration.authority[n] \in Identifiers
          /\ HasOnlyKeys(configuration.bindings, Identifiers)
          /\ \A n \in DOMAIN configuration.bindings :
               configuration.bindings[n] \in Sha256Digests}}

-----------------------------------------------------------------------------
(* The options of a client and of a call *)

PolicyMembers == {"maxAttempts", "baseDelayMs", "maxDelayMs"}

DefaultRetryPolicy == [maxAttempts |-> 1, baseDelayMs |-> 50, maxDelayMs |-> 1000]

MaximumRetryDelayMs == 60000
MaximumTimeoutMs == 300000

AssertRetryPolicy(policy, fallback) ==
  {p \in {[k \in PolicyMembers |-> Given(policy, k, fallback[k])]} :
     /\ HasOnlyKeys(policy, PolicyMembers)
     /\ p.maxAttempts \in 1..3
     /\ p.baseDelayMs \in 0..MaximumRetryDelayMs
     /\ p.maxDelayMs \in p.baseDelayMs..MaximumRetryDelayMs}

AssertTimeout(object) == Given(object, "timeoutMs", 1) \in 1..MaximumTimeoutMs

IsAbortSignal(value) == value \in Signals

\* A policy of a call is checked as if the client had none of its own.
ValidateRequestOptions(options) ==
  /\ HasOnlyKeys(options, {"correlationId", "signal", "timeoutMs", "retry"})
  /\ "correlationId" \in DOMAIN options => AssertCorrelationId(options.correlationId)
  /\ AssertTimeout(options)
  /\ "signal" \in DOMAIN options => IsAbortSignal(options.signal)
  /\ "retry" \in DOMAIN options => AssertRetryPolicy(options.retry, DefaultRetryPolicy) # {}

RequestPolicy(options, clientPolicy) ==
  IF "retry" \in DOMAIN options THEN AssertRetryPolicy(options.retry, clientPolicy)
  ELSE {clientPolicy}

-----------------------------------------------------------------------------
(* The input of a decision.  Random numbers are counted in halves: 0 and 1   *)
(* are in [0, 1).                                                            *)

JsonNumber == [type |-> "number", bytes |-> 1,
               nodes |-> {[depth |-> 0, type |-> "number", size |-> 0, longest |-> 0,
                           sound |-> TRUE]}]

Inside(value) == {[n EXCEPT !.depth = @ + 1] : n \in value.nodes}

\* A JSON object of the given members.
JsonObject(members) ==
  [type |-> "object",
   bytes |-> FoldSet(LAMBDA m, sum : sum + members[m].bytes, 0, DOMAIN members),
   nodes |-> UNION {Inside(members[m]) : m \in DOMAIN members}
             \union {[depth |-> 0, type |-> "object", size |-> Cardinality(DOMAIN members),
                      longest |-> 0, sound |-> TRUE]}]

ExposureValid(exposure) ==
  /\ HasOnlyKeys(exposure, {"exposureId"}) /\ "exposureId" \in DOMAIN exposure
  /\ exposure.exposureId \in 1..MaximumExposureBytes

\* The request completed with the random number: the members of RuntimeInput.
CompleteInput(request, random) ==
  LET attributes == Given(request, "attributes", <<>>)
  IN {[attributes |-> attributes, random |-> random,
       exposure |-> Given(request, "currentExposure", <<>>)] :
        r \in {q \in {request} :
          /\ HasOnlyKeys(q, {"attributes", "currentExposure"})
          /\ Cardinality(DOMAIN attributes) <= MaximumAttributes
          /\ HasOnlyKeys(attributes, MemberNames)
          /\ random \in {0, 1}
          /\ "currentExposure" \in DOMAIN q => ExposureValid(q.currentExposure)}}

\* The input fits a document and the schema of RuntimeInput.
InputSerializes(input) ==
  LET members == [a \in DOMAIN input.attributes \union {"_random"} |->
                    IF a = "_random" THEN JsonNumber ELSE input.attributes[a]]
  IN SerializeJson(JsonObject([attributes |-> JsonObject(members)]))

-----------------------------------------------------------------------------
(* Answers *)

\* The headers of a response the SDK passes on.
MetadataValid(response) ==
  /\ \A id \in response.correlationId : AssertCorrelationId(id)
  /\ \A seconds \in response.retryAfter : seconds >= 0
  /\ \A location \in response.location : IsUriReference(location)

Ok(response) == response.status \in 200..299

ExpectedType(response) ==
  IF Ok(response) THEN "application/json" ELSE "application/problem+json"

ContentLengthValid(response) == response.contentLength \subseteq 0..MaximumDocumentBytes

\* The bytes of a body are one JSON text.
BodyParses(response) == response.content.text = "json"

ProblemValid(response) ==
  LET problem == response.content
  IN problem.kind = "problem" /\ problem.status \subseteq {response.status}

\* Slip: the answer need not be about the version that was asked for.
DecisionOfAny(content, digest) ==
  content.kind = "decision" /\ content.contractDigest \in Sha256Digests

\* What the schema of RuntimeDecision says of an answer, and whose it must be.
DecisionOrThrow(content, digest) ==
  /\ content.kind = "decision"
  /\ content.contractDigest \in Sha256Digests /\ content.executableDigest \in Sha256Digests
  /\ content.source \in {"rule", "default"}
  /\ IF content.source = "rule"
     THEN content.rule # {} /\ content.rule \subseteq Identifiers ELSE content.rule = {}
  /\ content.contractDigest = digest

ValidationResultOrThrow(content) == content.kind = "validation"

\* The digest is given only when an exact version was asked for.
VersionOrThrow(content, name, digest) ==
  /\ content.kind = "version"
  /\ content.name = name /\ content.contractName = name
  /\ digest \subseteq {content.contractDigest}

VersionListOrThrow(content, name) == content.kind = "list" /\ content.name = name

ValidateListQuery(query) ==
  /\ HasOnlyKeys(query, {"limit", "cursor"})
  /\ Given(query, "limit", 1) \in 1..200
  /\ Given(query, "cursor", "more") # ""
=============================================================================
