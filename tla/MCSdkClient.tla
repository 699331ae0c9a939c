---------------------------- MODULE MCSdkClient ----------------------------
(* An application with two calls on one AbortSignal: the first may be any    *)
(* operation, well or badly asked for, and the second is a decision.         *)
EXTENDS SdkClient

CONSTANTS c1, c2, s1

Node(depth, type, size) ==
  [depth |-> depth, type |-> type, size |-> size, longest |-> 1, sound |-> TRUE]
Scalar(type) == [type |-> type, bytes |-> 1, nodes |-> {Node(0, type, 1)}]
Nested == [type |-> "array", bytes |-> 1,
           nodes |-> {Node(0, "array", 1), Node(1, "array", 1)}]
NotFinite == Scalar("not finite")
Sparse == [Nested EXCEPT !.nodes = {[Node(0, "array", 1) EXCEPT !.sound = FALSE]}]
Long == [Scalar("string") EXCEPT !.nodes = {Node(0, "string", 3)}]
Large == [Scalar("string") EXCEPT !.bytes = 9]
Wide == [Nested EXCEPT !.nodes = {[Node(0, "object", 1) EXCEPT !.longest = 3]}]

Decide(name, input, options) ==
  [op |-> "decide", name |-> name, input |-> input, options |-> options]
Load(value) == [attributes |-> [load |-> value]]
Mixed == [attributes |-> [load |-> Scalar("integer"), ratio |-> Scalar("number"),
                          tags |-> Nested]]
Patient == [signal |-> s1, retry |-> [maxAttempts |-> 2], correlationId |-> "asked"]
Hasty == [signal |-> s1, timeoutMs |-> 1, retry |-> [maxAttempts |-> 2, baseDelayMs |-> 0]]

\* Requests that the SDK refuses, each for a reason of its own.
Bad ==
  {Decide("unbound", <<>>, <<>>), Decide("limits", [extra |-> 1], <<>>),
   Decide("limits", [attributes |-> [_own |-> Scalar("null")]], <<>>),
   Decide("limits", [attributes |-> [n \in MemberNames |-> Scalar("null")]], <<>>),
   Decide("limits", [currentExposure |-> [exposureId |-> 9]], <<>>),
   Decide("limits", <<>>, [extra |-> 1]), Decide("limits", <<>>, [correlationId |-> ""]),
   Decide("limits", <<>>, [timeoutMs |-> 0]), Decide("limits", <<>>, [signal |-> "none"]),
   Decide("limits", <<>>, [retry |-> [maxAttempts |-> 4]]),
   Decide("limits", <<>>, [retry |-> [maxDelayMs |-> 1]]),
   [op |-> "deploy", name |-> "1st", options |-> <<>>,
    contract |-> [json |-> Scalar("null"), valid |-> TRUE]],
   [op |-> "getVersion", name |-> "limits", digest |-> "md5", options |-> <<>>],
   [op |-> "listVersions", name |-> "limits", query |-> [limit |-> 201], options |-> <<>>]}
  \union {Decide("limits", Load(v), <<>>) : v \in {NotFinite, Sparse, Long, Large, Wide}}

Contract == [json |-> Scalar("null"), valid |-> TRUE]
Management ==
  {[op |-> "validate", name |-> "limits", contract |-> Contract, options |-> Hasty],
   [op |-> "deploy", name |-> "limits", contract |-> Contract, options |-> [signal |-> s1]],
   [op |-> "getCurrent", name |-> "limits", options |-> <<>>],
   [op |-> "getVersion", name |-> "limits", digest |-> "sha256:1", options |-> <<>>],
   [op |-> "listVersions", name |-> "limits", query |-> [limit |-> 200], options |-> <<>>]}

MCRequestsOf ==
  [c \in Calls |->
     IF c = c1 THEN Bad \union Management \union {Decide("limits", Mixed, Hasty)}
     ELSE {Decide("limits", Load(Scalar("string")), Patient)}]

Answered(status, content) ==
  [status |-> status, type |-> IF status < 300 THEN "application/json"
                               ELSE "application/problem+json",
   hasBody |-> TRUE, contentLength |-> {}, correlationId |-> {}, retryAfter |-> {},
   location |-> {}, content |-> content]
Json(kind) == [text |-> "json", bytes |-> 1, kind |-> kind]

Decided(digest, result, json, rule) ==
  [text |-> "json", bytes |-> 1, kind |-> "decision", contractDigest |-> digest,
   executableDigest |-> "sha256:2", result |-> result, json |-> json,
   source |-> IF rule = {} THEN "default" ELSE "rule", rule |-> rule]
Version(digest) ==
  [text |-> "json", bytes |-> 1, kind |-> "version", name |-> "limits",
   contractName |-> "limits", contractDigest |-> digest]
Problem(status) == [text |-> "json", bytes |-> 1, kind |-> "problem", status |-> status]

Success == [Answered(200, Decided("sha256:1", "1", Scalar("number"), {"high"}))
              EXCEPT !.correlationId = {"asked"}]
Unavailable == [Answered(503, Problem({503})) EXCEPT !.retryAfter = {0}]

\* The first call may meet every kind of answer.
MCResponsesOf ==
  [c \in Calls |-> {Success, Unavailable} \union IF c = c1 THEN
   {Answered(200, Decided("sha256:1", "{}", Long, {})), Answered(200, Json("validation")),
    [Answered(201, Version("sha256:2")) EXCEPT !.location = {"/v3"}],
    Answered(200, Version("sha256:1")),
    Answered(200, [Json("list") @@ [name |-> "limits"] EXCEPT !.bytes = 9]),
    Answered(200, Json("list") @@ [name |-> "limits"]),
    [Answered(429, Problem({})) EXCEPT !.hasBody = FALSE, !.retryAfter = {0 - 1}],
    Answered(409, Problem({400})),
    [Answered(200, Json("html")) EXCEPT !.type = "text/html"]}
   ELSE {Answered(200, Decided("sha256:2", "1", Scalar("number"), {}))}]

Services(port) ==
  [s \in ServiceNames |-> [absolute |-> TRUE, protocol |-> "https", credentials |-> FALSE,
                           port |-> port, delimiter |-> FALSE, length |-> 1,
                           path |-> <<"flaggo", "">>]]
MCAuthority == [tenant |-> "acme", application |-> "shop", environment |-> "prod"]
Configuration(port, base) ==
  [runtime |-> [authority |-> MCAuthority, services |-> Services(port),
                bindings |-> [limits |-> "sha256:1"]],
   retry |-> <<>>, base |-> base, selected |-> {"@flaggo/sdk", "app", "load"},
   baseUrl |-> Services(port)["contractServiceUrl"]]
Named(tenant) == [n \in {"flaggo.tenant"} |-> tenant]
MCConfigurations ==
  {Configuration(443, <<>>), Configuration(443, Named("other")), Configuration(0, <<>>)}

Ours == AuthorityAttributes(MCAuthority)
Item(resource) == [resource |-> resource, scope |-> "app"]
MCBatches ==
  {[signal |-> "logs", items |-> <<>>], [signal |-> "logs", items |-> <<Item(<<>>)>>],
   [signal |-> "traces", items |-> <<Item(Ours), [Item(Ours) EXCEPT !.scope = "other"]>>],
   [signal |-> "metrics", resource |-> Ours,
    scopes |-> <<[scope |-> "app", metrics |-> <<"load">>],
                 [scope |-> "idle", metrics |-> <<"other">>]>>],
   [signal |-> "metrics", resource |-> Named("acme"), scopes |-> <<>>]}

MCResultHash == [json \in {"{}", "1"} |-> IF json = "1" THEN "sha256:j" ELSE "sha256:e"]
MCCorrelationKey ==
  [n \in MemberNames |-> CASE n = "load" -> "flaggo.correlation.load"
                            [] n = "ratio" -> "flaggo.correlation.ratio"
                            [] n = "tags" -> "flaggo.correlation.tags"
                            [] n = "mode" -> "flaggo.correlation.mode"]
=============================================================================
