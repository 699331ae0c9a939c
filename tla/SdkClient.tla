----------------------------- MODULE SdkClient -----------------------------
(***************************************************************************)
(* One application that uses the TypeScript SDK: the calls of its decision  *)
(* and contract clients, the decision events they log, and the exporters    *)
(* that send its telemetry to Flaggo.                                       *)
(*                                                                         *)
(* JavaScript runs one thing at a time, from one await to the next.  A call *)
(* that waits is "pending"; when its promise is settled, or its controller   *)
(* is aborted first, the call is ready to go on as a microtask, and timers   *)
(* fire only when no microtask is left.  Answers, failures and the callers'  *)
(* aborts may come at any moment: fetch may be the application's own.        *)
(***************************************************************************)
EXTENDS SdkValues, Selections, TLC

CONSTANTS
  Calls,            \* the calls the application makes, each at most once
  RequestsOf,       \* what each of them may ask for
  Randoms,          \* what the application's random source may return
  ResponsesOf,      \* what a service, or anything before it, may answer it
  Configurations,   \* [runtime, retry, timeoutMs, base, selected, baseUrl]
  Batches,          \* application telemetry, [signal, resource, items]
  UuidV4s,          \* enough fresh decision ids
  ResultHash,       \* texts of results, and their digests
  CorrelationKey,   \* the flaggo.correlation.<name> key of a member name
  CorrelationKeys,  \* the keys the materializer takes for such a one
  MultilineTexts    \* texts with a line break

AtMostOne(set) == \A x, y \in set : x = y

ASSUME SdkAssumption ==
  /\ \A text \in DOMAIN ResultHash : ResultHash[text] \in Sha256Digests
  /\ IsFiniteSet(Calls) /\ IsFiniteSet(UuidV4s) /\ Cardinality(UuidV4s) >= Cardinality(Calls)
  /\ MemberNames \subseteq Identifiers /\ DOMAIN CorrelationKey = MemberNames
  /\ MaximumDocumentBytes \in Nat
  /\ "" \notin Identifiers /\ CorrelationTexts \intersect ({""} \union MultilineTexts) = {}

\* An object has finitely many members, and a batch, which is a list, has no
\* record under the SDK's name that is not the SDK's own.
ASSUME RequestsAssumption ==
  /\ \A c \in Calls : \A request \in RequestsOf[c] :
       request.op = "decide" => IsFiniteSet(DOMAIN Given(request.input, "attributes", <<>>))
  /\ \A configuration \in Configurations : IsFiniteSet(DOMAIN configuration.base)
  /\ \A batch \in Batches :
       IF batch.signal = "metrics" THEN batch.scopes \in Seq(ToSet(batch.scopes))
       ELSE /\ batch.items \in Seq(ToSet(batch.items))
            /\ \A i \in DOMAIN batch.items : batch.items[i].scope # "@flaggo/sdk"

\* A body has a length, what is optional in an answer is there at most once, and
\* the result of a decision is a text with a digest.
ASSUME ResponsesAssumption ==
  \A c \in Calls : \A response \in ResponsesOf[c] :
    /\ response.content.bytes \in Nat
    /\ AtMostOne(response.correlationId)
    /\ response.content.kind = "decision" =>
         AtMostOne(response.content.rule) /\ response.content.result \in DOMAIN ResultHash

VARIABLES
  client,    \* what the application has built its clients and exporters from
  calls,     \* where each call is
  sent,      \* the requests each call that is in progress has sent
  signals,   \* whether each AbortSignal is aborted, and the calls that listen
  emitted,   \* the records of decision events, in order, with their calls
  exported   \* what the exporters sent on in the last step

sdkVars == <<client, calls, sent, signals, emitted, exported>>

Refused == "refused"

-----------------------------------------------------------------------------
(* OpenTelemetry records *)

AuthorityAttributes(authority) ==
  [n \in {"flaggo.tenant", "flaggo.application", "flaggo.environment"} |->
     CASE n = "flaggo.tenant" -> authority.tenant
       [] n = "flaggo.application" -> authority.application
       [] n = "flaggo.environment" -> authority.environment]

\* The resource states the authority, or says nothing where it may.
AssertResourceAuthority(resource, authority, allowMissing) ==
  \A n \in DOMAIN AuthorityAttributes(authority) :
    IF n \in DOMAIN resource THEN resource[n] = AuthorityAttributes(authority)[n]
    ELSE allowMissing

\* The base resource of the application with the authority, unless they differ.
CreateFlaggoResource(base, authority) ==
  {[n \in DOMAIN AuthorityAttributes(authority) \union DOMAIN r |->
      Given(AuthorityAttributes(authority), n, Given(r, n, ""))] :
     r \in {x \in {base} : AssertResourceAuthority(x, authority, TRUE)}}

Text(key, value) == [key |-> key, indexed |-> FALSE, type |-> "string", value |-> value]

EvaluationAttributes(decision) ==
  <<Text("flaggo.evaluation.source", decision.source)>>
    \o SetToSeq({Text("flaggo.evaluation.rule", r) : r \in decision.rule})

\* OpenTelemetry's own exporters send a whole number as an integer.
OtlpType(value) ==
  CASE value.type = "string" -> "string" [] value.type = "boolean" -> "bool"
    [] value.type = "integer" -> "int" [] value.type = "number" -> "finite double"

ScalarTypes == {"string", "boolean", "integer", "number"}

\* The attributes of a request that are scalars.
ScalarCorrelationAttributes(attributes) ==
  {n \in DOMAIN attributes : attributes[n].type \in ScalarTypes}

\* A member of a request as an attribute of the event; its name stands for what
\* the caller has put under it.
CorrelationAttribute(attributes, n) ==
  [key |-> CorrelationKey[n], indexed |-> FALSE, type |-> OtlpType(attributes[n]), value |-> n]

\* Slip: the event is not told what the decision was asked with.
NoCorrelation(attributes) == <<>>

CorrelationAttributes(attributes) ==
  SetToSeq({CorrelationAttribute(attributes, n) : n \in ScalarCorrelationAttributes(attributes)})

\* A version 4 UUID nobody was given before.
CreateDecisionId ==
  CHOOSE id \in UuidV4s : \A i \in DOMAIN emitted : Text("flaggo.decision.id", id) \notin
                                                      ToSet(emitted[i].record.attributes)

\* The record of the decision a call received.
DecisionReceived(c) ==
  LET decision == calls[c].response.content
  IN [resource |-> client.resource, scope |-> "@flaggo/sdk", event |-> "flaggo.decision.received",
      attributes |->
        <<Text("flaggo.signal", "decision.received"),
          Text("flaggo.decision.id", CreateDecisionId),
          Text("flaggo.contract.name", calls[c].request.name),
          Text("flaggo.contract.digest", decision.contractDigest),
          Text("flaggo.executable.digest", decision.executableDigest),
          Text("flaggo.result.json", decision.result),
          Text("flaggo.result.hash", ResultHash[decision.result])>>
        \o EvaluationAttributes(decision)
        \o SetToSeq({Text("flaggo.request.correlation_id", id) :
                       id \in calls[c].response.correlationId})
        \o CorrelationAttributes(Given(calls[c].request.input, "attributes", <<>>)),
      time |-> 1, observed |-> 1]

-----------------------------------------------------------------------------
(* The clients and exporters an application builds once, if they let it. *)

TransportConfigured(c, url) ==
  /\ AssertTimeout(c) /\ NormalizeServiceBaseUrl(url) # {}
  /\ AssertRetryPolicy(c.retry, DefaultRetryPolicy) # {}

Build(configuration) ==
  {[config |-> parsed, resource |-> resource, selected |-> configuration.selected,
    timeoutMs |-> Given(configuration, "timeoutMs", 0),
    policy |-> CHOOSE p \in AssertRetryPolicy(configuration.retry, DefaultRetryPolicy) : TRUE] :
     parsed \in {p \in ParseFlaggoRuntimeConfiguration(configuration.runtime) :
                   /\ TransportConfigured(configuration, p.services.decisionServiceUrl)
                   /\ TransportConfigured(configuration, configuration.baseUrl)
                   /\ SignalEndpoint(p.services.otlpIngestionUrl, <<"v1", "logs">>) # {}},
     resource \in CreateFlaggoResource(configuration.base, configuration.runtime.authority)}

SdkInit ==
  /\ client \in UNION {IF Build(c) = {} THEN {[refused |-> TRUE]} ELSE Build(c) :
                         c \in Configurations}
  /\ calls = [c \in Calls |-> [stage |-> "idle"]]
  /\ sent = [c \in Calls |-> <<>>]
  /\ signals = [s \in Signals |-> [aborted |-> FALSE, listeners |-> {}]]
  /\ emitted = <<>>
  /\ exported = <<>>

-----------------------------------------------------------------------------
(* What a call asks for *)

ContractRequestValid(request) ==
  /\ AssertDecisionName(request.name)
  /\ CASE request.op \in {"validate", "deploy"} ->
            SerializeJson(request.contract.json) /\ request.contract.valid
       [] request.op = "getCurrent" -> TRUE
       [] request.op = "getVersion" -> AssertSha256Digest(request.digest)
       [] request.op = "listVersions" -> ValidateListQuery(request.query)

DecideRequestValid(request, random) ==
  \E input \in CompleteInput(request.input, random) : InputSerializes(input)

\* Only a decision draws a random number.
Drawn(request) == IF request.op = "decide" THEN Randoms ELSE {0}

\* Why a call is refused before anything is sent: none, or one reason.
Refusal(request, random) ==
  IF request.op = "decide" /\ request.name \notin DOMAIN client.config.bindings
  THEN {"MissingDecisionBinding"}
  ELSE IF /\ ValidateRequestOptions(request.options)
          /\ RequestPolicy(request.options, client.policy) # {}
          /\ IF request.op = "decide" THEN DecideRequestValid(request, random)
             ELSE ContractRequestValid(request)
  THEN {} ELSE {"InvalidFlaggoInput"}

\* What an attempt sends: the method, path, headers and body follow from it.
Message(call) ==
  [request |-> call.request, random |-> call.random]

SuccessStatuses(request) == IF request.op = "deploy" THEN {200, 201} ELSE {200}

\* The answer is what was asked for.
Parses(request, content) ==
  CASE request.op = "decide" ->
         DecisionOrThrow(content, client.config.bindings[request.name])
    [] request.op = "validate" -> ValidationResultOrThrow(content)
    [] request.op \in {"deploy", "getCurrent"} -> VersionOrThrow(content, request.name, {})
    [] request.op = "getVersion" -> VersionOrThrow(content, request.name, {request.digest})
    [] request.op = "listVersions" -> VersionListOrThrow(content, request.name)

-----------------------------------------------------------------------------
(* One call of the transport, from one await to the next *)

Waiting == {"fetching", "discarding", "sleeping", "reading", "cancelling"}

InProgress(c) == calls[c].stage \in Waiting

Rejected(call, error) ==
  [stage |-> "settled", timer |-> FALSE, aborted |-> call.aborted, outcome |-> error]

\* The answer is the call's; decide() has its event still to log.
Resolve(call) ==
  [call EXCEPT !.stage = IF call.request.op = "decide" THEN "received" ELSE "settled",
               !.timer = FALSE, !.ready = "pending", !.outcome = "value"]

AbortError(call) == IF call.timedOut THEN "FlaggoTimeout" ELSE "FlaggoAbort"

\* Whatever goes wrong once the controller is aborted is reported as that.
Throw(call, error) == Rejected(call, IF call.aborted THEN AbortError(call) ELSE error)

\* Slip: the wait does not see the controller.
WaitUnabortable(call, stage) == [call EXCEPT !.stage = stage, !.ready = "pending"]

Abortable(call, stage) ==
  [call EXCEPT !.stage = stage, !.ready = IF call.aborted THEN "aborted" ELSE "pending"]

Sleep(call, milliseconds) ==
  IF milliseconds = 0 THEN [call EXCEPT !.stage = "sleeping", !.ready = "value"]
  ELSE Abortable(call, "sleeping")

Least(a, b) == IF a < b THEN a ELSE b

\* The answered delay of a response, if it has one, or the exponential one.
RetryDelay(call, retryAfter) ==
  LET policy == call.policy
  IN IF \E seconds \in retryAfter : seconds >= 0
     THEN Least(policy.maxDelayMs, 1000 * CHOOSE seconds \in retryAfter : TRUE)
     ELSE Least(policy.maxDelayMs, policy.baseDelayMs * 2 ^ (call.attempt - 1))

\* Slip: the loop does not look at the controller before it sends again.
AttemptBlindly(call) ==
  [call EXCEPT !.stage = "fetching", !.ready = "pending", !.attempt = @ + 1]

\* The top of the loop.
Attempt(call) ==
  IF call.aborted THEN Throw(call, "FlaggoAbort")
  ELSE [call EXCEPT !.stage = "fetching", !.ready = "pending", !.attempt = @ + 1]

Retryable == {429, 502, 503, 504}

MayRetry(call) == call.attempt < call.policy.maxAttempts

AfterFailedFetch(call) ==
  CASE call.aborted -> Throw(call, "FlaggoAbort")
    [] ~call.aborted /\ call.ready = "flaggoError" -> Throw(call, "FlaggoError")
    [] ~call.aborted /\ call.ready = "error" ->
         IF MayRetry(call) THEN Sleep(call, RetryDelay(call, {}))
         ELSE Throw(call, "FlaggoTransport")

AfterResponse(call) ==
  LET response == call.response
  IN IF response.status \in Retryable /\ MayRetry(call)
     THEN IF response.hasBody THEN Abortable(call, "discarding")
          ELSE Sleep(call, RetryDelay(call, response.retryAfter))
     ELSE IF response.type = ExpectedType(response) /\ ContentLengthValid(response)
     THEN Abortable(call, "reading")
     ELSE Throw(call, "InvalidServerResponse")

AfterDiscard(call) ==
  IF call.ready = "value" THEN Sleep(call, RetryDelay(call, call.response.retryAfter))
  ELSE Throw(call, "FlaggoTransport")

\* What the body, its headers and the status come to.
Conclude(call) ==
  LET response == call.response
  IN CASE ~(BodyParses(response) /\ MetadataValid(response)) -> "InvalidServerResponse"
       [] BodyParses(response) /\ MetadataValid(response) /\ ~Ok(response) ->
            IF ProblemValid(response) THEN "FlaggoHttp" ELSE "InvalidServerResponse"
       [] BodyParses(response) /\ MetadataValid(response) /\ Ok(response) ->
            IF /\ response.status \in SuccessStatuses(call.request)
               /\ Parses(call.request, response.content)
            THEN "value" ELSE "InvalidServerResponse"

AfterRead(call) ==
  LET response == call.response
  IN CASE call.ready # "value" -> Throw(call, "FlaggoTransport")
       [] call.ready = "value" /\ response.content.bytes > MaximumDocumentBytes ->
            IF response.hasBody THEN Abortable(call, "cancelling")
            ELSE Throw(call, "InvalidServerResponse")
       [] call.ready = "value" /\ response.content.bytes <= MaximumDocumentBytes ->
            IF Conclude(call) = "value" THEN Resolve(call)
            ELSE Throw(call, Conclude(call))

AfterCancel(call) ==
  Throw(call, IF call.ready = "value" THEN "InvalidServerResponse" ELSE "FlaggoTransport")

After(call) ==
  CASE call.stage = "fetching" /\ call.ready # "value" -> AfterFailedFetch(call)
    [] call.stage = "fetching" /\ call.ready = "value" -> AfterResponse(call)
    [] call.stage = "discarding" -> AfterDiscard(call)
    [] call.stage = "sleeping" /\ call.ready = "value" -> Attempt(call)
    [] call.stage = "sleeping" /\ call.ready # "value" -> Throw(call, "FlaggoAbort")
    [] call.stage = "reading" -> AfterRead(call)
    [] call.stage = "cancelling" -> AfterCancel(call)

\* Slip: the listener stays on the signal when the call is over.
ReleaseNothing(c) == [s \in Signals |-> signals[s]]

\* The finally block takes the call off the signal it listened to.
Release(c) == [s \in Signals |-> [signals[s] EXCEPT !.listeners = @ \ {c}]]

\* The call goes on to the given state.
Proceed(c, next) ==
  /\ calls' = [calls EXCEPT ![c] = next]
  /\ sent' = [sent EXCEPT ![c] =
                IF next.stage \notin Waiting THEN <<>>
                ELSE IF next.stage = "fetching" THEN Append(@, Message(next)) ELSE @]
  /\ signals' = IF next.stage \in Waiting THEN signals ELSE Release(c)
  /\ UNCHANGED <<client, emitted>> /\ exported' = <<>>

-----------------------------------------------------------------------------
(* Steps of the application *)

Begin(request, random) ==
  [stage |-> "begun", request |-> request, random |-> random,
   policy |-> CHOOSE p \in RequestPolicy(request.options, client.policy) : TRUE,
   timer |-> Given(request.options, "timeoutMs", client.timeoutMs) > 0,
   aborted |-> \E s \in Signals : Given(request.options, "signal", "") = s /\ signals[s].aborted,
   timedOut |-> FALSE, attempt |-> 0, ready |-> "pending", response |-> <<>>,
   outcome |-> "none"]

\* The call is refused, and nothing has been sent.
CallRefused(c) ==
  /\ calls[c].stage = "idle" /\ "config" \in DOMAIN client
  /\ \E request \in RequestsOf[c] : \E random \in Drawn(request) :
       \E reason \in Refusal(request, random) :
         calls' = [calls EXCEPT ![c] = Rejected([aborted |-> FALSE], reason)]
  /\ UNCHANGED <<client, sent, signals, emitted>> /\ exported' = <<>>

\* The call begins and sends its first request, unless its signal is aborted.
CallBegins(c) ==
  /\ calls[c].stage = "idle" /\ "config" \in DOMAIN client
  /\ \E request \in RequestsOf[c] : \E random \in Drawn(request) :
       /\ Refusal(request, random) = {}
       /\ LET next == Attempt(Begin(request, random))
          IN /\ calls' = [calls EXCEPT ![c] = next]
             /\ sent' = [sent EXCEPT ![c] =
                           IF next.stage = "fetching" THEN <<Message(next)>> ELSE <<>>]
             /\ signals' = [s \in Signals |->
                  IF next.stage = "fetching" /\ Given(request.options, "signal", "") = s
                  THEN [signals[s] EXCEPT !.listeners = @ \union {c}] ELSE signals[s]]
  /\ UNCHANGED <<client, emitted>> /\ exported' = <<>>

Pending(c, stage) == calls[c].stage = stage /\ calls[c].ready = "pending"

\* Fetch resolves or rejects.
Answer(c) ==
  /\ Pending(c, "fetching")
  /\ \E response \in ResponsesOf[c] :
       calls' = [calls EXCEPT ![c].ready = "value", ![c].response = response]
  /\ UNCHANGED <<client, sent, signals, emitted>> /\ exported' = <<>>

FetchFails(c) ==
  /\ Pending(c, "fetching")
  /\ \E error \in {"error", "flaggoError"} : calls' = [calls EXCEPT ![c].ready = error]
  /\ UNCHANGED <<client, sent, signals, emitted>> /\ exported' = <<>>

\* A body is read, discarded or cancelled, or that fails.
BodyDone(c) ==
  /\ \E stage \in {"reading", "discarding", "cancelling"} : Pending(c, stage)
  /\ \E result \in {"value", "error"} : calls' = [calls EXCEPT ![c].ready = result]
  /\ UNCHANGED <<client, sent, signals, emitted>> /\ exported' = <<>>

Ready(c) == InProgress(c) /\ calls[c].ready # "pending"

Continue(c) == Ready(c) /\ Proceed(c, After(calls[c]))

NoMicrotask == \A c \in Calls : ~Ready(c) /\ calls[c].stage # "received"

SleepEnds(c) ==
  /\ NoMicrotask /\ Pending(c, "sleeping")
  /\ calls' = [calls EXCEPT ![c].ready = "value"]
  /\ UNCHANGED <<client, sent, signals, emitted>> /\ exported' = <<>>

\* The controller of a call is aborted; what it waits for no longer counts.
Abort(call, byTimer) ==
  [call EXCEPT !.aborted = TRUE, !.timedOut = @ \/ byTimer,
               !.ready = IF @ = "pending" THEN "aborted" ELSE @]

TimerFires(c) ==
  /\ NoMicrotask /\ InProgress(c) /\ calls[c].timer
  /\ calls' = [calls EXCEPT ![c] = [Abort(@, TRUE) EXCEPT !.timer = FALSE]]
  /\ UNCHANGED <<client, sent, signals, emitted>> /\ exported' = <<>>

\* The application aborts a signal: every call that listens hears of it once.
CallerAborts(s) ==
  /\ ~signals[s].aborted
  /\ signals' = [signals EXCEPT ![s] = [aborted |-> TRUE, listeners |-> {}]]
  /\ calls' = [c \in Calls |-> IF c \in signals[s].listeners THEN Abort(calls[c], FALSE)
                               ELSE calls[c]]
  /\ UNCHANGED <<client, sent, emitted>> /\ exported' = <<>>

\* decide() has its answer: it logs the event and resolves, or logging fails.
Receive(c) ==
  /\ calls[c].stage = "received"
  /\ LET failed(error) == [calls EXCEPT ![c] = Rejected(@, error)]
     IN IF SerializeJson(calls[c].response.content.json)
        THEN \/ /\ emitted' = Append(emitted, [call |-> c, record |-> DecisionReceived(c)])
                /\ calls' = [calls EXCEPT ![c].stage = "settled"]
             \/ calls' = failed("LoggerError") /\ UNCHANGED emitted
        ELSE calls' = failed("InvalidFlaggoInput") /\ UNCHANGED emitted
  /\ UNCHANGED <<client, sent, signals>> /\ exported' = <<>>

-----------------------------------------------------------------------------
(* Exports: a processor or reader hands a batch to an exporter of Flaggo.    *)

Selected(records) == {i \in DOMAIN records : records[i].scope \in client.selected}

\* Slip: only what is selected has to come from the authority, and it all does.
ExportRecordsUnchecked(records) == Kept(records, Selected(records))

\* The records sent on: none when one of the batch states another authority.
ExportRecords(records) ==
  IF \E i \in DOMAIN records :
       ~AssertResourceAuthority(records[i].resource, client.config.authority, FALSE)
  THEN <<>> ELSE Kept(records, Selected(records))

\* Metrics of one resource, by scope; a scope without a metric is left out.
ExportMetrics(metrics) ==
  IF ~AssertResourceAuthority(metrics.resource, client.config.authority, FALSE) THEN <<>>
  ELSE LET of(scope) == [resource |-> metrics.resource, scope |-> scope.scope,
                         metrics |-> Kept(scope.metrics, {j \in DOMAIN scope.metrics :
                                                            scope.metrics[j] \in client.selected})]
           scopes == [i \in DOMAIN metrics.scopes |-> of(metrics.scopes[i])]
       IN Kept(scopes, {i \in DOMAIN scopes : scopes[i].metrics # <<>>})

EmittedRecords == [i \in DOMAIN emitted |-> emitted[i].record]

ExportLogs ==
  /\ \E batch \in Batches :
       /\ batch.signal = "logs"
       /\ exported' = ExportRecords(EmittedRecords \o batch.items)
  /\ UNCHANGED <<client, calls, sent, signals, emitted>>

ExportTraces ==
  /\ \E batch \in Batches :
       batch.signal = "traces" /\ exported' = ExportRecords(batch.items)
  /\ UNCHANGED <<client, calls, sent, signals, emitted>>

ExportMetricBatch ==
  /\ \E batch \in Batches :
       batch.signal = "metrics" /\ exported' = ExportMetrics(batch)
  /\ UNCHANGED <<client, calls, sent, signals, emitted>>

Export == "config" \in DOMAIN client /\ (ExportLogs \/ ExportTraces \/ ExportMetricBatch)

\* The application makes no further call and reads no further answer.
SdkNext ==
  \/ \E c \in Calls :
       \/ CallRefused(c) \/ CallBegins(c) \/ Continue(c) \/ Receive(c)
       \/ Answer(c) \/ FetchFails(c) \/ BodyDone(c) \/ SleepEnds(c) \/ TimerFires(c)
  \/ \E s \in Signals : CallerAborts(s)
  \/ Export

SdkSpec == SdkInit /\ [][SdkNext]_sdkVars

\* Microtasks run and timers fire; nothing is assumed of services or callers.
SdkFairness ==
  \A c \in Calls :
    WF_sdkVars(Continue(c)) /\ WF_sdkVars(Receive(c))
    /\ WF_sdkVars(SleepEnds(c)) /\ WF_sdkVars(TimerFires(c))

FairSdkSpec == SdkSpec /\ SdkFairness

-----------------------------------------------------------------------------
(* What the SDK promises *)

\* A call holds its timer and its place on the caller's signal exactly while
\* it is in progress: a call that is over leaves nothing on a signal that the
\* application keeps, and one that is not hears of an abort.
HeldWhileInProgress ==
  \A c \in Calls :
    /\ ~InProgress(c) => /\ \A s \in Signals : c \notin signals[s].listeners
                         /\ calls[c].stage # "idle" => ~calls[c].timer
    /\ InProgress(c) /\ ~calls[c].aborted =>
         \A s \in Signals : Given(calls[c].request.options, "signal", "") = s =>
                              c \in signals[s].listeners

\* A call that was aborted says so, unless its answer was there already: no
\* error of a request that was cut off is taken for one of the service.
AbortsReported ==
  \A c \in Calls :
    calls[c].stage = "settled" /\ calls[c].aborted =>
      calls[c].outcome \in {"FlaggoAbort", "FlaggoTimeout", "value", "LoggerError",
                            "InvalidFlaggoInput"}

\* A call that is over has let go of everything and names what ended it.
CallsEndClean == HeldWhileInProgress /\ AbortsReported

\* An attempt is made only while the call is wanted and its policy allows one,
\* and repeats the request of the first attempt, its random number included.
AttemptsRepeatTheRequest ==
  [][\A c \in Calls : sent'[c] # sent[c] /\ sent'[c] # <<>> =>
       /\ ~calls'[c].aborted
       /\ Len(sent'[c]) <= calls'[c].policy.maxAttempts
       /\ \A i \in DOMAIN sent'[c] : sent'[c][i] = sent'[c][1]]_sdkVars

\* What the materializer, which is another program, takes for a decision.
Protocol == INSTANCE EvidenceProjection WITH
  Bytes <- <<>>, SourceTexts <- {}, UnitTexts <- {}, ByteOrder <- <<>>, Listed <- SetToSeq

\* The keys of a request's attributes are nothing else's.
ASSUME CorrelationAssumption ==
  /\ \A n \in MemberNames : CorrelationKey[n] \in CorrelationKeys \ Protocol!KnownAttributes
  /\ \A m, n \in MemberNames : CorrelationKey[m] = CorrelationKey[n] => m = n

\* A decision that is resolved has been logged exactly once, with its version,
\* its result, an id of its own, and each scalar attribute it was asked with, by
\* its name, type and value: none is lost, and nothing that is no scalar, was
\* added by the SDK or was asked of another call is logged among them.  Any
\* other call has logged nothing.
DecisionsObserved ==
  \A c \in Calls :
    LET events == {i \in DOMAIN emitted : emitted[i].call = c}
    IN IF calls[c].stage = "settled" /\ calls[c].outcome = "value"
          /\ calls[c].request.op = "decide"
       THEN /\ Cardinality(events) = 1
            /\ \A i \in events :
                 LET said == ToSet(emitted[i].record.attributes)
                     asked == Given(calls[c].request.input, "attributes", <<>>)
                     scalars == {n \in DOMAIN asked : asked[n].type \in ScalarTypes}
                 IN /\ Text("flaggo.contract.digest",
                            client.config.bindings[calls[c].request.name]) \in said
                    /\ Text("flaggo.result.json", calls[c].response.content.result) \in said
                    /\ {a \in said : a.key \notin Protocol!KnownAttributes} =
                         {CorrelationAttribute(asked, n) : n \in scalars}
                    /\ \A j \in DOMAIN emitted : j # i =>
                         \A id \in UuidV4s : Text("flaggo.decision.id", id) \in said =>
                           Text("flaggo.decision.id", id)
                             \notin ToSet(emitted[j].record.attributes)
       ELSE events = {}

\* The materializer takes every decision event an exporter sends on as evidence
\* of a decision, and everything that is sent on as the deployment's own: its
\* checks refuse what the SDK would get wrong.
ExportsAreEvidence ==
  \A i \in DOMAIN exported :
    /\ \A n \in DOMAIN AuthorityAttributes(client.config.authority) :
         Given(exported[i].resource, n, "") = AuthorityAttributes(client.config.authority)[n]
    /\ "event" \in DOMAIN exported[i] /\ exported[i].scope = Protocol!SdkScope =>
         LET attributes == SetToSeq({Text(n, exported[i].resource[n]) :
                                       n \in DOMAIN exported[i].resource})
         IN Protocol!Disposition(
              Protocol!LogCandidate([exported[i] EXCEPT !.resource = attributes]), <<>>)
            = "decision"

\* A call with a timeout comes to an end whatever the service does, and so does
\* one whose caller aborts it.
CallsSettle ==
  \A c \in Calls :
    InProgress(c) /\ (calls[c].timer \/ calls[c].aborted) ~> calls[c].stage = "settled"
=============================================================================
