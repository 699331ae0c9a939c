--------------------------- MODULE SdkClientProofs ---------------------------
(***************************************************************************)
(* Proofs about one application that uses the SDK, for every number of      *)
(* calls and signals and whatever is asked, answered and aborted.           *)
(*                                                                         *)
(* Almost every step changes one call.  The lemma Continuations says what   *)
(* the transport may make of a call that goes on, and OneCall what a call   *)
(* that changes must keep for the invariant to hold of all of them.         *)
(***************************************************************************)
EXTENDS SdkClient, LoopProofs

Policies == {p \in [PolicyMembers -> Nat] : p.maxAttempts \in 1..3}

Readiness == {"pending", "value", "error", "flaggoError", "aborted"}

Errors ==
  {"MissingDecisionBinding", "InvalidFlaggoInput", "FlaggoAbort", "FlaggoTimeout",
   "FlaggoError", "FlaggoTransport", "FlaggoHttp", "InvalidServerResponse", "LoggerError"}

ActiveCalls(c) ==
  [stage : Waiting \union {"received", "settled"}, request : RequestsOf[c],
   random : Randoms \union {0}, policy : Policies, timer : BOOLEAN, aborted : BOOLEAN,
   timedOut : BOOLEAN, attempt : Nat, ready : Readiness,
   response : ResponsesOf[c] \union {<<>>}, outcome : {"none", "value"}]

RejectedCalls ==
  [stage : {"settled"}, timer : {FALSE}, aborted : BOOLEAN, outcome : Errors]

Messages ==
  [request : UNION {RequestsOf[c] : c \in Calls}, random : Randoms \union {0}]

SdkTypes ==
  /\ "config" \in DOMAIN client => client.policy \in Policies
  /\ calls = [c \in Calls |-> calls[c]]
  /\ \A c \in Calls : calls[c] \in {[stage |-> "idle"]} \union RejectedCalls \union ActiveCalls(c)
  /\ sent \in [Calls -> Seq(Messages)]
  /\ signals \in [Signals -> [aborted : BOOLEAN, listeners : SUBSET Calls]]

\* Whether the SDK looked at an answer on the way to where the call is.
Answered(call) ==
  \/ call.stage \in {"discarding", "reading", "cancelling", "received", "settled"}
  \/ call.stage = "fetching" /\ call.ready = "value"

\* What holds of a call that waits: it is within its policy, with an attempt
\* left where it would make one, and knows of the abort that cut it off.
Waits(c, call) ==
  /\ call \in ActiveCalls(c) /\ call.stage \in Waiting
  /\ call.ready = "aborted" => call.aborted
  /\ call.attempt \in 1..call.policy.maxAttempts
  /\ call.stage \in {"discarding", "sleeping"} => MayRetry(call)
  /\ Answered(call) => call.response \in ResponsesOf[c]
  /\ call.outcome = "none"

WaitingCalls == \A c \in Calls : InProgress(c) => Waits(c, calls[c])

\* A call that is not rejected was answered.
ResolvedCalls ==
  \A c \in Calls : calls[c] \in ActiveCalls(c) /\ ~InProgress(c) => calls[c].outcome = "value"

\* What a call has sent is its request, once for each attempt.
SentSoFar ==
  \A c \in Calls :
    /\ ~InProgress(c) => sent[c] = <<>>
    /\ InProgress(c) => /\ Len(sent[c]) = calls[c].attempt
                        /\ \A i \in DOMAIN sent[c] : sent[c][i] = Message(calls[c])

CallsInv == SdkTypes /\ WaitingCalls /\ ResolvedCalls /\ SentSoFar /\ CallsEndClean

-----------------------------------------------------------------------------
(* One step of the transport *)

\* A call that was aborted reports that.
LEMMA Throws ==
  ASSUME NEW call, call.aborted \in BOOLEAN, call.timedOut \in BOOLEAN, NEW error \in Errors
  PROVE  /\ Throw(call, error) \in RejectedCalls
         /\ Throw(call, error).aborted = call.aborted
         /\ call.aborted => Throw(call, error).outcome \in {"FlaggoAbort", "FlaggoTimeout"}
BY DEF Throw, Rejected, RejectedCalls, AbortError, Errors

Rejects(call, next) ==
  /\ next \in RejectedCalls /\ next.aborted = call.aborted
  /\ call.aborted => next.outcome \in {"FlaggoAbort", "FlaggoTimeout"}

\* The call waits for something else.
Turns(c, call, next) ==
  \E stage \in {"discarding", "sleeping", "reading", "cancelling"} :
    \E ready \in {"pending", "value", "aborted"} :
      /\ next = [call EXCEPT !.stage = stage, !.ready = ready]
      /\ ready = "aborted" => call.aborted
      /\ stage \in {"discarding", "sleeping"} => MayRetry(call)
      /\ stage # "sleeping" => call.response \in ResponsesOf[c]

Retries(call, next) ==
  /\ ~call.aborted /\ MayRetry(call)
  /\ next = [call EXCEPT !.stage = "fetching", !.ready = "pending", !.attempt = @ + 1]

Resolves(call, next) ==
  call.stage = "reading" /\ Conclude(call) = "value" /\ next = Resolve(call)

LEMMA Sleeps ==
  ASSUME NEW c \in Calls, NEW call, Waits(c, call), MayRetry(call), NEW milliseconds
  PROVE  Turns(c, call, Sleep(call, milliseconds))
<1>1. CASE milliseconds = 0
  BY <1>1 DEF Sleep, Turns
<1>2. CASE milliseconds # 0
  BY <1>2 DEF Sleep, Abortable, Turns
<1> QED
  BY <1>1, <1>2

\* A call that goes on is over, resolved, or waits for the next thing.
LEMMA Continuations ==
  ASSUME NEW c \in Calls, NEW call, Waits(c, call), call.ready # "pending"
  PROVE  \/ Rejects(call, After(call)) \/ Turns(c, call, After(call))
         \/ Retries(call, After(call)) \/ Resolves(call, After(call))
<1> DEFINE next == After(call)
<1>0. /\ call.aborted \in BOOLEAN /\ call.timedOut \in BOOLEAN
      /\ call.ready \in Readiness \ {"pending"}
      /\ call.stage \in Waiting
  BY DEF Waits, ActiveCalls
<1>1. \A error \in Errors : Rejects(call, Throw(call, error))
  BY <1>0, Throws DEF Rejects
<1>2. CASE call.stage = "fetching" /\ call.ready # "value"
  <2>1. next = AfterFailedFetch(call)
    BY <1>2 DEF After
  <2>2. CASE call.aborted
    BY <2>1, <2>2, <1>1 DEF AfterFailedFetch, Errors
  <2>3. CASE ~call.aborted /\ call.ready = "flaggoError"
    BY <2>1, <2>3, <1>1 DEF AfterFailedFetch, Errors
  <2>4. CASE ~call.aborted /\ call.ready = "error"
    <3>1. next = IF MayRetry(call) THEN Sleep(call, RetryDelay(call, {}))
                 ELSE Throw(call, "FlaggoTransport")
      BY <2>1, <2>4 DEF AfterFailedFetch
    <3> QED
      BY <3>1, <1>1, Sleeps DEF Errors
  <2> QED
    BY <2>2, <2>3, <2>4, <1>0, <1>2 DEF Readiness, Waits
<1>3. CASE call.stage = "fetching" /\ call.ready = "value"
  <2>1. next = AfterResponse(call)
    BY <1>3 DEF After
  <2>2. call.response \in ResponsesOf[c]
    BY <1>3 DEF Waits, Answered
  <2>3. CASE call.response.status \in Retryable /\ MayRetry(call)
    <3>1. next = IF call.response.hasBody THEN Abortable(call, "discarding")
                 ELSE Sleep(call, RetryDelay(call, call.response.retryAfter))
      BY <2>1, <2>3 DEF AfterResponse
    <3>2. Turns(c, call, Abortable(call, "discarding"))
      BY <2>2, <2>3 DEF Turns, Abortable
    <3> QED
      BY <3>1, <3>2, <2>3, Sleeps
  <2>4. CASE ~(call.response.status \in Retryable /\ MayRetry(call))
    <3>1. Turns(c, call, Abortable(call, "reading"))
      BY <2>2 DEF Turns, Abortable
    <3>2. next \in {Abortable(call, "reading"), Throw(call, "InvalidServerResponse")}
      BY <2>1, <2>4 DEF AfterResponse
    <3> QED
      BY <3>1, <3>2, <1>1 DEF Errors
  <2> QED
    BY <2>3, <2>4
<1>4. CASE call.stage = "discarding"
  <2>1. next = AfterDiscard(call) /\ MayRetry(call)
    BY <1>4 DEF After, Waits
  <2> QED
    BY <2>1, <1>1, Sleeps DEF AfterDiscard, Errors
<1>5. CASE call.stage = "sleeping"
  <2>1. next = IF call.ready = "value" THEN Attempt(call) ELSE Throw(call, "FlaggoAbort")
    BY <1>5 DEF After
  <2>2. MayRetry(call)
    BY <1>5 DEF Waits
  <2>3. Attempt(call) = Throw(call, "FlaggoAbort") \/ Retries(call, Attempt(call))
    BY <2>2 DEF Attempt, Retries
  <2> QED
    BY <2>1, <2>3, <1>1 DEF Errors
<1>6. CASE call.stage = "reading"
  <2>1. next = AfterRead(call) /\ call.response \in ResponsesOf[c]
    BY <1>6 DEF After, Waits, Answered
  <2>6. call.response.content.bytes \in Nat /\ MaximumDocumentBytes \in Nat
    BY <2>1, ResponsesAssumption, SdkAssumption
  <2>2. Turns(c, call, Abortable(call, "cancelling"))
    BY <2>1 DEF Turns, Abortable
  <2>3. CASE call.ready # "value"
    BY <2>1, <2>3, <1>1 DEF AfterRead, Errors
  <2>4. CASE call.ready = "value" /\ call.response.content.bytes > MaximumDocumentBytes
    <3>1. next \in {Abortable(call, "cancelling"), Throw(call, "InvalidServerResponse")}
      BY <2>1, <2>4, <2>6 DEF AfterRead
    <3> QED
      BY <3>1, <2>2, <1>1 DEF Errors
  <2>5. CASE call.ready = "value" /\ call.response.content.bytes <= MaximumDocumentBytes
    <3>1. next = IF Conclude(call) = "value" THEN Resolve(call) ELSE Throw(call, Conclude(call))
      BY <2>1, <2>5, <2>6 DEF AfterRead
    <3>2. Conclude(call) \in {"value", "InvalidServerResponse", "FlaggoHttp"}
      BY DEF Conclude
    <3> QED
      BY <3>1, <3>2, <1>1, <1>6 DEF Errors, Resolves
  <2> QED
    BY <2>3, <2>4, <2>5, <2>6
<1>7. CASE call.stage = "cancelling"
  <2>1. next \in {Throw(call, "InvalidServerResponse"), Throw(call, "FlaggoTransport")}
    BY <1>7 DEF After, AfterCancel
  <2> QED
    BY <2>1, <1>1 DEF Errors
<1> QED
  BY <1>0, <1>2, <1>3, <1>4, <1>5, <1>6, <1>7 DEF Waiting

-----------------------------------------------------------------------------
(* The initial states *)

LEMMA PoliciesTyped ==
  ASSUME NEW policy, NEW fallback
  PROVE  AssertRetryPolicy(policy, fallback) \subseteq Policies
<1> DEFINE whole == [k \in PolicyMembers |-> Given(policy, k, fallback[k])]
<1> SUFFICES ASSUME NEW p \in AssertRetryPolicy(policy, fallback) PROVE p \in Policies
  OBVIOUS
<1>1. AssertRetryPolicy(policy, fallback) =
        {x \in {whole} : /\ HasOnlyKeys(policy, PolicyMembers)
                         /\ x.maxAttempts \in 1..3
                         /\ x.baseDelayMs \in 0..MaximumRetryDelayMs
                         /\ x.maxDelayMs \in x.baseDelayMs..MaximumRetryDelayMs}
  BY DEF AssertRetryPolicy
<1>2. p = whole
  BY <1>1
<1>3. p.maxAttempts \in 1..3 /\ p.baseDelayMs \in 0..MaximumRetryDelayMs /\ p.maxDelayMs \in p.baseDelayMs..MaximumRetryDelayMs
  BY <1>1
<1>4. p.maxAttempts \in Nat /\ p.baseDelayMs \in Nat /\ p.maxDelayMs \in Nat
  BY <1>3
<1>5. \A k \in PolicyMembers : p[k] \in Nat
  BY <1>4 DEF PolicyMembers
<1> HIDE DEF whole
<1>6. p \in [PolicyMembers -> Nat]
  BY <1>2, <1>5 DEF whole
<1> QED
  BY <1>3, <1>6 DEF Policies

LEMMA ClientBuilt ==
  ASSUME SdkInit, "config" \in DOMAIN client
  PROVE  \E configuration \in Configurations : client \in Build(configuration)
BY DEF SdkInit

LEMMA CallsStart == SdkInit => CallsInv
<1> SUFFICES ASSUME SdkInit PROVE CallsInv
  OBVIOUS
<1>1. "config" \in DOMAIN client => client.policy \in Policies
  <2> SUFFICES ASSUME "config" \in DOMAIN client PROVE client.policy \in Policies
    OBVIOUS
  <2>1. PICK configuration \in Configurations : client \in Build(configuration)
    BY ClientBuilt
  <2>2. /\ AssertRetryPolicy(configuration.retry, DefaultRetryPolicy) # {}
        /\ client.policy = CHOOSE p \in AssertRetryPolicy(configuration.retry, DefaultRetryPolicy) : TRUE
    BY <2>1 DEF Build, TransportConfigured
  <2> QED
    BY <2>2, PoliciesTyped
<1>2. SdkTypes
  BY <1>1 DEF SdkInit, SdkTypes
<1>3. \A c \in Calls : calls[c].stage = "idle" /\ ~InProgress(c)
  BY DEF SdkInit, InProgress, Waiting
<1>4. WaitingCalls /\ ResolvedCalls /\ SentSoFar
  BY <1>3 DEF WaitingCalls, ResolvedCalls, ActiveCalls, Waiting, SentSoFar, SdkInit
<1>5. CallsEndClean
  BY <1>3 DEF CallsEndClean, HeldWhileInProgress, AbortsReported, SdkInit
<1> QED
  BY <1>2, <1>4, <1>5 DEF CallsInv

-----------------------------------------------------------------------------
(* A step that changes one call *)

Excuses == {"FlaggoAbort", "FlaggoTimeout", "value", "LoggerError", "InvalidFlaggoInput"}

\* What is asked of a call that waits, and of one that does not, after a step.
StaysInProgress(c, next) ==
  /\ Waits(c, next)
  /\ Len(sent'[c]) = next.attempt
  /\ \A i \in DOMAIN sent'[c] : sent'[c][i] = Message(next)
  /\ ~next.aborted =>
       \A s \in Signals : Given(next.request.options, "signal", "") = s =>
                            c \in signals'[s].listeners

IsOver(c, next) ==
  /\ next \in RejectedCalls \union {call \in ActiveCalls(c) : call.outcome = "value"}
  /\ sent'[c] = <<>> /\ ~next.timer
  /\ \A s \in Signals : c \notin signals'[s].listeners
  /\ next.stage = "settled" /\ next.aborted => next.outcome \in Excuses

\* Nothing else changes for another call.
OnlyOf(c) ==
  /\ client' = client
  /\ sent' \in [Calls -> Seq(Messages)] /\ \A d \in Calls \ {c} : sent'[d] = sent[d]
  /\ signals' \in [Signals -> [aborted : BOOLEAN, listeners : SUBSET Calls]]
  /\ \A s \in Signals : \A d \in Calls \ {c} :
       d \in signals'[s].listeners <=> d \in signals[s].listeners

LEMMA OneCall ==
  ASSUME CallsInv, NEW c \in Calls, NEW next, calls' = [calls EXCEPT ![c] = next], OnlyOf(c),
         next.stage \in Waiting => StaysInProgress(c, next),
         next.stage \notin Waiting => IsOver(c, next)
  PROVE  CallsInv'
<1>1. /\ calls = [d \in Calls |-> calls[d]]
      /\ \A d \in Calls : calls'[d] = IF d = c THEN next ELSE calls[d]
      /\ calls' = [d \in Calls |-> calls'[d]]
  BY DEF CallsInv, SdkTypes
<1>2. next \in RejectedCalls \union ActiveCalls(c)
  BY DEF StaysInProgress, Waits, IsOver
<1>3. \A d \in Calls : InProgress(d)' <=> IF d = c THEN next.stage \in Waiting ELSE InProgress(d)
  BY <1>1 DEF InProgress
<1>4. SdkTypes'
  BY <1>1, <1>2 DEF CallsInv, SdkTypes, OnlyOf
<1>5. WaitingCalls'
  BY <1>1, <1>3 DEF CallsInv, WaitingCalls, StaysInProgress
<1>9. ResolvedCalls'
  <2>1. \A call \in RejectedCalls : call \notin ActiveCalls(c)
    BY DEF RejectedCalls, ActiveCalls, Errors
  <2> QED
    BY <2>1, <1>1, <1>3 DEF CallsInv, ResolvedCalls, IsOver
<1>6. SentSoFar'
  <2> SUFFICES ASSUME NEW d \in Calls
      PROVE  /\ ~InProgress(d)' => sent'[d] = <<>>
             /\ InProgress(d)' => /\ Len(sent'[d]) = calls'[d].attempt
                                  /\ \A i \in DOMAIN sent'[d] : sent'[d][i] = Message(calls'[d])
    BY DEF SentSoFar, InProgress, Message
  <2>1. CASE d = c
    BY <2>1, <1>1, <1>3 DEF StaysInProgress, IsOver
  <2>2. CASE d # c
    BY <2>2, <1>1, <1>3 DEF CallsInv, SentSoFar, OnlyOf
  <2> QED
    BY <2>1, <2>2
<1>7. HeldWhileInProgress'
  <2>1. ASSUME NEW d \in Calls, ~InProgress(d)'
        PROVE  /\ \A s \in Signals : d \notin signals'[s].listeners
               /\ calls'[d].stage # "idle" => ~calls'[d].timer
    <3>1. CASE d = c
      BY <2>1, <3>1, <1>1, <1>3 DEF IsOver
    <3>2. CASE d # c
      BY <2>1, <3>2, <1>1, <1>3 DEF CallsInv, CallsEndClean, HeldWhileInProgress, OnlyOf
    <3> QED
      BY <3>1, <3>2
  <2>2. ASSUME NEW d \in Calls, InProgress(d)', ~calls'[d].aborted,
               NEW s \in Signals, Given(calls'[d].request.options, "signal", "") = s
        PROVE  d \in signals'[s].listeners
    <3>1. CASE d = c
      <4>1. next.stage \in Waiting /\ ~next.aborted
        BY <2>2, <3>1, <1>1, <1>3
      <4>2. Given(next.request.options, "signal", "") = s
        BY <2>2, <3>1, <1>1
      <4> QED
        BY <2>2, <3>1, <4>1, <4>2 DEF StaysInProgress
    <3>2. CASE d # c
      <4>1. calls'[d] = calls[d] /\ InProgress(d)
        BY <2>2, <3>2, <1>1, <1>3
      <4>2. Given(calls[d].request.options, "signal", "") = s /\ ~calls[d].aborted
        BY <2>2, <4>1
      <4>3. d \in signals[s].listeners
        BY <4>1, <4>2 DEF CallsInv, CallsEndClean, HeldWhileInProgress
      <4> QED
        BY <4>3, <3>2 DEF OnlyOf
    <3> QED
      BY <3>1, <3>2
  <2> QED
    BY <2>1, <2>2 DEF HeldWhileInProgress
<1>8. AbortsReported'
  BY <1>1 DEF CallsInv, CallsEndClean, AbortsReported, IsOver, Excuses, Waiting
<1> QED
  BY <1>4, <1>5, <1>6, <1>7, <1>8, <1>9 DEF CallsInv, CallsEndClean

-----------------------------------------------------------------------------
(* The steps *)

\* What every step needs to know of the call it is about.
LEMMA CallTyped ==
  ASSUME CallsInv, NEW c \in Calls
  PROVE  /\ calls[c].stage = "idle" \/ calls[c] \in RejectedCalls \/ calls[c] \in ActiveCalls(c)
         /\ InProgress(c) => Waits(c, calls[c]) /\ sent[c] \in Seq(Messages)
         /\ calls = [d \in Calls |-> calls[d]]
         /\ \A r : [calls EXCEPT ![c] = r][c] = r
BY DEF CallsInv, SdkTypes, WaitingCalls

\* A call that waits stays so when only what it waits for comes about.
LEMMA ReadyKeeps ==
  ASSUME CallsInv, NEW c \in Calls, InProgress(c), NEW next,
         calls' = [calls EXCEPT ![c] = next],
         UNCHANGED <<client, sent, signals>>,
         next \in ActiveCalls(c), next.stage = calls[c].stage,
         next.request = calls[c].request, next.random = calls[c].random,
         next.policy = calls[c].policy, next.attempt = calls[c].attempt,
         next.outcome = calls[c].outcome,
         calls[c].aborted => next.aborted,
         next.ready = "aborted" => next.aborted,
         Answered(next) => next.response \in ResponsesOf[c]
  PROVE  CallsInv'
<1>1. Waits(c, calls[c]) /\ calls[c].stage \in Waiting
  BY CallTyped DEF InProgress
<1>2. Waits(c, next)
  BY <1>1 DEF Waits, MayRetry
<1>3. OnlyOf(c)
  BY DEF OnlyOf, CallsInv, SdkTypes
<1>4. StaysInProgress(c, next)
  <2>1. Len(sent'[c]) = next.attempt
    BY DEF CallsInv, SentSoFar
  <2>2. \A i \in DOMAIN sent'[c] : sent'[c][i] = Message(next)
    BY DEF CallsInv, SentSoFar, Message
  <2>3. ASSUME ~next.aborted, NEW s \in Signals, Given(next.request.options, "signal", "") = s
        PROVE  c \in signals'[s].listeners
    <3>1. Given(calls[c].request.options, "signal", "") = s /\ ~calls[c].aborted
      BY <2>3
    <3> QED
      BY <3>1 DEF CallsInv, CallsEndClean, HeldWhileInProgress
  <2> QED
    BY <1>2, <2>1, <2>2, <2>3 DEF StaysInProgress
<1> QED
  BY <1>1, <1>3, <1>4, OneCall

LEMMA AnswerKeeps ==
  ASSUME CallsInv, NEW c \in Calls, Answer(c)
  PROVE  CallsInv'
<1>1. PICK response \in ResponsesOf[c] :
        calls' = [calls EXCEPT ![c].ready = "value", ![c].response = response]
  BY DEF Answer
<1> DEFINE next == [calls[c] EXCEPT !.ready = "value", !.response = response]
<1>2. InProgress(c) /\ calls[c] \in ActiveCalls(c)
  BY CallTyped DEF Answer, Pending, InProgress, Waiting, Waits
<1>3. calls' = [calls EXCEPT ![c] = next]
  BY <1>1, CallTyped
<1>4. next \in ActiveCalls(c) /\ next.ready = "value" /\ next.response \in ResponsesOf[c]
  BY <1>2 DEF ActiveCalls, Readiness
<1>5. /\ next.stage = calls[c].stage
      /\ next.request = calls[c].request /\ next.random = calls[c].random
      /\ next.policy = calls[c].policy /\ next.attempt = calls[c].attempt
      /\ next.outcome = calls[c].outcome /\ next.aborted = calls[c].aborted
  BY <1>2 DEF ActiveCalls
<1>6. UNCHANGED <<client, sent, signals>>
  BY DEF Answer
<1> HIDE DEF next
<1> QED
  BY <1>2, <1>3, <1>4, <1>5, <1>6, ReadyKeeps

\* What a call waits for comes about, without an answer.
LEMMA SettledKeeps ==
  ASSUME CallsInv, NEW c \in Calls, InProgress(c), calls[c].ready = "pending",
         NEW ready \in Readiness \ {"aborted"},
         calls[c].stage = "fetching" => ready # "value",
         calls' = [calls EXCEPT ![c].ready = ready],
         UNCHANGED <<client, sent, signals>>
  PROVE  CallsInv'
<1> DEFINE next == [calls[c] EXCEPT !.ready = ready]
<1>2. Waits(c, calls[c]) /\ calls[c] \in ActiveCalls(c)
  BY CallTyped DEF Waits
<1>3. calls' = [calls EXCEPT ![c] = next]
  BY CallTyped
<1>4. next \in ActiveCalls(c) /\ next.ready = ready /\ next.response = calls[c].response
  BY <1>2 DEF ActiveCalls
<1>5. /\ next.stage = calls[c].stage
      /\ next.request = calls[c].request /\ next.random = calls[c].random
      /\ next.policy = calls[c].policy /\ next.attempt = calls[c].attempt
      /\ next.outcome = calls[c].outcome /\ next.aborted = calls[c].aborted
  BY <1>2 DEF ActiveCalls
<1>6. Answered(next) => next.response \in ResponsesOf[c]
  BY <1>2, <1>4, <1>5 DEF Answered, Waits
<1> HIDE DEF next
<1> QED
  BY <1>2, <1>3, <1>4, <1>5, <1>6, ReadyKeeps

LEMMA AwaitedKeeps ==
  ASSUME CallsInv, NEW c \in Calls, FetchFails(c) \/ BodyDone(c) \/ SleepEnds(c)
  PROVE  CallsInv'
<1>1. CASE FetchFails(c)
  <2>1. PICK error \in {"error", "flaggoError"} : calls' = [calls EXCEPT ![c].ready = error]
    BY <1>1 DEF FetchFails
  <2> QED
    BY <1>1, <2>1, SettledKeeps DEF FetchFails, Pending, InProgress, Waiting, Readiness
<1>2. CASE BodyDone(c)
  <2>1. PICK result \in {"value", "error"} : calls' = [calls EXCEPT ![c].ready = result]
    BY <1>2 DEF BodyDone
  <2> QED
    BY <1>2, <2>1, SettledKeeps DEF BodyDone, Pending, InProgress, Waiting, Readiness
<1>3. CASE SleepEnds(c)
  BY <1>3, SettledKeeps DEF SleepEnds, Pending, InProgress, Waiting, Readiness
<1> QED
  BY <1>1, <1>2, <1>3

\* Both ways a call that waits is aborted, by its timer or by its caller.
CutOff(call, byTimer) ==
  [Abort(call, byTimer) EXCEPT !.timer = IF byTimer THEN FALSE ELSE call.timer]

\* An abort changes only that it happened, and what the call waits for.
LEMMA Aborts ==
  ASSUME NEW c \in Calls, NEW call, Waits(c, call), NEW byTimer \in BOOLEAN
  PROVE  LET next == CutOff(call, byTimer) IN
         /\ next \in ActiveCalls(c) /\ next.stage = call.stage
         /\ next.request = call.request /\ next.random = call.random
         /\ next.policy = call.policy /\ next.attempt = call.attempt
         /\ next.outcome = call.outcome /\ next.aborted /\ next.response = call.response
         /\ next.ready = IF call.ready = "pending" THEN "aborted" ELSE call.ready
         /\ Answered(next) => next.response \in ResponsesOf[c]
<1> DEFINE next == CutOff(call, byTimer)
           timer == IF byTimer THEN FALSE ELSE call.timer
           ready == IF call.ready = "pending" THEN "aborted" ELSE call.ready
<1>1. call \in ActiveCalls(c)
  BY DEF Waits
<1>2. next = [call EXCEPT !.aborted = TRUE, !.timedOut = call.timedOut \/ byTimer,
                          !.ready = ready, !.timer = timer]
  BY <1>1 DEF CutOff, Abort, ActiveCalls
<1> HIDE DEF next
<1>3. ready \in Readiness /\ (call.timedOut \/ byTimer) \in BOOLEAN /\ timer \in BOOLEAN
  BY <1>1 DEF ActiveCalls, Readiness
<1>4. /\ next \in ActiveCalls(c) /\ next.stage = call.stage
      /\ next.request = call.request /\ next.random = call.random
      /\ next.policy = call.policy /\ next.attempt = call.attempt
      /\ next.outcome = call.outcome /\ next.aborted /\ next.response = call.response
      /\ next.ready = ready
  BY <1>1, <1>2, <1>3 DEF ActiveCalls
<1> QED
  BY <1>4 DEF Waits, Answered, next

LEMMA TimerKeeps ==
  ASSUME CallsInv, NEW c \in Calls, TimerFires(c)
  PROVE  CallsInv'
<1> DEFINE next == CutOff(calls[c], TRUE)
<1>1. InProgress(c) /\ Waits(c, calls[c])
  BY CallTyped DEF TimerFires
<1>2. calls' = [calls EXCEPT ![c] = next] /\ UNCHANGED <<client, sent, signals>>
  BY CallTyped DEF TimerFires, CutOff
<1>3. /\ next \in ActiveCalls(c) /\ next.stage = calls[c].stage
      /\ next.request = calls[c].request /\ next.random = calls[c].random
      /\ next.policy = calls[c].policy /\ next.attempt = calls[c].attempt
      /\ next.outcome = calls[c].outcome /\ next.aborted
      /\ Answered(next) => next.response \in ResponsesOf[c]
  BY <1>1, Aborts
<1> HIDE DEF next
<1> QED
  BY <1>1, <1>2, <1>3, ReadyKeeps

\* What a call that goes on has sent.
LEMMA SentTyped ==
  ASSUME CallsInv, NEW c \in Calls, NEW call, call \in ActiveCalls(c)
  PROVE  /\ Message(call) \in Messages
         /\ [sent EXCEPT ![c] = <<>>] \in [Calls -> Seq(Messages)]
         /\ \A m \in Messages : [sent EXCEPT ![c] = Append(@, m)] \in [Calls -> Seq(Messages)]
         /\ \A m \in Messages : [sent EXCEPT ![c] = <<m>>] \in [Calls -> Seq(Messages)]
<1>1. Message(call) \in Messages
  BY DEF Message, Messages, ActiveCalls
<1>2. sent \in [Calls -> Seq(Messages)]
  BY DEF CallsInv, SdkTypes
<1> QED
  BY <1>1, <1>2

LEMMA ReleaseTyped ==
  ASSUME CallsInv, NEW c \in Calls
  PROVE  /\ Release(c) \in [Signals -> [aborted : BOOLEAN, listeners : SUBSET Calls]]
         /\ \A s \in Signals : Release(c)[s].listeners = signals[s].listeners \ {c}
<1>1. signals \in [Signals -> [aborted : BOOLEAN, listeners : SUBSET Calls]]
  BY DEF CallsInv, SdkTypes
<1>2. \A s \in Signals : /\ Release(c)[s] = [signals[s] EXCEPT !.listeners = @ \ {c}]
                          /\ Release(c)[s] \in [aborted : BOOLEAN, listeners : SUBSET Calls]
                          /\ Release(c)[s].listeners = signals[s].listeners \ {c}
  BY <1>1 DEF Release
<1> QED
  BY <1>2 DEF Release

\* A call that is over lets go of everything.
LEMMA EndKeeps ==
  ASSUME CallsInv, NEW c \in Calls, NEW next,
         calls' = [calls EXCEPT ![c] = next],
         next \in RejectedCalls \union {call \in ActiveCalls(c) : call.outcome = "value"},
         next.stage \notin Waiting, ~next.timer,
         next.stage = "settled" /\ next.aborted => next.outcome \in Excuses,
         client' = client,
         sent' = [sent EXCEPT ![c] = <<>>], signals' = Release(c)
  PROVE  CallsInv'
<1>1. /\ sent \in [Calls -> Seq(Messages)]
      /\ signals \in [Signals -> [aborted : BOOLEAN, listeners : SUBSET Calls]]
  BY DEF CallsInv, SdkTypes
<1>2. /\ sent' \in [Calls -> Seq(Messages)]
      /\ sent'[c] = <<>>
      /\ \A d \in Calls \ {c} : sent'[d] = sent[d]
  BY <1>1
<1>3. OnlyOf(c) /\ \A s \in Signals : c \notin signals'[s].listeners
  BY <1>2, ReleaseTyped DEF OnlyOf
<1>4. IsOver(c, next)
  BY <1>2, <1>3 DEF IsOver
<1> QED
  BY <1>3, <1>4, OneCall

LEMMA ContinueKeeps ==
  ASSUME CallsInv, NEW c \in Calls, Continue(c)
  PROVE  CallsInv'
<1> DEFINE call == calls[c]
           next == After(call)
<1>1. Waits(c, call) /\ call.ready # "pending" /\ call \in ActiveCalls(c) /\ InProgress(c)
  BY CallTyped DEF Continue, Ready, Waits
<1>2. /\ calls' = [calls EXCEPT ![c] = next]
      /\ sent' = [sent EXCEPT ![c] =
                     IF next.stage \notin Waiting THEN <<>>
                     ELSE IF next.stage = "fetching" THEN Append(@, Message(next)) ELSE @]
      /\ signals' = IF next.stage \in Waiting THEN signals ELSE Release(c)
      /\ client' = client
  BY DEF Continue, Proceed
<1>3. \/ Rejects(call, next) \/ Turns(c, call, next)
      \/ Retries(call, next) \/ Resolves(call, next)
  BY <1>1, Continuations
<1>4. /\ sent \in [Calls -> Seq(Messages)]
      /\ Len(sent[c]) = call.attempt
      /\ \A i \in DOMAIN sent[c] : sent[c][i] = Message(call)
      /\ signals \in [Signals -> [aborted : BOOLEAN, listeners : SUBSET Calls]]
  BY <1>1 DEF CallsInv, SdkTypes, SentSoFar
<1>5. ~call.aborted => \A s \in Signals : Given(call.request.options, "signal", "") = s =>
                                            c \in signals[s].listeners
  BY <1>1 DEF CallsInv, CallsEndClean, HeldWhileInProgress
<1> HIDE DEF next, call
<1>6. CASE Rejects(call, next)
  <2>1. /\ next \in RejectedCalls /\ next.stage = "settled" /\ ~next.timer
        /\ next.aborted => next.outcome \in Excuses
    BY <1>6 DEF Rejects, RejectedCalls, Excuses
  <2>2. next.stage \notin Waiting
    BY <2>1 DEF Waiting
  <2>3. sent' = [sent EXCEPT ![c] = <<>>] /\ signals' = Release(c)
    BY <1>2, <2>2
  <2> QED
    BY <1>2, <2>1, <2>2, <2>3, EndKeeps
<1>7. CASE Resolves(call, next)
  <2>1. /\ next \in ActiveCalls(c) /\ next.stage \in {"received", "settled"} /\ ~next.timer
        /\ next.outcome = "value"
    BY <1>1, <1>7 DEF Resolves, Resolve, ActiveCalls, Readiness
  <2>2. next.stage \notin Waiting
    BY <2>1 DEF Waiting
  <2>3. sent' = [sent EXCEPT ![c] = <<>>] /\ signals' = Release(c)
    BY <1>2, <2>2
  <2> QED
    BY <1>2, <2>1, <2>2, <2>3, EndKeeps DEF Excuses
<1>8. CASE Turns(c, call, next)
  <2>1. PICK stage \in {"discarding", "sleeping", "reading", "cancelling"},
             ready \in {"pending", "value", "aborted"} :
        /\ next = [call EXCEPT !.stage = stage, !.ready = ready]
        /\ ready = "aborted" => call.aborted
        /\ stage \in {"discarding", "sleeping"} => MayRetry(call)
        /\ stage # "sleeping" => call.response \in ResponsesOf[c]
    BY <1>8 DEF Turns
  <2>2. /\ next \in ActiveCalls(c) /\ next.stage = stage /\ next.ready = ready
        /\ next.request = call.request /\ next.random = call.random
        /\ next.policy = call.policy /\ next.attempt = call.attempt
        /\ next.aborted = call.aborted /\ next.response = call.response
        /\ next.outcome = call.outcome
    BY <1>1, <2>1 DEF ActiveCalls, Waiting, Readiness
  <2>3. Waits(c, next) /\ next.stage \in Waiting /\ next.stage # "fetching"
    BY <1>1, <2>1, <2>2 DEF Waits, MayRetry, Answered, Waiting
  <2>4. sent' = sent /\ signals' = signals
    BY <1>2, <1>4, <2>3
  <2>5. StaysInProgress(c, next)
    <3>1. Len(sent'[c]) = next.attempt /\ \A i \in DOMAIN sent'[c] : sent'[c][i] = Message(next)
      BY <1>4, <2>2, <2>4 DEF Message
    <3>2. ASSUME ~next.aborted, NEW s \in Signals, Given(next.request.options, "signal", "") = s
          PROVE  c \in signals'[s].listeners
      BY <3>2, <1>5, <2>2, <2>4
    <3> QED
      BY <2>3, <3>1, <3>2 DEF StaysInProgress
  <2>6. OnlyOf(c)
    BY <1>2, <1>4, <2>4 DEF OnlyOf
  <2> QED
    BY <1>2, <2>3, <2>5, <2>6, OneCall
<1>9. CASE Retries(call, next)
  <2>1. next = [call EXCEPT !.stage = "fetching", !.ready = "pending", !.attempt = call.attempt + 1]
    BY <1>9, <1>1 DEF Retries, ActiveCalls
  <2>0. call.attempt \in Nat /\ call.attempt < call.policy.maxAttempts
        /\ call.policy.maxAttempts \in 1..3
    BY <1>9, <1>1 DEF Retries, MayRetry, ActiveCalls, Policies
  <2>2. /\ next \in ActiveCalls(c) /\ next.stage = "fetching" /\ next.ready = "pending"
        /\ next.request = call.request /\ next.random = call.random
        /\ next.policy = call.policy /\ next.attempt = call.attempt + 1
        /\ next.aborted = call.aborted /\ next.response = call.response
        /\ next.outcome = call.outcome
    <3>1. PICK n \in Nat : n = call.attempt + 1
      BY <2>0
    <3>2. next = [call EXCEPT !.stage = "fetching", !.ready = "pending", !.attempt = n]
      BY <2>1, <3>1
    <3>3. /\ next \in ActiveCalls(c) /\ next.stage = "fetching" /\ next.ready = "pending"
          /\ next.request = call.request /\ next.random = call.random
          /\ next.policy = call.policy /\ next.attempt = n
          /\ next.aborted = call.aborted /\ next.response = call.response
          /\ next.outcome = call.outcome
      BY <1>1, <3>2 DEF ActiveCalls, Waiting, Readiness
    <3> QED
      BY <3>1, <3>3
  <2>3. Waits(c, next) /\ next.stage \in Waiting
    BY <1>1, <2>0, <2>2 DEF Waits, Answered, Waiting
  <2>4. sent' = [sent EXCEPT ![c] = Append(sent[c], Message(next))] /\ signals' = signals
    BY <1>2, <1>4, <2>2, <2>3
  <2>5. /\ sent' \in [Calls -> Seq(Messages)] /\ \A d \in Calls \ {c} : sent'[d] = sent[d]
        /\ sent'[c] = Append(sent[c], Message(call))
        /\ Message(next) = Message(call)
    <3>1. Message(next) = Message(call)
      BY <2>2 DEF Message
    <3> QED
      BY <1>1, <1>4, <2>4, <3>1, SentTyped
  <2>6. StaysInProgress(c, next)
    <3>1. Len(sent'[c]) = next.attempt /\ \A i \in DOMAIN sent'[c] : sent'[c][i] = Message(next)
      BY <1>4, <2>0, <2>2, <2>5
    <3>2. ASSUME ~next.aborted, NEW s \in Signals, Given(next.request.options, "signal", "") = s
          PROVE  c \in signals'[s].listeners
      BY <3>2, <1>5, <2>2, <2>4
    <3> QED
      BY <2>3, <3>1, <3>2 DEF StaysInProgress
  <2>7. OnlyOf(c)
    BY <1>2, <1>4, <2>4, <2>5 DEF OnlyOf
  <2> QED
    BY <1>2, <2>3, <2>6, <2>7, OneCall
<1> QED
  BY <1>3, <1>6, <1>7, <1>8, <1>9

LEMMA RefusedKeeps ==
  ASSUME CallsInv, NEW c \in Calls, CallRefused(c)
  PROVE  CallsInv'
<1>1. PICK request \in RequestsOf[c] :
        \E random \in Drawn(request) : \E reason \in Refusal(request, random) :
          calls' = [calls EXCEPT ![c] = Rejected([aborted |-> FALSE], reason)]
  BY DEF CallRefused
<1>9. PICK random \in Drawn(request) : \E reason \in Refusal(request, random) :
        calls' = [calls EXCEPT ![c] = Rejected([aborted |-> FALSE], reason)]
  BY <1>1
<1>2. PICK reason \in Refusal(request, random) :
        calls' = [calls EXCEPT ![c] = Rejected([aborted |-> FALSE], reason)]
  BY <1>9
<1> DEFINE next == Rejected([aborted |-> FALSE], reason)
<1>3. reason \in {"MissingDecisionBinding", "InvalidFlaggoInput"}
  BY DEF Refusal
<1>4. next \in RejectedCalls /\ next.stage = "settled" /\ ~next.timer /\ ~next.aborted
  BY <1>3 DEF Rejected, RejectedCalls, Errors
<1>5. calls[c].stage = "idle" /\ ~InProgress(c) /\ UNCHANGED <<client, sent, signals>>
  BY DEF CallRefused, InProgress, Waiting
<1>6. OnlyOf(c)
  BY <1>5 DEF OnlyOf, CallsInv, SdkTypes
<1>7. sent'[c] = <<>> /\ \A s \in Signals : c \notin signals'[s].listeners
  BY <1>5 DEF CallsInv, SentSoFar, CallsEndClean, HeldWhileInProgress
<1> HIDE DEF next
<1>8. IsOver(c, next) /\ next.stage \notin Waiting
  BY <1>4, <1>7 DEF IsOver, Waiting
<1> QED
  BY <1>2, <1>6, <1>8, OneCall DEF next

FirstAttempt(request, random) ==
  [Begin(request, random) EXCEPT !.stage = "fetching", !.ready = "pending", !.attempt = 1]

\* A call that begins is accepted by the client it is made on.
LEMMA BegunTyped ==
  ASSUME CallsInv, "config" \in DOMAIN client, NEW c \in Calls,
         NEW request \in RequestsOf[c], NEW random \in Drawn(request),
         Refusal(request, random) = {}
  PROVE  /\ FirstAttempt(request, random) \in ActiveCalls(c)
         /\ FirstAttempt(request, random).stage = "fetching"
         /\ FirstAttempt(request, random).ready = "pending"
         /\ FirstAttempt(request, random).attempt = 1
         /\ FirstAttempt(request, random).request = request
         /\ FirstAttempt(request, random).random = random
         /\ FirstAttempt(request, random).policy.maxAttempts \in 1..3
         /\ FirstAttempt(request, random).outcome = "none"
         /\ FirstAttempt(request, random).aborted = Begin(request, random).aborted
         /\ Begin(request, random).aborted \in BOOLEAN
         /\ Begin(request, random).timedOut \in BOOLEAN
         /\ Attempt(Begin(request, random)) \in
              {Throw(Begin(request, random), "FlaggoAbort"), FirstAttempt(request, random)}
         /\ Begin(request, random).aborted =>
              Attempt(Begin(request, random)) = Throw(Begin(request, random), "FlaggoAbort")
         /\ ~Begin(request, random).aborted =>
              Attempt(Begin(request, random)) = FirstAttempt(request, random)
<1> DEFINE call == Begin(request, random)
<1>1. RequestPolicy(request.options, client.policy) # {}
  BY DEF Refusal
<1>2. RequestPolicy(request.options, client.policy) \subseteq Policies
  BY PoliciesTyped DEF RequestPolicy, CallsInv, SdkTypes
<1>3. call.policy \in Policies
  BY <1>1, <1>2 DEF Begin
<1>4. random \in Randoms \union {0}
  BY DEF Drawn
<1> DEFINE timer == Given(request.options, "timeoutMs", client.timeoutMs) > 0
           aborted == \E s \in Signals : Given(request.options, "signal", "") = s /\ signals[s].aborted
<1>5. timer \in BOOLEAN
  OBVIOUS
<1>6. aborted \in BOOLEAN
  OBVIOUS
<1>7. PICK policy \in Policies : policy = call.policy
  BY <1>3
<1>8. call = [stage |-> "begun", request |-> request, random |-> random, policy |-> policy,
              timer |-> timer, aborted |-> aborted, timedOut |-> FALSE, attempt |-> 0,
              ready |-> "pending", response |-> <<>>, outcome |-> "none"]
  BY <1>7 DEF Begin
<1> HIDE DEF timer, aborted
<1>9. call \in [stage : {"begun"}, request : RequestsOf[c], random : Randoms \union {0},
               policy : Policies, timer : BOOLEAN, aborted : BOOLEAN, timedOut : BOOLEAN,
               attempt : Nat, ready : Readiness, response : {<<>>}, outcome : {"none"}]
  BY <1>4, <1>5, <1>6, <1>8 DEF Readiness
<1>12. call.aborted <=> aborted
  BY <1>8
<1>13. call.attempt = 0 /\ call.request = request /\ call.random = random
  BY <1>8
<1> DEFINE first == [call EXCEPT !.stage = "fetching", !.ready = "pending", !.attempt = 1]
<1> HIDE DEF call
<1>10. /\ first \in ActiveCalls(c) /\ first.stage = "fetching" /\ first.ready = "pending"
       /\ first.attempt = 1 /\ first.request = call.request /\ first.random = call.random
       /\ first.policy = call.policy /\ first.outcome = "none" /\ first.aborted = call.aborted
  BY <1>9 DEF ActiveCalls, Waiting, Readiness
<1>11. /\ call.policy.maxAttempts \in 1..3
       /\ call.aborted \in BOOLEAN /\ call.timedOut \in BOOLEAN
  BY <1>9 DEF Policies
<1>14. Attempt(call) = IF call.aborted THEN Throw(call, "FlaggoAbort") ELSE first
  <2>1. [call EXCEPT !.stage = "fetching", !.ready = "pending", !.attempt = call.attempt + 1] = first
    BY <1>13
  <2> QED
    BY <2>1, <1>9 DEF Attempt
<1> QED
  BY <1>10, <1>11, <1>12, <1>13, <1>14 DEF call, aborted, FirstAttempt

LEMMA BeginsKeeps ==
  ASSUME CallsInv, NEW c \in Calls, CallBegins(c)
  PROVE  CallsInv'
<1>1. PICK request \in RequestsOf[c] :
        \E random \in Drawn(request) :
          /\ Refusal(request, random) = {}
          /\ LET next == Attempt(Begin(request, random))
             IN /\ calls' = [calls EXCEPT ![c] = next]
                /\ sent' = [sent EXCEPT ![c] =
                              IF next.stage = "fetching" THEN <<Message(next)>> ELSE <<>>]
                /\ signals' = [s \in Signals |->
                     IF next.stage = "fetching" /\ Given(request.options, "signal", "") = s
                     THEN [signals[s] EXCEPT !.listeners = @ \union {c}] ELSE signals[s]]
  BY DEF CallBegins
<1>2. PICK random \in Drawn(request) :
          /\ Refusal(request, random) = {}
          /\ LET next == Attempt(Begin(request, random))
             IN /\ calls' = [calls EXCEPT ![c] = next]
                /\ sent' = [sent EXCEPT ![c] =
                              IF next.stage = "fetching" THEN <<Message(next)>> ELSE <<>>]
                /\ signals' = [s \in Signals |->
                     IF next.stage = "fetching" /\ Given(request.options, "signal", "") = s
                     THEN [signals[s] EXCEPT !.listeners = @ \union {c}] ELSE signals[s]]
  BY <1>1
<1> DEFINE call == Begin(request, random)
           first == FirstAttempt(request, random)
           next == Attempt(call)
<1>3. /\ calls' = [calls EXCEPT ![c] = next]
      /\ sent' = [sent EXCEPT ![c] =
                    IF next.stage = "fetching" THEN <<Message(next)>> ELSE <<>>]
      /\ signals' = [s \in Signals |->
           IF next.stage = "fetching" /\ Given(request.options, "signal", "") = s
           THEN [signals[s] EXCEPT !.listeners = @ \union {c}] ELSE signals[s]]
  BY <1>2
<1>4. calls[c].stage = "idle" /\ ~InProgress(c) /\ "config" \in DOMAIN client /\ client' = client
  BY DEF CallBegins, InProgress, Waiting
<1>5. /\ first \in ActiveCalls(c) /\ first.stage = "fetching" /\ first.ready = "pending"
      /\ first.attempt = 1 /\ first.request = request /\ first.random = random
      /\ first.policy.maxAttempts \in 1..3 /\ first.outcome = "none"
      /\ first.aborted = call.aborted
      /\ call.aborted \in BOOLEAN /\ call.timedOut \in BOOLEAN
      /\ call.aborted => next = Throw(call, "FlaggoAbort")
      /\ ~call.aborted => next = first
  <2>1. /\ Refusal(request, random) = {}
        /\ request \in RequestsOf[c] /\ random \in Drawn(request)
    BY <1>1, <1>2
  <2> QED
    BY <2>1, <1>4, BegunTyped
<1>6. /\ sent \in [Calls -> Seq(Messages)]
      /\ signals \in [Signals -> [aborted : BOOLEAN, listeners : SUBSET Calls]]
      /\ \A s \in Signals : c \notin signals[s].listeners
  BY <1>4 DEF CallsInv, SdkTypes, CallsEndClean, HeldWhileInProgress
<1> HIDE DEF call, first, next
<1>7. CASE call.aborted
  <2>1. /\ next \in RejectedCalls /\ next.stage = "settled" /\ ~next.timer
        /\ next.aborted => next.outcome \in Excuses
    <3>1. next = Throw(call, "FlaggoAbort") /\ "FlaggoAbort" \in Errors
      BY <1>5, <1>7 DEF Errors
    <3>3. call.aborted \in BOOLEAN /\ call.timedOut \in BOOLEAN
      BY <1>5
    <3>4. /\ Throw(call, "FlaggoAbort") \in RejectedCalls
          /\ call.aborted =>
               Throw(call, "FlaggoAbort").outcome \in {"FlaggoAbort", "FlaggoTimeout"}
      BY <3>1, <3>3, Throws
    <3>2. next \in RejectedCalls /\ next.outcome \in {"FlaggoAbort", "FlaggoTimeout"}
      BY <1>7, <3>1, <3>4
    <3> QED
      BY <3>2 DEF RejectedCalls, Excuses
  <2>2. sent' = [sent EXCEPT ![c] = <<>>] /\ signals' = signals
    BY <1>3, <1>6, <2>1
  <2>3. /\ sent' \in [Calls -> Seq(Messages)] /\ sent'[c] = <<>>
        /\ \A d \in Calls \ {c} : sent'[d] = sent[d]
    BY <1>6, <2>2
  <2>4. OnlyOf(c)
    BY <1>4, <1>6, <2>2, <2>3 DEF OnlyOf
  <2>5. IsOver(c, next) /\ next.stage \notin Waiting
    BY <1>6, <2>1, <2>2, <2>3 DEF IsOver, Waiting
  <2> QED
    BY <1>3, <2>4, <2>5, OneCall
<1>8. CASE ~call.aborted
  <2>1. next = first
    BY <1>5, <1>8
  <2>2. Waits(c, next) /\ next.stage \in Waiting
    BY <1>5, <2>1 DEF Waits, Waiting, Answered
  <2>3. /\ sent' = [sent EXCEPT ![c] = <<Message(next)>>]
        /\ Message(next) \in Messages
    BY <1>3, <1>5, <2>1, SentTyped
  <2>4. /\ sent' \in [Calls -> Seq(Messages)] /\ sent'[c] = <<Message(next)>>
        /\ \A d \in Calls \ {c} : sent'[d] = sent[d]
    BY <1>6, <2>3
  <2>5. \A s \in Signals :
          signals'[s] = IF Given(request.options, "signal", "") = s
                        THEN [signals[s] EXCEPT !.listeners = @ \union {c}] ELSE signals[s]
    BY <1>3, <1>5, <2>1
  <2>6. \A s \in Signals :
          /\ signals'[s] \in [aborted : BOOLEAN, listeners : SUBSET Calls]
          /\ signals'[s].listeners = IF Given(request.options, "signal", "") = s
                                     THEN signals[s].listeners \union {c} ELSE signals[s].listeners
    <3> TAKE s \in Signals
    <3>1. signals[s] \in [aborted : BOOLEAN, listeners : SUBSET Calls]
      BY <1>6
    <3>2. CASE Given(request.options, "signal", "") = s
      <4>1. signals'[s] = [signals[s] EXCEPT !.listeners = signals[s].listeners \union {c}]
        BY <3>2, <2>5
      <4>2. PICK L \in SUBSET Calls : L = signals[s].listeners \union {c}
        BY <3>1
      <4>3. signals'[s] = [signals[s] EXCEPT !.listeners = L]
        BY <4>1, <4>2
      <4> QED
        BY <3>1, <3>2, <4>2, <4>3
    <3>3. CASE Given(request.options, "signal", "") # s
      BY <3>1, <3>3, <2>5
    <3> QED
      BY <3>2, <3>3
  <2>7. signals' \in [Signals -> [aborted : BOOLEAN, listeners : SUBSET Calls]]
    BY <1>3, <2>6
  <2>8. OnlyOf(c)
    BY <1>4, <2>4, <2>6, <2>7 DEF OnlyOf
  <2>9. StaysInProgress(c, next)
    <3>1. Len(sent'[c]) = next.attempt /\ \A i \in DOMAIN sent'[c] : sent'[c][i] = Message(next)
      BY <1>5, <2>1, <2>4
    <3>2. ASSUME NEW s \in Signals, Given(next.request.options, "signal", "") = s
          PROVE  c \in signals'[s].listeners
      BY <3>2, <1>5, <2>1, <2>6
    <3> QED
      BY <2>2, <3>1, <3>2 DEF StaysInProgress
  <2> QED
    BY <1>3, <2>2, <2>8, <2>9, OneCall
<1> QED
  BY <1>7, <1>8

\* An abort of a signal reaches the calls that listen, which are in progress.
LEMMA CallerAbortsKeeps ==
  ASSUME CallsInv, NEW s \in Signals, CallerAborts(s)
  PROVE  CallsInv'
<1> DEFINE L == signals[s].listeners
<1>1. /\ signals' = [signals EXCEPT ![s] = [aborted |-> TRUE, listeners |-> {}]]
      /\ calls' = [c \in Calls |-> IF c \in L THEN Abort(calls[c], FALSE) ELSE calls[c]]
      /\ UNCHANGED <<client, sent>>
  BY DEF CallerAborts
<1>2. /\ signals' \in [Signals -> [aborted : BOOLEAN, listeners : SUBSET Calls]]
      /\ signals'[s].listeners = {}
      /\ \A t \in Signals \ {s} : signals'[t] = signals[t]
  BY <1>1 DEF CallsInv, SdkTypes
<1>3. ASSUME NEW c \in Calls, c \in L
      PROVE  /\ calls'[c] \in ActiveCalls(c) /\ calls'[c].stage = calls[c].stage
             /\ calls'[c].request = calls[c].request /\ calls'[c].random = calls[c].random
             /\ calls'[c].policy = calls[c].policy /\ calls'[c].attempt = calls[c].attempt
             /\ calls'[c].outcome = calls[c].outcome /\ calls'[c].aborted
             /\ Answered(calls'[c]) => calls'[c].response \in ResponsesOf[c]
             /\ InProgress(c) /\ Waits(c, calls[c])
  <2>1. InProgress(c)
    BY <1>3 DEF CallsInv, CallsEndClean, HeldWhileInProgress
  <2>2. Waits(c, calls[c]) /\ calls[c] \in ActiveCalls(c)
    BY <2>1, CallTyped DEF Waits
  <2> DEFINE next == CutOff(calls[c], FALSE)
  <2>4. calls'[c] = next
    <3>1. calls'[c] = Abort(calls[c], FALSE)
      BY <1>1, <1>3
    <3>2. Abort(calls[c], FALSE) = CutOff(calls[c], FALSE)
      BY <2>2 DEF CutOff, Abort, ActiveCalls
    <3> QED
      BY <3>1, <3>2
  <2>5. /\ next \in ActiveCalls(c) /\ next.stage = calls[c].stage
        /\ next.request = calls[c].request /\ next.random = calls[c].random
        /\ next.policy = calls[c].policy /\ next.attempt = calls[c].attempt
        /\ next.outcome = calls[c].outcome /\ next.aborted
        /\ Answered(next) => next.response \in ResponsesOf[c]
    BY <2>2, Aborts
  <2> HIDE DEF next
  <2> QED
    BY <2>1, <2>2, <2>4, <2>5
<1>4. \A c \in Calls : c \notin L => calls'[c] = calls[c]
  BY <1>1
<1>5. \A c \in Calls : InProgress(c)' <=> InProgress(c)
  BY <1>3, <1>4 DEF InProgress
<1>6. SdkTypes'
  <2>1. \A c \in Calls : calls'[c] \in {[stage |-> "idle"]} \union RejectedCalls \union ActiveCalls(c)
    BY <1>3, <1>4 DEF CallsInv, SdkTypes
  <2>2. calls' = [c \in Calls |-> calls'[c]]
    BY <1>1
  <2> QED
    BY <1>1, <1>2, <2>1, <2>2 DEF CallsInv, SdkTypes
<1>7. WaitingCalls'
  <2> SUFFICES ASSUME NEW c \in Calls, InProgress(c)' PROVE Waits(c, calls'[c])
    BY DEF WaitingCalls
  <2>1. CASE c \in L
    BY <2>1, <1>3 DEF Waits, MayRetry
  <2>2. CASE c \notin L
    BY <2>2, <1>4, <1>5 DEF CallsInv, WaitingCalls
  <2> QED
    BY <2>1, <2>2
<1>8. ResolvedCalls'
  <2> SUFFICES ASSUME NEW c \in Calls, calls'[c] \in ActiveCalls(c), ~InProgress(c)'
      PROVE calls'[c].outcome = "value"
    BY DEF ResolvedCalls
  <2>1. c \notin L
    BY <1>3, <1>5
  <2> QED
    BY <2>1, <1>4, <1>5 DEF CallsInv, ResolvedCalls
<1>9. SentSoFar'
  <2>1. ASSUME NEW c \in Calls, ~InProgress(c)' PROVE sent'[c] = <<>>
    BY <2>1, <1>1, <1>5 DEF CallsInv, SentSoFar
  <2>2. ASSUME NEW c \in Calls, InProgress(c)'
        PROVE  /\ Len(sent'[c]) = calls'[c].attempt
               /\ \A i \in DOMAIN sent'[c] : sent'[c][i] = Message(calls'[c])
    <3>1. calls'[c].attempt = calls[c].attempt /\ Message(calls'[c]) = Message(calls[c])
      BY <1>3, <1>4 DEF Message
    <3> QED
      BY <2>2, <3>1, <1>1, <1>5 DEF CallsInv, SentSoFar
  <2> QED
    BY <2>1, <2>2 DEF SentSoFar
<1>10. HeldWhileInProgress'
  <2>1. ASSUME NEW c \in Calls, ~InProgress(c)'
        PROVE  /\ \A t \in Signals : c \notin signals'[t].listeners
               /\ calls'[c].stage # "idle" => ~calls'[c].timer
    <3>1. c \notin L /\ calls'[c] = calls[c] /\ ~InProgress(c)
      BY <2>1, <1>3, <1>4, <1>5
    <3> QED
      BY <3>1, <1>2 DEF CallsInv, CallsEndClean, HeldWhileInProgress
  <2>2. ASSUME NEW c \in Calls, InProgress(c)', ~calls'[c].aborted,
               NEW t \in Signals, Given(calls'[c].request.options, "signal", "") = t
        PROVE  c \in signals'[t].listeners
    <3>1. c \notin L /\ calls'[c] = calls[c] /\ InProgress(c)
      BY <2>2, <1>3, <1>4, <1>5
    <3>2. Given(calls[c].request.options, "signal", "") = t /\ ~calls[c].aborted
      BY <2>2, <3>1
    <3>3. c \in signals[t].listeners
      BY <3>1, <3>2 DEF CallsInv, CallsEndClean, HeldWhileInProgress
    <3> QED
      BY <3>1, <3>3, <1>2
  <2> QED
    BY <2>1, <2>2 DEF HeldWhileInProgress
<1>11. AbortsReported'
  <2> SUFFICES ASSUME NEW c \in Calls, calls'[c].stage = "settled", calls'[c].aborted
      PROVE calls'[c].outcome \in Excuses
    BY DEF AbortsReported, Excuses
  <2>1. c \notin L
    BY <1>3 DEF InProgress, Waiting
  <2> QED
    BY <2>1, <1>4 DEF CallsInv, CallsEndClean, AbortsReported, Excuses
<1> QED
  BY <1>6, <1>7, <1>8, <1>9, <1>10, <1>11 DEF CallsInv, CallsEndClean

LEMMA ReceiveKeeps ==
  ASSUME CallsInv, NEW c \in Calls, Receive(c)
  PROVE  CallsInv'
<1>1. /\ calls[c].stage = "received" /\ ~InProgress(c)
      /\ UNCHANGED <<client, sent, signals>>
  BY DEF Receive, InProgress, Waiting
<1>2. calls[c] \in ActiveCalls(c) /\ calls[c].outcome = "value" /\ ~calls[c].timer
  <2>1. calls[c] \in ActiveCalls(c)
    BY <1>1, CallTyped DEF RejectedCalls
  <2> QED
    BY <1>1, <2>1 DEF CallsInv, ResolvedCalls, CallsEndClean, HeldWhileInProgress
<1>3. PICK next : /\ calls' = [calls EXCEPT ![c] = next]
                  /\ \/ next = [calls[c] EXCEPT !.stage = "settled"]
                     \/ \E error \in {"LoggerError", "InvalidFlaggoInput"} :
                          next = Rejected(calls[c], error)
  <2>1. \/ calls' = [calls EXCEPT ![c].stage = "settled"]
        \/ \E error \in {"LoggerError", "InvalidFlaggoInput"} :
             calls' = [calls EXCEPT ![c] = Rejected(@, error)]
    BY DEF Receive
  <2> QED
    BY <2>1, CallTyped
<1>4. next \in RejectedCalls \union {call \in ActiveCalls(c) : call.outcome = "value"}
      /\ next.stage = "settled" /\ ~next.timer /\ next.outcome \in Excuses
  <2>1. CASE next = [calls[c] EXCEPT !.stage = "settled"]
    BY <2>1, <1>2 DEF ActiveCalls, Excuses
  <2>2. ASSUME NEW error \in {"LoggerError", "InvalidFlaggoInput"}, next = Rejected(calls[c], error)
        PROVE  next \in RejectedCalls /\ next.stage = "settled" /\ ~next.timer
               /\ next.outcome \in Excuses
    BY <2>2, <1>2 DEF Rejected, RejectedCalls, Errors, ActiveCalls, Excuses
  <2> QED
    BY <2>1, <2>2, <1>3
<1>5. OnlyOf(c)
  BY <1>1 DEF OnlyOf, CallsInv, SdkTypes
<1>6. sent'[c] = <<>> /\ \A s \in Signals : c \notin signals'[s].listeners
  BY <1>1 DEF CallsInv, SentSoFar, CallsEndClean, HeldWhileInProgress
<1>7. IsOver(c, next) /\ next.stage \notin Waiting
  BY <1>4, <1>6 DEF IsOver, Waiting
<1> QED
  BY <1>3, <1>5, <1>7, OneCall

LEMMA CallsUntouched ==
  ASSUME CallsInv, UNCHANGED <<client, calls, sent, signals>>
  PROVE  CallsInv'
BY DEF CallsInv, SdkTypes, WaitingCalls, ResolvedCalls, SentSoFar, CallsEndClean,
       HeldWhileInProgress, AbortsReported, InProgress

LEMMA CallsStep == CallsInv /\ [SdkNext]_sdkVars => CallsInv'
<1> SUFFICES ASSUME CallsInv, [SdkNext]_sdkVars PROVE CallsInv'
  OBVIOUS
<1>1. CASE UNCHANGED sdkVars
  BY <1>1, CallsUntouched DEF sdkVars
<1>2. ASSUME NEW c \in Calls,
             \/ CallRefused(c) \/ CallBegins(c) \/ Continue(c) \/ Receive(c)
             \/ Answer(c) \/ FetchFails(c) \/ BodyDone(c) \/ SleepEnds(c) \/ TimerFires(c)
      PROVE  CallsInv'
  BY <1>2, RefusedKeeps, BeginsKeeps, ContinueKeeps, ReceiveKeeps, AnswerKeeps, AwaitedKeeps,
     TimerKeeps
<1>3. ASSUME NEW s \in Signals, CallerAborts(s) PROVE CallsInv'
  BY <1>3, CallerAbortsKeeps
<1>4. CASE Export
  BY <1>4, CallsUntouched DEF Export, ExportLogs, ExportTraces, ExportMetricBatch
<1> QED
  BY <1>1, <1>2, <1>3, <1>4 DEF SdkNext

-----------------------------------------------------------------------------
(* What follows for the calls *)

LEMMA CallsInvHolds == SdkSpec => []CallsInv
<1> QED
  BY CallsStart, CallsStep, PTL DEF SdkSpec

\* Whatever is answered, aborted or timed out, and in whatever order: a call
\* holds its timer and its place on the signal exactly while it is in progress,
\* and one that was aborted reports that and no error of the service.
THEOREM CallsEndCleanHolds == SdkSpec => []CallsEndClean
<1>1. CallsInv => CallsEndClean
  BY DEF CallsInv
<1> QED
  BY <1>1, CallsInvHolds, PTL

Sends(c) == sent'[c] # sent[c] /\ sent'[c] # <<>>

\* Only a call that is not aborted sends something.
LEMMA SendsUnaborted ==
  ASSUME CallsInv, [SdkNext]_sdkVars, NEW c \in Calls, Sends(c)
  PROVE  ~calls'[c].aborted
<1>0. /\ sent \in [Calls -> Seq(Messages)]
      /\ calls = [d \in Calls |-> calls[d]]
      /\ sent' # sent
  BY DEF CallsInv, SdkTypes, Sends
<1>1. PICK d \in Calls : CallBegins(d) \/ Continue(d)
  BY <1>0 DEF SdkNext, sdkVars, CallRefused, Receive, Answer, FetchFails, BodyDone, SleepEnds,
     TimerFires, CallerAborts, Export, ExportLogs, ExportTraces, ExportMetricBatch
<1>2. CASE CallBegins(d)
  <2>1. PICK request \in RequestsOf[d] :
          \E random \in Drawn(request) :
            /\ Refusal(request, random) = {}
            /\ LET next == Attempt(Begin(request, random))
               IN /\ calls' = [calls EXCEPT ![d] = next]
                  /\ sent' = [sent EXCEPT ![d] =
                                IF next.stage = "fetching" THEN <<Message(next)>> ELSE <<>>]
    BY <1>2 DEF CallBegins
  <2>2. PICK random \in Drawn(request) :
            /\ Refusal(request, random) = {}
            /\ LET next == Attempt(Begin(request, random))
               IN /\ calls' = [calls EXCEPT ![d] = next]
                  /\ sent' = [sent EXCEPT ![d] =
                                IF next.stage = "fetching" THEN <<Message(next)>> ELSE <<>>]
    BY <2>1
  <2> DEFINE call == Begin(request, random)
             first == FirstAttempt(request, random)
             next == Attempt(call)
  <2>3. /\ calls' = [calls EXCEPT ![d] = next]
        /\ sent' = [sent EXCEPT ![d] = IF next.stage = "fetching" THEN <<Message(next)>> ELSE <<>>]
    BY <2>2
  <2>4. /\ first.aborted = call.aborted
        /\ call.aborted \in BOOLEAN /\ call.timedOut \in BOOLEAN
        /\ call.aborted => next = Throw(call, "FlaggoAbort")
        /\ ~call.aborted => next = first
    <3>1. /\ Refusal(request, random) = {} /\ "config" \in DOMAIN client
          /\ request \in RequestsOf[d] /\ random \in Drawn(request)
      BY <2>1, <2>2, <1>2 DEF CallBegins
    <3> QED
      BY <3>1, BegunTyped
  <2> HIDE DEF call, first, next
  <2>5. d = c /\ next.stage = "fetching"
    BY <1>0, <2>3 DEF Sends
  <2>7. Throw(call, "FlaggoAbort").stage = "settled"
    BY DEF Throw, Rejected
  <2>6. ~call.aborted
    BY <2>4, <2>5, <2>7
  <2> QED
    BY <1>0, <2>3, <2>4, <2>5, <2>6
<1>3. CASE Continue(d)
  <2> DEFINE call == calls[d]
             next == After(call)
  <2>1. Waits(d, call) /\ call.ready # "pending" /\ call \in ActiveCalls(d)
    BY <1>3, CallTyped DEF Continue, Ready, Waits
  <2>2. /\ calls' = [calls EXCEPT ![d] = next]
        /\ sent' = [sent EXCEPT ![d] =
                       IF next.stage \notin Waiting THEN <<>>
                       ELSE IF next.stage = "fetching" THEN Append(@, Message(next)) ELSE @]
    BY <1>3 DEF Continue, Proceed
  <2>3. \/ Rejects(call, next) \/ Turns(d, call, next)
        \/ Retries(call, next) \/ Resolves(call, next)
    BY <2>1, Continuations
  <2> HIDE DEF call, next
  <2>4. d = c /\ next.stage = "fetching"
    BY <1>0, <2>2 DEF Sends
  <2>5. ~Rejects(call, next)
    BY <2>4 DEF Rejects, RejectedCalls
  <2>6. ~Turns(d, call, next)
    BY <2>1, <2>4 DEF Turns, ActiveCalls
  <2>7. ~Resolves(call, next)
    BY <2>1, <2>4 DEF Resolves, Resolve, ActiveCalls
  <2>8. Retries(call, next)
    BY <2>3, <2>5, <2>6, <2>7
  <2>9. ~next.aborted
    BY <2>1, <2>8 DEF Retries, ActiveCalls
  <2> QED
    BY <1>0, <2>2, <2>4, <2>9
<1> QED
  BY <1>1, <1>2, <1>3

\* Every attempt of a call, at every time and with every policy, is made while
\* the call is wanted, within its policy, and repeats the first one.
THEOREM AttemptsRepeatTheRequestHolds == SdkSpec => AttemptsRepeatTheRequest
<1>1. ASSUME CallsInv, CallsInv', [SdkNext]_sdkVars, NEW c \in Calls, Sends(c)
      PROVE  /\ ~calls'[c].aborted
             /\ Len(sent'[c]) <= calls'[c].policy.maxAttempts
             /\ \A i \in DOMAIN sent'[c] : sent'[c][i] = sent'[c][1]
  <2>1. InProgress(c)'
    BY <1>1 DEF CallsInv, SentSoFar, Sends
  <2>2. Waits(c, calls[c])'
    BY <1>1, <2>1 DEF CallsInv, WaitingCalls
  <2>3. /\ Len(sent'[c]) = calls'[c].attempt
        /\ \A i \in DOMAIN sent'[c] : sent'[c][i] = Message(calls'[c])
        /\ sent'[c] \in Seq(Messages)
    BY <1>1, <2>1 DEF CallsInv, SentSoFar, SdkTypes
  <2>4. calls'[c].attempt \in 1..calls'[c].policy.maxAttempts
    BY <2>2 DEF Waits
  <2>5. calls'[c].policy.maxAttempts \in 1..3
    BY <2>2 DEF Waits, ActiveCalls, Policies
  <2>6. 1 \in DOMAIN sent'[c]
    BY <2>3, <2>4, <2>5
  <2>7. \A i \in DOMAIN sent'[c] : sent'[c][i] = sent'[c][1]
    BY <2>3, <2>6
  <2> QED
    BY <1>1, <2>3, <2>4, <2>5, <2>7, SendsUnaborted
<1>2. CallsInv /\ CallsInv' /\ [SdkNext]_sdkVars =>
        [\A c \in Calls : Sends(c) =>
           /\ ~calls'[c].aborted
           /\ Len(sent'[c]) <= calls'[c].policy.maxAttempts
           /\ \A i \in DOMAIN sent'[c] : sent'[c][i] = sent'[c][1]]_sdkVars
  BY <1>1
<1> QED
  BY <1>2, CallsInvHolds, PTL DEF SdkSpec, AttemptsRepeatTheRequest, Sends

-----------------------------------------------------------------------------
(* What becomes of one call in one step *)

\* What the client of an application knows of a decision it sends.
Accepted(bindings, request) ==
  request.op = "decide" =>
    /\ request.name \in DOMAIN bindings
    /\ DOMAIN Given(request.input, "attributes", <<>>) \subseteq MemberNames

\* What it knows of the answer.
AnsweredBy(bindings, request, response) ==
  request.op = "decide" =>
    /\ DecisionOrThrow(response.content, bindings[request.name])
    /\ MetadataValid(response)

LEMMA RefusalAccepts ==
  ASSUME NEW request, NEW random, Refusal(request, random) = {}
  PROVE  Accepted(client.config.bindings, request)
<1> SUFFICES ASSUME request.op = "decide"
    PROVE  /\ request.name \in DOMAIN client.config.bindings
           /\ DOMAIN Given(request.input, "attributes", <<>>) \subseteq MemberNames
  BY DEF Accepted
<1>1. request.name \in DOMAIN client.config.bindings /\ DecideRequestValid(request, random)
  BY DEF Refusal
<1>2. CompleteInput(request.input, random) # {}
  BY <1>1 DEF DecideRequestValid
<1>3. HasOnlyKeys(Given(request.input, "attributes", <<>>), MemberNames)
  BY <1>2 DEF CompleteInput
<1> QED
  BY <1>1, <1>3 DEF HasOnlyKeys

LEMMA ConcludeAnswers ==
  ASSUME NEW call, Conclude(call) = "value"
  PROVE  AnsweredBy(client.config.bindings, call.request, call.response)
<1>1. /\ BodyParses(call.response) /\ MetadataValid(call.response) /\ Ok(call.response)
      /\ Parses(call.request, call.response.content)
  BY DEF Conclude
<1> QED
  BY <1>1 DEF AnsweredBy, Parses

Begins(c) ==
  /\ calls[c].stage = "idle" /\ "config" \in DOMAIN client
  /\ calls'[c] \in ActiveCalls(c) /\ calls'[c].stage \in Waiting
  /\ Accepted(client.config.bindings, calls'[c].request)

IsRefused(c) ==
  calls[c].stage \in Waiting \union {"idle"} /\ calls'[c] \in RejectedCalls

GoesOn(c) ==
  /\ calls[c].stage \in Waiting /\ calls[c] \in ActiveCalls(c)
  /\ calls'[c] \in ActiveCalls(c) /\ calls'[c].stage \in Waiting
  /\ calls'[c].request = calls[c].request

IsAnswered(c) ==
  /\ calls[c].stage \in Waiting /\ calls[c] \in ActiveCalls(c)
  /\ calls'[c] \in ActiveCalls(c)
  /\ calls'[c].stage = IF calls[c].request.op = "decide" THEN "received" ELSE "settled"
  /\ calls'[c].request = calls[c].request /\ calls'[c].response = calls[c].response
  /\ calls[c].response \in ResponsesOf[c]
  /\ AnsweredBy(client.config.bindings, calls[c].request, calls[c].response)

Moves(c) == Begins(c) \/ IsRefused(c) \/ GoesOn(c) \/ IsAnswered(c)

LEMMA BeginMoves ==
  ASSUME CallsInv, NEW c \in Calls, CallBegins(c)
  PROVE  Begins(c) \/ IsRefused(c)
<1>1. PICK request \in RequestsOf[c] :
        \E random \in Drawn(request) :
          /\ Refusal(request, random) = {}
          /\ calls' = [calls EXCEPT ![c] = Attempt(Begin(request, random))]
  BY DEF CallBegins
<1>2. PICK random \in Drawn(request) :
          /\ Refusal(request, random) = {}
          /\ calls' = [calls EXCEPT ![c] = Attempt(Begin(request, random))]
  BY <1>1
<1> DEFINE call == Begin(request, random)
           first == FirstAttempt(request, random)
           next == Attempt(call)
<1>3. calls[c].stage = "idle" /\ "config" \in DOMAIN client /\ calls'[c] = next
  BY <1>2, CallTyped DEF CallBegins
<1>4. /\ first \in ActiveCalls(c) /\ first.stage = "fetching" /\ first.request = request
      /\ call.aborted \in BOOLEAN /\ call.timedOut \in BOOLEAN
      /\ next \in {Throw(call, "FlaggoAbort"), first}
  <2>1. /\ Refusal(request, random) = {} /\ "config" \in DOMAIN client
        /\ request \in RequestsOf[c] /\ random \in Drawn(request)
    BY <1>1, <1>2, <1>3
  <2> QED
    BY <2>1, BegunTyped
<1>5. Accepted(client.config.bindings, request)
  BY <1>2, RefusalAccepts
<1> HIDE DEF call, first, next
<1>6. CASE next = first
  BY <1>3, <1>4, <1>5, <1>6 DEF Begins, Waiting
<1>7. CASE next = Throw(call, "FlaggoAbort")
  <2>1. "FlaggoAbort" \in Errors
    BY DEF Errors
  <2>2. Throw(call, "FlaggoAbort") \in RejectedCalls
    BY <1>4, <2>1, Throws
  <2> QED
    BY <1>3, <1>7, <2>2 DEF IsRefused
<1> QED
  BY <1>4, <1>6, <1>7

LEMMA ContinueMoves ==
  ASSUME CallsInv, NEW c \in Calls, Continue(c)
  PROVE  Moves(c)
<1> DEFINE call == calls[c]
           next == After(call)
<1>1. /\ Waits(c, call) /\ call.ready # "pending" /\ call \in ActiveCalls(c)
      /\ call.stage \in Waiting
  BY CallTyped DEF Continue, Ready, InProgress, Waits
<1>2. calls'[c] = next
  BY CallTyped DEF Continue, Proceed
<1>3. \/ Rejects(call, next) \/ Turns(c, call, next)
      \/ Retries(call, next) \/ Resolves(call, next)
  BY <1>1, Continuations
<1> HIDE DEF next
<1>4. CASE Rejects(call, next)
  BY <1>1, <1>2, <1>4 DEF Rejects, Moves, IsRefused
<1>5. CASE Turns(c, call, next)
  <2>1. PICK stage \in {"discarding", "sleeping", "reading", "cancelling"},
             ready \in {"pending", "value", "aborted"} :
        next = [call EXCEPT !.stage = stage, !.ready = ready]
    BY <1>5 DEF Turns
  <2>2. next \in ActiveCalls(c) /\ next.stage \in Waiting /\ next.request = call.request
    BY <1>1, <2>1 DEF ActiveCalls, Waiting, Readiness
  <2> QED
    BY <1>1, <1>2, <2>2 DEF Moves, GoesOn
<1>6. CASE Retries(call, next)
  <2>1. PICK n \in Nat : n = call.attempt + 1
    BY <1>1 DEF ActiveCalls
  <2>2. next = [call EXCEPT !.stage = "fetching", !.ready = "pending", !.attempt = n]
    BY <1>1, <1>6, <2>1 DEF Retries, ActiveCalls
  <2>3. next \in ActiveCalls(c) /\ next.stage \in Waiting /\ next.request = call.request
    BY <1>1, <2>2 DEF ActiveCalls, Waiting, Readiness
  <2> QED
    BY <1>1, <1>2, <2>3 DEF Moves, GoesOn
<1>7. CASE Resolves(call, next)
  <2>1. /\ next \in ActiveCalls(c) /\ next.request = call.request /\ next.response = call.response
        /\ next.stage = IF call.request.op = "decide" THEN "received" ELSE "settled"
    BY <1>1, <1>7 DEF Resolves, Resolve, ActiveCalls, Readiness
  <2>2. AnsweredBy(client.config.bindings, call.request, call.response)
    BY <1>7, ConcludeAnswers DEF Resolves
  <2>3. call.response \in ResponsesOf[c]
    BY <1>1, <1>7 DEF Resolves, Waits, Answered
  <2> QED
    BY <1>1, <1>2, <2>1, <2>2, <2>3 DEF Moves, IsAnswered
<1> QED
  BY <1>3, <1>4, <1>5, <1>6, <1>7

\* What a call waits for comes about, or it is cut off.
LEMMA AwaitedMoves ==
  ASSUME CallsInv, NEW c \in Calls,
         Answer(c) \/ FetchFails(c) \/ BodyDone(c) \/ SleepEnds(c) \/ TimerFires(c)
  PROVE  GoesOn(c)
<1>1. InProgress(c) /\ calls[c] \in ActiveCalls(c) /\ Waits(c, calls[c])
  BY CallTyped DEF Answer, FetchFails, BodyDone, SleepEnds, TimerFires, Pending, InProgress,
     Waiting, Waits
<1>2. calls'[c] \in ActiveCalls(c) /\ calls'[c].stage = calls[c].stage
      /\ calls'[c].request = calls[c].request
  <2>1. CASE Answer(c)
    <3>1. PICK response \in ResponsesOf[c] :
            calls' = [calls EXCEPT ![c].ready = "value", ![c].response = response]
      BY <2>1 DEF Answer
    <3>2. calls'[c] = [calls[c] EXCEPT !.ready = "value", !.response = response]
      BY <3>1, CallTyped
    <3> QED
      BY <1>1, <3>2 DEF ActiveCalls, Readiness
  <2>2. CASE FetchFails(c) \/ BodyDone(c) \/ SleepEnds(c)
    <3>1. PICK ready \in {"error", "flaggoError", "value"} : calls' = [calls EXCEPT ![c].ready = ready]
      BY <2>2 DEF FetchFails, BodyDone, SleepEnds
    <3>2. calls'[c] = [calls[c] EXCEPT !.ready = ready]
      BY <3>1, CallTyped
    <3> QED
      BY <1>1, <3>2 DEF ActiveCalls, Readiness
  <2>3. CASE TimerFires(c)
    <3> DEFINE next == CutOff(calls[c], TRUE)
    <3>1. calls'[c] = next
      BY <2>3, CallTyped DEF TimerFires, CutOff
    <3>2. /\ next \in ActiveCalls(c) /\ next.stage = calls[c].stage
          /\ next.request = calls[c].request
      BY <1>1, Aborts
    <3> HIDE DEF next
    <3> QED
      BY <3>1, <3>2
  <2> QED
    BY <2>1, <2>2, <2>3
<1> QED
  BY <1>1, <1>2 DEF GoesOn, InProgress

\* Every step leaves every call alone, moves it, or logs it.
LEMMA StepMoves ==
  ASSUME CallsInv, [SdkNext]_sdkVars
  PROVE  /\ client' = client
         /\ \/ \E c \in Calls : Receive(c)
            \/ emitted' = emitted /\ \A c \in Calls : calls'[c] = calls[c] \/ Moves(c)
<1> DEFINE Calmly == emitted' = emitted /\ \A c \in Calls : calls'[c] = calls[c] \/ Moves(c)
<1>1. CASE UNCHANGED sdkVars
  BY <1>1 DEF sdkVars
<1>2. ASSUME NEW c \in Calls, \A d \in Calls \ {c} : calls'[d] = calls[d], emitted' = emitted,
             Moves(c)
      PROVE  Calmly
  BY <1>2
<1>3. ASSUME NEW c \in Calls, CallRefused(c) PROVE Calmly /\ client' = client
  <2>1. PICK request \in RequestsOf[c] :
          \E random \in Drawn(request) : \E reason \in Refusal(request, random) :
            calls' = [calls EXCEPT ![c] = Rejected([aborted |-> FALSE], reason)]
    BY <1>3 DEF CallRefused
  <2>2. PICK random \in Drawn(request) : \E reason \in Refusal(request, random) :
            calls' = [calls EXCEPT ![c] = Rejected([aborted |-> FALSE], reason)]
    BY <2>1
  <2>3. PICK reason \in Refusal(request, random) :
            calls' = [calls EXCEPT ![c] = Rejected([aborted |-> FALSE], reason)]
    BY <2>2
  <2>4. reason \in Errors
    BY <2>3 DEF Refusal, Errors
  <2>5. Rejected([aborted |-> FALSE], reason) \in RejectedCalls
    BY <2>4 DEF Rejected, RejectedCalls
  <2>6. IsRefused(c) /\ \A d \in Calls \ {c} : calls'[d] = calls[d]
    BY <1>3, <2>3, <2>5, CallTyped DEF IsRefused, CallRefused
  <2> QED
    BY <1>2, <1>3, <2>6 DEF Moves, CallRefused
<1>4. ASSUME NEW c \in Calls, CallBegins(c) PROVE Calmly /\ client' = client
  <2>1. \A d \in Calls \ {c} : calls'[d] = calls[d]
    BY <1>4, CallTyped DEF CallBegins
  <2> QED
    BY <1>2, <1>4, <2>1, BeginMoves DEF Moves, CallBegins
<1>5. ASSUME NEW c \in Calls, Continue(c) PROVE Calmly /\ client' = client
  <2>1. \A d \in Calls \ {c} : calls'[d] = calls[d]
    BY <1>5, CallTyped DEF Continue, Proceed
  <2> QED
    BY <1>2, <1>5, <2>1, ContinueMoves DEF Continue, Proceed
<1>6. ASSUME NEW c \in Calls,
             Answer(c) \/ FetchFails(c) \/ BodyDone(c) \/ SleepEnds(c) \/ TimerFires(c)
      PROVE  Calmly /\ client' = client
  <2>1. \A d \in Calls \ {c} : calls'[d] = calls[d]
    BY <1>6, CallTyped DEF Answer, FetchFails, BodyDone, SleepEnds, TimerFires
  <2>2. emitted' = emitted /\ client' = client
    BY <1>6 DEF Answer, FetchFails, BodyDone, SleepEnds, TimerFires
  <2> QED
    BY <1>2, <1>6, <2>1, <2>2, AwaitedMoves DEF Moves
<1>7. ASSUME NEW s \in Signals, CallerAborts(s) PROVE Calmly /\ client' = client
  <2>1. emitted' = emitted /\ client' = client
    BY <1>7 DEF CallerAborts
  <2>2. ASSUME NEW c \in Calls PROVE calls'[c] = calls[c] \/ Moves(c)
    <3>1. CASE c \notin signals[s].listeners
      BY <1>7, <3>1 DEF CallerAborts
    <3>2. CASE c \in signals[s].listeners
      <4>1. InProgress(c)
        BY <1>7, <3>2 DEF CallsInv, CallsEndClean, HeldWhileInProgress
      <4>2. Waits(c, calls[c]) /\ calls[c] \in ActiveCalls(c)
        BY <4>1, CallTyped DEF Waits
      <4> DEFINE next == CutOff(calls[c], FALSE)
      <4>3. calls'[c] = next
        <5>1. calls'[c] = Abort(calls[c], FALSE)
          BY <1>7, <3>2 DEF CallerAborts
        <5>2. Abort(calls[c], FALSE) = CutOff(calls[c], FALSE)
          BY <4>2 DEF CutOff, Abort, ActiveCalls
        <5> QED
          BY <5>1, <5>2
      <4>4. /\ next \in ActiveCalls(c) /\ next.stage = calls[c].stage
            /\ next.request = calls[c].request
        BY <4>2, Aborts
      <4> HIDE DEF next
      <4> QED
        BY <4>1, <4>2, <4>3, <4>4 DEF Moves, GoesOn, InProgress
    <3> QED
      BY <3>1, <3>2
  <2> QED
    BY <2>1, <2>2
<1>8. ASSUME NEW c \in Calls, Receive(c) PROVE client' = client
  BY <1>8 DEF Receive
<1>9. CASE Export
  BY <1>9 DEF Export, ExportLogs, ExportTraces, ExportMetricBatch
<1> HIDE DEF Calmly
<1>10. client' = client /\ ((\E c \in Calls : Receive(c)) \/ Calmly)
  <2>1. CASE UNCHANGED sdkVars
    BY <2>1 DEF sdkVars, Calmly
  <2>2. CASE Export
    BY <2>2, <1>9 DEF Calmly, Export, ExportLogs, ExportTraces, ExportMetricBatch
  <2> QED
    BY <2>1, <2>2, <1>3, <1>4, <1>5, <1>6, <1>7, <1>8 DEF SdkNext
<1> QED
  BY <1>10 DEF Calmly

-----------------------------------------------------------------------------
(* What the record of a decision says *)

\* No two attributes have the same key.
KeysOnce(s) == \A i, j \in DOMAIN s : s[i].key = s[j].key => i = j

LEMMA JoinsKeys ==
  ASSUME NEW S, NEW s \in Seq(S), NEW t \in Seq(S), KeysOnce(s), KeysOnce(t),
         \A x \in ToSet(s), y \in ToSet(t) : x.key # y.key
  PROVE  KeysOnce(s \o t)
<1>1. /\ Len(s \o t) = Len(s) + Len(t)
      /\ \A i \in 1..Len(s) + Len(t) :
           (s \o t)[i] = IF i <= Len(s) THEN s[i] ELSE t[i - Len(s)]
  OBVIOUS
<1>2. DOMAIN (s \o t) = 1..Len(s) + Len(t) /\ DOMAIN s = 1..Len(s) /\ DOMAIN t = 1..Len(t)
      /\ Len(s) \in Nat /\ Len(t) \in Nat
  BY <1>1
<1>3. /\ \A i \in 1..Len(s) : s[i] \in ToSet(s)
      /\ \A i \in 1..Len(t) : t[i] \in ToSet(t)
  BY <1>2 DEF ToSet
<1> SUFFICES ASSUME NEW i \in 1..Len(s) + Len(t), NEW j \in 1..Len(s) + Len(t),
                    (s \o t)[i].key = (s \o t)[j].key
             PROVE  i = j
  BY <1>2 DEF KeysOnce
<1>4. /\ i > Len(s) => i - Len(s) \in 1..Len(t)
      /\ j > Len(s) => j - Len(s) \in 1..Len(t)
      /\ i <= Len(s) => i \in 1..Len(s)
      /\ j <= Len(s) => j \in 1..Len(s)
  BY <1>2
<1>5. CASE i <= Len(s) /\ j <= Len(s)
  BY <1>1, <1>2, <1>4, <1>5 DEF KeysOnce
<1>6. CASE i > Len(s) /\ j > Len(s)
  <2>1. t[i - Len(s)].key = t[j - Len(s)].key
    BY <1>1, <1>2, <1>6
  <2>2. i - Len(s) = j - Len(s)
    BY <1>2, <1>4, <1>6, <2>1 DEF KeysOnce
  <2> QED
    BY <1>2, <2>2
<1>7. CASE i <= Len(s) /\ j > Len(s)
  BY <1>1, <1>2, <1>3, <1>4, <1>7
<1>8. CASE i > Len(s) /\ j <= Len(s)
  BY <1>1, <1>2, <1>3, <1>4, <1>8
<1> QED
  BY <1>2, <1>5, <1>6, <1>7, <1>8

Asked(request) == Given(request.input, "attributes", <<>>)

OptionalTexts(key, values) == {Text(key, v) : v \in values}

CorrelationSet(attributes) ==
  {CorrelationAttribute(attributes, n) : n \in ScalarCorrelationAttributes(attributes)}

Leading(call, id) ==
  <<Text("flaggo.signal", "decision.received"),
    Text("flaggo.decision.id", id),
    Text("flaggo.contract.name", call.request.name),
    Text("flaggo.contract.digest", call.response.content.contractDigest),
    Text("flaggo.executable.digest", call.response.content.executableDigest),
    Text("flaggo.result.json", call.response.content.result),
    Text("flaggo.result.hash", ResultHash[call.response.content.result])>>

RecordOf(resource, call, id) ==
  [resource |-> resource, scope |-> "@flaggo/sdk", event |-> "flaggo.decision.received",
   attributes |->
     Leading(call, id) \o EvaluationAttributes(call.response.content)
     \o SetToSeq(OptionalTexts("flaggo.request.correlation_id", call.response.correlationId))
     \o CorrelationAttributes(Asked(call.request)),
   time |-> 1, observed |-> 1]

LeadingSet(call, id) ==
  {Text("flaggo.signal", "decision.received"),
   Text("flaggo.decision.id", id),
   Text("flaggo.contract.name", call.request.name),
   Text("flaggo.contract.digest", call.response.content.contractDigest),
   Text("flaggo.executable.digest", call.response.content.executableDigest),
   Text("flaggo.result.json", call.response.content.result),
   Text("flaggo.result.hash", ResultHash[call.response.content.result])}

EvaluationSet(decision) ==
  {Text("flaggo.evaluation.source", decision.source)}
    \union OptionalTexts("flaggo.evaluation.rule", decision.rule)

\* Everything the record says.
Said(call, id) ==
  LeadingSet(call, id) \union EvaluationSet(call.response.content)
    \union OptionalTexts("flaggo.request.correlation_id", call.response.correlationId)
    \union CorrelationSet(Asked(call.request))

\* What there is at most one of is listed, and its key is there once.
LEMMA OptionalListed ==
  ASSUME NEW values, AtMostOne(values), NEW key
  PROVE  LET s == SetToSeq(OptionalTexts(key, values))
         IN /\ s \in Seq(OptionalTexts(key, values)) /\ ToSet(s) = OptionalTexts(key, values)
            /\ KeysOnce(s)
<1> DEFINE S == OptionalTexts(key, values)
           s == SetToSeq(S)
<1>1. \A x, y \in S : x = y
  BY DEF OptionalTexts, AtMostOne
<1>2. IsFiniteSet(S)
  <2>1. CASE S = {}
    BY <2>1, FS_EmptySet
  <2>2. ASSUME NEW x \in S PROVE IsFiniteSet(S)
    <3>1. S = {x}
      BY <1>1, <2>2
    <3> QED
      BY <3>1, FS_Singleton
  <2> QED
    BY <2>1, <2>2
<1> HIDE DEF S
<1>3. /\ s \in Seq(S) /\ ToSet(s) = S
      /\ \A i, j \in DOMAIN s : s[i] = s[j] => i = j
  BY <1>2, Lists
<1> HIDE DEF s
<1>4. \A i \in DOMAIN s : s[i] \in S
  BY <1>3
<1>5. KeysOnce(s)
  BY <1>1, <1>3, <1>4 DEF KeysOnce
<1> QED
  BY <1>3, <1>5 DEF s, S

\* The scalar attributes of a request are listed, each under its key.
LEMMA CorrelationListed ==
  ASSUME NEW attributes, IsFiniteSet(DOMAIN attributes), DOMAIN attributes \subseteq MemberNames
  PROVE  LET s == CorrelationAttributes(attributes)
         IN /\ s \in Seq(CorrelationSet(attributes)) /\ ToSet(s) = CorrelationSet(attributes)
            /\ KeysOnce(s)
<1> DEFINE N == ScalarCorrelationAttributes(attributes)
           S == CorrelationSet(attributes)
           f == [n \in N |-> CorrelationAttribute(attributes, n)]
           s == SetToSeq(S)
<1>1. N \subseteq MemberNames /\ IsFiniteSet(N)
  BY FS_Subset DEF ScalarCorrelationAttributes
<1>2. f \in Surjection(N, S)
  BY DEF Surjection, CorrelationSet
<1>3. IsFiniteSet(S)
  BY <1>1, <1>2, FS_Surjection
<1>4. \A x, y \in S : x.key = y.key => x = y
  <2> SUFFICES ASSUME NEW m \in N, NEW n \in N,
                      CorrelationAttribute(attributes, m).key = CorrelationAttribute(attributes, n).key
               PROVE  m = n
    BY DEF CorrelationSet
  <2>1. CorrelationKey[m] = CorrelationKey[n]
    BY DEF CorrelationAttribute
  <2> QED
    BY <1>1, <2>1, CorrelationAssumption
<1>5. CorrelationAttributes(attributes) = s
  BY DEF CorrelationAttributes, CorrelationSet
<1> HIDE DEF S
<1>6. /\ s \in Seq(S) /\ ToSet(s) = S
      /\ \A i, j \in DOMAIN s : s[i] = s[j] => i = j
  BY <1>3, Lists
<1> HIDE DEF s
<1>7. \A i \in DOMAIN s : s[i] \in S
  BY <1>6
<1>8. KeysOnce(s)
  BY <1>4, <1>6, <1>7 DEF KeysOnce
<1> QED
  BY <1>5, <1>6, <1>8 DEF S

\* None of them is under a key of the protocol.
LEMMA CorrelationApart ==
  ASSUME NEW attributes, DOMAIN attributes \subseteq MemberNames,
         NEW x \in CorrelationSet(attributes)
  PROVE  x.key \notin Protocol!KnownAttributes
<1>1. PICK n \in ScalarCorrelationAttributes(attributes) : x = CorrelationAttribute(attributes, n)
  BY DEF CorrelationSet
<1>2. n \in MemberNames /\ x.key = CorrelationKey[n]
  BY <1>1 DEF ScalarCorrelationAttributes, CorrelationAttribute
<1> QED
  BY <1>2, CorrelationAssumption

KeysIn(S, keys) == \A x \in S : x.key \in keys

LeadingKeys ==
  {"flaggo.signal", "flaggo.decision.id", "flaggo.contract.name", "flaggo.contract.digest",
   "flaggo.executable.digest", "flaggo.result.json", "flaggo.result.hash"}

\* The record says each thing under a key of its own.
LEMMA RecordSays ==
  ASSUME NEW resource, NEW call, NEW id,
         AtMostOne(call.response.correlationId), AtMostOne(call.response.content.rule),
         IsFiniteSet(DOMAIN Asked(call.request)), DOMAIN Asked(call.request) \subseteq MemberNames
  PROVE  LET s == RecordOf(resource, call, id).attributes
         IN s \in Seq(Said(call, id)) /\ ToSet(s) = Said(call, id) /\ KeysOnce(s)
<1> DEFINE content == call.response.content
           S == Said(call, id)
           leading == Leading(call, id)
           source == <<Text("flaggo.evaluation.source", content.source)>>
           rule == SetToSeq(OptionalTexts("flaggo.evaluation.rule", content.rule))
           asked == SetToSeq(OptionalTexts("flaggo.request.correlation_id",
                                            call.response.correlationId))
           scalars == CorrelationAttributes(Asked(call.request))
<1>1. /\ leading \in Seq(S) /\ ToSet(leading) = LeadingSet(call, id)
      /\ KeysOnce(leading) /\ KeysIn(LeadingSet(call, id), LeadingKeys)
  <2>1. /\ Len(leading) = 7 /\ DOMAIN leading = 1..7
    BY DEF Leading
  <2>2. leading \in Seq(LeadingSet(call, id))
    BY DEF Leading, LeadingSet
  <2>3. ToSet(leading) = LeadingSet(call, id)
    BY <2>1 DEF Leading, LeadingSet, ToSet
  <2>4. KeysOnce(leading)
    BY <2>1 DEF Leading, KeysOnce, Text
  <2>5. KeysIn(LeadingSet(call, id), LeadingKeys)
    BY DEF KeysIn, LeadingKeys, LeadingSet, Text
  <2> QED
    BY <2>2, <2>3, <2>4, <2>5 DEF Said
<1>2. /\ source \in Seq(S) /\ ToSet(source) = {Text("flaggo.evaluation.source", content.source)}
      /\ KeysOnce(source)
      /\ KeysIn(ToSet(source), {"flaggo.evaluation.source"})
  <2>1. ToSet(source) = {Text("flaggo.evaluation.source", content.source)}
    BY DEF ToSet
  <2>2. Text("flaggo.evaluation.source", content.source) \in S
    BY DEF Said, EvaluationSet
  <2>3. KeysIn(ToSet(source), {"flaggo.evaluation.source"})
    BY <2>1 DEF KeysIn, Text
  <2> QED
    BY <2>1, <2>2, <2>3 DEF KeysOnce
<1>3. /\ rule \in Seq(S) /\ ToSet(rule) = OptionalTexts("flaggo.evaluation.rule", content.rule)
      /\ KeysOnce(rule) /\ KeysIn(ToSet(rule), {"flaggo.evaluation.rule"})
  <2>1. /\ rule \in Seq(OptionalTexts("flaggo.evaluation.rule", content.rule))
        /\ ToSet(rule) = OptionalTexts("flaggo.evaluation.rule", content.rule) /\ KeysOnce(rule)
    BY OptionalListed
  <2> HIDE DEF rule
  <2>2. OptionalTexts("flaggo.evaluation.rule", content.rule) \subseteq S
    BY DEF Said, EvaluationSet
  <2>3. KeysIn(ToSet(rule), {"flaggo.evaluation.rule"})
    BY <2>1 DEF KeysIn, OptionalTexts, Text
  <2> QED
    BY <2>1, <2>2, <2>3
<1>4. /\ asked \in Seq(S)
      /\ ToSet(asked) = OptionalTexts("flaggo.request.correlation_id", call.response.correlationId)
      /\ KeysOnce(asked) /\ KeysIn(ToSet(asked), {"flaggo.request.correlation_id"})
  <2> DEFINE T == OptionalTexts("flaggo.request.correlation_id", call.response.correlationId)
  <2>1. asked \in Seq(T) /\ ToSet(asked) = T /\ KeysOnce(asked)
    BY OptionalListed
  <2> HIDE DEF asked
  <2>2. T \subseteq S
    BY DEF Said
  <2>3. KeysIn(ToSet(asked), {"flaggo.request.correlation_id"})
    BY <2>1 DEF KeysIn, OptionalTexts, Text
  <2> QED
    BY <2>1, <2>2, <2>3
<1>5. /\ scalars \in Seq(S) /\ ToSet(scalars) = CorrelationSet(Asked(call.request))
      /\ KeysOnce(scalars)
      /\ \A x \in ToSet(scalars) : x.key \notin Protocol!KnownAttributes
  <2>1. /\ scalars \in Seq(CorrelationSet(Asked(call.request)))
        /\ ToSet(scalars) = CorrelationSet(Asked(call.request)) /\ KeysOnce(scalars)
    BY CorrelationListed
  <2>2. CorrelationSet(Asked(call.request)) \subseteq S
    BY DEF Said
  <2>3. \A x \in CorrelationSet(Asked(call.request)) : x.key \notin Protocol!KnownAttributes
    BY CorrelationApart
  <2> QED
    BY <2>1, <2>2, <2>3
<1>6. LeadingKeys \union {"flaggo.evaluation.source", "flaggo.evaluation.rule",
         "flaggo.request.correlation_id"} = Protocol!KnownAttributes
  BY DEF LeadingKeys, Protocol!KnownAttributes
<1> DEFINE evaluation == source \o rule
           two == leading \o evaluation
           three == two \o asked
           four == three \o scalars
<1> HIDE DEF leading, source, rule, asked, scalars, S
<1>7. /\ evaluation \in Seq(S) /\ ToSet(evaluation) = ToSet(source) \union ToSet(rule)
      /\ KeysOnce(evaluation)
  <2>1. \A x \in ToSet(source), y \in ToSet(rule) : x.key # y.key
    BY <1>2, <1>3 DEF KeysIn
  <2> QED
    BY <1>2, <1>3, <2>1, Joins, JoinsKeys
<1> HIDE DEF evaluation
<1>8. /\ two \in Seq(S) /\ ToSet(two) = ToSet(leading) \union ToSet(evaluation)
      /\ KeysOnce(two)
  <2>1. \A x \in ToSet(leading), y \in ToSet(evaluation) : x.key # y.key
    BY <1>1, <1>2, <1>3, <1>7 DEF KeysIn, LeadingKeys
  <2> QED
    BY <1>1, <1>7, <2>1, Joins, JoinsKeys
<1> HIDE DEF two
<1>9. /\ three \in Seq(S) /\ ToSet(three) = ToSet(two) \union ToSet(asked) /\ KeysOnce(three)
  <2>1. \A x \in ToSet(two), y \in ToSet(asked) : x.key # y.key
    BY <1>1, <1>2, <1>3, <1>4, <1>7, <1>8 DEF KeysIn, LeadingKeys
  <2> QED
    BY <1>4, <1>8, <2>1, Joins, JoinsKeys
<1> HIDE DEF three
<1>10. /\ four \in Seq(S) /\ ToSet(four) = ToSet(three) \union ToSet(scalars) /\ KeysOnce(four)
  <2>1. \A x \in ToSet(three) : x.key \in Protocol!KnownAttributes
    BY <1>1, <1>2, <1>3, <1>4, <1>6, <1>7, <1>8, <1>9 DEF KeysIn
  <2>2. \A x \in ToSet(three), y \in ToSet(scalars) : x.key # y.key
    BY <1>5, <2>1
  <2> QED
    BY <1>5, <1>9, <2>2, Joins, JoinsKeys
<1>11. RecordOf(resource, call, id).attributes = four
  BY DEF RecordOf, EvaluationAttributes, OptionalTexts, four, three, two, evaluation, leading,
     source, rule, asked, scalars
<1>12. ToSet(four) = S
  BY <1>1, <1>2, <1>3, <1>4, <1>5, <1>7, <1>8, <1>9, <1>10 DEF S, Said, EvaluationSet
<1> QED
  BY <1>10, <1>11, <1>12 DEF S

\* What the record says under no key of the protocol is what the call was asked
\* with, and all of it.
LEMMA AskedApart ==
  ASSUME NEW call, NEW id, DOMAIN Asked(call.request) \subseteq MemberNames
  PROVE  {a \in Said(call, id) : a.key \notin Protocol!KnownAttributes} =
           CorrelationSet(Asked(call.request))
<1> DEFINE Plain == LeadingSet(call, id) \union EvaluationSet(call.response.content)
                      \union OptionalTexts("flaggo.request.correlation_id",
                                           call.response.correlationId)
<1>1. \A a \in Plain : a.key \in Protocol!KnownAttributes
  BY DEF LeadingSet, EvaluationSet, OptionalTexts, Text, Protocol!KnownAttributes
<1>2. \A a \in CorrelationSet(Asked(call.request)) : a.key \notin Protocol!KnownAttributes
  BY CorrelationApart
<1>3. Said(call, id) = Plain \union CorrelationSet(Asked(call.request))
  BY DEF Said
<1> HIDE DEF Plain
<1> QED
  BY <1>1, <1>2, <1>3

-----------------------------------------------------------------------------
(* Decisions and their events *)

\* A decision the application has got.
Decided(c) ==
  calls[c] \in ActiveCalls(c) /\ calls[c].stage = "settled" /\ calls[c].request.op = "decide"

\* A call was accepted by the client, and one that is over was answered.
AnsweredCalls ==
  \A c \in Calls : calls[c] \in ActiveCalls(c) =>
    /\ "config" \in DOMAIN client /\ Accepted(client.config.bindings, calls[c].request)
    /\ calls[c].stage = "received" => calls[c].request.op = "decide"
    /\ calls[c].stage \notin Waiting =>
         /\ calls[c].response \in ResponsesOf[c]
         /\ AnsweredBy(client.config.bindings, calls[c].request, calls[c].response)

\* The decision ids a record gives.
Ids(record) == {id \in UuidV4s : Text("flaggo.decision.id", id) \in ToSet(record.attributes)}

\* What is logged is what a decision received, under an id of its own.
EventsSound ==
  /\ emitted \in Seq(ToSet(emitted))
  /\ \A i \in DOMAIN emitted :
       /\ emitted[i].call \in Calls /\ Decided(emitted[i].call)
       /\ \E id \in UuidV4s : emitted[i].record =
            RecordOf(client.resource, calls[emitted[i].call], id)
  /\ \A i, j \in DOMAIN emitted : i # j =>
       /\ emitted[i].call # emitted[j].call
       /\ Ids(emitted[i].record) \intersect Ids(emitted[j].record) = {}

DecisionsLogged ==
  \A c \in Calls : Decided(c) => \E i \in DOMAIN emitted : emitted[i].call = c

DecisionsInv == AnsweredCalls /\ EventsSound /\ DecisionsLogged

\* What is known of a call that was answered.
LEMMA AnswerKnown ==
  ASSUME AnsweredCalls, NEW c \in Calls, calls[c] \in ActiveCalls(c),
         calls[c].stage \notin Waiting, calls[c].request.op = "decide"
  PROVE  /\ AtMostOne(calls[c].response.correlationId)
         /\ AtMostOne(calls[c].response.content.rule)
         /\ calls[c].response.content.result \in DOMAIN ResultHash
         /\ IsFiniteSet(DOMAIN Asked(calls[c].request))
         /\ DOMAIN Asked(calls[c].request) \subseteq MemberNames
         /\ calls[c].request.name \in DOMAIN client.config.bindings
         /\ DecisionOrThrow(calls[c].response.content,
                            client.config.bindings[calls[c].request.name])
         /\ MetadataValid(calls[c].response)
<1>1. /\ calls[c].response \in ResponsesOf[c] /\ calls[c].request \in RequestsOf[c]
      /\ Accepted(client.config.bindings, calls[c].request)
      /\ AnsweredBy(client.config.bindings, calls[c].request, calls[c].response)
  BY DEF AnsweredCalls, ActiveCalls
<1>2. calls[c].response.content.kind = "decision"
  BY <1>1 DEF AnsweredBy, DecisionOrThrow
<1> QED
  BY <1>1, <1>2, ResponsesAssumption, RequestsAssumption DEF Accepted, AnsweredBy, Asked

\* The record of a decision gives one id.
LEMMA OneId ==
  ASSUME AnsweredCalls, NEW c \in Calls, calls[c] \in ActiveCalls(c),
         calls[c].stage \notin Waiting, calls[c].request.op = "decide",
         NEW resource, NEW id \in UuidV4s
  PROVE  Ids(RecordOf(resource, calls[c], id)) = {id}
<1> DEFINE call == calls[c]
           record == RecordOf(resource, call, id)
<1>1. ToSet(record.attributes) = Said(call, id)
  BY AnswerKnown, RecordSays
<1>2. \A n \in ScalarCorrelationAttributes(Asked(call.request)) :
        CorrelationAttribute(Asked(call.request), n).key # "flaggo.decision.id"
  <2> SUFFICES ASSUME NEW n \in ScalarCorrelationAttributes(Asked(call.request))
               PROVE  CorrelationKey[n] # "flaggo.decision.id"
    BY DEF CorrelationAttribute
  <2>1. n \in MemberNames
    BY AnswerKnown DEF ScalarCorrelationAttributes
  <2> QED
    BY <2>1, CorrelationAssumption DEF Protocol!KnownAttributes
<1> HIDE DEF call, record
<1>3. ASSUME NEW x \in Said(call, id), x.key = "flaggo.decision.id"
      PROVE  x = Text("flaggo.decision.id", id)
  <2>1. x \notin CorrelationSet(Asked(call.request))
    BY <1>2, <1>3 DEF CorrelationSet
  <2> QED
    BY <1>3, <2>1 DEF Said, LeadingSet, EvaluationSet, OptionalTexts, Text
<1>4. Text("flaggo.decision.id", id) \in Said(call, id)
  BY DEF Said, LeadingSet
<1>5. \A other : Text("flaggo.decision.id", other).key = "flaggo.decision.id"
                 /\ Text("flaggo.decision.id", other).value = other
  BY DEF Text
<1>6. ASSUME NEW other, Text("flaggo.decision.id", other) \in Said(call, id)
      PROVE  other = id
  BY <1>3, <1>5, <1>6
<1> QED
  BY <1>1, <1>4, <1>6 DEF Ids, call, record

\* An event is of a decision that gives one id.
LEMMA EventId ==
  ASSUME CallsInv, DecisionsInv, NEW i \in DOMAIN emitted
  PROVE  \E id \in UuidV4s : Ids(emitted[i].record) = {id}
<1> DEFINE c == emitted[i].call
<1>1. /\ c \in Calls /\ calls[c] \in ActiveCalls(c) /\ calls[c].stage = "settled"
      /\ calls[c].request.op = "decide"
  BY DEF DecisionsInv, EventsSound, Decided
<1>2. PICK id \in UuidV4s : emitted[i].record = RecordOf(client.resource, calls[c], id)
  BY DEF DecisionsInv, EventsSound
<1> HIDE DEF c
<1> QED
  BY <1>1, <1>2, OneId DEF Waiting, DecisionsInv

\* There are as many ids as calls: one that was not given is left for the call.
LEMMA FreshId ==
  ASSUME CallsInv, DecisionsInv, NEW c \in Calls, calls[c].stage = "received"
  PROVE  /\ CreateDecisionId \in UuidV4s
         /\ \A i \in DOMAIN emitted : CreateDecisionId \notin Ids(emitted[i].record)
<1> DEFINE Free(id) == \A i \in DOMAIN emitted : id \notin Ids(emitted[i].record)
<1>1. SUFFICES ASSUME \A id \in UuidV4s : ~Free(id) PROVE FALSE
  <2>1. CreateDecisionId = CHOOSE id \in UuidV4s :
          \A i \in DOMAIN emitted : Text("flaggo.decision.id", id) \notin
                                      ToSet(emitted[i].record.attributes)
    BY DEF CreateDecisionId
  <2>2. ASSUME NEW id \in UuidV4s
        PROVE  Free(id) <=> \A i \in DOMAIN emitted : Text("flaggo.decision.id", id) \notin
                                      ToSet(emitted[i].record.attributes)
    BY DEF Ids
  <2> QED
    BY <2>1, <2>2
<1> DEFINE At(id) == CHOOSE i \in DOMAIN emitted : id \in Ids(emitted[i].record)
           f == [id \in UuidV4s |-> emitted[At(id)].call]
<1>2. \A id \in UuidV4s : At(id) \in DOMAIN emitted /\ id \in Ids(emitted[At(id)].record)
  BY <1>1
<1> HIDE DEF At, Free
<1>3. ASSUME NEW id \in UuidV4s PROVE f[id] \in Calls \ {c}
  <2>1. emitted[At(id)].call \in Calls /\ Decided(emitted[At(id)].call)
    BY <1>2 DEF DecisionsInv, EventsSound
  <2> QED
    BY <2>1 DEF Decided
<1>4. ASSUME NEW x \in UuidV4s, NEW y \in UuidV4s, f[x] = f[y] PROVE x = y
  <2>1. At(x) = At(y)
    BY <1>2, <1>4 DEF DecisionsInv, EventsSound
  <2>2. PICK id \in UuidV4s : Ids(emitted[At(x)].record) = {id}
    BY <1>2, EventId
  <2> QED
    BY <1>2, <2>1, <2>2
<1>5. f \in Injection(UuidV4s, Calls \ {c})
  BY <1>3, <1>4 DEF Injection, IsInjective
<1>6. /\ IsFiniteSet(Calls \ {c}) /\ Cardinality(Calls \ {c}) = Cardinality(Calls) - 1
      /\ Cardinality(Calls) \in Nat /\ Cardinality(UuidV4s) \in Nat
      /\ Cardinality(UuidV4s) >= Cardinality(Calls)
  BY SdkAssumption, FS_RemoveElement, FS_CardinalityType
<1>7. Cardinality(UuidV4s) <= Cardinality(Calls \ {c})
  BY <1>5, <1>6, FS_Injection
<1> QED
  BY <1>6, <1>7

LEMMA DecisionsStart == SdkInit => DecisionsInv
<1> SUFFICES ASSUME SdkInit PROVE DecisionsInv
  OBVIOUS
<1>1. \A c \in Calls : calls[c].stage = "idle" /\ calls[c] = [stage |-> "idle"]
  BY DEF SdkInit
<1>2. \A c \in Calls : calls[c] \notin ActiveCalls(c)
  BY <1>1 DEF ActiveCalls, Waiting
<1>3. emitted = <<>> /\ DOMAIN emitted = {} /\ emitted \in Seq(ToSet(emitted))
  BY DEF SdkInit
<1> QED
  BY <1>2, <1>3 DEF DecisionsInv, AnsweredCalls, EventsSound, DecisionsLogged, Decided

\* No step but the one that logs a decision has a part in it.
LEMMA CalmKeeps ==
  ASSUME CallsInv, DecisionsInv, client' = client, emitted' = emitted,
         \A c \in Calls : calls'[c] = calls[c] \/ Moves(c)
  PROVE  DecisionsInv'
<1>1. ASSUME NEW c \in Calls, Moves(c)
      PROVE  /\ ~Decided(c) /\ ~Decided(c)'
             /\ calls'[c] \in ActiveCalls(c) =>
                  /\ "config" \in DOMAIN client
                  /\ Accepted(client.config.bindings, calls'[c].request)
                  /\ calls'[c].stage = "received" => calls'[c].request.op = "decide"
                  /\ calls'[c].stage \notin Waiting =>
                       /\ calls'[c].response \in ResponsesOf[c]
                       /\ AnsweredBy(client.config.bindings, calls'[c].request, calls'[c].response)
  <2>1. CASE Begins(c)
    BY <2>1 DEF Begins, Decided, Waiting
  <2>2. CASE IsRefused(c)
    BY <2>2 DEF IsRefused, Decided, Waiting, RejectedCalls, ActiveCalls, Errors
  <2>3. CASE GoesOn(c)
    <3>1. Accepted(client.config.bindings, calls[c].request) /\ "config" \in DOMAIN client
      BY <2>3 DEF GoesOn, DecisionsInv, AnsweredCalls
    <3> QED
      BY <2>3, <3>1 DEF GoesOn, Decided, Waiting
  <2>4. CASE IsAnswered(c)
    <3>1. Accepted(client.config.bindings, calls[c].request) /\ "config" \in DOMAIN client
      BY <2>4 DEF IsAnswered, DecisionsInv, AnsweredCalls
    <3>2. calls'[c].stage = "received" => calls'[c].request.op = "decide"
      BY <2>4 DEF IsAnswered
    <3>3. ~Decided(c) /\ ~Decided(c)'
      BY <2>4 DEF IsAnswered, Decided, Waiting
    <3> QED
      BY <2>4, <3>1, <3>2, <3>3 DEF IsAnswered
  <2> QED
    BY <1>1, <2>1, <2>2, <2>3, <2>4 DEF Moves
<1>2. AnsweredCalls'
  BY <1>1 DEF AnsweredCalls, DecisionsInv
<1>3. ASSUME NEW c \in Calls PROVE Decided(c)' <=> Decided(c)
  BY <1>1 DEF Decided
<1>4. ASSUME NEW c \in Calls, Decided(c) PROVE calls'[c] = calls[c]
  BY <1>1, <1>4
<1>5. EventsSound'
  <2>1. ASSUME NEW i \in DOMAIN emitted
        PROVE  /\ emitted[i].call \in Calls /\ Decided(emitted[i].call)'
               /\ \E id \in UuidV4s : emitted[i].record =
                    RecordOf(client.resource, calls'[emitted[i].call], id)
    <3>1. /\ emitted[i].call \in Calls /\ Decided(emitted[i].call)
          /\ \E id \in UuidV4s : emitted[i].record =
               RecordOf(client.resource, calls[emitted[i].call], id)
      BY DEF DecisionsInv, EventsSound
    <3>2. calls'[emitted[i].call] = calls[emitted[i].call]
      BY <1>4, <3>1
    <3> QED
      BY <3>1, <3>2 DEF Decided
  <2> QED
    BY <2>1 DEF DecisionsInv, EventsSound
<1>6. DecisionsLogged'
  BY <1>3 DEF DecisionsInv, DecisionsLogged
<1> QED
  BY <1>2, <1>5, <1>6 DEF DecisionsInv

\* What a decision logs is its own, and no other call's.
LEMMA ReceiveKeepsDecisions ==
  ASSUME CallsInv, DecisionsInv, NEW c \in Calls, Receive(c)
  PROVE  DecisionsInv'
<1>1. calls[c].stage = "received" /\ client' = client
  BY DEF Receive
<1>2. calls[c] \in ActiveCalls(c)
  BY <1>1, CallTyped DEF RejectedCalls
<1>3. /\ "config" \in DOMAIN client /\ Accepted(client.config.bindings, calls[c].request)
      /\ calls[c].request.op = "decide" /\ calls[c].response \in ResponsesOf[c]
      /\ AnsweredBy(client.config.bindings, calls[c].request, calls[c].response)
  BY <1>1, <1>2 DEF DecisionsInv, AnsweredCalls, Waiting
<1>4. \A i \in DOMAIN emitted : emitted[i].call # c
  BY <1>1 DEF DecisionsInv, EventsSound, Decided
<1> DEFINE DecidedThen(d) == /\ calls'[d] \in ActiveCalls(d) /\ calls'[d].stage = "settled"
                             /\ calls'[d].request.op = "decide"
<1>5. ASSUME NEW error \in {"LoggerError", "InvalidFlaggoInput"},
             calls' = [calls EXCEPT ![c] = Rejected(@, error)], emitted' = emitted
      PROVE  DecisionsInv'
  <2>1. calls'[c] = Rejected(calls[c], error) /\ \A d \in Calls \ {c} : calls'[d] = calls[d]
    BY <1>5, CallTyped
  <2>2. calls'[c] \in RejectedCalls
    BY <1>2, <2>1 DEF Rejected, RejectedCalls, ActiveCalls, Errors
  <2>3. calls'[c] \notin ActiveCalls(c)
    BY <2>2 DEF RejectedCalls, ActiveCalls, Errors
  <2>4. ~Decided(c) /\ ~Decided(c)'
    BY <1>1, <2>3 DEF Decided
  <2>5. \A d \in Calls \ {c} : (Decided(d)' <=> Decided(d)) /\ (DecidedThen(d) <=> Decided(d))
    BY <2>1 DEF Decided
  <2>6. AnsweredCalls'
    BY <1>1, <2>1, <2>3 DEF AnsweredCalls, DecisionsInv
  <2>7. DecisionsLogged'
    BY <1>5, <2>4, <2>5 DEF DecisionsLogged, DecisionsInv
  <2>8. ASSUME NEW i \in DOMAIN emitted
        PROVE  /\ emitted[i].call \in Calls /\ DecidedThen(emitted[i].call)
               /\ \E id \in UuidV4s : emitted[i].record =
                    RecordOf(client.resource, calls'[emitted[i].call], id)
    <3>1. /\ emitted[i].call \in Calls \ {c} /\ Decided(emitted[i].call)
          /\ \E id \in UuidV4s : emitted[i].record =
               RecordOf(client.resource, calls[emitted[i].call], id)
      BY <1>4 DEF DecisionsInv, EventsSound
    <3> QED
      BY <2>1, <2>5, <3>1
  <2>9. EventsSound'
    <3>1. \A i \in DOMAIN emitted' :
            /\ emitted'[i].call \in Calls /\ Decided(emitted[i].call)'
            /\ \E id \in UuidV4s : emitted'[i].record =
                 RecordOf(client'.resource, calls'[emitted'[i].call], id)
      BY <1>1, <1>5, <2>8 DEF Decided
    <3> QED
      BY <1>5, <3>1 DEF DecisionsInv, EventsSound
  <2> QED
    BY <2>6, <2>7, <2>9 DEF DecisionsInv
<1>6. ASSUME emitted' = Append(emitted, [call |-> c, record |-> DecisionReceived(c)]),
             calls' = [calls EXCEPT ![c].stage = "settled"]
      PROVE  DecisionsInv'
  <2> DEFINE next == [calls[c] EXCEPT !.stage = "settled"]
             id == CreateDecisionId
             record == RecordOf(client.resource, calls[c], id)
             event == [call |-> c, record |-> record]
             n == Len(emitted)
  <2>1. calls'[c] = next /\ \A d \in Calls \ {c} : calls'[d] = calls[d]
    BY <1>6, CallTyped
  <2>2. /\ next \in ActiveCalls(c) /\ next.stage = "settled"
        /\ next.request = calls[c].request /\ next.response = calls[c].response
    BY <1>2 DEF ActiveCalls
  <2>3. id \in UuidV4s /\ \A i \in DOMAIN emitted : id \notin Ids(emitted[i].record)
    BY <1>1, FreshId
  <2>4. Ids(record) = {id}
    BY <1>1, <1>2, <1>3, <2>3, OneId DEF DecisionsInv, Waiting
  <2>5. DecisionReceived(c) = record
    BY DEF DecisionReceived, RecordOf, Leading, OptionalTexts, Asked
  <2>6. record = RecordOf(client.resource, next, id)
    BY <2>2 DEF RecordOf, Leading, Asked
  <2> HIDE DEF next, record, id
  <2>7. /\ n \in Nat /\ DOMAIN emitted = 1..n /\ emitted \in Seq(ToSet(emitted))
    BY DEF DecisionsInv, EventsSound
  <2>8. /\ DOMAIN emitted' = 1..n + 1 /\ emitted'[n + 1] = event
        /\ \A i \in 1..n : emitted'[i] = emitted[i]
        /\ emitted' \in Seq(ToSet(emitted) \union {event})
    BY <1>6, <2>5, <2>7
  <2>9. \A x \in ToSet(emitted) \union {event} : \E i \in 1..n + 1 : emitted'[i] = x
    <3>1. \A x \in ToSet(emitted) : \E i \in 1..n : emitted[i] = x
      BY <2>7 DEF ToSet
    <3>2. n + 1 \in 1..n + 1 /\ 1..n \subseteq 1..n + 1
      BY <2>7
    <3> QED
      BY <2>8, <3>1, <3>2
  <2>10. ToSet(emitted') = ToSet(emitted) \union {event}
    <3>1. \A i \in 1..n + 1 : emitted'[i] \in ToSet(emitted) \union {event}
      BY <2>8
    <3> QED
      BY <2>8, <2>9, <3>1 DEF ToSet
  <2>11. Decided(c)' /\ DecidedThen(c) /\ ~Decided(c)
    BY <1>1, <1>3, <2>1, <2>2 DEF Decided
  <2>12. \A d \in Calls \ {c} : (Decided(d)' <=> Decided(d)) /\ (DecidedThen(d) <=> Decided(d))
    BY <2>1 DEF Decided
  <2>13. AnsweredCalls'
    BY <1>1, <1>3, <2>1, <2>2 DEF AnsweredCalls, DecisionsInv
  <2>14. DecisionsLogged'
    <3>1. \A d \in Calls \ {c} : Decided(d) => \E i \in 1..n : emitted[i].call = d
      BY <2>7 DEF DecisionsInv, DecisionsLogged
    <3>2. n + 1 \in 1..n + 1 /\ 1..n \subseteq 1..n + 1
      BY <2>7
    <3>3. event.call = c
      OBVIOUS
    <3> QED
      BY <2>8, <2>12, <3>1, <3>2, <3>3 DEF DecisionsLogged
  <2>15. ASSUME NEW i \in 1..n
         PROVE  /\ emitted[i].call \in Calls \ {c} /\ DecidedThen(emitted[i].call)
                /\ \E other \in UuidV4s : emitted[i].record =
                     RecordOf(client.resource, calls'[emitted[i].call], other)
    <3>1. /\ emitted[i].call \in Calls \ {c} /\ Decided(emitted[i].call)
          /\ \E other \in UuidV4s : emitted[i].record =
               RecordOf(client.resource, calls[emitted[i].call], other)
      BY <1>4, <2>7 DEF DecisionsInv, EventsSound
    <3> QED
      BY <2>1, <2>12, <3>1
  <2>16. event.call = c /\ event.record = record
    OBVIOUS
  <2> HIDE DEF event
  <2>17. ASSUME NEW i \in DOMAIN emitted'
         PROVE  /\ emitted'[i].call \in Calls /\ DecidedThen(emitted'[i].call)
                /\ \E other \in UuidV4s : emitted'[i].record =
                     RecordOf(client.resource, calls'[emitted'[i].call], other)
    <3>1. i \in 1..n \/ i = n + 1
      BY <2>7, <2>8
    <3>2. CASE i \in 1..n
      BY <2>8, <2>15, <3>2
    <3>3. CASE i = n + 1
      BY <2>1, <2>3, <2>6, <2>8, <2>11, <2>16, <3>3
    <3> QED
      BY <3>1, <3>2, <3>3
  <2>18. ASSUME NEW i \in DOMAIN emitted', NEW j \in DOMAIN emitted', i # j
         PROVE  /\ emitted'[i].call # emitted'[j].call
                /\ Ids(emitted'[i].record) \intersect Ids(emitted'[j].record) = {}
    <3>1. (i \in 1..n \/ i = n + 1) /\ (j \in 1..n \/ j = n + 1)
      BY <2>7, <2>8
    <3>2. CASE i \in 1..n /\ j \in 1..n
      BY <2>7, <2>8, <2>18, <3>2 DEF DecisionsInv, EventsSound
    <3>3. ASSUME NEW k \in 1..n
          PROVE  emitted[k].call # c /\ Ids(emitted[k].record) \intersect Ids(record) = {}
      BY <2>3, <2>4, <2>7, <1>4
    <3> QED
      BY <2>8, <2>16, <2>18, <3>1, <3>2, <3>3
  <2>19. EventsSound'
    <3>1. emitted' \in Seq(ToSet(emitted'))
      BY <2>8, <2>10
    <3>2. \A i \in DOMAIN emitted' :
            /\ emitted'[i].call \in Calls /\ Decided(emitted[i].call)'
            /\ \E other \in UuidV4s : emitted'[i].record =
                 RecordOf(client'.resource, calls'[emitted'[i].call], other)
      BY <1>1, <2>17 DEF Decided
    <3>3. \A i, j \in DOMAIN emitted' : i # j =>
            /\ emitted'[i].call # emitted'[j].call
            /\ Ids(emitted'[i].record) \intersect Ids(emitted'[j].record) = {}
      BY <2>18
    <3> QED
      BY <3>1, <3>2, <3>3 DEF EventsSound
  <2> QED
    BY <2>13, <2>14, <2>19 DEF DecisionsInv
<1> QED
  BY <1>5, <1>6 DEF Receive

LEMMA DecisionsStep == CallsInv /\ DecisionsInv /\ [SdkNext]_sdkVars => DecisionsInv'
BY StepMoves, CalmKeeps, ReceiveKeepsDecisions

LEMMA DecisionsInvHolds == SdkSpec => []DecisionsInv
<1> QED
  BY DecisionsStart, DecisionsStep, CallsInvHolds, PTL DEF SdkSpec

\* For every number of calls and attributes: a decision that is resolved has been
\* logged once, with its version, its result, an id no other event gives and
\* exactly the scalar attributes it was asked with; nothing else has been logged.
THEOREM DecisionsObservedHolds == SdkSpec => []DecisionsObserved
<1>1. CallsInv /\ DecisionsInv => DecisionsObserved
  <2> SUFFICES ASSUME CallsInv, DecisionsInv, NEW c \in Calls
               PROVE  LET events == {i \in DOMAIN emitted : emitted[i].call = c}
                      IN IF calls[c].stage = "settled" /\ calls[c].outcome = "value"
                            /\ calls[c].request.op = "decide"
                         THEN /\ Cardinality(events) = 1
                              /\ \A i \in events :
                                   LET said == ToSet(emitted[i].record.attributes)
                                       asked == Asked(calls[c].request)
                                       scalars == ScalarCorrelationAttributes(asked)
                                   IN /\ Text("flaggo.contract.digest",
                                              client.config.bindings[calls[c].request.name]) \in said
                                      /\ Text("flaggo.result.json", calls[c].response.content.result)
                                           \in said
                                      /\ {a \in said : a.key \notin Protocol!KnownAttributes} =
                                           {CorrelationAttribute(asked, n) : n \in scalars}
                                      /\ \A j \in DOMAIN emitted : j # i =>
                                           \A id \in UuidV4s :
                                             Text("flaggo.decision.id", id) \in said =>
                                               Text("flaggo.decision.id", id)
                                                 \notin ToSet(emitted[j].record.attributes)
                         ELSE events = {}
    BY DEF DecisionsObserved, Asked, ScalarCorrelationAttributes
  <2> DEFINE events == {i \in DOMAIN emitted : emitted[i].call = c}
  <2>1. \A i, j \in events : i = j
    BY DEF DecisionsInv, EventsSound
  <2>2. events # {} => Decided(c)
    BY DEF DecisionsInv, EventsSound
  <2>3. Decided(c) => events # {}
    BY DEF DecisionsInv, DecisionsLogged
  <2>4. calls[c].stage = "settled" /\ calls[c].outcome = "value" /\ calls[c].request.op = "decide"
          => Decided(c)
    BY CallTyped DEF Decided, RejectedCalls, Errors
  <2>5. Decided(c) => /\ calls[c].stage = "settled" /\ calls[c].outcome = "value"
                      /\ calls[c].request.op = "decide"
    BY DEF Decided, CallsInv, ResolvedCalls, InProgress, Waiting
  <2>6. ASSUME Decided(c) PROVE Cardinality(events) = 1
    <3>1. PICK i : i \in events
      BY <2>3, <2>6
    <3>2. events = {i}
      BY <2>1, <3>1
    <3> QED
      BY <3>2, FS_Singleton
  <2>7. ASSUME Decided(c), NEW i \in events
        PROVE  /\ Text("flaggo.contract.digest",
                       client.config.bindings[calls[c].request.name])
                    \in ToSet(emitted[i].record.attributes)
               /\ Text("flaggo.result.json", calls[c].response.content.result)
                    \in ToSet(emitted[i].record.attributes)
               /\ {a \in ToSet(emitted[i].record.attributes) :
                     a.key \notin Protocol!KnownAttributes} = CorrelationSet(Asked(calls[c].request))
    <3>1. PICK id \in UuidV4s : emitted[i].record = RecordOf(client.resource, calls[c], id)
      BY <2>7 DEF DecisionsInv, EventsSound
    <3>2. /\ AtMostOne(calls[c].response.correlationId)
          /\ AtMostOne(calls[c].response.content.rule)
          /\ IsFiniteSet(DOMAIN Asked(calls[c].request))
          /\ DOMAIN Asked(calls[c].request) \subseteq MemberNames
          /\ DecisionOrThrow(calls[c].response.content,
                             client.config.bindings[calls[c].request.name])
      BY <2>7, AnswerKnown DEF Decided, DecisionsInv, Waiting
    <3>3. ToSet(RecordOf(client.resource, calls[c], id).attributes) = Said(calls[c], id)
      BY <3>2, RecordSays
    <3>4. calls[c].response.content.contractDigest =
            client.config.bindings[calls[c].request.name]
      BY <3>2 DEF DecisionOrThrow
    <3>5. {a \in Said(calls[c], id) : a.key \notin Protocol!KnownAttributes} =
            CorrelationSet(Asked(calls[c].request))
      BY <3>2, AskedApart
    <3> QED
      BY <3>1, <3>3, <3>4, <3>5 DEF Said, LeadingSet
  <2>8. ASSUME NEW i \in events, NEW j \in DOMAIN emitted, j # i, NEW id \in UuidV4s,
               Text("flaggo.decision.id", id) \in ToSet(emitted[i].record.attributes)
        PROVE  Text("flaggo.decision.id", id) \notin ToSet(emitted[j].record.attributes)
    BY <2>8 DEF DecisionsInv, EventsSound, Ids
  <2> HIDE DEF events
  <2>9. CASE Decided(c)
    BY <2>5, <2>6, <2>7, <2>8, <2>9 DEF events, CorrelationSet
  <2>10. CASE ~Decided(c)
    BY <2>2, <2>4, <2>10 DEF events
  <2> QED
    BY <2>9, <2>10
<1> QED
  BY <1>1, CallsInvHolds, DecisionsInvHolds, PTL

-----------------------------------------------------------------------------
(* What the exporters send on *)

\* What the application has built: it speaks for an authority of identifiers,
\* and its bindings are of decision names to digests.
ClientSound ==
  "config" \in DOMAIN client =>
    /\ IsFiniteSet(DOMAIN client.resource)
    /\ \A n \in DOMAIN AuthorityAttributes(client.config.authority) :
         /\ n \in DOMAIN client.resource
         /\ client.resource[n] = AuthorityAttributes(client.config.authority)[n]
         /\ client.resource[n] \in Identifiers
    /\ DOMAIN client.config.bindings \subseteq Identifiers

LEMMA ClientSoundStart == SdkInit => ClientSound
<1> SUFFICES ASSUME SdkInit, "config" \in DOMAIN client
             PROVE  /\ IsFiniteSet(DOMAIN client.resource)
                    /\ \A n \in DOMAIN AuthorityAttributes(client.config.authority) :
                         /\ n \in DOMAIN client.resource
                         /\ client.resource[n] = AuthorityAttributes(client.config.authority)[n]
                         /\ client.resource[n] \in Identifiers
                    /\ DOMAIN client.config.bindings \subseteq Identifiers
  BY DEF ClientSound
<1>1. PICK configuration \in Configurations : client \in Build(configuration)
  BY ClientBuilt
<1> DEFINE authority == configuration.runtime.authority
           attributes == AuthorityAttributes(authority)
<1>2. /\ client.config \in ParseFlaggoRuntimeConfiguration(configuration.runtime)
      /\ client.resource \in CreateFlaggoResource(configuration.base, authority)
  BY <1>1 DEF Build
<1>3. /\ client.config.authority = authority
      /\ \A n \in AuthorityNames : authority[n] \in Identifiers
      /\ DOMAIN client.config.bindings \subseteq Identifiers
  BY <1>2 DEF ParseFlaggoRuntimeConfiguration, HasOnlyKeys
<1>4. client.resource = [n \in DOMAIN attributes \union DOMAIN configuration.base |->
                           Given(attributes, n, Given(configuration.base, n, ""))]
  BY <1>2 DEF CreateFlaggoResource
<1>5. /\ DOMAIN attributes = {"flaggo.tenant", "flaggo.application", "flaggo.environment"}
      /\ \A n \in DOMAIN attributes : attributes[n] \in Identifiers
  BY <1>3 DEF AuthorityAttributes, AuthorityNames
<1>6. IsFiniteSet(DOMAIN attributes) /\ IsFiniteSet(DOMAIN configuration.base)
  <2>1. IsFiniteSet({"flaggo.tenant", "flaggo.application", "flaggo.environment"})
    <3>1. IsFiniteSet({"flaggo.tenant"}) /\ IsFiniteSet({"flaggo.application"})
          /\ IsFiniteSet({"flaggo.environment"})
      BY FS_Singleton
    <3>2. {"flaggo.tenant", "flaggo.application", "flaggo.environment"} =
            ({"flaggo.tenant"} \union {"flaggo.application"}) \union {"flaggo.environment"}
      OBVIOUS
    <3>3. IsFiniteSet({"flaggo.tenant"} \union {"flaggo.application"})
      BY <3>1, FS_Union
    <3>4. IsFiniteSet(({"flaggo.tenant"} \union {"flaggo.application"}) \union {"flaggo.environment"})
      BY <3>1, <3>3, FS_Union
    <3> QED
      BY <3>2, <3>4
  <2> QED
    BY <1>5, <2>1, RequestsAssumption
<1> HIDE DEF attributes
<1>7. /\ DOMAIN client.resource = DOMAIN attributes \union DOMAIN configuration.base
      /\ \A n \in DOMAIN attributes : client.resource[n] = attributes[n]
  BY <1>4 DEF Given
<1>8. IsFiniteSet(DOMAIN attributes \union DOMAIN configuration.base)
  BY <1>6, FS_Union
<1>9. AuthorityAttributes(client.config.authority) = attributes
  BY <1>3 DEF attributes
<1> QED
  BY <1>3, <1>5, <1>7, <1>8, <1>9

\* What was sent on is the deployment's own, and under the SDK's name only what
\* a decision has logged.
ExportsSound ==
  exported # <<>> =>
    /\ "config" \in DOMAIN client
    /\ \A i \in DOMAIN exported :
         /\ \A n \in DOMAIN AuthorityAttributes(client.config.authority) :
              Given(exported[i].resource, n, "") =
                AuthorityAttributes(client.config.authority)[n]
         /\ "event" \in DOMAIN exported[i] /\ exported[i].scope = "@flaggo/sdk" =>
              \E j \in DOMAIN emitted : exported[i] = emitted[j].record

\* The records of one authority that an exporter sends on.
LEMMA RecordsExported ==
  ASSUME NEW records, records \in Seq(ToSet(records)),
         NEW x \in ToSet(ExportRecords(records))
  PROVE  /\ x \in ToSet(records)
         /\ \A n \in DOMAIN AuthorityAttributes(client.config.authority) :
              Given(x.resource, n, "") = AuthorityAttributes(client.config.authority)[n]
<1>1. /\ \A i \in DOMAIN records :
           AssertResourceAuthority(records[i].resource, client.config.authority, FALSE)
      /\ ExportRecords(records) = Kept(records, Selected(records))
  <2>1. ToSet(<<>>) = {}
    BY DEF ToSet
  <2> QED
    BY <2>1 DEF ExportRecords
<1>2. Kept(records, Selected(records)) \in Seq(ToSet(records))
  BY KeptFrom
<1>3. x \in ToSet(records)
  BY <1>1, <1>2, SequenceIn
<1>4. PICK i \in DOMAIN records : x = records[i]
  BY <1>3 DEF ToSet
<1>5. AssertResourceAuthority(x.resource, client.config.authority, FALSE)
  BY <1>1, <1>4
<1>6. \A n \in DOMAIN AuthorityAttributes(client.config.authority) :
        /\ n \in DOMAIN x.resource
        /\ x.resource[n] = AuthorityAttributes(client.config.authority)[n]
  BY <1>5 DEF AssertResourceAuthority
<1> QED
  BY <1>3, <1>6 DEF Given

\* What is sent on of the metrics of a resource is of its authority, and no event.
LEMMA MetricsExported ==
  ASSUME NEW metrics, metrics.scopes \in Seq(ToSet(metrics.scopes)),
         NEW x \in ToSet(ExportMetrics(metrics))
  PROVE  /\ \A n \in DOMAIN AuthorityAttributes(client.config.authority) :
              Given(x.resource, n, "") = AuthorityAttributes(client.config.authority)[n]
         /\ "event" \notin DOMAIN x
<1> DEFINE chosen(scope) == Kept(scope.metrics, {j \in DOMAIN scope.metrics :
                                                  scope.metrics[j] \in client.selected})
           of(scope) == [resource |-> metrics.resource, scope |-> scope.scope,
                         metrics |-> chosen(scope)]
           scopes == [i \in DOMAIN metrics.scopes |-> of(metrics.scopes[i])]
           kept == Kept(scopes, {i \in DOMAIN scopes : scopes[i].metrics # <<>>})
           S == {of(metrics.scopes[i]) : i \in DOMAIN metrics.scopes}
<1>1. AssertResourceAuthority(metrics.resource, client.config.authority, FALSE)
      /\ ExportMetrics(metrics) = kept
  <2>1. ToSet(<<>>) = {}
    BY DEF ToSet
  <2> QED
    BY <2>1 DEF ExportMetrics
<1> HIDE DEF chosen
<1>2. \A y \in S : y.resource = metrics.resource /\ "event" \notin DOMAIN y
  OBVIOUS
<1>3. scopes \in Seq(S)
  <2>1. DOMAIN metrics.scopes = 1..Len(metrics.scopes) /\ Len(metrics.scopes) \in Nat
    OBVIOUS
  <2> HIDE DEF of
  <2> QED
    BY <2>1
<1> HIDE DEF S, scopes
<1>4. kept \in Seq(S)
  BY <1>3, KeptFrom
<1> HIDE DEF kept
<1>5. x.resource = metrics.resource /\ "event" \notin DOMAIN x
  BY <1>1, <1>2, <1>4, SequenceIn
<1>6. \A n \in DOMAIN AuthorityAttributes(client.config.authority) :
        /\ n \in DOMAIN x.resource
        /\ x.resource[n] = AuthorityAttributes(client.config.authority)[n]
  BY <1>1, <1>5 DEF AssertResourceAuthority
<1> QED
  BY <1>5, <1>6 DEF Given

LEMMA ExportsStep ==
  ASSUME DecisionsInv, ExportsSound, [SdkNext]_sdkVars
  PROVE  ExportsSound'
<1>1. CASE UNCHANGED sdkVars
  BY <1>1 DEF sdkVars, ExportsSound
<1>2. CASE exported' = <<>>
  BY <1>2 DEF ExportsSound
<1>3. ASSUME "config" \in DOMAIN client, client' = client, emitted' = emitted,
             \A x \in ToSet(exported') :
               /\ \A n \in DOMAIN AuthorityAttributes(client.config.authority) :
                    Given(x.resource, n, "") = AuthorityAttributes(client.config.authority)[n]
               /\ "event" \in DOMAIN x /\ x.scope = "@flaggo/sdk" =>
                    \E j \in DOMAIN emitted : x = emitted[j].record
      PROVE  ExportsSound'
  <2>1. \A i \in DOMAIN exported' : exported'[i] \in ToSet(exported')
    BY DEF ToSet
  <2> QED
    BY <1>3, <2>1 DEF ExportsSound
<1>4. CASE "config" \in DOMAIN client /\ ExportLogs
  <2>1. PICK batch \in Batches :
          batch.signal = "logs" /\ exported' = ExportRecords(EmittedRecords \o batch.items)
    BY <1>4 DEF ExportLogs
  <2> DEFINE ours == EmittedRecords
             S == ToSet(ours) \union ToSet(batch.items)
             records == ours \o batch.items
  <2>2. /\ batch.items \in Seq(ToSet(batch.items))
        /\ \A x \in ToSet(batch.items) : x.scope # "@flaggo/sdk"
    BY <2>1, RequestsAssumption DEF ToSet
  <2>3. ours \in Seq(ToSet(ours)) /\ \A x \in ToSet(ours) : \E j \in DOMAIN emitted : x = emitted[j].record
    <3>1. DOMAIN emitted = 1..Len(emitted) /\ Len(emitted) \in Nat
      BY DEF DecisionsInv, EventsSound
    <3> QED
      BY <3>1 DEF EmittedRecords, ToSet
  <2> HIDE DEF ours
  <2>4. ours \in Seq(S) /\ batch.items \in Seq(S)
    BY <2>2, <2>3
  <2> HIDE DEF S
  <2>5. records \in Seq(S) /\ ToSet(records) = S
    BY <2>4, Joins DEF S
  <2> HIDE DEF records
  <2>6. ASSUME NEW x \in ToSet(exported')
        PROVE  /\ \A n \in DOMAIN AuthorityAttributes(client.config.authority) :
                    Given(x.resource, n, "") = AuthorityAttributes(client.config.authority)[n]
               /\ "event" \in DOMAIN x /\ x.scope = "@flaggo/sdk" =>
                    \E j \in DOMAIN emitted : x = emitted[j].record
    <3>1. exported' = ExportRecords(records)
      BY <2>1 DEF records, ours
    <3>2. /\ x \in ToSet(records)
          /\ \A n \in DOMAIN AuthorityAttributes(client.config.authority) :
               Given(x.resource, n, "") = AuthorityAttributes(client.config.authority)[n]
      BY <2>5, <2>6, <3>1, RecordsExported
    <3> QED
      BY <2>2, <2>3, <2>5, <3>2 DEF S
  <2> QED
    BY <1>3, <1>4, <2>6 DEF ExportLogs
<1>5. CASE "config" \in DOMAIN client /\ ExportTraces
  <2>1. PICK batch \in Batches : batch.signal = "traces" /\ exported' = ExportRecords(batch.items)
    BY <1>5 DEF ExportTraces
  <2>2. /\ batch.items \in Seq(ToSet(batch.items))
        /\ \A x \in ToSet(batch.items) : x.scope # "@flaggo/sdk"
    BY <2>1, RequestsAssumption DEF ToSet
  <2>3. ASSUME NEW x \in ToSet(exported')
        PROVE  /\ \A n \in DOMAIN AuthorityAttributes(client.config.authority) :
                    Given(x.resource, n, "") = AuthorityAttributes(client.config.authority)[n]
               /\ x.scope # "@flaggo/sdk"
    BY <2>1, <2>2, <2>3, RecordsExported
  <2> QED
    BY <1>3, <1>5, <2>3 DEF ExportTraces
<1>6. CASE "config" \in DOMAIN client /\ ExportMetricBatch
  <2>1. PICK batch \in Batches : batch.signal = "metrics" /\ exported' = ExportMetrics(batch)
    BY <1>6 DEF ExportMetricBatch
  <2>2. batch.scopes \in Seq(ToSet(batch.scopes))
    BY <2>1, RequestsAssumption
  <2>3. ASSUME NEW x \in ToSet(exported')
        PROVE  /\ \A n \in DOMAIN AuthorityAttributes(client.config.authority) :
                    Given(x.resource, n, "") = AuthorityAttributes(client.config.authority)[n]
               /\ "event" \notin DOMAIN x
    BY <2>1, <2>2, <2>3, MetricsExported
  <2> QED
    BY <1>3, <1>6, <2>3 DEF ExportMetricBatch
<1>7. CASE SdkNext
  <2>1. ASSUME NEW c \in Calls,
               \/ CallRefused(c) \/ CallBegins(c) \/ Continue(c) \/ Receive(c)
               \/ Answer(c) \/ FetchFails(c) \/ BodyDone(c) \/ SleepEnds(c) \/ TimerFires(c)
        PROVE  exported' = <<>>
    BY <2>1 DEF CallRefused, CallBegins, Continue, Proceed, Receive, Answer, FetchFails,
       BodyDone, SleepEnds, TimerFires
  <2>2. ASSUME NEW s \in Signals, CallerAborts(s) PROVE exported' = <<>>
    BY <2>2 DEF CallerAborts
  <2> QED
    BY <1>2, <1>4, <1>5, <1>6, <1>7, <2>1, <2>2 DEF SdkNext, Export
<1> QED
  BY <1>1, <1>7

LEMMA ClientStays == CallsInv /\ ClientSound /\ [SdkNext]_sdkVars => ClientSound'
<1> SUFFICES ASSUME CallsInv, ClientSound, [SdkNext]_sdkVars PROVE ClientSound'
  OBVIOUS
<1>1. client' = client
  BY StepMoves
<1> QED
  BY <1>1 DEF ClientSound

LEMMA ExportsSoundHolds == SdkSpec => [](ClientSound /\ ExportsSound)
<1>1. SdkInit => ExportsSound
  BY DEF SdkInit, ExportsSound
<1>2. CallsInv /\ DecisionsInv /\ ClientSound /\ ExportsSound /\ [SdkNext]_sdkVars =>
        (ClientSound /\ ExportsSound)'
  BY ClientStays, ExportsStep
<1> QED
  BY <1>1, <1>2, ClientSoundStart, CallsInvHolds, DecisionsInvHolds, PTL DEF SdkSpec

-----------------------------------------------------------------------------
(* What the materializer makes of a decision's record *)

LEMMA ProtocolCounts ==
  ASSUME NEW S
  PROVE  Protocol!Cardinality(S) = Cardinality(S)
BY DEF Protocol!Cardinality, Cardinality

\* Attributes with keys of their own are found by them.
LEMMA LookedUp ==
  ASSUME NEW s, KeysOnce(s), \A a \in ToSet(s) : a.type # "none", NEW key
  PROVE  Protocol!LookupAttribute(s, key) = {a \in ToSet(s) : a.key = key}
<1> DEFINE at == {i \in DOMAIN s : s[i].key = key}
<1>1. \A i, j \in at : i = j
  BY DEF KeysOnce
<1>2. \A i \in at : Cardinality(at) = 1
  <2> SUFFICES ASSUME NEW i \in at PROVE Cardinality(at) = 1
    OBVIOUS
  <2>1. at = {i}
    BY <1>1
  <2> QED
    BY <2>1, FS_Singleton
<1>3. Protocol!LookupAttribute(s, key) =
        {s[i] : i \in {j \in at : Cardinality(at) = 1 /\ s[j].type # "none"}}
  BY ProtocolCounts DEF Protocol!LookupAttribute
<1>4. \A i \in DOMAIN s : s[i] \in ToSet(s)
  BY DEF ToSet
<1>5. {j \in at : Cardinality(at) = 1 /\ s[j].type # "none"} = at
  BY <1>2, <1>4
<1>6. {s[i] : i \in at} = {a \in ToSet(s) : a.key = key}
  BY DEF ToSet
<1> QED
  BY <1>3, <1>5, <1>6

LEMMA Derives ==
  ASSUME NEW c, NEW T, NEW A, NEW E, NEW t \in T, NEW a \in A, NEW e \in E,
         T = Protocol!NonEmptyString(c.resource, "flaggo.tenant"),
         A = Protocol!NonEmptyString(c.resource, "flaggo.application"),
         E = Protocol!NonEmptyString(c.resource, "flaggo.environment"),
         t \in Identifiers, a \in Identifiers, e \in Identifiers
  PROVE  <<t, a, e>> \in Protocol!DeriveAuthority(c)
BY DEF Protocol!DeriveAuthority

\* The resource of the SDK's records states an authority.
LEMMA ResourceResolves ==
  ASSUME NEW resource, IsFiniteSet(DOMAIN resource), NEW c,
         \A n \in {"flaggo.tenant", "flaggo.application", "flaggo.environment"} :
           n \in DOMAIN resource /\ resource[n] \in Identifiers,
         c.resource = SetToSeq({Text(n, resource[n]) : n \in DOMAIN resource})
  PROVE  Protocol!DeriveAuthority(c) # {}
<1> DEFINE S == {Text(n, resource[n]) : n \in DOMAIN resource}
           f == [n \in DOMAIN resource |-> Text(n, resource[n])]
           s == SetToSeq(S)
<1>1. f \in Surjection(DOMAIN resource, S)
  BY DEF Surjection
<1>2. IsFiniteSet(S)
  BY <1>1, FS_Surjection
<1>3. \A x, y \in S : x.key = y.key => x = y
  <2> SUFFICES ASSUME NEW m \in DOMAIN resource, NEW n \in DOMAIN resource,
                      Text(m, resource[m]).key = Text(n, resource[n]).key
               PROVE  m = n
    OBVIOUS
  <2> QED
    BY DEF Text
<1>4. \A x \in S : x.type = "string"
  BY DEF Text
<1> HIDE DEF S
<1>5. /\ s \in Seq(S) /\ ToSet(s) = S
      /\ \A i, j \in DOMAIN s : s[i] = s[j] => i = j
  BY <1>2, Lists
<1> HIDE DEF s
<1>6. \A i \in DOMAIN s : s[i] \in S
  BY <1>5
<1>7. KeysOnce(s)
  BY <1>3, <1>5, <1>6 DEF KeysOnce
<1>8. ASSUME NEW n \in {"flaggo.tenant", "flaggo.application", "flaggo.environment"}
      PROVE  resource[n] \in Protocol!NonEmptyString(s, n)
  <2>1. Protocol!LookupAttribute(s, n) = {a \in S : a.key = n}
    BY <1>4, <1>5, <1>7, LookedUp
  <2>2. Text(n, resource[n]) \in S /\ Text(n, resource[n]).key = n
        /\ Text(n, resource[n]).value = resource[n] /\ Text(n, resource[n]).type = "string"
    BY DEF S, Text
  <2>3. resource[n] # ""
    BY SdkAssumption
  <2> QED
    BY <2>1, <2>2, <2>3 DEF Protocol!NonEmptyString
<1>9. <<resource["flaggo.tenant"], resource["flaggo.application"], resource["flaggo.environment"]>>
        \in Protocol!DeriveAuthority(c)
  <2>1. c.resource = s
    BY DEF s, S
  <2> DEFINE t == resource["flaggo.tenant"]
             a == resource["flaggo.application"]
             e == resource["flaggo.environment"]
  <2>2. /\ t \in Protocol!NonEmptyString(c.resource, "flaggo.tenant") /\ t \in Identifiers
        /\ a \in Protocol!NonEmptyString(c.resource, "flaggo.application") /\ a \in Identifiers
        /\ e \in Protocol!NonEmptyString(c.resource, "flaggo.environment") /\ e \in Identifiers
    BY <1>8, <2>1
  <2> HIDE DEF t, a, e
  <2>3. <<t, a, e>> \in Protocol!DeriveAuthority(c)
    BY <2>2, Derives
  <2> QED
    BY <2>3 DEF t, a, e
<1> QED
  BY <1>9

\* The materializer takes the record of an answered decision for what it is.
LEMMA RecordIsDecision ==
  ASSUME AnsweredCalls, ClientSound, NEW c \in Calls, calls[c] \in ActiveCalls(c),
         calls[c].stage \notin Waiting, calls[c].request.op = "decide",
         NEW id \in UuidV4s, NEW candidate,
         candidate.name = "flaggo.decision.received",
         candidate.attributes = RecordOf(client.resource, calls[c], id).attributes
  PROVE  Protocol!ValidDecision(candidate)
<1> DEFINE call == calls[c]
           decision == call.response.content
           s == candidate.attributes
           S == Said(call, id)
           At(key) == {a \in S : a.key = key}
<1>1. /\ decision.contractDigest \in Sha256Digests /\ decision.executableDigest \in Sha256Digests
      /\ decision.source \in {"rule", "default"}
      /\ IF decision.source = "rule"
         THEN decision.rule # {} /\ decision.rule \subseteq Identifiers ELSE decision.rule = {}
      /\ decision.result \in DOMAIN ResultHash /\ ResultHash[decision.result] \in Sha256Digests
      /\ call.response.correlationId \subseteq CorrelationTexts
      /\ call.request.name \in Identifiers
  <2>1. /\ DecisionOrThrow(decision, client.config.bindings[call.request.name])
        /\ MetadataValid(call.response) /\ decision.result \in DOMAIN ResultHash
        /\ call.request.name \in DOMAIN client.config.bindings
    BY AnswerKnown
  <2>2. "config" \in DOMAIN client
    BY DEF AnsweredCalls
  <2>3. call.request.name \in Identifiers
    BY <2>1, <2>2 DEF ClientSound
  <2>4. ResultHash[decision.result] \in Sha256Digests
    BY <2>1, SdkAssumption
  <2>5. call.response.correlationId \subseteq CorrelationTexts
    BY <2>1 DEF MetadataValid, AssertCorrelationId
  <2> HIDE DEF call, decision
  <2> QED
    BY <2>1, <2>3, <2>4, <2>5 DEF DecisionOrThrow
<1>2. ToSet(s) = S /\ KeysOnce(s)
  BY AnswerKnown, RecordSays
<1>3. DOMAIN Asked(call.request) \subseteq MemberNames
  BY AnswerKnown
<1> HIDE DEF call, decision, s, S
<1>4. ASSUME NEW x \in CorrelationSet(Asked(call.request))
      PROVE  /\ x.key \in CorrelationKeys /\ x.key \notin Protocol!KnownAttributes
             /\ ~x.indexed /\ x.type \in {"string", "bool", "int", "finite double"}
  <2>1. PICK n \in ScalarCorrelationAttributes(Asked(call.request)) :
          x = CorrelationAttribute(Asked(call.request), n)
    BY <1>4 DEF CorrelationSet
  <2>2. n \in MemberNames /\ Asked(call.request)[n].type \in ScalarTypes
    BY <1>3, <2>1 DEF ScalarCorrelationAttributes
  <2>3. OtlpType(Asked(call.request)[n]) \in {"string", "bool", "int", "finite double"}
    BY <2>2 DEF OtlpType, ScalarTypes
  <2> QED
    BY <2>1, <2>2, <2>3, CorrelationAssumption DEF CorrelationAttribute
<1>5. ASSUME NEW x \in S
      PROVE  \/ x \in CorrelationSet(Asked(call.request))
             \/ x.key \in Protocol!KnownAttributes /\ ~x.indexed /\ x.type = "string"
  BY DEF S, Said, LeadingSet, EvaluationSet, OptionalTexts, Text, Protocol!KnownAttributes
<1>6. \A x \in S : ~x.indexed /\ x.type # "none"
  BY <1>4, <1>5
<1>7. \A key : Protocol!LookupAttribute(s, key) = At(key)
  BY <1>2, <1>6, LookedUp
<1>8. ASSUME NEW key \in Protocol!KnownAttributes, NEW x \in At(key)
      PROVE  x \in LeadingSet(call, id) \union EvaluationSet(decision)
                   \union OptionalTexts("flaggo.request.correlation_id", call.response.correlationId)
  BY <1>4 DEF S, Said, call, decision
<1>9. /\ At("flaggo.signal") = {Text("flaggo.signal", "decision.received")}
      /\ At("flaggo.decision.id") = {Text("flaggo.decision.id", id)}
      /\ At("flaggo.contract.name") = {Text("flaggo.contract.name", call.request.name)}
      /\ At("flaggo.contract.digest") = {Text("flaggo.contract.digest", decision.contractDigest)}
      /\ At("flaggo.executable.digest") =
           {Text("flaggo.executable.digest", decision.executableDigest)}
      /\ At("flaggo.result.json") = {Text("flaggo.result.json", decision.result)}
      /\ At("flaggo.result.hash") = {Text("flaggo.result.hash", ResultHash[decision.result])}
      /\ At("flaggo.evaluation.source") = {Text("flaggo.evaluation.source", decision.source)}
      /\ At("flaggo.evaluation.rule") = OptionalTexts("flaggo.evaluation.rule", decision.rule)
      /\ At("flaggo.request.correlation_id") =
           OptionalTexts("flaggo.request.correlation_id", call.response.correlationId)
  <2> DEFINE Plain == LeadingSet(call, id) \union EvaluationSet(decision)
                        \union OptionalTexts("flaggo.request.correlation_id",
                                             call.response.correlationId)
  <2>1. Plain \subseteq S
    BY DEF S, Said, call, decision
  <2> HIDE DEF At
  <2>2. \A key \in Protocol!KnownAttributes : At(key) = {x \in Plain : x.key = key}
    BY <1>8, <2>1 DEF At
  <2>3. LeadingSet(call, id) =
          {Text("flaggo.signal", "decision.received"),
           Text("flaggo.decision.id", id),
           Text("flaggo.contract.name", call.request.name),
           Text("flaggo.contract.digest", decision.contractDigest),
           Text("flaggo.executable.digest", decision.executableDigest),
           Text("flaggo.result.json", decision.result),
           Text("flaggo.result.hash", ResultHash[decision.result])}
    BY DEF LeadingSet, decision
  <2>4. \A key, value : Text(key, value).key = key
    BY DEF Text
  <2>5. \A x \in LeadingSet(call, id) : x.key \in LeadingKeys
    BY <2>3, <2>4 DEF LeadingKeys
  <2>6. \A key, values : \A x \in OptionalTexts(key, values) : x.key = key
    BY <2>4 DEF OptionalTexts
  <2>7. EvaluationSet(decision) = {Text("flaggo.evaluation.source", decision.source)}
          \union OptionalTexts("flaggo.evaluation.rule", decision.rule)
    BY DEF EvaluationSet
  <2>8. \A key \in LeadingKeys : {x \in Plain : x.key = key} =
                                 {x \in LeadingSet(call, id) : x.key = key}
    BY <2>4, <2>6, <2>7 DEF LeadingKeys
  <2>9. /\ {x \in Plain : x.key = "flaggo.evaluation.source"} =
             {Text("flaggo.evaluation.source", decision.source)}
        /\ {x \in Plain : x.key = "flaggo.evaluation.rule"} =
             OptionalTexts("flaggo.evaluation.rule", decision.rule)
        /\ {x \in Plain : x.key = "flaggo.request.correlation_id"} =
             OptionalTexts("flaggo.request.correlation_id", call.response.correlationId)
    BY <2>4, <2>5, <2>6, <2>7 DEF LeadingKeys
  <2>10. /\ {x \in LeadingSet(call, id) : x.key = "flaggo.signal"} =
              {Text("flaggo.signal", "decision.received")}
         /\ {x \in LeadingSet(call, id) : x.key = "flaggo.decision.id"} =
              {Text("flaggo.decision.id", id)}
         /\ {x \in LeadingSet(call, id) : x.key = "flaggo.contract.name"} =
              {Text("flaggo.contract.name", call.request.name)}
         /\ {x \in LeadingSet(call, id) : x.key = "flaggo.contract.digest"} =
              {Text("flaggo.contract.digest", decision.contractDigest)}
         /\ {x \in LeadingSet(call, id) : x.key = "flaggo.executable.digest"} =
              {Text("flaggo.executable.digest", decision.executableDigest)}
         /\ {x \in LeadingSet(call, id) : x.key = "flaggo.result.json"} =
              {Text("flaggo.result.json", decision.result)}
         /\ {x \in LeadingSet(call, id) : x.key = "flaggo.result.hash"} =
              {Text("flaggo.result.hash", ResultHash[decision.result])}
    BY <2>3, <2>4
  <2>11. LeadingKeys \union {"flaggo.evaluation.source", "flaggo.evaluation.rule",
           "flaggo.request.correlation_id"} = Protocol!KnownAttributes
    BY DEF LeadingKeys, Protocol!KnownAttributes
  <2> HIDE DEF Plain
  <2>12. /\ \A key \in LeadingKeys : At(key) = {x \in LeadingSet(call, id) : x.key = key}
         /\ {"flaggo.signal", "flaggo.decision.id", "flaggo.contract.name",
             "flaggo.contract.digest", "flaggo.executable.digest", "flaggo.result.json",
             "flaggo.result.hash"} \subseteq LeadingKeys
    BY <2>2, <2>8, <2>11 DEF LeadingKeys
  <2>13. /\ At("flaggo.evaluation.source") =
              {Text("flaggo.evaluation.source", decision.source)}
         /\ At("flaggo.evaluation.rule") = OptionalTexts("flaggo.evaluation.rule", decision.rule)
         /\ At("flaggo.request.correlation_id") =
              OptionalTexts("flaggo.request.correlation_id", call.response.correlationId)
    BY <2>2, <2>9, <2>11
  <2> QED
    BY <2>10, <2>12, <2>13
<1> HIDE DEF At
<1>10. \A key, value : /\ Text(key, value).value = value /\ Text(key, value).type = "string"
  BY DEF Text
<1>11. Protocol!UniqueAttributes(candidate)
  <2>1. \A i \in DOMAIN s : s[i] \in S
    BY <1>2 DEF ToSet
  <2> QED
    BY <1>2, <1>6, <2>1 DEF Protocol!UniqueAttributes, KeysOnce, s
<1>12. ASSUME NEW key, NEW value, At(key) = {Text(key, value)}
       PROVE  /\ Protocol!TextAt(candidate, key) = {value}
              /\ \A texts : value \in texts =>
                   \E a \in Protocol!LookupAttribute(s, key) : a.type = "string" /\ a.value \in texts
  BY <1>7, <1>10, <1>12 DEF Protocol!TextAt, s
<1>13. Protocol!RequiredStrings(candidate)
  <2> DEFINE Has(key, texts) ==
               \E a \in Protocol!LookupAttribute(s, key) : a.type = "string" /\ a.value \in texts
  <2>1. \A key, value, texts : At(key) = {Text(key, value)} /\ value \in texts => Has(key, texts)
    BY <1>12
  <2> HIDE DEF Has
  <2>2. /\ Has("flaggo.signal", {"decision.received"})
        /\ Has("flaggo.decision.id", UuidV4s)
        /\ Has("flaggo.contract.name", Identifiers)
        /\ Has("flaggo.contract.digest", Sha256Digests)
        /\ Has("flaggo.executable.digest", Sha256Digests)
        /\ Has("flaggo.result.json", DOMAIN ResultHash)
        /\ Has("flaggo.result.hash", Sha256Digests)
        /\ Has("flaggo.evaluation.source", {"default", "rule"})
    BY <1>1, <1>9, <2>1
  <2> QED
    BY <2>2 DEF Protocol!RequiredStrings, Has, s
<1>14. Protocol!ResultMatches(candidate)
  <2>1. /\ Protocol!TextAt(candidate, "flaggo.result.json") = {decision.result}
        /\ Protocol!TextAt(candidate, "flaggo.result.hash") = {ResultHash[decision.result]}
    BY <1>9, <1>12
  <2> QED
    BY <2>1 DEF Protocol!ResultMatches
<1>15. ASSUME NEW key, NEW values, At(key) = OptionalTexts(key, values)
       PROVE  Protocol!TextAt(candidate, key) = values /\ Protocol!AllStrings(candidate, key)
  <2>1. Protocol!LookupAttribute(candidate.attributes, key) = OptionalTexts(key, values)
    BY <1>7, <1>15 DEF s
  <2> QED
    BY <2>1, <1>10 DEF Protocol!TextAt, Protocol!AllStrings, OptionalTexts
<1>16. Protocol!RuleMatches(candidate)
  <2>1. /\ Protocol!TextAt(candidate, "flaggo.evaluation.rule") = decision.rule
        /\ Protocol!AllStrings(candidate, "flaggo.evaluation.rule")
        /\ Protocol!TextAt(candidate, "flaggo.evaluation.source") = {decision.source}
    BY <1>9, <1>12, <1>15
  <2> QED
    BY <1>1, <2>1 DEF Protocol!RuleMatches
<1>17. Protocol!CorrelationIdValid(candidate)
  <2>1. /\ Protocol!TextAt(candidate, "flaggo.request.correlation_id") =
             call.response.correlationId
        /\ Protocol!AllStrings(candidate, "flaggo.request.correlation_id")
    BY <1>9, <1>15
  <2> QED
    BY <1>1, <2>1, SdkAssumption DEF Protocol!CorrelationIdValid
<1>18. Protocol!NothingUnexpected(candidate)
  <2>1. \A i \in DOMAIN s : s[i] \in S
    BY <1>2 DEF ToSet
  <2> QED
    BY <1>4, <1>5, <2>1 DEF Protocol!NothingUnexpected, s
<1> QED
  BY <1>11, <1>13, <1>14, <1>16, <1>17, <1>18 DEF Protocol!ValidDecision, Protocol!DecisionEvent

\* For every application, every answer and every batch: what an exporter sends
\* on is the deployment's own, and the materializer takes every decision event
\* in it for evidence of a decision.
THEOREM ExportsAreEvidenceHolds == SdkSpec => []ExportsAreEvidence
<1>1. CallsInv /\ DecisionsInv /\ ClientSound /\ ExportsSound => ExportsAreEvidence
  <2> SUFFICES ASSUME CallsInv, DecisionsInv, ClientSound, ExportsSound,
                      NEW i \in DOMAIN exported
               PROVE  /\ \A n \in DOMAIN AuthorityAttributes(client.config.authority) :
                           Given(exported[i].resource, n, "") =
                             AuthorityAttributes(client.config.authority)[n]
                      /\ "event" \in DOMAIN exported[i] /\ exported[i].scope = Protocol!SdkScope =>
                           LET attributes == SetToSeq({Text(n, exported[i].resource[n]) :
                                                         n \in DOMAIN exported[i].resource})
                           IN Protocol!Disposition(
                                Protocol!LogCandidate(
                                  [exported[i] EXCEPT !.resource = attributes]), <<>>)
                              = "decision"
    BY DEF ExportsAreEvidence
  <2>0. exported # <<>>
    <3>1. DOMAIN <<>> = {}
      OBVIOUS
    <3> QED
      BY <3>1
  <2>1. "config" \in DOMAIN client
        /\ \A n \in DOMAIN AuthorityAttributes(client.config.authority) :
             Given(exported[i].resource, n, "") = AuthorityAttributes(client.config.authority)[n]
    BY <2>0 DEF ExportsSound
  <2> SUFFICES ASSUME "event" \in DOMAIN exported[i], exported[i].scope = "@flaggo/sdk"
               PROVE  LET attributes == SetToSeq({Text(n, exported[i].resource[n]) :
                                                    n \in DOMAIN exported[i].resource})
                      IN Protocol!Disposition(
                           Protocol!LogCandidate([exported[i] EXCEPT !.resource = attributes]),
                           <<>>)
                         = "decision"
    BY <2>1 DEF Protocol!SdkScope
  <2>2. PICK j \in DOMAIN emitted : exported[i] = emitted[j].record
    BY <2>0 DEF ExportsSound
  <2>3. PICK c \in Calls, id \in UuidV4s :
          /\ calls[c] \in ActiveCalls(c) /\ calls[c].stage = "settled"
          /\ calls[c].request.op = "decide"
          /\ exported[i] = RecordOf(client.resource, calls[c], id)
    BY <2>2 DEF DecisionsInv, EventsSound, Decided
  <2> DEFINE record == RecordOf(client.resource, calls[c], id)
             attributes == SetToSeq({Text(n, client.resource[n]) : n \in DOMAIN client.resource})
             candidate == Protocol!LogCandidate([record EXCEPT !.resource = attributes])
  <2>4. record.resource = client.resource
    BY DEF RecordOf
  <2>5. /\ candidate.signal = "log" /\ candidate.scope = "@flaggo/sdk"
        /\ candidate.name = "flaggo.decision.received"
        /\ candidate.resource = attributes /\ candidate.attributes = record.attributes
    BY DEF Protocol!LogCandidate, RecordOf
  <2> HIDE DEF record, candidate, attributes
  <2>6. Protocol!DeriveAuthority(candidate) # {}
    <3>1. IsFiniteSet(DOMAIN client.resource)
      BY <2>1 DEF ClientSound
    <3>2. \A n \in {"flaggo.tenant", "flaggo.application", "flaggo.environment"} :
            n \in DOMAIN client.resource /\ client.resource[n] \in Identifiers
      BY <2>1 DEF ClientSound, AuthorityAttributes
    <3> QED
      BY <2>5, <3>1, <3>2, ResourceResolves DEF attributes
  <2>7. Protocol!IsBuiltIn(candidate)
    BY <2>5 DEF Protocol!IsBuiltIn, Protocol!SdkScope, Protocol!DecisionEvent
  <2>8. Protocol!ValidDecision(candidate)
    BY <2>3, <2>5, RecordIsDecision DEF DecisionsInv, Waiting, record
  <2>9. Protocol!Disposition(candidate, <<>>) = "decision"
    BY <2>6, <2>7, <2>8 DEF Protocol!Disposition
  <2> QED
    BY <2>3, <2>4, <2>9 DEF record, candidate, attributes
<1> QED
  BY <1>1, CallsInvHolds, DecisionsInvHolds, ExportsSoundHolds, PTL
=============================================================================
