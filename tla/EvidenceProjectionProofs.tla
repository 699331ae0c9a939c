---------------------- MODULE EvidenceProjectionProofs ----------------------
(***************************************************************************)
(* What the projection of a batch holds, whatever the bytes say and        *)
(* whatever catalog compiles: its observations come in the order of the    *)
(* candidates they are made of, and pass the validation of the store.      *)
(***************************************************************************)
EXTENDS EvidenceStore, EvidenceProjection, LoopProofs

-----------------------------------------------------------------------------
(* The candidates of a batch *)

FromLog(c) == \E record : c = LogCandidate(record)
FromSpan(c) == \E span : c = SpanCandidate(span)
FromEvent(c) == \E span, i : c = EventCandidate(span, i)
FromPoint(c) == \E metric, data, point : c = PointCandidate(metric, data, point)

IsCandidate(c) == FromLog(c) \/ FromSpan(c) \/ FromEvent(c) \/ FromPoint(c)

LEMMA SequenceElements ==
  ASSUME NEW S, NEW s \in Seq(S)
  PROVE  IsSequence(s) /\ ToSet(s) \subseteq S
BY DEF IsSequence, ToSet

\* What the decoder makes of one item are candidates.
LEMMA DecomposedItem ==
  ASSUME NEW signal \in OtlpSignals, NEW item,
         signal = "traces" => IsSequence(item.events),
         signal = "metrics" =>
           IsSequence(item.data) /\ \A d \in DOMAIN item.data : IsSequence(item.data[d].points)
  PROVE  IsSequence(Decompose(signal, item)) /\ \A c \in ToSet(Decompose(signal, item)) : IsCandidate(c)
<1> DEFINE made == Decompose(signal, item)
<1>1. SUFFICES \E S : made \in Seq(S) /\ \A c \in S : IsCandidate(c)
  BY SequenceElements
<1>2. CASE signal = "logs"
  <2> DEFINE c == LogCandidate(item)
  <2>1. made = <<c>>
    BY <1>2 DEF Decompose
  <2>2. IsCandidate(c)
    BY DEF IsCandidate, FromLog
  <2> HIDE DEF c
  <2> DEFINE S == {c}
  <2>3. made \in Seq(S)
    BY <2>1
  <2>4. \A d \in S : IsCandidate(d)
    BY <2>2
  <2> HIDE DEF made, S
  <2> QED
    BY <2>3, <2>4
<1>3. CASE signal = "traces"
  <2> DEFINE first == SpanCandidate(item)
             E(i) == EventCandidate(item, i)
             events == [i \in DOMAIN item.events |-> E(i)]
             S == {first} \union {E(i) : i \in DOMAIN item.events}
  <2>1. made = <<first>> \o events
    BY <1>3 DEF Decompose, DecomposeTraces
  <2>2. \A c \in S : IsCandidate(c)
    BY DEF IsCandidate, FromSpan, FromEvent
  <2> HIDE DEF first, E
  <2>3. events \in Seq(S)
    <3>1. item.events \in Seq(ToSet(item.events))
      BY <1>3 DEF IsSequence
    <3>2. DOMAIN item.events = 1..Len(item.events) /\ Len(item.events) \in Nat
      BY <3>1
    <3>3. \A i \in 1..Len(item.events) : E(i) \in S
      BY <3>2
    <3>4. events = [i \in 1..Len(item.events) |-> E(i)]
      BY <3>2
    <3> HIDE DEF S
    <3> QED
      BY <3>2, <3>3, <3>4
  <2>4. <<first>> \in Seq(S)
    OBVIOUS
  <2> HIDE DEF events, S
  <2>5. made \in Seq(S)
    BY <2>1, <2>3, <2>4
  <2> QED
    BY <2>2, <2>5
<1>4. CASE signal = "metrics"
  <2> DEFINE P(d, p) == PointCandidate(item, item.data[d], item.data[d].points[p])
             Of(d) == {P(d, p) : p \in DOMAIN item.data[d].points}
             S == UNION {Of(d) : d \in DOMAIN item.data}
             parts == [d \in DOMAIN item.data |-> [p \in DOMAIN item.data[d].points |-> P(d, p)]]
  <2>1. made = FlattenSeq(parts)
    BY <1>4 DEF Decompose, DecomposeMetric
  <2>2. \A c \in S : IsCandidate(c)
    <3>1. \A d, p : IsCandidate(P(d, p))
      BY DEF IsCandidate, FromPoint
    <3> HIDE DEF P
    <3> QED
      BY <3>1
  <2> HIDE DEF P
  <2>3. ASSUME NEW d \in DOMAIN item.data
        PROVE  [p \in DOMAIN item.data[d].points |-> P(d, p)] \in Seq(S)
    <3> DEFINE points == item.data[d].points
               made_d == [p \in DOMAIN points |-> P(d, p)]
    <3>1. points \in Seq(ToSet(points))
      BY <1>4 DEF IsSequence
    <3>2. DOMAIN points = 1..Len(points) /\ Len(points) \in Nat
      BY <3>1
    <3>3. \A p \in DOMAIN points : P(d, p) \in Of(d)
      OBVIOUS
    <3>4. Of(d) \subseteq S
      OBVIOUS
    <3> HIDE DEF Of, S, points
    <3>5. made_d \in Seq(S)
      BY <3>2, <3>3, <3>4 DEF points
    <3> QED
      BY <3>5 DEF points
  <2>4. item.data \in Seq(ToSet(item.data))
    BY <1>4 DEF IsSequence
  <2>5. DOMAIN item.data = 1..Len(item.data) /\ Len(item.data) \in Nat
    BY <2>4
  <2> HIDE DEF S
  <2>6. parts \in Seq(Seq(S))
    BY <2>3, <2>5
  <2> HIDE DEF parts
  <2>7. made \in Seq(S)
    BY <2>1, <2>6, FlattenedParts
  <2> QED
    BY <2>2, <2>7
<1> QED
  BY <1>2, <1>3, <1>4 DEF OtlpSignals

\* The items of a batch come in a sequence, and so do the parts of an item.
LEMMA ItemsOrdered ==
  ASSUME NEW batch \in RawBatches
  PROVE  /\ IsSequence(Items(batch))
         /\ \A i \in DOMAIN Items(batch) :
              LET item == Items(batch)[i]
              IN /\ batch.signal = "traces" => IsSequence(item.events)
                 /\ batch.signal = "metrics" =>
                      /\ IsSequence(item.data)
                      /\ \A d \in DOMAIN item.data : IsSequence(item.data[d].points)
<1> DEFINE signal == batch.signal
           payload == batch.payload
<1>1. signal \in OtlpSignals /\ batch.encoding \in WireEncodings /\ payload \in DOMAIN Bytes
  BY DEF RawBatches
<1>2. Ordered(Bytes[payload].wire) /\ Ordered(Bytes[payload].typed)
  BY <1>1, BytesAssumption
<1>3. CASE ~Decodes(signal, batch.encoding, payload)
  <2>1. Items(batch) = <<>>
    BY <1>3 DEF Items
  <2>2. IsSequence(<<>>)
    BY DEF IsSequence, ToSet
  <2> QED
    BY <2>1, <2>2
<1>4. CASE Decodes(signal, batch.encoding, payload)
  <2>1. PICK read \in {Bytes[payload].wire, Bytes[payload].typed} :
          signal \in DOMAIN read /\ Items(batch) = read[signal]
    BY <1>4 DEF Items, ExportRequest, Decodes
  <2>2. Ordered(read)
    BY <1>2, <2>1
  <2> QED
    BY <2>1, <2>2 DEF Ordered
<1> QED
  BY <1>3, <1>4

LEMMA CandidatesDecoded ==
  ASSUME NEW batch \in RawBatches
  PROVE  IsSequence(Candidates(batch)) /\ \A c \in ToSet(Candidates(batch)) : IsCandidate(c)
<1> DEFINE items == Items(batch)
           D(i) == Decompose(batch.signal, items[i])
           S == UNION {ToSet(D(i)) : i \in DOMAIN items}
           parts == [i \in DOMAIN items |-> D(i)]
<1>1. Candidates(batch) = FlattenSeq(parts)
  BY DEF Candidates
<1>2. ASSUME NEW i \in DOMAIN items
      PROVE  D(i) \in Seq(S) /\ \A c \in ToSet(D(i)) : IsCandidate(c)
  <2>1. batch.signal \in OtlpSignals
    BY DEF RawBatches
  <2>2. IsSequence(D(i)) /\ \A c \in ToSet(D(i)) : IsCandidate(c)
    BY <2>1, ItemsOrdered, DecomposedItem
  <2> HIDE DEF D
  <2>3. ToSet(D(i)) \subseteq S
    OBVIOUS
  <2> HIDE DEF S
  <2> QED
    BY <2>2, <2>3 DEF IsSequence
<1>3. DOMAIN items = 1..Len(items) /\ Len(items) \in Nat
  <2>1. items \in Seq(ToSet(items))
    BY ItemsOrdered DEF IsSequence
  <2> HIDE DEF items
  <2> QED
    BY <2>1
<1> HIDE DEF D, items
<1>4. \A c \in S : IsCandidate(c)
  BY <1>2
<1>5. parts \in Seq(Seq(S))
  <2> HIDE DEF S
  <2> QED
    BY <1>2, <1>3
<1> HIDE DEF parts, S
<1>6. Candidates(batch) \in Seq(S)
  BY <1>1, <1>5, FlattenedParts
<1> QED
  BY <1>4, <1>6, SequenceElements

-----------------------------------------------------------------------------
(* The observations of a batch *)

Admits(c, document) == Disposition(c, document) \in {"decision", "routed"}

Made(c, n, document) == CreateObservation(c, n, Disposition(c, document))

\* The observations that can be made of a sequence of candidates.
AdmittedOf(all, document) ==
  {Made(all[n], n, document) : n \in {i \in DOMAIN all : Admits(all[i], document)}}

Increasing(found) ==
  \A i, j \in DOMAIN found : i < j => found[i].ordinal < found[j].ordinal

LEMMA AppendIncreases ==
  ASSUME NEW A, NEW n \in Nat, NEW s \in Seq(A), Increasing(s),
         \A i \in DOMAIN s : s[i].ordinal \in 1..n, NEW o \in A, o.ordinal = n + 1
  PROVE  /\ Append(s, o) \in Seq(A) /\ Increasing(Append(s, o))
         /\ \A i \in DOMAIN Append(s, o) : Append(s, o)[i].ordinal \in 1..(n + 1)
<1> DEFINE t == Append(s, o)
<1>1. /\ t \in Seq(A) /\ Len(s) \in Nat
      /\ DOMAIN s = 1..Len(s) /\ DOMAIN t = 1..(Len(s) + 1)
      /\ \A i \in 1..Len(s) : t[i] = s[i]
      /\ t[Len(s) + 1] = o
  OBVIOUS
<1> HIDE DEF t
<1>2. \A i \in DOMAIN t : t[i].ordinal \in 1..(n + 1)
  <2> SUFFICES ASSUME NEW i \in DOMAIN t
               PROVE  t[i].ordinal \in 1..(n + 1)
    OBVIOUS
  <2>1. CASE i = Len(s) + 1
    BY <2>1, <1>1
  <2>2. CASE i # Len(s) + 1
    <3>1. i \in DOMAIN s
      BY <2>2, <1>1
    <3>2. t[i].ordinal \in 1..n
      BY <3>1, <1>1
    <3> QED
      BY <3>2
  <2> QED
    BY <2>1, <2>2
<1>3. ASSUME NEW i \in DOMAIN t, NEW j \in DOMAIN t, i < j
      PROVE  t[i].ordinal < t[j].ordinal
  <2>1. i \in DOMAIN s
    BY <1>1, <1>3
  <2>2. CASE j = Len(s) + 1
    <3>1. t[i].ordinal \in 1..n /\ t[j].ordinal = n + 1
      BY <2>1, <2>2, <1>1
    <3> QED
      BY <3>1
  <2>3. CASE j # Len(s) + 1
    <3>1. j \in DOMAIN s
      BY <2>3, <1>1
    <3> QED
      BY <2>1, <3>1, <1>1, <1>3 DEF Increasing
  <2> QED
    BY <2>2, <2>3
<1> QED
  BY <1>1, <1>2, <1>3 DEF Increasing, t

\* The projector keeps the order of the candidates.
LEMMA ObservationsInOrder ==
  ASSUME NEW batch, NEW document, IsSequence(Candidates(batch))
  PROVE  /\ Observations(batch, document) \in Seq(AdmittedOf(Candidates(batch), document))
         /\ Increasing(Observations(batch, document))
<1> DEFINE all == Candidates(batch)
           last == Len(all)
           A == AdmittedOf(all, document)
           U == Seq(A)
           C(n) == Admits(all[n], document)
           O(n) == Made(all[n], n, document)
           Step(s) == [n \in 0..last |->
                         IF n = 0 THEN <<>>
                         ELSE IF C(n) THEN Append(s[n - 1], O(n)) ELSE s[n - 1]]
           found == CHOOSE s : s = Step(s)
<1>1. Observations(batch, document) = found[last]
  BY Zenon DEF Observations, Admits, Made
<1>2. last \in Nat /\ DOMAIN all = 1..last
  <2>1. all \in Seq(ToSet(all))
    BY DEF IsSequence
  <2> HIDE DEF all
  <2> QED
    BY <2>1
<1>3. \A n \in 1..last : C(n) => O(n) \in A
  BY <1>2 DEF AdmittedOf
<1>4. \A n : O(n).ordinal = n
  BY DEF Made, CreateObservation
<1> HIDE DEF all, last, A, C, O
<1>5. PICK step : step = [p \in (1..last) \X U |-> IF C(p[1]) THEN Append(p[2], O(p[1])) ELSE p[2]]
  OBVIOUS
<1>6. step \in [(1..last) \X U -> U]
  <2>1. \A p \in (1..last) \X U : (IF C(p[1]) THEN Append(p[2], O(p[1])) ELSE p[2]) \in U
    <3> SUFFICES ASSUME NEW n \in 1..last, NEW s \in U
                 PROVE  (IF C(n) THEN Append(s, O(n)) ELSE s) \in U
      OBVIOUS
    <3> QED
      BY <1>3
  <2> HIDE DEF U
  <2> QED
    BY <1>5, <2>1
<1>7. <<>> \in U
  OBVIOUS
<1> HIDE DEF U
<1>8. PICK f \in [0..last -> U] : Solves(f, last, <<>>, step)
  BY <1>2, <1>6, <1>7, RecursionUpTo
<1>9. ASSUME NEW n \in 1..last
      PROVE  f[n] = IF C(n) THEN Append(f[n - 1], O(n)) ELSE f[n - 1]
  <2>1. n - 1 \in 0..last
    BY <1>2
  <2>2. f[n] = step[<<n, f[n - 1]>>]
    BY <1>8 DEF Solves
  <2>3. <<n, f[n - 1]>> \in (1..last) \X U
    BY <1>8, <2>1
  <2> QED
    BY <1>5, <2>2, <2>3
<1>10. f = Step(f)
  <2>1. \A n \in 0..last : n # 0 => n \in 1..last
    BY <1>2
  <2>2. \A n \in 0..last :
          f[n] = IF n = 0 THEN <<>> ELSE IF C(n) THEN Append(f[n - 1], O(n)) ELSE f[n - 1]
    BY <1>8, <1>9, <2>1 DEF Solves
  <2> QED
    BY <1>8, <2>2
<1>11. found = Step(found)
  BY <1>10
<1> HIDE DEF found
<1>12. found[0] = <<>> /\ \A n \in 1..last :
         found[n] = IF C(n) THEN Append(found[n - 1], O(n)) ELSE found[n - 1]
  <2>1. found[0] = <<>>
    BY <1>2, <1>11
  <2>2. \A n \in 1..last : n \in 0..last /\ n # 0
    BY <1>2
  <2> QED
    BY <1>11, <2>1, <2>2
<1> DEFINE Good(s, n) ==
             s \in Seq(A) /\ Increasing(s) /\ \A i \in DOMAIN s : s[i].ordinal \in 1..n
           T == {n \in 0..last : Good(found[n], n)}
<1>13. 0 \in T
  <2>1. Good(<<>>, 0)
    BY DEF Increasing
  <2> HIDE DEF Good
  <2> QED
    BY <1>2, <1>12, <2>1
<1>14. ASSUME NEW n \in 0..(last - 1), n \in T
       PROVE  n + 1 \in T
  <2>1. n \in Nat /\ n + 1 \in 1..last /\ n + 1 \in 0..last /\ (n + 1) - 1 = n
    BY <1>2
  <2>2. Good(found[n], n)
    BY <1>14
  <2>3. found[n + 1] = IF C(n + 1) THEN Append(found[n], O(n + 1)) ELSE found[n]
    BY <1>12, <2>1
  <2>4. CASE C(n + 1)
    <3>1. O(n + 1) \in A /\ O(n + 1).ordinal = n + 1
      BY <2>1, <2>4, <1>3, <1>4
    <3>2. Good(Append(found[n], O(n + 1)), n + 1)
      BY <2>1, <2>2, <3>1, AppendIncreases
    <3>3. Good(found[n + 1], n + 1)
      BY <2>3, <2>4, <3>2
    <3> QED
      BY <2>1, <3>3
  <2>5. CASE ~C(n + 1)
    <3>1. \A m \in 1..n : m \in 1..(n + 1)
      BY <2>1
    <3>2. Good(found[n], n + 1)
      BY <2>2, <3>1
    <3>3. found[n + 1] = found[n]
      BY <2>3, <2>5
    <3>4. Good(found[n + 1], n + 1)
      BY <3>2, <3>3
    <3> QED
      BY <2>1, <3>4
  <2> QED
    BY <2>4, <2>5
<1> HIDE DEF T
<1>15. 0..last \subseteq T
  BY <1>2, <1>13, <1>14, UpToByInduction
<1>16. Good(found[last], last)
  BY <1>2, <1>15 DEF T
<1> QED
  BY <1>1, <1>16 DEF A, all

-----------------------------------------------------------------------------
(* What is admitted passes the validation of the store *)

\* The fields of a source key that a candidate leaves out and those it has.
LEMMA CandidateSource ==
  ASSUME NEW c, IsCandidate(c)
  PROVE  /\ c.signal \in {"log", "span", "spanEvent", "metric"}
         /\ c.signal \in {"log", "span"} =>
              c.metricKind = {} /\ c.metricUnit = {} /\ c.parentSpan = {}
         /\ c.signal = "spanEvent" =>
              c.metricKind = {} /\ c.metricUnit = {} /\ \E name : c.parentSpan = {name}
         /\ c.signal = "metric" =>
              c.parentSpan = {} /\ (\E unit : c.metricUnit = {unit}) /\ \E kind : c.metricKind = {kind}
<1>1. CASE FromLog(c)
  BY <1>1 DEF FromLog, LogCandidate
<1>2. CASE FromSpan(c)
  BY <1>2 DEF FromSpan, SpanCandidate
<1>3. CASE FromEvent(c)
  BY <1>3 DEF FromEvent, EventCandidate
<1>4. CASE FromPoint(c)
  <2>1. PICK metric, data, point : c = PointCandidate(metric, data, point)
    BY <1>4 DEF FromPoint
  <2>2. /\ c.signal = "metric" /\ c.parentSpan = {}
        /\ c.metricUnit = {metric.unit} /\ c.metricKind = {data.kind}
    BY <2>1 DEF PointCandidate
  <2> QED
    BY <2>2
<1> QED
  BY <1>1, <1>2, <1>3, <1>4 DEF IsCandidate

\* The source a compiled catalog selects a candidate with.
LEMMA RoutedSource ==
  ASSUME NEW c, NEW a, NEW document, Compiles(document), Route(c, a) \in RoutesOf(document)
  PROVE  /\ c.scope \in SourceTexts /\ c.name \in SourceTexts
         /\ c.signal = "metric" => c.metricKind \subseteq MetricKinds
         /\ c.signal = "spanEvent" => c.parentSpan \subseteq SourceTexts
<1> DEFINE RoutesAt(i) == {[authority |-> document[i].authority, source |-> RouteSource(source)] :
                             source \in document[i].sources}
<1>1. PICK i \in DOMAIN document : Route(c, a) \in RoutesAt(i)
  <2>1. RoutesOf(document) = UNION {RoutesAt(i) : i \in DOMAIN document}
    BY DEF RoutesOf
  <2> HIDE DEF RoutesAt
  <2> QED
    BY <2>1
<1>2. PICK source \in document[i].sources :
        Route(c, a) = [authority |-> document[i].authority, source |-> RouteSource(source)]
  BY <1>1
<1>3. SourceKey(c) = RouteSource(source)
  BY <1>2 DEF Route
<1>4. SourceCompiles(source)
  BY <1>2 DEF Compiles
<1>5. /\ source.scope = c.scope /\ source.name = c.name /\ source.signal = c.signal
      /\ source.metricKind = c.metricKind /\ source.parentSpan = c.parentSpan
  BY <1>3 DEF SourceKey, RouteSource
<1> QED
  BY <1>4, <1>5 DEF SourceCompiles

LEMMA TextOfUnique ==
  ASSUME NEW c, UniqueAttributes(c), NEW key, NEW texts,
         \E a \in LookupAttribute(c.attributes, key) : a.type = "string" /\ a.value \in texts
  PROVE  \E k \in DOMAIN c.attributes :
           /\ c.attributes[k].key = key
           /\ TextAt(c, key) = {c.attributes[k].value} /\ c.attributes[k].value \in texts
<1> DEFINE at == {i \in DOMAIN c.attributes : c.attributes[i].key = key}
<1>1. LookupAttribute(c.attributes, key) =
        {c.attributes[i] : i \in {j \in at : Cardinality(at) = 1 /\ c.attributes[j].type # "none"}}
  BY DEF LookupAttribute
<1>2. \A i, j \in at : i = j
  BY DEF UniqueAttributes
<1> HIDE DEF at
<1>3. PICK k \in at : /\ Cardinality(at) = 1 /\ c.attributes[k].type # "none"
                      /\ c.attributes[k].value \in texts
  BY <1>1
<1>4. LookupAttribute(c.attributes, key) = {c.attributes[k]}
  BY <1>1, <1>2, <1>3
<1>5. TextAt(c, key) = {c.attributes[k].value}
  BY <1>4 DEF TextAt
<1> QED
  BY <1>3, <1>5 DEF at

\* What the projector admits, the Evidence Store accepts.
LEMMA AdmittedIsValid ==
  ASSUME NEW c, IsCandidate(c), NEW n, NEW document, Compiles(document), Admits(c, document)
  PROVE  /\ SourceShape(Made(c, n, document).source)
         /\ Made(c, n, document).authority \in Identifiers \X Identifiers \X Identifiers
         /\ Made(c, n, document).contract \subseteq Sha256Digests
<1> DEFINE o == Made(c, n, document)
           key == SourceKey(c)
<1>1. /\ o.source = key
      /\ o.authority = CHOOSE a \in DeriveAuthority(c) : TRUE
      /\ o.contract = IF Disposition(c, document) = "decision"
                      THEN TextAt(c, "flaggo.contract.digest") ELSE {}
  BY DEF Made, CreateObservation
<1>2. DeriveAuthority(c) # {} /\ Disposition(c, document) \in {"decision", "routed"}
  BY DEF Admits, Disposition
<1>3. o.authority \in Identifiers \X Identifiers \X Identifiers
  <2>1. o.authority \in DeriveAuthority(c)
    BY <1>1, <1>2
  <2> QED
    BY <2>1 DEF DeriveAuthority
<1>4. /\ key.signal = c.signal /\ key.scope = c.scope /\ key.name = c.name
      /\ key.metricKind = c.metricKind /\ key.metricUnit = c.metricUnit
      /\ key.parentSpan = c.parentSpan
  BY DEF SourceKey
<1> HIDE DEF o, key
<1>5. CASE Disposition(c, document) = "decision"
  <2>1. IsBuiltIn(c) /\ ValidDecision(c)
    BY <1>5, <1>2 DEF Disposition
  <2>2. c.signal = "log" /\ c.scope = "@flaggo/sdk" /\ c.name = "flaggo.decision.received"
    BY <2>1 DEF IsBuiltIn, ValidDecision, SdkScope, DecisionEvent
  <2>3. SourceShape(key)
    BY <2>2, <1>4, CandidateSource DEF SourceShape
  <2>4. TextAt(c, "flaggo.contract.digest") \subseteq Sha256Digests
    <3>1. UniqueAttributes(c) /\
          \E a \in LookupAttribute(c.attributes, "flaggo.contract.digest") :
             a.type = "string" /\ a.value \in Sha256Digests
      BY <2>1 DEF ValidDecision, RequiredStrings
    <3> QED
      BY <3>1, TextOfUnique
  <2> QED
    BY <1>1, <1>3, <1>5, <2>3, <2>4 DEF o
<1>6. CASE Disposition(c, document) = "routed"
  <2>1. PICK a \in DeriveAuthority(c) : Route(c, a) \in RoutesOf(document)
    BY <1>6, <1>2 DEF Disposition
  <2>2. /\ c.scope \in SourceTexts /\ c.name \in SourceTexts
        /\ c.signal = "metric" => c.metricKind \subseteq MetricKinds
        /\ c.signal = "spanEvent" => c.parentSpan \subseteq SourceTexts
    BY <2>1, RoutedSource
  <2>3. "" \notin SourceTexts /\ "" \notin MetricKinds
    BY TextAssumption DEF MetricKinds
  <2>4. SourceShape(key)
    <3>1. CASE c.signal = "metric"
      <4>1. PICK kind : c.metricKind = {kind}
        BY <3>1, CandidateSource
      <4>2. kind # ""
        BY <4>1, <3>1, <2>2, <2>3
      <4>3. c.metricKind # {} /\ c.metricKind # {""}
        BY <4>1, <4>2
      <4>4. c.parentSpan = {} /\ c.metricUnit # {}
        BY <3>1, CandidateSource
      <4> QED
        BY <3>1, <4>3, <4>4, <2>2, <2>3, <1>4 DEF SourceShape
    <3>2. CASE c.signal = "spanEvent"
      <4>1. PICK name : c.parentSpan = {name}
        BY <3>2, CandidateSource
      <4>2. name # ""
        BY <4>1, <3>2, <2>2, <2>3
      <4>3. c.parentSpan # {} /\ c.parentSpan # {""}
        BY <4>1, <4>2
      <4>4. c.metricKind = {} /\ c.metricUnit = {}
        BY <3>2, CandidateSource
      <4> QED
        BY <3>2, <4>3, <4>4, <2>2, <2>3, <1>4 DEF SourceShape
    <3>3. CASE c.signal \in {"log", "span"}
      BY <3>3, <2>2, <2>3, <1>4, CandidateSource DEF SourceShape
    <3> QED
      BY <3>1, <3>2, <3>3, CandidateSource
  <2> QED
    BY <1>1, <1>3, <1>6, <2>4 DEF o
<1> QED
  BY <1>2, <1>5, <1>6
=============================================================================
