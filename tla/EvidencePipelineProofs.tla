----------------------- MODULE EvidencePipelineProofs -----------------------
(***************************************************************************)
(* The evidence pipeline keeps its invariants and the promise of the       *)
(* ledger, for every set of requests, catalogs, processes and clocks.      *)
(*                                                                         *)
(* The inductive invariant says what ties the components together: the     *)
(* books of the inbox and the history of what was received, one accepted   *)
(* observation to a logical source, refusals that are of such a source,    *)
(* and pages that leave nothing out behind the checkpoint.  A commit is    *)
(* then read as one step: the loop over its observations settles all of    *)
(* them at once.  What a row says of its candidate comes last: a digest    *)
(* stands for one value, so rows are of one source just when they have one *)
(* logical source.                                                         *)
(***************************************************************************)
EXTENDS EvidencePipeline, EvidenceProjectionProofs

-----------------------------------------------------------------------------
(* Sums of payload lengths.  A tally of rows is what the sum runs through.   *)

Weight(rows, id) == IF id \in DOMAIN rows THEN SizeOf[rows[id].payload] ELSE 0

IsTally(f, rows, last) ==
  /\ f \in [0..last -> Nat]
  /\ f[0] = 0
  /\ \A id \in 1..last : f[id] = f[id - 1] + Weight(rows, id)

LEMMA TallyLonger ==
  ASSUME NEW rows, NEW last \in Nat, NEW f, IsTally(f, rows, last),
         Weight(rows, last + 1) \in Nat
  PROVE  IsTally([n \in 0..(last + 1) |-> IF n = last + 1 THEN f[last] + Weight(rows, last + 1)
                                          ELSE f[n]], rows, last + 1)
<1> DEFINE g == [n \in 0..(last + 1) |-> IF n = last + 1 THEN f[last] + Weight(rows, last + 1)
                                         ELSE f[n]]
<1>1. f \in [0..last -> Nat] /\ f[0] = 0 /\ \A id \in 1..last : f[id] = f[id - 1] + Weight(rows, id)
  BY DEF IsTally
<1>2. g \in [0..(last + 1) -> Nat]
  <2>1. f[last] + Weight(rows, last + 1) \in Nat
    BY <1>1
  <2>2. \A n \in 0..(last + 1) : n # last + 1 => f[n] \in Nat
    BY <1>1
  <2> QED
    BY <2>1, <2>2
<1>3. g[0] = 0
  BY <1>1
<1>4. ASSUME NEW id \in 1..(last + 1)
      PROVE  g[id] = g[id - 1] + Weight(rows, id)
  <2>1. CASE id = last + 1
    BY <2>1
  <2>2. CASE id # last + 1
    <3>1. id \in 1..last /\ id - 1 \in 0..last
      BY <2>2
    <3> QED
      BY <3>1, <1>1
  <2> QED
    BY <2>1, <2>2
<1> HIDE DEF g
<1>5. IsTally(g, rows, last + 1)
  BY <1>2, <1>3, <1>4 DEF IsTally
<1> QED
  BY <1>5 DEF g

LEMMA TallyExists ==
  ASSUME NEW rows, NEW last \in Nat, \A id \in 1..last : Weight(rows, id) \in Nat
  PROVE  \E f : IsTally(f, rows, last)
<1> DEFINE T == {n \in 0..last : \E f : IsTally(f, rows, n)}
<1>1. 0 \in T
  <2>1. IsTally([n \in 0..0 |-> 0], rows, 0)
    BY DEF IsTally
  <2> QED
    BY <2>1
<1>2. ASSUME NEW n \in 0..(last - 1), n \in T
      PROVE  n + 1 \in T
  <2>1. PICK f : IsTally(f, rows, n)
    BY <1>2
  <2>2. n \in Nat /\ n + 1 \in 1..last
    OBVIOUS
  <2>3. \E g : IsTally(g, rows, n + 1)
    BY <2>1, <2>2, TallyLonger
  <2> QED
    BY <2>2, <2>3
<1> HIDE DEF T
<1>3. 0..last \subseteq T
  BY <1>1, <1>2, UpToByInduction
<1> QED
  BY <1>3 DEF T

LEMMA TallyIsOne ==
  ASSUME NEW rows, NEW last \in Nat, NEW f, IsTally(f, rows, last),
         NEW g, g[0] = 0, \A id \in 1..last : g[id] = g[id - 1] + Weight(rows, id)
  PROVE  \A n \in 0..last : f[n] = g[n]
<1> DEFINE T == {n \in 0..last : f[n] = g[n]}
<1>1. 0 \in T
  BY DEF IsTally
<1>2. ASSUME NEW n \in 0..(last - 1), n \in T
      PROVE  n + 1 \in T
  <2>1. n + 1 \in 1..last /\ (n + 1) - 1 = n
    OBVIOUS
  <2>2. f[n + 1] = f[n] + Weight(rows, n + 1)
    BY <2>1 DEF IsTally
  <2>3. g[n + 1] = g[n] + Weight(rows, n + 1)
    BY <2>1
  <2> QED
    BY <1>2, <2>1, <2>2, <2>3
<1> HIDE DEF T
<1>3. 0..last \subseteq T
  BY <1>1, <1>2, UpToByInduction
<1> QED
  BY <1>3 DEF T

\* The recursion of the sum is well-founded: it is the end of any tally.
LEMMA PayloadBytesIsTally ==
  ASSUME NEW rows, NEW last \in Nat, NEW f, IsTally(f, rows, last)
  PROVE  PayloadBytes(rows, last) = f[last]
<1> DEFINE sum == CHOOSE s : s = [id \in 0..last |->
                     IF id = 0 THEN 0 ELSE s[id - 1] + Weight(rows, id)]
<1>1. PayloadBytes(rows, last) = sum[last]
  BY DEF PayloadBytes, Weight
<1>2. f = [id \in 0..last |-> IF id = 0 THEN 0 ELSE f[id - 1] + Weight(rows, id)]
  BY DEF IsTally
<1>3. sum = [id \in 0..last |-> IF id = 0 THEN 0 ELSE sum[id - 1] + Weight(rows, id)]
  BY <1>2
<1> HIDE DEF sum
<1>4. sum[0] = 0 /\ \A id \in 1..last : sum[id] = sum[id - 1] + Weight(rows, id)
  BY <1>3
<1>5. f[last] = sum[last]
  BY <1>4, TallyIsOne
<1> QED
  BY <1>1, <1>5

\* The rows up to last weigh a natural number of bytes each.
Weighed(rows, last) == \A id \in 1..last : Weight(rows, id) \in Nat

LEMMA PayloadBytesNat ==
  ASSUME NEW rows, NEW last \in Nat, Weighed(rows, last)
  PROVE  PayloadBytes(rows, last) \in Nat
<1>1. PICK f : IsTally(f, rows, last)
  BY TallyExists DEF Weighed
<1>2. f[last] \in Nat
  BY <1>1 DEF IsTally
<1> QED
  BY <1>1, <1>2, PayloadBytesIsTally

\* One more row adds its own payload.
LEMMA PayloadBytesLonger ==
  ASSUME NEW rows, NEW more, NEW last \in Nat, Weighed(more, last + 1),
         \A id \in 1..last : Weight(more, id) = Weight(rows, id)
  PROVE  PayloadBytes(more, last + 1) = PayloadBytes(rows, last) + Weight(more, last + 1)
<1>1. \A id \in 1..last : Weight(rows, id) \in Nat
  BY DEF Weighed
<1>2. PICK f : IsTally(f, rows, last)
  BY <1>1, TallyExists
<1>3. IsTally(f, more, last)
  BY <1>2 DEF IsTally
<1>4. last + 1 \in Nat /\ Weight(more, last + 1) \in Nat /\ last + 1 \in 0..(last + 1)
  BY DEF Weighed
<1> DEFINE g == [n \in 0..(last + 1) |-> IF n = last + 1 THEN f[last] + Weight(more, last + 1)
                                         ELSE f[n]]
<1>5. IsTally(g, more, last + 1)
  BY <1>3, <1>4, TallyLonger
<1>6. g[last + 1] = f[last] + Weight(more, last + 1)
  BY <1>4
<1> HIDE DEF g
<1>7. PayloadBytes(more, last + 1) = g[last + 1]
  BY <1>4, <1>5, PayloadBytesIsTally
<1>8. PayloadBytes(rows, last) = f[last]
  BY <1>2, PayloadBytesIsTally
<1> QED
  BY <1>6, <1>7, <1>8

\* Rows divided in two weigh what the parts weigh.
LEMMA PayloadBytesSplit ==
  ASSUME NEW rows, NEW a, NEW b, NEW last \in Nat, Weighed(a, last), Weighed(b, last),
         \A id \in 1..last : Weight(rows, id) = Weight(a, id) + Weight(b, id)
  PROVE  PayloadBytes(rows, last) = PayloadBytes(a, last) + PayloadBytes(b, last)
<1>1. PICK f : IsTally(f, a, last)
  BY TallyExists DEF Weighed
<1>2. PICK g : IsTally(g, b, last)
  BY TallyExists DEF Weighed
<1> DEFINE h == [n \in 0..last |-> f[n] + g[n]]
<1>3. h \in [0..last -> Nat] /\ h[0] = 0
  BY <1>1, <1>2 DEF IsTally
<1>4. ASSUME NEW id \in 1..last
      PROVE  h[id] = h[id - 1] + Weight(rows, id)
  <2>1. id \in 0..last /\ id - 1 \in 0..last
    OBVIOUS
  <2>2. f[id] = f[id - 1] + Weight(a, id) /\ f[id - 1] \in Nat /\ Weight(a, id) \in Nat
    BY <1>1, <2>1 DEF IsTally, Weighed
  <2>3. g[id] = g[id - 1] + Weight(b, id) /\ g[id - 1] \in Nat /\ Weight(b, id) \in Nat
    BY <1>2, <2>1 DEF IsTally, Weighed
  <2>4. h[id] = f[id] + g[id] /\ h[id - 1] = f[id - 1] + g[id - 1]
    BY <2>1
  <2> QED
    BY <2>2, <2>3, <2>4
<1>5. h[last] = f[last] + g[last]
  OBVIOUS
<1> HIDE DEF h
<1>6. IsTally(h, rows, last)
  BY <1>3, <1>4 DEF IsTally
<1> QED
  BY <1>1, <1>2, <1>5, <1>6, PayloadBytesIsTally

LEMMA PayloadBytesEmpty ==
  ASSUME NEW rows
  PROVE  PayloadBytes(rows, 0) = 0
<1>1. IsTally([n \in 0..0 |-> 0], rows, 0)
  BY DEF IsTally
<1>2. PayloadBytes(rows, 0) = [n \in 0..0 |-> 0][0]
  BY <1>1, PayloadBytesIsTally
<1> QED
  BY <1>2

-----------------------------------------------------------------------------
(* The largest of a few numbers *)

LEMMA MaxIsUnique ==
  ASSUME NEW S \in SUBSET Nat, NEW m \in S, \A x \in S : x <= m
  PROVE  Max(S) = m
<1>1. m \in Nat /\ S \in SUBSET (0..m) /\ S # {}
  OBVIOUS
<1> DEFINE top == Max(S)
<1>2. top \in S /\ \A x \in S : x <= top
  BY <1>1, MaxOfBounded
<1> HIDE DEF top
<1>3. top \in Nat /\ m <= top /\ top <= m
  BY <1>1, <1>2
<1>4. top = m
  BY <1>1, <1>3
<1> QED
  BY <1>4 DEF top

\* A set of consecutive numbers is as large as its bounds say.
LEMMA IntervalCardinality ==
  ASSUME NEW low \in Nat, NEW high \in Nat, low <= high
  PROVE  IsFiniteSet((low + 1)..high) /\ Cardinality((low + 1)..high) = high - low
<1>1. low + 1 \in Int /\ high \in Int
  OBVIOUS
<1>2. /\ IsFiniteSet((low + 1)..high)
      /\ Cardinality((low + 1)..high) = IF low + 1 > high THEN 0 ELSE high - (low + 1) + 1
  BY <1>1, FS_Interval
<1> QED
  BY <1>2

-----------------------------------------------------------------------------
(* The inductive invariant *)

\* What was received is numbered in order, and no receipt is after the last.
ReceiptsInOrder ==
  \A i \in DOMAIN received :
    /\ received[i].id = i
    /\ \E last \in books.lastReceived : received[i].received <= last

\* Conflicts, each of an observation and a candidate of its source.
OverOneSource(found) ==
  \A c \in found : \E a, r \in ObservationRows :
    /\ a.logical = r.logical /\ a.content # r.content
    /\ c.accepted = a.content /\ c.rejected = r.content

\* Every logical source has one accepted observation, and what was refused for
\* its sake is of that source.
AcceptedOnce ==
  /\ \A i, j \in DOMAIN observations : observations[i].logical = observations[j].logical => i = j
  /\ OverOneSource(conflicts)

\* A process that is up reads from a batch that is behind the checkpoint; its
\* page holds batches as they were received, and every batch between the
\* checkpoint and one of them has expired or is on the page as well.
PageSound(process) ==
  process.pc # "down" =>
    /\ process.after <= ForwardCheckpoint
    /\ \A row \in process.page : row.id \in 1..lastId /\ row = received[row.id]
    /\ \A row \in process.page : \A id \in (ForwardCheckpoint + 1)..(row.id - 1) :
         id <= books.expired \/ \E other \in process.page : other.id = id

PipelineInv ==
  /\ PipelineTypeOK
  /\ InboxBooks
  /\ ReceiptsInOrder
  /\ AcceptedOnce
  /\ \A w \in Workers : PageSound(worker[w])

-----------------------------------------------------------------------------
(* What a commit writes *)

\* Accepted observations as evidence, and conflicts as refusals.
EvidenceOf(rows) ==
  {[logical |-> rows[i].logical, content |-> rows[i].content, contract |-> rows[i].contract,
    place |-> rows[i].batch, ordinal |-> rows[i].ordinal] : i \in DOMAIN rows}

RefusedIn(found) == {[logical |-> c.logical, content |-> c.rejected] : c \in found}

EvidenceFrom(id, o) ==
  [logical |-> o.logical, content |-> o.content, contract |-> o.contract,
   place |-> id, ordinal |-> o.ordinal]

RefusalOf(o) == [logical |-> o.logical, content |-> o.content]

Once(rows) == \A i, j \in DOMAIN rows : rows[i].logical = rows[j].logical => i = j

IsRows(rows) ==
  /\ rows = [observations |-> rows.observations, conflicts |-> rows.conflicts,
             diagnostics |-> rows.diagnostics]
  /\ rows.observations \in Seq(ObservationRows)
  /\ Once(rows.observations)
  /\ OverOneSource(rows.conflicts)

LEMMA MinOfOne ==
  ASSUME NEW i \in Nat
  PROVE  Min({i}) = i
BY DEF Min

\* The first observation of a logical source is accepted.
LEMMA WriteFirst ==
  ASSUME NEW rows, IsRows(rows), NEW id, NEW o, NEW version,
         Row(id, o) \in ObservationRows,
         \A e \in EvidenceOf(rows.observations) : e.logical # o.logical
  PROVE  LET after == WriteObservation(rows, id, o, version)
         IN /\ IsRows(after)
            /\ EvidenceOf(after.observations) =
                 EvidenceOf(rows.observations) \union {EvidenceFrom(id, o)}
            /\ after.conflicts = rows.conflicts
<1> DEFINE old == rows.observations
           more == Append(old, Row(id, o))
<1>1. /\ old \in Seq(ObservationRows) /\ Once(old)
      /\ rows = [observations |-> old, conflicts |-> rows.conflicts,
                 diagnostics |-> rows.diagnostics]
  BY DEF IsRows
<1>2. \A i \in DOMAIN old : old[i].logical # o.logical
  <2> SUFFICES ASSUME NEW i \in DOMAIN old
               PROVE  old[i].logical # o.logical
    OBVIOUS
  <2>1. [logical |-> old[i].logical, content |-> old[i].content, contract |-> old[i].contract,
         place |-> old[i].batch, ordinal |-> old[i].ordinal] \in EvidenceOf(old)
    BY DEF EvidenceOf
  <2> QED
    BY <2>1
<1>3. AcceptedFor(old, o.logical) = {}
  BY <1>2 DEF AcceptedFor
<1>4. WriteObservation(rows, id, o, version) = [rows EXCEPT !.observations = more]
  BY <1>3 DEF WriteObservation
<1>5. [rows EXCEPT !.observations = more] =
        [observations |-> more, conflicts |-> rows.conflicts, diagnostics |-> rows.diagnostics]
  <2> HIDE DEF more, old
  <2> QED
    BY <1>1
<1>6. /\ more \in Seq(ObservationRows)
      /\ Len(more) = Len(old) + 1
      /\ \A i \in 1..Len(old) : more[i] = old[i]
      /\ more[Len(old) + 1] = Row(id, o)
  BY <1>1
<1>7. DOMAIN old = 1..Len(old) /\ Len(old) \in Nat /\ DOMAIN more = 1..(Len(old) + 1)
  <2> HIDE DEF more
  <2> QED
    BY <1>1, <1>6
<1> HIDE DEF more
<1>8. Once(more)
  <2> SUFFICES ASSUME NEW i \in DOMAIN more, NEW j \in DOMAIN more,
                      more[i].logical = more[j].logical
               PROVE  i = j
    BY DEF Once
  <2>1. Row(id, o).logical = o.logical
    BY DEF Row
  <2>2. CASE i \in DOMAIN old /\ j \in DOMAIN old
    <3>1. old[i].logical = old[j].logical
      BY <2>2, <1>6, <1>7
    <3> QED
      BY <3>1, <2>2, <1>1 DEF Once
  <2>3. CASE i \notin DOMAIN old /\ j \in DOMAIN old
    <3>1. i = Len(old) + 1
      BY <2>3, <1>7
    <3> QED
      BY <3>1, <2>1, <2>3, <1>2, <1>6, <1>7
  <2>4. CASE i \in DOMAIN old /\ j \notin DOMAIN old
    <3>1. j = Len(old) + 1
      BY <2>4, <1>7
    <3> QED
      BY <3>1, <2>1, <2>4, <1>2, <1>6, <1>7
  <2>5. CASE i \notin DOMAIN old /\ j \notin DOMAIN old
    BY <2>5, <1>7
  <2> QED
    BY <2>2, <2>3, <2>4, <2>5
<1>9. EvidenceOf(more) = EvidenceOf(old) \union {EvidenceFrom(id, o)}
  <2> DEFINE E(r) == [logical |-> r.logical, content |-> r.content, contract |-> r.contract,
                      place |-> r.batch, ordinal |-> r.ordinal]
  <2>1. E(Row(id, o)) = EvidenceFrom(id, o)
    BY DEF Row, EvidenceFrom
  <2>2. EvidenceOf(more) = {E(more[i]) : i \in DOMAIN more}
        /\ EvidenceOf(old) = {E(old[i]) : i \in DOMAIN old}
    BY DEF EvidenceOf
  <2> HIDE DEF E
  <2>3. \A i \in DOMAIN more :
          \/ i \in DOMAIN old /\ more[i] = old[i]
          \/ more[i] = Row(id, o)
    BY <1>6, <1>7
  <2>4. \A i \in DOMAIN old : i \in DOMAIN more /\ more[i] = old[i]
    BY <1>6, <1>7
  <2>5. Len(old) + 1 \in DOMAIN more /\ more[Len(old) + 1] = Row(id, o)
    BY <1>6, <1>7
  <2> QED
    BY <2>1, <2>2, <2>3, <2>4, <2>5
<1> DEFINE after == WriteObservation(rows, id, o, version)
<1>10. after = [observations |-> more, conflicts |-> rows.conflicts,
                diagnostics |-> rows.diagnostics]
  BY <1>4, <1>5 DEF more
<1> HIDE DEF after
<1>11. after.observations = more /\ after.conflicts = rows.conflicts
  BY <1>10
<1>12. IsRows(after)
  BY <1>6, <1>8, <1>10 DEF IsRows
<1> QED
  BY <1>9, <1>11, <1>12 DEF after

\* Another observation of an accepted source is refused when it says something
\* else, and written nowhere when it says the same.
LEMMA WriteAgain ==
  ASSUME NEW rows, IsRows(rows), NEW id, NEW o, NEW version,
         Row(id, o) \in ObservationRows,
         NEW e \in EvidenceOf(rows.observations), e.logical = o.logical,
         NEW after, after = WriteObservation(rows, id, o, version)
  PROVE  /\ IsRows(after)
         /\ after.observations = rows.observations
         /\ e.content = o.content => RefusedIn(after.conflicts) = RefusedIn(rows.conflicts)
         /\ e.content # o.content =>
              RefusedIn(after.conflicts) = RefusedIn(rows.conflicts) \union {RefusalOf(o)}
<1> DEFINE old == rows.observations
<1>1. /\ old \in Seq(ObservationRows) /\ Once(old)
      /\ rows = [observations |-> old, conflicts |-> rows.conflicts,
                 diagnostics |-> rows.diagnostics]
  BY DEF IsRows
<1>2. PICK i \in DOMAIN old :
        e = [logical |-> old[i].logical, content |-> old[i].content,
             contract |-> old[i].contract, place |-> old[i].batch, ordinal |-> old[i].ordinal]
  BY DEF EvidenceOf
<1>3. old[i].logical = o.logical /\ old[i].content = e.content
  BY <1>2
<1>4. AcceptedFor(old, o.logical) = {i}
  BY <1>1, <1>3 DEF AcceptedFor, Once
<1>5. i \in Nat
  BY <1>1
<1>6. Min(AcceptedFor(old, o.logical)) = i
  BY <1>4, <1>5, MinOfOne
<1> DEFINE conflict == ConflictWith(old[i], o, version)
           worse == [rows EXCEPT !.conflicts = @ \union {conflict},
                                 !.diagnostics = @ \union {ConflictDiagnostic(id, o)}]
<1>7. after = IF old[i].content = o.content \/ conflict \in rows.conflicts THEN rows ELSE worse
  BY <1>4, <1>6 DEF WriteObservation
<1>8. conflict.logical = o.logical /\ conflict.rejected = o.content
  BY DEF ConflictWith
<1> HIDE DEF conflict, old
<1>9. worse = [observations |-> old, conflicts |-> rows.conflicts \union {conflict},
               diagnostics |-> rows.diagnostics \union {ConflictDiagnostic(id, o)}]
  <2> DEFINE cs == rows.conflicts \union {conflict}
             ds == rows.diagnostics \union {ConflictDiagnostic(id, o)}
             told == [rows EXCEPT !.conflicts = cs]
  <2> HIDE DEF cs, ds
  <2>1. told = [observations |-> old, conflicts |-> cs, diagnostics |-> rows.diagnostics]
    BY <1>1
  <2>2. [rows EXCEPT !.conflicts = cs, !.diagnostics = ds] = [told EXCEPT !.diagnostics = ds]
    OBVIOUS
  <2> HIDE DEF told
  <2>3. [told EXCEPT !.diagnostics = ds] =
          [observations |-> old, conflicts |-> cs, diagnostics |-> ds]
    BY <2>1
  <2>4. worse = [rows EXCEPT !.conflicts = cs, !.diagnostics = ds]
    BY Zenon DEF cs, ds
  <2> HIDE DEF worse
  <2> QED
    BY <2>2, <2>3, <2>4 DEF cs, ds
<1> HIDE DEF worse
<1>10. worse.observations = old /\ worse.conflicts = rows.conflicts \union {conflict}
  BY <1>9
<1>11. old[i].content # o.content => IsRows(worse)
  <2> SUFFICES ASSUME old[i].content # o.content
               PROVE  IsRows(worse)
    OBVIOUS
  <2>1. old[i] \in ObservationRows
    BY <1>1
  <2>2. Row(id, o).logical = o.logical /\ Row(id, o).content = o.content
    BY DEF Row
  <2>3. conflict.accepted = old[i].content
    BY DEF conflict, ConflictWith
  <2>4. \E a, r \in ObservationRows :
          /\ a.logical = r.logical /\ a.content # r.content
          /\ conflict.accepted = a.content /\ conflict.rejected = r.content
    BY <1>3, <1>8, <2>1, <2>2, <2>3
  <2>5. OverOneSource(rows.conflicts)
    BY DEF IsRows
  <2>6. OverOneSource(rows.conflicts \union {conflict})
    BY <2>4, <2>5 DEF OverOneSource
  <2> QED
    BY <1>1, <1>9, <1>10, <2>6 DEF IsRows
<1>12. IsRows(after) /\ after.observations = old
  BY <1>7, <1>10, <1>11 DEF old
<1>13. [logical |-> conflict.logical, content |-> conflict.rejected] = RefusalOf(o)
  BY <1>8 DEF RefusalOf
<1>14. RefusedIn(rows.conflicts \union {conflict}) =
         RefusedIn(rows.conflicts) \union {RefusalOf(o)}
  BY <1>13 DEF RefusedIn
<1>15. CASE e.content = o.content
  BY <1>3, <1>7, <1>12, <1>15 DEF old
<1>16. CASE e.content # o.content
  <2>1. CASE conflict \in rows.conflicts
    <3>1. after = rows
      BY <1>7, <2>1
    <3>2. rows.conflicts \union {conflict} = rows.conflicts
      BY <2>1
    <3>3. RefusedIn(after.conflicts) = RefusedIn(rows.conflicts) \union {RefusalOf(o)}
      BY <3>1, <3>2, <1>14
    <3> QED
      BY <3>3, <1>12, <1>16 DEF old
  <2>2. CASE conflict \notin rows.conflicts
    <3>1. after = worse
      BY <1>3, <1>7, <1>16, <2>2
    <3>3. RefusedIn(after.conflicts) = RefusedIn(rows.conflicts) \union {RefusalOf(o)}
      BY <3>1, <1>10, <1>14
    <3> QED
      BY <3>3, <1>12, <1>16 DEF old
  <2> QED
    BY <2>1, <2>2
<1> QED
  BY <1>15, <1>16

LEMMA EvidenceOfOne ==
  ASSUME NEW rows, Once(rows), NEW e \in EvidenceOf(rows), NEW f \in EvidenceOf(rows),
         e.logical = f.logical
  PROVE  e = f
<1>1. PICK i \in DOMAIN rows :
        e = [logical |-> rows[i].logical, content |-> rows[i].content,
             contract |-> rows[i].contract, place |-> rows[i].batch, ordinal |-> rows[i].ordinal]
  BY DEF EvidenceOf
<1>2. PICK j \in DOMAIN rows :
        f = [logical |-> rows[j].logical, content |-> rows[j].content,
             contract |-> rows[j].contract, place |-> rows[j].batch, ordinal |-> rows[j].ordinal]
  BY DEF EvidenceOf
<1>3. rows[i].logical = rows[j].logical
  BY <1>1, <1>2
<1>4. i = j
  BY <1>3 DEF Once
<1> QED
  BY <1>1, <1>2, <1>4

-----------------------------------------------------------------------------
(* The loop over the observations of a commit *)

\* The rows before and after each observation of the commit.
IsWriting(f, id, found, last, version) ==
  /\ f[0] = [observations |-> observations, conflicts |-> conflicts, diagnostics |-> diagnostics]
  /\ \A n \in 1..last : f[n] = WriteObservation(f[n - 1], id, found[n], version)

LEMMA WritingLonger ==
  ASSUME NEW id, NEW found, NEW version, NEW last \in Nat, NEW f,
         IsWriting(f, id, found, last, version)
  PROVE  \E g : IsWriting(g, id, found, last + 1, version)
<1> DEFINE next == WriteObservation(f[last], id, found[last + 1], version)
           g == [n \in 0..(last + 1) |-> IF n = last + 1 THEN next ELSE f[n]]
<1> HIDE DEF next
<1>1. \A n \in 0..last : g[n] = f[n]
  OBVIOUS
<1>2. g[last + 1] = next
  OBVIOUS
<1> HIDE DEF g
<1>3. g[0] = [observations |-> observations, conflicts |-> conflicts,
              diagnostics |-> diagnostics]
  BY <1>1 DEF IsWriting
<1>4. ASSUME NEW n \in 1..(last + 1)
      PROVE  g[n] = WriteObservation(g[n - 1], id, found[n], version)
  <2>1. CASE n = last + 1
    <3>1. n - 1 = last /\ last \in 0..last
      BY <2>1
    <3>2. g[n - 1] = f[last]
      BY <3>1, <1>1
    <3> QED
      BY <2>1, <3>2, <1>2 DEF next
  <2>2. CASE n # last + 1
    <3>1. n \in 1..last /\ n \in 0..last /\ n - 1 \in 0..last
      BY <2>2
    <3>2. g[n] = f[n] /\ g[n - 1] = f[n - 1]
      BY <3>1, <1>1
    <3>3. f[n] = WriteObservation(f[n - 1], id, found[n], version)
      BY <3>1 DEF IsWriting
    <3> QED
      BY <3>2, <3>3
  <2> QED
    BY <2>1, <2>2
<1>5. IsWriting(g, id, found, last + 1, version)
  BY <1>3, <1>4 DEF IsWriting
<1> QED
  BY <1>5

LEMMA WritingExists ==
  ASSUME NEW id, NEW found, NEW version, NEW last \in Nat
  PROVE  \E f : IsWriting(f, id, found, last, version)
<1> DEFINE T == {n \in 0..last : \E f : IsWriting(f, id, found, n, version)}
<1>1. 0 \in T
  <2> DEFINE start == [observations |-> observations, conflicts |-> conflicts,
                       diagnostics |-> diagnostics]
             f == [n \in 0..0 |-> start]
  <2>1. f[0] = start
    OBVIOUS
  <2> HIDE DEF f
  <2>2. IsWriting(f, id, found, 0, version)
    BY <2>1 DEF IsWriting
  <2> QED
    BY <2>2
<1>2. ASSUME NEW n \in 0..(last - 1), n \in T
      PROVE  n + 1 \in T
  <2>1. PICK f : IsWriting(f, id, found, n, version)
    BY <1>2
  <2>2. n \in Nat /\ n + 1 \in 0..last
    OBVIOUS
  <2>3. \E g : IsWriting(g, id, found, n + 1, version)
    BY <2>1, <2>2, WritingLonger
  <2> QED
    BY <2>2, <2>3
<1> HIDE DEF T
<1>3. 0..last \subseteq T
  BY <1>1, <1>2, UpToByInduction
<1> QED
  BY <1>3 DEF T

\* The recursion of the loop is well-founded: its result is the end of a writing.
LEMMA WriteAllIsWriting ==
  ASSUME NEW commit, NEW version, Len(commit.observations) \in Nat
  PROVE  \E f : /\ IsWriting(f, commit.id, commit.observations, Len(commit.observations), version)
                /\ WriteAll(commit, version) = f[Len(commit.observations)]
<1> DEFINE last == Len(commit.observations)
           start == [observations |-> observations, conflicts |-> conflicts,
                     diagnostics |-> diagnostics]
           Step(s) == [n \in 0..last |->
                         IF n = 0 THEN start
                         ELSE WriteObservation(s[n - 1], commit.id, commit.observations[n], version)]
           written == CHOOSE s : s = Step(s)
<1>1. WriteAll(commit, version) = written[last]
  BY DEF WriteAll
<1>2. PICK f : IsWriting(f, commit.id, commit.observations, last, version)
  BY WritingExists
<1> DEFINE g == [n \in 0..last |-> f[n]]
<1>3. g = Step(g)
  <2>1. \A n \in 0..last : n # 0 => n - 1 \in 0..last /\ n \in 1..last
    OBVIOUS
  <2>2. \A n \in 0..last : g[n] = f[n]
    OBVIOUS
  <2>3. \A n \in 0..last :
          f[n] = IF n = 0 THEN start
                 ELSE WriteObservation(f[n - 1], commit.id, commit.observations[n], version)
    BY <1>2, <2>1 DEF IsWriting
  <2>4. \A n \in 0..last :
          f[n] = IF n = 0 THEN start
                 ELSE WriteObservation(g[n - 1], commit.id, commit.observations[n], version)
    BY <2>1, <2>2, <2>3
  <2> HIDE DEF start
  <2> QED
    BY <2>4
<1> HIDE DEF g
<1>4. written = Step(written)
  BY <1>3
<1> HIDE DEF written
<1>5. written[0] = start
  BY <1>4
<1>6. ASSUME NEW n \in 1..last
      PROVE  written[n] = WriteObservation(written[n - 1], commit.id, commit.observations[n], version)
  <2>1. n \in 0..last /\ n # 0
    OBVIOUS
  <2> QED
    BY <1>4, <2>1
<1>7. IsWriting(written, commit.id, commit.observations, last, version)
  BY <1>5, <1>6 DEF IsWriting
<1> QED
  BY <1>1, <1>7

\* Of the first n observations found, those that become evidence: their source
\* is not claimed yet and no earlier one found is of it.
FirstOf(id, found, n) ==
  {EvidenceFrom(id, found[j]) :
     j \in {k \in 1..n : /\ \A e \in EvidenceOf(observations) : e.logical # found[k].logical
                         /\ \A l \in 1..(k - 1) : found[l].logical # found[k].logical}}

\* And those that are refused for what the evidence already says.
RefusedOf(evidence, found, n) ==
  {RefusalOf(found[j]) :
     j \in {k \in 1..n : \E e \in evidence :
              e.logical = found[k].logical /\ e.content # found[k].content}}

\* The rows after n observations of the commit.
Settled(rows, id, found, n) ==
  /\ IsRows(rows)
  /\ EvidenceOf(rows.observations) = EvidenceOf(observations) \union FirstOf(id, found, n)
  /\ RefusedIn(rows.conflicts) =
       RefusedIn(conflicts) \union RefusedOf(EvidenceOf(rows.observations), found, n)
  /\ \A j \in 1..n : \E e \in EvidenceOf(rows.observations) : e.logical = found[j].logical

LEMMA SettleFirst ==
  ASSUME NEW id, NEW found, NEW version, NEW n \in Nat, NEW rows, Settled(rows, id, found, n),
         Row(id, found[n + 1]) \in ObservationRows,
         \A e \in EvidenceOf(rows.observations) : e.logical # found[n + 1].logical
  PROVE  Settled(WriteObservation(rows, id, found[n + 1], version), id, found, n + 1)
<1> DEFINE o == found[n + 1]
           old == EvidenceOf(rows.observations)
           after == WriteObservation(rows, id, o, version)
           new == EvidenceOf(after.observations)
<1>1. IsRows(after) /\ new = old \union {EvidenceFrom(id, o)} /\ after.conflicts = rows.conflicts
  BY WriteFirst DEF Settled
<1> HIDE DEF after
<1>2. /\ old = EvidenceOf(observations) \union FirstOf(id, found, n)
      /\ RefusedIn(rows.conflicts) = RefusedIn(conflicts) \union RefusedOf(old, found, n)
      /\ \A j \in 1..n : \E e \in old : e.logical = found[j].logical
      /\ \A e \in old : e.logical # o.logical
  BY DEF Settled
<1>3. EvidenceFrom(id, o).logical = o.logical /\ EvidenceFrom(id, o).content = o.content
  BY DEF EvidenceFrom
<1> HIDE DEF new, old
<1>4. 1..(n + 1) = (1..n) \union {n + 1} /\ n + 1 \in 1..(n + 1) /\ (n + 1) - 1 = n
  OBVIOUS
<1>5. \A l \in 1..n : found[l].logical # o.logical
  BY <1>2
<1>6. FirstOf(id, found, n + 1) = FirstOf(id, found, n) \union {EvidenceFrom(id, o)}
  <2> DEFINE First(k) == /\ \A e \in EvidenceOf(observations) : e.logical # found[k].logical
                         /\ \A l \in 1..(k - 1) : found[l].logical # found[k].logical
  <2>1. First(n + 1)
    BY <1>2, <1>4, <1>5
  <2>2. /\ FirstOf(id, found, n) = {EvidenceFrom(id, found[j]) : j \in {k \in 1..n : First(k)}}
        /\ FirstOf(id, found, n + 1) =
             {EvidenceFrom(id, found[j]) : j \in {k \in 1..(n + 1) : First(k)}}
    BY DEF FirstOf
  <2> HIDE DEF First
  <2>3. {k \in 1..(n + 1) : First(k)} = {k \in 1..n : First(k)} \union {n + 1}
    BY <2>1, <1>4
  <2> QED
    BY <2>2, <2>3
<1>7. RefusedOf(new, found, n + 1) = RefusedOf(old, found, n)
  <2> DEFINE Against(k, S) == \E e \in S : e.logical = found[k].logical /\ e.content # found[k].content
  <2>1. ~Against(n + 1, new)
    BY <1>1, <1>2, <1>3
  <2>2. \A k \in 1..n : Against(k, new) <=> Against(k, old)
    BY <1>1, <1>3, <1>5
  <2>3. /\ RefusedOf(new, found, n + 1) =
             {RefusalOf(found[j]) : j \in {k \in 1..(n + 1) : Against(k, new)}}
        /\ RefusedOf(old, found, n) =
             {RefusalOf(found[j]) : j \in {k \in 1..n : Against(k, old)}}
    BY DEF RefusedOf
  <2> HIDE DEF Against
  <2>4. {k \in 1..(n + 1) : Against(k, new)} = {k \in 1..n : Against(k, old)}
    BY <2>1, <2>2, <1>4
  <2> QED
    BY <2>3, <2>4
<1>8. \A j \in 1..(n + 1) : \E e \in new : e.logical = found[j].logical
  BY <1>1, <1>2, <1>3, <1>4
<1>9. new = EvidenceOf(observations) \union FirstOf(id, found, n + 1)
  BY <1>1, <1>2, <1>6
<1>10. RefusedIn(after.conflicts) = RefusedIn(conflicts) \union RefusedOf(new, found, n + 1)
  BY <1>1, <1>2, <1>7
<1>11. Settled(after, id, found, n + 1)
  BY <1>1, <1>8, <1>9, <1>10 DEF Settled, new
<1> QED
  BY <1>11 DEF after

LEMMA SettleAgain ==
  ASSUME NEW id, NEW found, NEW version, NEW n \in Nat, NEW rows, Settled(rows, id, found, n),
         Row(id, found[n + 1]) \in ObservationRows,
         NEW e \in EvidenceOf(rows.observations), e.logical = found[n + 1].logical
  PROVE  Settled(WriteObservation(rows, id, found[n + 1], version), id, found, n + 1)
<1> DEFINE o == found[n + 1]
           old == EvidenceOf(rows.observations)
           after == WriteObservation(rows, id, o, version)
<1>1. /\ IsRows(after)
      /\ after.observations = rows.observations
      /\ e.content = o.content => RefusedIn(after.conflicts) = RefusedIn(rows.conflicts)
      /\ e.content # o.content =>
           RefusedIn(after.conflicts) = RefusedIn(rows.conflicts) \union {RefusalOf(o)}
  <2>1. /\ IsRows(rows) /\ e \in EvidenceOf(rows.observations) /\ e.logical = o.logical
        /\ Row(id, o) \in ObservationRows
    BY DEF Settled
  <2>2. after = WriteObservation(rows, id, o, version)
    OBVIOUS
  <2> HIDE DEF o, old, after
  <2> QED
    BY <2>1, <2>2, WriteAgain
<1> HIDE DEF after
<1>2. /\ old = EvidenceOf(observations) \union FirstOf(id, found, n)
      /\ RefusedIn(rows.conflicts) = RefusedIn(conflicts) \union RefusedOf(old, found, n)
      /\ \A j \in 1..n : \E f \in old : f.logical = found[j].logical
  BY DEF Settled
<1>3. \A f \in old : f.logical = o.logical => f = e
  BY EvidenceOfOne DEF Settled, IsRows
<1>4. 1..(n + 1) = (1..n) \union {n + 1} /\ n + 1 \in 1..(n + 1) /\ (n + 1) - 1 = n
  OBVIOUS
<1>5. FirstOf(id, found, n + 1) = FirstOf(id, found, n)
  <2> DEFINE First(k) == /\ \A f \in EvidenceOf(observations) : f.logical # found[k].logical
                         /\ \A l \in 1..(k - 1) : found[l].logical # found[k].logical
  <2>1. ~First(n + 1)
    <3>1. CASE e \in EvidenceOf(observations)
      BY <3>1
    <3>2. CASE e \in FirstOf(id, found, n)
      <4>1. PICK j \in 1..n : e = EvidenceFrom(id, found[j])
        BY <3>2 DEF FirstOf
      <4>2. e.logical = found[j].logical
        BY <4>1 DEF EvidenceFrom
      <4> QED
        BY <4>1, <4>2, <1>4
    <3> QED
      BY <3>1, <3>2, <1>2
  <2>2. /\ FirstOf(id, found, n) = {EvidenceFrom(id, found[j]) : j \in {k \in 1..n : First(k)}}
        /\ FirstOf(id, found, n + 1) =
             {EvidenceFrom(id, found[j]) : j \in {k \in 1..(n + 1) : First(k)}}
    BY DEF FirstOf
  <2> HIDE DEF First
  <2>3. {k \in 1..(n + 1) : First(k)} = {k \in 1..n : First(k)}
    BY <2>1, <1>4
  <2> QED
    BY <2>2, <2>3
<1>6. RefusedIn(after.conflicts) = RefusedIn(conflicts) \union RefusedOf(old, found, n + 1)
  <2> DEFINE Against(k) == \E f \in old : f.logical = found[k].logical /\ f.content # found[k].content
  <2>1. /\ RefusedOf(old, found, n + 1) =
             {RefusalOf(found[j]) : j \in {k \in 1..(n + 1) : Against(k)}}
        /\ RefusedOf(old, found, n) =
             {RefusalOf(found[j]) : j \in {k \in 1..n : Against(k)}}
    BY DEF RefusedOf
  <2>2. Against(n + 1) <=> e.content # o.content
    BY <1>3
  <2> HIDE DEF Against
  <2>3. CASE e.content = o.content
    <3>1. {k \in 1..(n + 1) : Against(k)} = {k \in 1..n : Against(k)}
      BY <2>2, <2>3, <1>4
    <3> QED
      BY <3>1, <2>1, <2>3, <1>1, <1>2
  <2>4. CASE e.content # o.content
    <3>1. {k \in 1..(n + 1) : Against(k)} = {k \in 1..n : Against(k)} \union {n + 1}
      BY <2>2, <2>4, <1>4
    <3>2. RefusedOf(old, found, n + 1) = RefusedOf(old, found, n) \union {RefusalOf(o)}
      BY <3>1, <2>1
    <3> QED
      BY <3>2, <2>4, <1>1, <1>2
  <2> QED
    BY <2>3, <2>4
<1>7. \A j \in 1..(n + 1) : \E f \in old : f.logical = found[j].logical
  BY <1>2, <1>4
<1>8. Settled(after, id, found, n + 1)
  BY <1>1, <1>2, <1>5, <1>6, <1>7 DEF Settled
<1> QED
  BY <1>8 DEF after

LEMMA WritingSettles ==
  ASSUME NEW id, NEW found, NEW version, NEW last \in Nat, NEW f,
         IsWriting(f, id, found, last, version),
         observations \in Seq(ObservationRows), AcceptedOnce,
         \A n \in 1..last : Row(id, found[n]) \in ObservationRows
  PROVE  Settled(f[last], id, found, last)
<1> DEFINE T == {n \in 0..last : Settled(f[n], id, found, n)}
<1>1. 0 \in T
  <2>1. f[0] = [observations |-> observations, conflicts |-> conflicts,
                diagnostics |-> diagnostics]
    BY DEF IsWriting
  <2>2. f[0].observations = observations /\ f[0].conflicts = conflicts
        /\ f[0].diagnostics = diagnostics
    BY <2>1
  <2>3. IsRows(f[0])
    BY <2>1, <2>2 DEF IsRows, Once, AcceptedOnce
  <2>4. 1..0 = {}
    OBVIOUS
  <2>5. FirstOf(id, found, 0) = {} /\ RefusedOf(EvidenceOf(observations), found, 0) = {}
    BY <2>4 DEF FirstOf, RefusedOf
  <2>6. Settled(f[0], id, found, 0)
    BY <2>2, <2>3, <2>4, <2>5 DEF Settled
  <2> QED
    BY <2>6
<1>2. ASSUME NEW n \in 0..(last - 1), n \in T
      PROVE  n + 1 \in T
  <2>1. n \in Nat /\ n + 1 \in 1..last /\ n + 1 \in 0..last /\ (n + 1) - 1 = n
    OBVIOUS
  <2>2. Settled(f[n], id, found, n)
    BY <1>2
  <2>3. f[n + 1] = WriteObservation(f[n], id, found[n + 1], version)
    BY <2>1 DEF IsWriting
  <2>4. Row(id, found[n + 1]) \in ObservationRows
    BY <2>1
  <2>5. Settled(f[n + 1], id, found, n + 1)
    <3>1. CASE \A e \in EvidenceOf(f[n].observations) : e.logical # found[n + 1].logical
      BY <2>1, <2>2, <2>3, <2>4, <3>1, SettleFirst
    <3>2. CASE \E e \in EvidenceOf(f[n].observations) : e.logical = found[n + 1].logical
      BY <2>1, <2>2, <2>3, <2>4, <3>2, SettleAgain
    <3> QED
      BY <3>1, <3>2
  <2> QED
    BY <2>1, <2>5
<1> HIDE DEF T
<1>3. 0..last \subseteq T
  BY <1>1, <1>2, UpToByInduction
<1> QED
  BY <1>3 DEF T

-----------------------------------------------------------------------------
(* Clocks, rows and checkpoints *)

LEMMA LatestClock ==
  /\ Clocks \subseteq 0..Max(Clocks) /\ Max(Clocks) \in Nat
<1>1. PICK latest \in Clocks : \A clock \in Clocks : clock <= latest
  BY PipelineAssumption
<1>2. Clocks \in SUBSET Nat /\ latest \in Nat
  BY PipelineAssumption
<1>3. Max(Clocks) = latest
  BY <1>1, <1>2, MaxIsUnique
<1> QED
  BY <1>1, <1>2, <1>3

\* What an admitted request is filed as can be decoded again.
LEMMA AdmittedBatch ==
  ASSUME NEW request \in Admissible
  PROVE  LET batch == NewRawOtlpBatch(request)
         IN /\ batch.payload \in DOMAIN SizeOf
            /\ batch.signal \in OtlpSignals /\ batch.encoding \in WireEncodings
            /\ Decodes(batch.signal, batch.encoding, batch.payload)
<1>1. request \in Requests /\ Refusal(request, MaxRequestBytes) = {}
  BY DEF Admissible
<1>2. /\ RequestWireEncoding(request) # {}
      /\ DecompressedBody(request) # {}
      /\ \A p \in DecompressedBody(request) : ValidShape(request, p)
  BY <1>1, Zenon DEF Refusal
<1>3. RequestWireEncoding(request) \subseteq WireEncodings
  BY DEF RequestWireEncoding, WireEncodingOf, WireEncodings
<1>4. PICK e \in WireEncodings : e \in RequestWireEncoding(request)
  BY <1>2, <1>3
<1> DEFINE batch == NewRawOtlpBatch(request)
<1>5. batch.encoding \in RequestWireEncoding(request)
  <2>1. (CHOOSE x \in WireEncodings : x \in RequestWireEncoding(request))
           \in RequestWireEncoding(request)
    BY <1>4
  <2> QED
    BY <2>1 DEF NewRawOtlpBatch
<1>6. batch.payload \in DecompressedBody(request) /\ batch.signal = request.signal
  <2>1. (CHOOSE p \in DecompressedBody(request) : TRUE) \in DecompressedBody(request)
    BY <1>2
  <2> QED
    BY <2>1 DEF NewRawOtlpBatch
<1>7. Decodes(batch.signal, batch.encoding, batch.payload)
  BY <1>2, <1>5, <1>6 DEF ValidShape
<1>8. batch.payload \in DOMAIN Bytes
  <2> HIDE DEF batch
  <2>1. PICK c \in DOMAIN request.body : batch.payload = request.body[c]
    BY <1>6 DEF DecompressedBody
  <2> QED
    BY <1>1, <2>1, PipelineAssumption
<1>9. DOMAIN SizeOf = DOMAIN Bytes
  BY PipelineAssumption
<1>10. request.signal \in OtlpSignals /\ batch.encoding \in WireEncodings
  BY <1>1, <1>3, <1>5, PipelineAssumption
<1> QED
  BY <1>6, <1>7, <1>8, <1>9, <1>10

LEMMA LedgerBatchFields ==
  ASSUME NEW row \in LedgerBatches
  PROVE  /\ row.id \in 1..MaxBatches
         /\ row.received \in 0..Max(Clocks)
         /\ row.payload \in DOMAIN SizeOf
         /\ SizeOf[row.payload] \in Nat
         /\ row.signal \in OtlpSignals /\ row.encoding \in WireEncodings
         /\ Decodes(row.signal, row.encoding, row.payload)
<1>1. PICK i \in 1..MaxBatches, b \in {NewRawOtlpBatch(q) : q \in Admissible},
           t \in 0..Max(Clocks) :
        row = [id |-> i, received |-> t,
               signal |-> b.signal, encoding |-> b.encoding, payload |-> b.payload]
  BY DEF LedgerBatches
<1>2. PICK q \in Admissible : b = NewRawOtlpBatch(q)
  OBVIOUS
<1>3. /\ b.payload \in DOMAIN SizeOf /\ b.signal \in OtlpSignals /\ b.encoding \in WireEncodings
      /\ Decodes(b.signal, b.encoding, b.payload)
  BY <1>2, AdmittedBatch
<1>4. /\ row.id = i /\ row.received = t /\ row.payload = b.payload
      /\ row.signal = b.signal /\ row.encoding = b.encoding
  BY <1>1
<1>5. SizeOf[b.payload] \in Nat
  BY <1>3, LimitsAssumption
<1> QED
  BY <1>3, <1>4, <1>5

LEMMA RowsHaveFields ==
  ASSUME PipelineTypeOK
  PROVE  /\ lastId \in Nat /\ MaxBatches \in Nat /\ lastId <= MaxBatches
         /\ DOMAIN received = 1..lastId
         /\ \A i \in 1..lastId :
              /\ received[i] \in LedgerBatches
              /\ received[i].received \in 0..Max(Clocks)
              /\ received[i].payload \in DOMAIN SizeOf
              /\ SizeOf[received[i].payload] \in Nat
<1>1. /\ lastId \in 0..MaxBatches /\ MaxBatches \in Nat
      /\ received \in Seq(LedgerBatches) /\ Len(received) = lastId
  BY PipelineAssumption DEF PipelineTypeOK
<1>2. DOMAIN received = 1..lastId /\ \A i \in 1..lastId : received[i] \in LedgerBatches
  BY <1>1
<1> QED
  BY <1>1, <1>2, LedgerBatchFields

\* The checkpoint consumers share is one of the checkpoints.
LEMMA Checkpoint ==
  ASSUME PipelineTypeOK
  PROVE  /\ ForwardCheckpoint \in 0..lastId
         /\ \A v \in Versions : checkpoints[v] <= ForwardCheckpoint
<1> DEFINE all == {checkpoints[v] : v \in Versions}
<1>1. lastId \in Nat /\ checkpoints \in [Versions -> 0..lastId]
  BY RowsHaveFields DEF PipelineTypeOK
<1>2. all \in SUBSET (0..lastId) /\ all # {} /\ \A v \in Versions : checkpoints[v] \in all
  <2>1. PICK v \in Versions : TRUE
    BY VersionsAssumption
  <2>2. checkpoints[v] \in all
    BY <2>1
  <2> QED
    BY <1>1, <2>2
<1> HIDE DEF all
<1>3. Max(all) \in all /\ \A x \in all : x <= Max(all)
  BY <1>1, <1>2, MaxOfBounded
<1>4. ForwardCheckpoint = Max(all)
  BY DEF ForwardCheckpoint, all
<1> QED
  BY <1>2, <1>3, <1>4

\* It moves to the batch that is committed.
LEMMA CheckpointMoves ==
  ASSUME PipelineTypeOK, NEW version \in Versions, NEW id \in 1..lastId, id > ForwardCheckpoint,
         checkpoints' = [checkpoints EXCEPT ![version] = Max({@, id})]
  PROVE  checkpoints' \in [Versions -> 0..lastId] /\ ForwardCheckpoint' = id
<1>1. /\ lastId \in Nat /\ checkpoints \in [Versions -> 0..lastId]
      /\ ForwardCheckpoint \in 0..lastId
      /\ \A v \in Versions : checkpoints[v] <= ForwardCheckpoint
  BY RowsHaveFields, Checkpoint DEF PipelineTypeOK
<1>2. Max({checkpoints[version], id}) = id
  <2> DEFINE S == {checkpoints[version], id}
  <2>1. S \in SUBSET Nat /\ id \in S /\ \A x \in S : x <= id
    BY <1>1
  <2> HIDE DEF S
  <2>2. Max(S) = id
    BY <2>1, MaxIsUnique
  <2> QED
    BY <2>2 DEF S
<1>3. checkpoints' = [checkpoints EXCEPT ![version] = id]
  BY <1>2
<1>4. checkpoints' \in [Versions -> 0..lastId]
  BY <1>1, <1>3
<1>5. checkpoints'[version] = id /\ \A v \in Versions : checkpoints'[v] <= id
  <2>1. checkpoints'[version] = id
    BY <1>1, <1>3
  <2>2. \A v \in Versions : v # version => checkpoints'[v] = checkpoints[v]
    BY <1>1, <1>3
  <2>3. \A v \in Versions : checkpoints[v] \in Nat /\ checkpoints[v] <= id
    BY <1>1
  <2> QED
    BY <2>1, <2>2, <2>3
<1> DEFINE all == {checkpoints'[v] : v \in Versions}
<1>6. all \in SUBSET Nat /\ id \in all /\ \A x \in all : x <= id
  BY <1>1, <1>4, <1>5
<1> HIDE DEF all
<1>7. Max(all) = id
  BY <1>6, MaxIsUnique
<1>8. ForwardCheckpoint' = Max(all)
  BY DEF ForwardCheckpoint, all
<1> QED
  BY <1>4, <1>7, <1>8

-----------------------------------------------------------------------------
(* What a batch projects to *)

LEMMA CatalogCompiles ==
  ASSUME NEW etag \in LedgerCatalogs
  PROVE  Compiles(Catalog(etag))
<1>1. CASE etag = 0
  <2>1. Catalog(etag) = <<>>
    BY <1>1 DEF Catalog, EmptyCatalog
  <2>2. DOMAIN <<>> = {}
    OBVIOUS
  <2> DEFINE document == Catalog(etag)
  <2>3. DOMAIN document = {}
    BY <2>1, <2>2
  <2> HIDE DEF document
  <2>4. Compiles(document)
    BY <2>3, Zenon DEF Compiles
  <2> QED
    BY <2>4 DEF document
<1>2. CASE etag # 0
  BY <1>2 DEF LedgerCatalogs, Catalog
<1> QED
  BY <1>1, <1>2

\* An observation of a candidate the projector admits under a catalog.
Candidate(c) ==
  /\ IsCandidate(c)
  /\ LogicalSource(c) \in DigestedValues /\ CanonicalPayload(c) \in DigestedValues

MadeOf(o, c, document) == \E n \in Nat : Admits(c, document) /\ o = Made(c, n, document)

LEMMA ProjectedBatch ==
  ASSUME NEW row \in LedgerBatches, NEW etag \in LedgerCatalogs,
         NEW found, found = Projection(row, etag).observations
  PROVE  /\ Len(found) \in Nat /\ DOMAIN found = 1..Len(found)
         /\ \A i, j \in DOMAIN found : i < j => found[i].ordinal < found[j].ordinal
         /\ \A i \in DOMAIN found :
              /\ found[i].ordinal \in Nat
              /\ ValidObservation(found[i])
              /\ \E c, document : Candidate(c) /\ MadeOf(found[i], c, document)
<1> DEFINE raw == Raw(row)
           document == Catalog(etag)
           all == Candidates(raw)
<1>1. raw \in RawBatches
  <2>1. /\ row.signal \in OtlpSignals /\ row.encoding \in WireEncodings
        /\ row.payload \in DOMAIN Bytes
    BY LedgerBatchFields, PipelineAssumption
  <2> QED
    BY <2>1 DEF Raw, RawBatches
<1>2. Compiles(document)
  BY CatalogCompiles
<1>3. found = Observations(raw, document)
  BY ProjectionAssumption DEF ProjectBatch
<1> HIDE DEF raw, document
<1>4. IsSequence(all) /\ \A c \in ToSet(all) : IsCandidate(c)
  BY <1>1, CandidatesDecoded
<1>5. found \in Seq(AdmittedOf(all, document)) /\ Increasing(found)
  BY <1>3, <1>4, ObservationsInOrder
<1>6. Len(found) \in Nat /\ DOMAIN found = 1..Len(found)
  BY <1>5
<1>7. ASSUME NEW i \in DOMAIN found
      PROVE  /\ found[i].ordinal \in Nat
             /\ ValidObservation(found[i])
             /\ \E c, doc : Candidate(c) /\ MadeOf(found[i], c, doc)
  <2>1. found[i] \in AdmittedOf(all, document)
    BY <1>5, <1>6
  <2>2. PICK n \in DOMAIN all :
          Admits(all[n], document) /\ found[i] = Made(all[n], n, document)
    BY <2>1 DEF AdmittedOf
  <2>3. n \in Nat
    <3>1. all \in Seq(ToSet(all))
      BY <1>4 DEF IsSequence
    <3> HIDE DEF all
    <3> QED
      BY <3>1
  <2>4. all[n] \in ToSet(all)
    BY DEF ToSet
  <2>5. PICK c : c = all[n]
    OBVIOUS
  <2>6. IsCandidate(c)
    BY <1>4, <2>4, <2>5
  <2>7. LogicalSource(c) \in DigestedValues /\ CanonicalPayload(c) \in DigestedValues
    <3> DEFINE every == UNION {ToSet(Candidates(b)) : b \in RawBatches}
    <3>1. c \in every
      BY <1>1, <2>4, <2>5
    <3>2. DigestedValues = {LogicalSource(d) : d \in every} \union {CanonicalPayload(d) : d \in every}
      BY DEF DigestedValues
    <3> HIDE DEF every
    <3> QED
      BY <3>1, <3>2
  <2>8. found[i].ordinal = n
    BY <2>2 DEF Made, CreateObservation
  <2>9. ValidObservation(found[i])
    <3>1. AuthorityNames = Identifiers /\ DigestTexts = Sha256Digests
      BY PipelineAssumption
    <3> QED
      BY <3>1, <1>2, <2>2, <2>5, <2>6, AdmittedIsValid DEF ValidObservation
  <2>10. Candidate(c) /\ MadeOf(found[i], c, document)
    BY <2>2, <2>3, <2>5, <2>6, <2>7 DEF Candidate, MadeOf
  <2> QED
    BY <2>3, <2>8, <2>9, <2>10
<1> QED
  BY <1>5, <1>6, <1>7 DEF Increasing

-----------------------------------------------------------------------------
(* Appending *)

\* A receipt is no earlier than the last one or the replay boundary.
LEMMA ReceiptTime ==
  ASSUME PipelineTypeOK, NEW clock \in Clocks
  PROVE  /\ InboxTime(clock) \in 0..Max(Clocks)
         /\ \A t \in books.lastReceived \union books.earliestReplay : t <= InboxTime(clock)
<1> DEFINE S == {clock} \union books.lastReceived \union books.earliestReplay
<1>1. /\ books.lastReceived \in Optional(0..Max(Clocks))
      /\ books.earliestReplay \in Optional(0..Max(Clocks))
  BY DEF PipelineTypeOK
<1>2. Max(Clocks) \in Nat /\ clock \in 0..Max(Clocks)
  BY LatestClock
<1>3. S \in SUBSET (0..Max(Clocks)) /\ S # {}
  BY <1>1, <1>2 DEF Optional
<1>4. InboxTime(clock) = Max(S)
  BY DEF InboxTime
<1>5. \A t \in books.lastReceived \union books.earliestReplay : t \in S
  OBVIOUS
<1> HIDE DEF S
<1>6. Max(S) \in S /\ \A x \in S : x <= Max(S)
  BY <1>2, <1>3, MaxOfBounded
<1> QED
  BY <1>3, <1>4, <1>5, <1>6

\* An acknowledgement leaves the books right and every page sound.
LEMMA IngestStep ==
  ASSUME PipelineInv, NEW request \in Requests, NEW clock \in Clocks, Ingest(request, clock)
  PROVE  PipelineInv'
<1> DEFINE batch == NewRawOtlpBatch(request)
           now == InboxTime(clock)
           row == [id |-> lastId + 1, received |-> now,
                   signal |-> batch.signal, encoding |-> batch.encoding,
                   payload |-> batch.payload]
           size == SizeOf[batch.payload]
<1>1. /\ request \in Admissible /\ lastId < MaxBatches
      /\ books.bytes + size <= MaxRetainedBytes
      /\ lastId' = lastId + 1
      /\ batches' = [id \in DOMAIN batches \union {lastId + 1} |->
                      IF id \in DOMAIN batches THEN batches[id]
                      ELSE [id |-> id, received |-> now, signal |-> batch.signal,
                            encoding |-> batch.encoding, payload |-> batch.payload]]
      /\ books' = [books EXCEPT !.lastReceived = {now}, !.retained = @ + 1, !.bytes = @ + size]
      /\ received' = Append(received, batches'[lastId'])
      /\ UNCHANGED <<storeVars, published, worker, faults>>
  BY Zenon DEF Ingest, AppendBatch, Fits
<1>2. PipelineTypeOK /\ InboxBooks /\ ReceiptsInOrder /\ AcceptedOnce
      /\ \A w \in Workers : PageSound(worker[w])
  BY DEF PipelineInv
<1>3. /\ lastId \in Nat /\ MaxBatches \in Nat
      /\ DOMAIN received = 1..lastId
      /\ received \in Seq(LedgerBatches) /\ Len(received) = lastId
      /\ \A i \in 1..lastId : /\ received[i].received \in 0..Max(Clocks)
                              /\ SizeOf[received[i].payload] \in Nat
  BY <1>2, RowsHaveFields DEF PipelineTypeOK
<1>4. /\ now \in 0..Max(Clocks) /\ Max(Clocks) \in Nat
      /\ \A t \in books.lastReceived \union books.earliestReplay : t <= now
  BY <1>2, ReceiptTime, LatestClock
<1>5. batch.payload \in DOMAIN SizeOf /\ size \in Nat
  BY <1>1, AdmittedBatch, LimitsAssumption
<1>6. row \in LedgerBatches
  <2>1. batch \in {NewRawOtlpBatch(q) : q \in Admissible}
    BY <1>1
  <2>2. lastId + 1 \in 1..MaxBatches
    BY <1>1, <1>3
  <2> HIDE DEF batch, now
  <2> QED
    BY <1>4, <2>1, <2>2 DEF LedgerBatches
<1>7. row.id = lastId + 1 /\ row.received = now /\ row.payload = batch.payload
  OBVIOUS
<1> HIDE DEF row, now, size, batch
<1>8. DOMAIN batches' = DOMAIN batches \union {lastId + 1}
  BY <1>1
<1>9. DOMAIN batches = (books.expired + 1)..lastId
  BY <1>2 DEF InboxBooks
<1>10. /\ books.retained \in 0..MaxBatches /\ books.bytes \in Nat
       /\ books.expired \in Nat /\ books.expiredBytes \in Nat
       /\ books.earliestReplay \in Optional(0..Max(Clocks))
       /\ books.expired + books.retained = lastId
  BY <1>2 DEF PipelineTypeOK, InboxBooks
<1>11. /\ batches'[lastId + 1] = row
       /\ \A id \in DOMAIN batches : batches'[id] = batches[id]
  <2>1. lastId + 1 \notin DOMAIN batches
    BY <1>3, <1>9, <1>10
  <2> QED
    BY <1>1, <2>1 DEF row
<1>12. /\ received' \in Seq(LedgerBatches) /\ Len(received') = lastId'
       /\ DOMAIN received' = 1..(lastId + 1)
       /\ \A i \in 1..lastId : received'[i] = received[i]
       /\ received'[lastId + 1] = row
  <2>1. received' = Append(received, row)
    BY <1>1, <1>11
  <2> QED
    BY <1>1, <1>3, <1>6, <2>1
<1>13. /\ books'.retained = books.retained + 1 /\ books'.bytes = books.bytes + size
       /\ books'.expired = books.expired /\ books'.expiredBytes = books.expiredBytes
       /\ books'.earliestReplay = books.earliestReplay /\ books'.lastReceived = {now}
  BY <1>1, <1>2 DEF PipelineTypeOK
<1>14. PipelineTypeOK'
  <2>1. lastId' \in 0..MaxBatches
    BY <1>1, <1>3
  <2>2. DOMAIN batches' \subseteq 1..lastId'
    BY <1>1, <1>3, <1>8, <1>9, <1>10
  <2>3. books' \in [retained : 0..MaxBatches, bytes : Nat, expired : 0..MaxBatches,
                    expiredBytes : Nat, earliestReplay : Optional(0..Max(Clocks)),
                    lastReceived : Optional(0..Max(Clocks))]
    <3>1. books.retained + 1 \in 0..MaxBatches
      BY <1>1, <1>3, <1>10
    <3>2. books.bytes + size \in Nat
      BY <1>5, <1>10
    <3>3. {now} \in Optional(0..Max(Clocks))
      BY <1>4 DEF Optional
    <3>4. books \in [retained : 0..MaxBatches, bytes : Nat, expired : 0..MaxBatches,
                     expiredBytes : Nat, earliestReplay : Optional(0..Max(Clocks)),
                     lastReceived : Optional(0..Max(Clocks))]
      BY <1>2 DEF PipelineTypeOK
    <3> QED
      BY <1>1, <3>1, <3>2, <3>3, <3>4
  <2>4. checkpoints' \in [Versions -> 0..lastId']
    <3>1. checkpoints \in [Versions -> 0..lastId] /\ checkpoints' = checkpoints
      BY <1>1, <1>2 DEF PipelineTypeOK, storeVars
    <3>2. \A v \in Versions : checkpoints[v] \in 0..lastId'
      BY <1>1, <1>3, <3>1
    <3> QED
      BY <3>1, <3>2
  <2> QED
    BY <1>1, <1>2, <1>12, <2>1, <2>2, <2>3, <2>4 DEF PipelineTypeOK, storeVars
<1>15. PayloadBytes(batches', lastId') = PayloadBytes(batches, lastId) + size
  <2>1. \A id \in 1..lastId : Weight(batches', id) = Weight(batches, id)
    BY <1>3, <1>8, <1>11 DEF Weight
  <2>2. Weight(batches', lastId + 1) = size
    BY <1>7, <1>8, <1>11 DEF Weight, size
  <2>3. \A id \in 1..lastId : Weight(batches, id) \in Nat
    <3>1. \A id \in DOMAIN batches : batches[id] = received[id]
      BY <1>2 DEF InboxBooks
    <3> QED
      BY <1>3, <3>1 DEF Weight
  <2>4. Weighed(batches', lastId + 1)
    <3> SUFFICES ASSUME NEW id \in 1..(lastId + 1)
                 PROVE  Weight(batches', id) \in Nat
      BY DEF Weighed
    <3>1. CASE id = lastId + 1
      BY <3>1, <2>2, <1>5
    <3>2. CASE id # lastId + 1
      <4>1. id \in 1..lastId
        BY <3>2, <1>3
      <4> QED
        BY <4>1, <2>1, <2>3
    <3> QED
      BY <3>1, <3>2
  <2>5. PayloadBytes(batches', lastId + 1) = PayloadBytes(batches, lastId) + size
    BY <1>3, <2>1, <2>2, <2>4, PayloadBytesLonger
  <2> QED
    BY <1>1, <2>5
<1>16. PayloadBytes(received', lastId') = PayloadBytes(received, lastId) + size
  <2>1. \A id \in 1..lastId : Weight(received', id) = Weight(received, id)
    BY <1>3, <1>12 DEF Weight
  <2>2. Weight(received', lastId + 1) = size
    BY <1>3, <1>7, <1>12 DEF Weight, size
  <2>3. \A id \in 1..lastId : Weight(received, id) \in Nat
    BY <1>3 DEF Weight
  <2>4. Weighed(received', lastId + 1)
    <3> SUFFICES ASSUME NEW id \in 1..(lastId + 1)
                 PROVE  Weight(received', id) \in Nat
      BY DEF Weighed
    <3>1. CASE id = lastId + 1
      BY <3>1, <2>2, <1>5
    <3>2. CASE id # lastId + 1
      <4>1. id \in 1..lastId
        BY <3>2, <1>3
      <4> QED
        BY <4>1, <2>1, <2>3
    <3> QED
      BY <3>1, <3>2
  <2>5. PayloadBytes(received', lastId + 1) = PayloadBytes(received, lastId) + size
    BY <1>3, <2>1, <2>2, <2>4, PayloadBytesLonger
  <2> QED
    BY <1>1, <2>5
<1>17. InboxBooks'
  <2>1. /\ books.retained = Cardinality(DOMAIN batches)
        /\ books.bytes = PayloadBytes(batches, lastId)
        /\ books.expiredBytes + books.bytes = PayloadBytes(received, lastId)
        /\ \A id \in DOMAIN batches : batches[id] = received[id]
        /\ \A i, j \in DOMAIN received : i < j => received[i].received <= received[j].received
        /\ \A b \in books.earliestReplay, id \in DOMAIN batches : b <= batches[id].received
        /\ books.expired > 0 => \E b \in books.earliestReplay : received[books.expired].received < b
    BY <1>2 DEF InboxBooks
  <2>2. books.expired \in Nat /\ books.expired <= lastId
    BY <1>3, <1>10
  <2>3. DOMAIN batches' = (books'.expired + 1)..lastId'
    BY <1>1, <1>3, <1>8, <1>9, <1>13, <2>2
  <2>4. books'.retained = Cardinality(DOMAIN batches')
    <3>1. lastId' \in Nat /\ books'.expired \in Nat /\ books'.expired <= lastId'
      BY <1>1, <1>3, <1>13, <2>2
    <3>2. Cardinality((books'.expired + 1)..lastId') = lastId' - books'.expired
      BY <3>1, IntervalCardinality
    <3>3. books'.retained = lastId' - books'.expired
      BY <1>1, <1>3, <1>10, <1>13
    <3> QED
      BY <2>3, <3>2, <3>3
  <2>5. books'.bytes = PayloadBytes(batches', lastId') /\ books'.bytes <= MaxRetainedBytes
    BY <1>1, <1>13, <1>15, <2>1
  <2>6. books'.expired + books'.retained = lastId'
    BY <1>1, <1>3, <1>10, <1>13
  <2>7. books'.expiredBytes + books'.bytes = PayloadBytes(received', lastId')
    BY <1>5, <1>10, <1>13, <1>16, <2>1
  <2>8. \A id \in DOMAIN batches' : batches'[id] = received'[id]
    BY <1>3, <1>8, <1>9, <1>11, <1>12, <2>1, <2>2
  <2>9. \A i, j \in DOMAIN received' : i < j => received'[i].received <= received'[j].received
    <3> SUFFICES ASSUME NEW i \in DOMAIN received', NEW j \in DOMAIN received', i < j
                 PROVE  received'[i].received <= received'[j].received
      OBVIOUS
    <3>1. i \in 1..lastId /\ received'[i] = received[i]
      BY <1>3, <1>12
    <3>2. CASE j = lastId + 1
      <4>1. \E t \in books.lastReceived : received[i].received <= t
        BY <3>1, <1>2, <1>3 DEF ReceiptsInOrder
      <4>2. books.lastReceived \subseteq 0..Max(Clocks)
        BY <1>2 DEF PipelineTypeOK, Optional
      <4>3. received[i].received \in Int /\ now \in Int
        BY <3>1, <1>3, <1>4
      <4>4. received[i].received <= now
        BY <4>1, <4>2, <4>3, <1>4
      <4> QED
        BY <3>1, <3>2, <4>4, <1>7, <1>12
    <3>3. CASE j # lastId + 1
      <4>1. j \in 1..lastId /\ received'[j] = received[j]
        BY <3>3, <1>3, <1>12
      <4> QED
        BY <3>1, <4>1, <2>1, <1>3
    <3> QED
      BY <3>2, <3>3
  <2>10. \A b \in books'.earliestReplay, id \in DOMAIN batches' : b <= batches'[id].received
    <3> SUFFICES ASSUME NEW b \in books.earliestReplay, NEW id \in DOMAIN batches'
                 PROVE  b <= batches'[id].received
      BY <1>13
    <3>1. CASE id = lastId + 1
      BY <3>1, <1>4, <1>7, <1>11
    <3>2. CASE id # lastId + 1
      BY <3>2, <1>8, <1>11, <2>1
    <3> QED
      BY <3>1, <3>2
  <2>11. books'.expired > 0 =>
           \E b \in books'.earliestReplay : received'[books'.expired].received < b
    <3> SUFFICES ASSUME books.expired > 0
                 PROVE  \E b \in books.earliestReplay : received'[books.expired].received < b
      BY <1>13
    <3>1. books.expired \in 1..lastId
      BY <1>3, <2>2
    <3> QED
      BY <3>1, <1>12, <2>1
  <2> QED
    BY <2>3, <2>4, <2>5, <2>6, <2>7, <2>8, <2>9, <2>10, <2>11 DEF InboxBooks
<1>18. ReceiptsInOrder'
  <2> SUFFICES ASSUME NEW i \in 1..(lastId + 1)
               PROVE  /\ received'[i].id = i
                      /\ \E last \in books'.lastReceived : received'[i].received <= last
    BY <1>12 DEF ReceiptsInOrder
  <2>1. CASE i = lastId + 1
    BY <2>1, <1>4, <1>7, <1>12, <1>13
  <2>2. CASE i # lastId + 1
    <3>1. i \in 1..lastId /\ received'[i] = received[i]
      BY <2>2, <1>3, <1>12
    <3>2. received[i].id = i /\ \E t \in books.lastReceived : received[i].received <= t
      BY <3>1, <1>2, <1>3 DEF ReceiptsInOrder
    <3>3. books.lastReceived \subseteq 0..Max(Clocks)
      BY <1>2 DEF PipelineTypeOK, Optional
    <3>4. received[i].received \in Int /\ now \in Int
      BY <3>1, <1>3, <1>4
    <3>5. received[i].received <= now
      BY <3>2, <3>3, <3>4, <1>4
    <3> QED
      BY <3>1, <3>2, <3>5, <1>13
  <2> QED
    BY <2>1, <2>2
<1>19. ForwardCheckpoint' = ForwardCheckpoint
  BY <1>1 DEF ForwardCheckpoint, storeVars
<1>20. ASSUME NEW w \in Workers
       PROVE  PageSound(worker[w])'
  <2>1. worker' = worker
    BY <1>1
  <2>2. PageSound(worker[w])
    BY <1>2
  <2> DEFINE process == worker[w]
  <2>3. worker'[w] = process
    BY <2>1
  <2> HIDE DEF process
  <2> SUFFICES ASSUME process.pc # "down"
               PROVE  /\ process.after <= ForwardCheckpoint'
                      /\ \A r \in process.page : r.id \in 1..lastId' /\ r = received'[r.id]
                      /\ \A r \in process.page : \A id \in (ForwardCheckpoint' + 1)..(r.id - 1) :
                           id <= books'.expired \/ \E other \in process.page : other.id = id
    BY <2>3 DEF PageSound
  <2>4. /\ process.after <= ForwardCheckpoint
        /\ \A r \in process.page : r.id \in 1..lastId /\ r = received[r.id]
        /\ \A r \in process.page : \A id \in (ForwardCheckpoint + 1)..(r.id - 1) :
             id <= books.expired \/ \E other \in process.page : other.id = id
    BY <2>2 DEF PageSound, process
  <2>5. \A r \in process.page : r.id \in 1..lastId' /\ r = received'[r.id]
    BY <2>4, <1>1, <1>3, <1>12
  <2> QED
    BY <2>4, <2>5, <1>13, <1>19
<1>21. AcceptedOnce'
  BY <1>1, <1>2 DEF AcceptedOnce, OverOneSource, storeVars
<1> QED
  BY <1>14, <1>17, <1>18, <1>20, <1>21 DEF PipelineInv

-----------------------------------------------------------------------------
(* Retention *)

\* What retention takes is the front of what is retained.
LEMMA OlderIsFront ==
  ASSUME PipelineInv, NEW cutoff \in Int, Older(cutoff) # {}
  PROVE  \E last \in (books.expired + 1)..lastId :
           /\ Older(cutoff) = (books.expired + 1)..last
           /\ DOMAIN batches \ Older(cutoff) = (last + 1)..lastId
           /\ received[last].received < cutoff
           /\ \A id \in (last + 1)..lastId : cutoff <= received[id].received
<1>1. PipelineTypeOK /\ InboxBooks
  BY DEF PipelineInv
<1>2. /\ lastId \in Nat /\ DOMAIN received = 1..lastId
      /\ \A i \in 1..lastId : received[i].received \in Nat
  BY <1>1, RowsHaveFields
<1>3. /\ books.expired \in Nat
      /\ DOMAIN batches = (books.expired + 1)..lastId
      /\ \A id \in DOMAIN batches : batches[id] = received[id]
      /\ \A i, j \in DOMAIN received : i < j => received[i].received <= received[j].received
  BY <1>1 DEF PipelineTypeOK, InboxBooks
<1> DEFINE old == Older(cutoff)
<1>4. \A id \in Nat : id \in old <=> id \in (books.expired + 1)..lastId /\ received[id].received < cutoff
  BY <1>3 DEF Older
<1>5. old \in SUBSET (0..lastId) /\ old # {}
  BY <1>2, <1>3 DEF Older
<1> HIDE DEF old
<1>6. PICK last \in old : \A id \in old : id <= last
  <2>1. Max(old) \in old /\ \A x \in old : x <= Max(old)
    BY <1>2, <1>5, MaxOfBounded
  <2> QED
    BY <2>1
<1>7. last \in (books.expired + 1)..lastId /\ received[last].received < cutoff /\ last \in Nat
  BY <1>4, <1>5, <1>6
<1>8. \A id \in (books.expired + 1)..last : id \in old
  <2> SUFFICES ASSUME NEW id \in (books.expired + 1)..last
               PROVE  id \in old
    OBVIOUS
  <2>1. id \in (books.expired + 1)..lastId /\ id \in 1..lastId /\ last \in 1..lastId /\ id \in Nat
    BY <1>2, <1>3, <1>7
  <2>2. received[id].received <= received[last].received
    BY <2>1, <1>2, <1>3
  <2>3. received[id].received < cutoff
    BY <2>1, <2>2, <1>2, <1>7
  <2> QED
    BY <2>1, <2>3, <1>4
<1>9. old = (books.expired + 1)..last
  <2>1. \A id \in old : id \in Nat /\ id \in (books.expired + 1)..lastId /\ id <= last
    BY <1>2, <1>4, <1>5, <1>6
  <2>2. \A id \in old : id \in (books.expired + 1)..last
    BY <2>1, <1>2, <1>3, <1>7
  <2> QED
    BY <2>2, <1>8
<1>10. DOMAIN batches \ old = (last + 1)..lastId
  BY <1>2, <1>3, <1>7, <1>9
<1>11. \A id \in (last + 1)..lastId : cutoff <= received[id].received
  <2> SUFFICES ASSUME NEW id \in (last + 1)..lastId
               PROVE  cutoff <= received[id].received
    OBVIOUS
  <2>1. id \in Nat /\ id \in (books.expired + 1)..lastId /\ id \in 1..lastId /\ id \notin old
    BY <1>2, <1>3, <1>7, <1>9
  <2> QED
    BY <2>1, <1>2, <1>4
<1> QED
  BY <1>7, <1>9, <1>10, <1>11 DEF old

LEMMA MaintainStep ==
  ASSUME PipelineInv, NEW clock \in Clocks, Maintain(clock)
  PROVE  PipelineInv'
<1> DEFINE cutoff == InboxTime(clock) - HardRetention
           old == Older(cutoff)
           taken == Restrict(batches, old)
           bytes == PayloadBytes(taken, lastId)
           boundary == Max(books.earliestReplay \union {cutoff})
<1>1. /\ old # {}
      /\ batches' = Restrict(batches, DOMAIN batches \ old)
      /\ books' = [books EXCEPT !.retained = @ - Cardinality(old),
                                !.bytes = @ - bytes,
                                !.expired = @ + Cardinality(old),
                                !.expiredBytes = @ + bytes,
                                !.earliestReplay = {Max(@ \union {cutoff})}]
      /\ lastId' = lastId
      /\ UNCHANGED <<storeVars, received, published, worker, faults>>
  BY Zenon DEF Maintain, EnforceRetention, ExpireBefore
<1>2. PipelineTypeOK /\ InboxBooks /\ ReceiptsInOrder /\ AcceptedOnce
      /\ \A w \in Workers : PageSound(worker[w])
  BY DEF PipelineInv
<1>3. /\ lastId \in Nat /\ MaxBatches \in Nat /\ lastId <= MaxBatches
      /\ DOMAIN received = 1..lastId
      /\ \A i \in 1..lastId : /\ received[i].received \in 0..Max(Clocks)
                              /\ SizeOf[received[i].payload] \in Nat
  BY <1>2, RowsHaveFields
<1>4. InboxTime(clock) \in 0..Max(Clocks) /\ Max(Clocks) \in Nat /\ HardRetention \in Nat
  BY <1>2, ReceiptTime, LatestClock, LimitsAssumption
<1>5. cutoff \in Int /\ cutoff <= Max(Clocks)
  BY <1>4
<1> HIDE DEF cutoff
<1>6. PICK last \in (books.expired + 1)..lastId :
        /\ old = (books.expired + 1)..last
        /\ DOMAIN batches \ old = (last + 1)..lastId
        /\ received[last].received < cutoff
        /\ \A id \in (last + 1)..lastId : cutoff <= received[id].received
  BY <1>1, <1>5, OlderIsFront
<1>7. /\ books.retained \in 0..MaxBatches /\ books.bytes \in Nat
      /\ books.expired \in Nat /\ books.expiredBytes \in Nat
      /\ books.earliestReplay \in Optional(0..Max(Clocks))
      /\ books.expired + books.retained = lastId
      /\ books.bytes = PayloadBytes(batches, lastId) /\ books.bytes <= MaxRetainedBytes
      /\ books.expiredBytes + books.bytes = PayloadBytes(received, lastId)
      /\ DOMAIN batches = (books.expired + 1)..lastId
      /\ \A id \in DOMAIN batches : batches[id] = received[id]
  BY <1>2 DEF PipelineTypeOK, InboxBooks
<1>8. last \in Nat /\ last \in 1..lastId /\ Cardinality(old) = last - books.expired
  <2>1. last \in Nat /\ last \in 1..lastId /\ books.expired <= last
    BY <1>3, <1>7
  <2>2. Cardinality((books.expired + 1)..last) = last - books.expired
    BY <2>1, <1>7, IntervalCardinality
  <2> QED
    BY <2>1, <2>2, <1>6
<1>9. cutoff \in 0..Max(Clocks)
  <2>1. received[last].received \in Nat
    BY <1>3, <1>8
  <2> QED
    BY <2>1, <1>4, <1>5, <1>6
<1>10. /\ boundary \in 0..Max(Clocks) /\ cutoff <= boundary
       /\ \A b \in books.earliestReplay : b <= boundary
       /\ boundary = cutoff \/ boundary \in books.earliestReplay
  <2> DEFINE S == books.earliestReplay \union {cutoff}
  <2>1. S \in SUBSET (0..Max(Clocks)) /\ S # {}
    BY <1>7, <1>9 DEF Optional
  <2> HIDE DEF S
  <2>2. Max(S) \in S /\ \A x \in S : x <= Max(S)
    BY <2>1, <1>4, MaxOfBounded
  <2>3. boundary = Max(S)
    BY DEF S
  <2> HIDE DEF boundary
  <2> QED
    BY <2>1, <2>2, <2>3 DEF S
<1>11. /\ DOMAIN batches' = (last + 1)..lastId
       /\ \A id \in DOMAIN batches' : batches'[id] = batches[id] /\ id \in DOMAIN batches
  BY <1>1, <1>6 DEF Restrict
<1>12. /\ DOMAIN taken = old
       /\ \A id \in old : taken[id] = batches[id] /\ id \in DOMAIN batches
  BY DEF Restrict, Older
<1> HIDE DEF taken, old, boundary
<1>13. \A id \in 1..lastId :
         /\ Weight(batches, id) \in Nat /\ Weight(batches', id) \in Nat /\ Weight(taken, id) \in Nat
         /\ Weight(batches, id) = Weight(batches', id) + Weight(taken, id)
  <2> SUFFICES ASSUME NEW id \in 1..lastId
               PROVE  /\ Weight(batches, id) \in Nat /\ Weight(batches', id) \in Nat
                      /\ Weight(taken, id) \in Nat
                      /\ Weight(batches, id) = Weight(batches', id) + Weight(taken, id)
    OBVIOUS
  <2>1. Weight(batches, id) \in Nat
    BY <1>3, <1>7 DEF Weight
  <2>2. CASE id \in (last + 1)..lastId
    <3>1. id \in DOMAIN batches' /\ id \notin DOMAIN taken
      BY <2>2, <1>3, <1>6, <1>8, <1>11, <1>12
    <3>2. Weight(batches', id) = Weight(batches, id) /\ Weight(taken, id) = 0
      BY <3>1, <1>11 DEF Weight
    <3> QED
      BY <2>1, <3>2
  <2>3. CASE id \in old
    <3>1. id \notin DOMAIN batches' /\ id \in DOMAIN taken
      BY <2>3, <1>6, <1>7, <1>8, <1>11, <1>12
    <3>2. Weight(batches', id) = 0 /\ Weight(taken, id) = Weight(batches, id)
      BY <3>1, <1>12 DEF Weight
    <3> QED
      BY <2>1, <3>2
  <2>4. CASE id \notin old /\ id \notin (last + 1)..lastId
    <3>1. id \notin DOMAIN batches /\ id \notin DOMAIN batches' /\ id \notin DOMAIN taken
      BY <2>4, <1>6, <1>11, <1>12
    <3> QED
      BY <3>1 DEF Weight
  <2> QED
    BY <2>2, <2>3, <2>4
<1>14. PayloadBytes(batches, lastId) = PayloadBytes(batches', lastId) + bytes
       /\ PayloadBytes(batches', lastId) \in Nat /\ bytes \in Nat
  <2>1. Weighed(batches', lastId) /\ Weighed(taken, lastId)
    BY <1>13 DEF Weighed
  <2>2. PayloadBytes(batches, lastId) = PayloadBytes(batches', lastId) + PayloadBytes(taken, lastId)
    BY <2>1, <1>3, <1>13, PayloadBytesSplit
  <2>3. PayloadBytes(batches', lastId) \in Nat /\ PayloadBytes(taken, lastId) \in Nat
    BY <2>1, <1>3, PayloadBytesNat
  <2> QED
    BY <2>2, <2>3
<1> HIDE DEF bytes
<1>15. /\ books'.retained = lastId - last
       /\ books'.expired = last
       /\ books'.bytes = PayloadBytes(batches', lastId)
       /\ books'.expiredBytes = books.expiredBytes + bytes
       /\ books'.earliestReplay = {boundary}
       /\ books'.lastReceived = books.lastReceived
  <2>1. books \in [retained : 0..MaxBatches, bytes : Nat, expired : 0..MaxBatches,
                   expiredBytes : Nat, earliestReplay : Optional(0..Max(Clocks)),
                   lastReceived : Optional(0..Max(Clocks))]
    BY <1>2 DEF PipelineTypeOK
  <2>2. /\ books'.retained = books.retained - Cardinality(old)
        /\ books'.expired = books.expired + Cardinality(old)
        /\ books'.bytes = books.bytes - bytes
        /\ books'.expiredBytes = books.expiredBytes + bytes
        /\ books'.earliestReplay = {boundary}
        /\ books'.lastReceived = books.lastReceived
    BY <1>1, <2>1 DEF boundary
  <2> QED
    BY <2>2, <1>7, <1>8, <1>14
<1>16. PipelineTypeOK'
  <2>1. DOMAIN batches' \subseteq 1..lastId'
    BY <1>1, <1>3, <1>8, <1>11
  <2>2. books' \in [retained : 0..MaxBatches, bytes : Nat, expired : 0..MaxBatches,
                    expiredBytes : Nat, earliestReplay : Optional(0..Max(Clocks)),
                    lastReceived : Optional(0..Max(Clocks))]
    <3>1. books \in [retained : 0..MaxBatches, bytes : Nat, expired : 0..MaxBatches,
                     expiredBytes : Nat, earliestReplay : Optional(0..Max(Clocks)),
                     lastReceived : Optional(0..Max(Clocks))]
      BY <1>2 DEF PipelineTypeOK
    <3> DEFINE left == books.retained - Cardinality(old)
               gone == books.expired + Cardinality(old)
               fewer == books.bytes - bytes
               more == books.expiredBytes + bytes
    <3>2. books' = [books EXCEPT !.retained = left, !.bytes = fewer, !.expired = gone,
                                 !.expiredBytes = more, !.earliestReplay = {boundary}]
      BY <1>1, Zenon DEF boundary
    <3> HIDE DEF left, gone, fewer, more
    <3>3. {boundary} \in Optional(0..Max(Clocks))
      BY <1>10 DEF Optional
    <3>4. /\ books'.retained = left /\ books'.expired = gone
          /\ books'.bytes = fewer /\ books'.expiredBytes = more
      BY <3>1, <3>2
    <3>5. left \in 0..MaxBatches /\ gone \in 0..MaxBatches
      BY <3>4, <1>3, <1>8, <1>15
    <3>6. fewer \in Nat /\ more \in Nat
      BY <3>4, <1>7, <1>14, <1>15
    <3> QED
      BY <3>1, <3>2, <3>3, <3>5, <3>6
  <2>3. lastId' = lastId /\ received' = received /\ published' = published /\ worker' = worker
        /\ faults' = faults /\ observations' = observations /\ checkpoints' = checkpoints
        /\ cachedCatalog' = cachedCatalog
    BY <1>1 DEF storeVars
  <2> QED
    BY <1>2, <2>1, <2>2, <2>3 DEF PipelineTypeOK
<1>17. received' = received
  BY <1>1
<1>18. InboxBooks'
  <2>1. books'.retained = Cardinality(DOMAIN batches')
    <3>1. Cardinality((last + 1)..lastId) = lastId - last
      BY <1>3, <1>8, IntervalCardinality
    <3> QED
      BY <3>1, <1>11, <1>15
  <2>2. books'.bytes = PayloadBytes(batches', lastId') /\ books'.bytes <= MaxRetainedBytes
    <3>1. MaxRetainedBytes \in Nat
      BY LimitsAssumption
    <3> QED
      BY <3>1, <1>1, <1>7, <1>14, <1>15
  <2>3. books'.expired + books'.retained = lastId'
    BY <1>1, <1>3, <1>8, <1>15
  <2>4. books'.expiredBytes + books'.bytes = PayloadBytes(received', lastId')
    BY <1>1, <1>7, <1>14, <1>15
  <2>5. DOMAIN batches' = (books'.expired + 1)..lastId'
    BY <1>1, <1>11, <1>15
  <2>6. \A id \in DOMAIN batches' : batches'[id] = received'[id]
    BY <1>7, <1>11, <1>17
  <2>7. \A i, j \in DOMAIN received' : i < j => received'[i].received <= received'[j].received
    BY <1>2, <1>17 DEF InboxBooks
  <2>8. \A b \in books'.earliestReplay, id \in DOMAIN batches' : b <= batches'[id].received
    <3> SUFFICES ASSUME NEW id \in DOMAIN batches'
                 PROVE  boundary <= batches'[id].received
      BY <1>15
    <3>1. id \in (last + 1)..lastId /\ batches'[id] = batches[id] /\ id \in DOMAIN batches
      BY <1>11
    <3>2. cutoff <= batches'[id].received
      BY <3>1, <1>6, <1>7
    <3>3. \A b \in books.earliestReplay : b <= batches'[id].received
      BY <3>1, <1>2 DEF InboxBooks
    <3> QED
      BY <3>2, <3>3, <1>10
  <2>9. \E b \in books'.earliestReplay : received'[books'.expired].received < b
    <3>1. received[last].received \in Nat
      BY <1>3, <1>8
    <3>2. received[last].received < boundary
      BY <3>1, <1>5, <1>6, <1>10
    <3> QED
      BY <3>2, <1>15, <1>17
  <2> QED
    BY <2>1, <2>2, <2>3, <2>4, <2>5, <2>6, <2>7, <2>8, <2>9 DEF InboxBooks
<1>19. ReceiptsInOrder'
  BY <1>2, <1>15, <1>17 DEF ReceiptsInOrder
<1>20. ForwardCheckpoint' = ForwardCheckpoint
  BY <1>1 DEF ForwardCheckpoint, storeVars
<1>21. ASSUME NEW w \in Workers
       PROVE  PageSound(worker[w])'
  <2> DEFINE process == worker[w]
  <2>1. worker'[w] = process /\ lastId' = lastId
    BY <1>1
  <2>2. PageSound(process)
    BY <1>2
  <2> HIDE DEF process
  <2> SUFFICES ASSUME process.pc # "down"
               PROVE  /\ process.after <= ForwardCheckpoint'
                      /\ \A r \in process.page : r.id \in 1..lastId' /\ r = received'[r.id]
                      /\ \A r \in process.page : \A id \in (ForwardCheckpoint' + 1)..(r.id - 1) :
                           id <= books'.expired \/ \E other \in process.page : other.id = id
    BY <2>1 DEF PageSound
  <2>3. /\ process.after <= ForwardCheckpoint
        /\ \A r \in process.page : r.id \in 1..lastId /\ r = received[r.id]
        /\ \A r \in process.page : \A id \in (ForwardCheckpoint + 1)..(r.id - 1) :
             id <= books.expired \/ \E other \in process.page : other.id = id
    BY <2>2 DEF PageSound
  <2>4. ForwardCheckpoint \in Nat
    BY <1>2, <1>3, Checkpoint
  <2>5. books.expired <= books'.expired /\ books'.expired \in Nat
    BY <1>7, <1>8, <1>15, <1>6
  <2>6. \A r \in process.page : \A id \in (ForwardCheckpoint' + 1)..(r.id - 1) :
          id <= books'.expired \/ \E other \in process.page : other.id = id
    <3> SUFFICES ASSUME NEW r \in process.page, NEW id \in (ForwardCheckpoint + 1)..(r.id - 1)
                 PROVE  id <= books'.expired \/ \E other \in process.page : other.id = id
      BY <1>20
    <3>1. id <= books.expired \/ \E other \in process.page : other.id = id
      BY <2>3
    <3>2. id \in Int
      OBVIOUS
    <3> QED
      BY <3>1, <3>2, <2>5, <1>7
  <2> QED
    BY <2>1, <2>3, <2>6, <1>17, <1>20
<1>22. AcceptedOnce'
  BY <1>1, <1>2 DEF AcceptedOnce, OverOneSource, storeVars
<1> QED
  BY <1>16, <1>18, <1>19, <1>21, <1>22 DEF PipelineInv

-----------------------------------------------------------------------------
(* Steps of a materializer *)

LEMMA CatalogNumbers ==
  /\ LedgerCatalogs \subseteq Nat
  /\ \A etag \in DOMAIN Published : Compiles(Catalog(etag)) => etag \in LedgerCatalogs \ {0}
<1>1. DOMAIN Published = 1..Len(Published) /\ Len(Published) \in Nat
  BY PipelineAssumption
<1>2. LedgerCatalogs = {0} \union {i \in DOMAIN Published : Compiles(Published[i])}
  BY DEF LedgerCatalogs
<1>3. \A etag \in DOMAIN Published : etag # 0 /\ Catalog(etag) = Published[etag]
  BY <1>1 DEF Catalog
<1> QED
  BY <1>1, <1>2, <1>3

\* A process that is up holds what a process may hold.
LEMMA RunningProcess ==
  ASSUME PipelineInv, NEW w \in Workers, worker[w].pc # "down"
  PROVE  worker[w] \in Processes /\ PageSound(worker[w])
<1>1. worker[w] \in {Down} \union Processes /\ PageSound(worker[w])
  BY DEF PipelineInv, PipelineTypeOK
<1>2. worker[w] # Down
  BY DEF Down
<1> QED
  BY <1>1, <1>2

LEMMA FurtherInterval ==
  ASSUME NEW low \in Nat, NEW next \in Nat, low <= next, NEW high \in Int,
         NEW n \in (next + 1)..high
  PROVE  n \in (low + 1)..high
OBVIOUS

\* While the inbox stands still and the checkpoint only moves on, only the
\* process that steps can come to hold anything wrong.
LEMMA ProcessStep ==
  ASSUME PipelineInv, NEW w \in Workers, NEW process,
         process \in {Down} \union Processes, PageSound(process)',
         worker' = [v \in Workers |-> IF v = w THEN process ELSE worker[v]],
         UNCHANGED <<inboxVars, received, published>>,
         observations' \in Seq(ObservationRows), AcceptedOnce',
         checkpoints' \in [Versions -> 0..lastId], ForwardCheckpoint <= ForwardCheckpoint',
         ForwardCheckpoint' \in Nat,
         cachedCatalog' \in Optional(LedgerCatalogs \ {0}),
         faults' \in 0..MaxFaults
  PROVE  PipelineInv'
<1>1. PipelineTypeOK /\ InboxBooks /\ ReceiptsInOrder /\ \A v \in Workers : PageSound(worker[v])
  BY DEF PipelineInv
<1>2. /\ batches' = batches /\ books' = books /\ lastId' = lastId /\ received' = received
      /\ published' = published
  BY DEF inboxVars
<1>3. worker' \in [Workers -> {Down} \union Processes]
  <2>1. worker \in [Workers -> {Down} \union Processes]
    BY <1>1 DEF PipelineTypeOK
  <2>2. \A v \in Workers : worker[v] \in {Down} \union Processes
    BY <2>1
  <2> DEFINE S == {Down} \union Processes
  <2>3. process \in S /\ \A v \in Workers : worker[v] \in S
    BY <2>2
  <2> HIDE DEF S
  <2>4. worker' \in [Workers -> S]
    BY <2>3
  <2> QED
    BY <2>4 DEF S
<1>4. PipelineTypeOK'
  BY <1>1, <1>2, <1>3 DEF PipelineTypeOK
<1>5. InboxBooks' /\ ReceiptsInOrder'
  BY <1>1, <1>2 DEF InboxBooks, ReceiptsInOrder
<1>6. ASSUME NEW v \in Workers
      PROVE  PageSound(worker[v])'
  <2> DEFINE p == worker[v]
  <2>1. CASE v = w
    <3>1. worker'[v] = process
      BY <2>1
    <3> QED
      BY <3>1 DEF PageSound
  <2>2. CASE v # w
    <3>1. worker'[v] = p
      BY <2>2
    <3>2. PageSound(p)
      BY <1>1
    <3>3. p.pc # "down" => p \in Processes
      <4>1. PipelineInv /\ worker[v] = p
        OBVIOUS
      <4> QED
        BY <4>1, RunningProcess
    <3> HIDE DEF p
    <3>4. PICK next \in Nat : next = ForwardCheckpoint' /\ ForwardCheckpoint <= next
      OBVIOUS
    <3> SUFFICES ASSUME p.pc # "down"
                 PROVE  /\ p.after <= next
                        /\ \A row \in p.page : row.id \in 1..lastId /\ row = received[row.id]
                        /\ \A row \in p.page : \A id \in (next + 1)..(row.id - 1) :
                             id <= books.expired \/ \E other \in p.page : other.id = id
      BY <3>1, <3>4, <1>2 DEF PageSound
    <3>5. /\ p.after <= ForwardCheckpoint
          /\ \A row \in p.page : row.id \in 1..lastId /\ row = received[row.id]
          /\ \A row \in p.page : \A id \in (ForwardCheckpoint + 1)..(row.id - 1) :
               id <= books.expired \/ \E other \in p.page : other.id = id
      BY <3>2 DEF PageSound
    <3>6. ForwardCheckpoint \in Nat /\ lastId \in Nat
      BY <1>1, Checkpoint, RowsHaveFields
    <3>7. p.after \in Nat
      BY <3>3, PipelineAssumption DEF Processes
    <3>8. p.after <= next
      BY <3>4, <3>5, <3>6, <3>7
    <3>9. \A row \in p.page : \A id \in (next + 1)..(row.id - 1) :
            id <= books.expired \/ \E other \in p.page : other.id = id
      <4> SUFFICES ASSUME NEW row \in p.page, NEW id \in (next + 1)..(row.id - 1)
                   PROVE  id <= books.expired \/ \E other \in p.page : other.id = id
        OBVIOUS
      <4> DEFINE top == row.id - 1
      <4>1. top \in Int /\ id \in (next + 1)..top
        BY <3>5, <3>6
      <4> HIDE DEF top
      <4>2. id \in (ForwardCheckpoint + 1)..top
        BY <4>1, <3>4, <3>6, FurtherInterval
      <4> QED
        BY <4>2, <3>5 DEF top
    <3> QED
      BY <3>5, <3>8, <3>9
  <2> QED
    BY <2>1, <2>2
<1> QED
  BY <1>4, <1>5, <1>6 DEF PipelineInv

\* A step that touches neither the inbox nor the store.
LEMMA QuietStep ==
  ASSUME PipelineInv, NEW w \in Workers, NEW process,
         process \in {Down} \union Processes, PageSound(process),
         worker' = [v \in Workers |-> IF v = w THEN process ELSE worker[v]],
         UNCHANGED <<inboxVars, storeVars, received, published>>,
         faults' \in 0..MaxFaults
  PROVE  PipelineInv'
<1>1. PipelineTypeOK /\ AcceptedOnce
  BY DEF PipelineInv
<1>2. /\ observations' = observations /\ conflicts' = conflicts /\ checkpoints' = checkpoints
      /\ cachedCatalog' = cachedCatalog /\ lastId' = lastId /\ received' = received
      /\ books' = books /\ UNCHANGED <<inboxVars, received, published>>
  BY DEF storeVars, inboxVars
<1>3. ForwardCheckpoint' = ForwardCheckpoint
  BY <1>2 DEF ForwardCheckpoint
<1>4. lastId \in Nat /\ ForwardCheckpoint \in Nat
  BY <1>1, RowsHaveFields, Checkpoint
<1>5. PageSound(process)'
  BY <1>2, <1>3 DEF PageSound
<1>6. observations' \in Seq(ObservationRows) /\ AcceptedOnce'
      /\ checkpoints' \in [Versions -> 0..lastId]
      /\ cachedCatalog' \in Optional(LedgerCatalogs \ {0})
  BY <1>1, <1>2 DEF PipelineTypeOK, AcceptedOnce, OverOneSource
<1>7. ForwardCheckpoint <= ForwardCheckpoint' /\ ForwardCheckpoint' \in Nat
  BY <1>3, <1>4
<1> QED
  BY <1>2, <1>5, <1>6, <1>7, ProcessStep

\* Setting fields of one process changes that process alone.
LEMMA SetProcess ==
  ASSUME PipelineInv, NEW w \in Workers, NEW process, Set(w, process)
  PROVE  worker' = [v \in Workers |-> IF v = w THEN process ELSE worker[v]]
<1>1. worker \in [Workers -> {Down} \union Processes]
  BY DEF PipelineInv, PipelineTypeOK
<1> QED
  BY <1>1 DEF Set

LEMMA PublishStep ==
  ASSUME PipelineInv, Publish
  PROVE  PipelineInv'
<1>1. PipelineTypeOK /\ InboxBooks /\ ReceiptsInOrder /\ AcceptedOnce
      /\ \A w \in Workers : PageSound(worker[w])
  BY DEF PipelineInv
<1>2. /\ published < Len(Published) /\ published' = published + 1
      /\ batches' = batches /\ books' = books /\ lastId' = lastId /\ received' = received
      /\ observations' = observations /\ conflicts' = conflicts /\ checkpoints' = checkpoints
      /\ cachedCatalog' = cachedCatalog /\ worker' = worker /\ faults' = faults
  BY DEF Publish, inboxVars, storeVars
<1>3. published' \in DOMAIN Published
  BY <1>1, <1>2, PipelineAssumption DEF PipelineTypeOK
<1>4. PipelineTypeOK'
  BY <1>1, <1>2, <1>3 DEF PipelineTypeOK
<1>5. InboxBooks' /\ ReceiptsInOrder' /\ AcceptedOnce'
  BY <1>1, <1>2 DEF InboxBooks, ReceiptsInOrder, AcceptedOnce, OverOneSource
<1>6. ForwardCheckpoint' = ForwardCheckpoint
  BY <1>2 DEF ForwardCheckpoint
<1>7. \A w \in Workers : PageSound(worker[w])'
  BY <1>1, <1>2, <1>6 DEF PageSound
<1> QED
  BY <1>4, <1>5, <1>7 DEF PipelineInv

LEMMA StartStep ==
  ASSUME PipelineInv, NEW w \in Workers, Start(w)
  PROVE  PipelineInv'
<1> DEFINE process == [pc |-> "idle", page |-> {}, after |-> 0, offer |-> {},
                       catalog |-> Max({0} \union cachedCatalog)]
<1>1. /\ Set(w, process)
      /\ UNCHANGED <<inboxVars, storeVars, received, published, faults>>
  BY Zenon DEF Start
<1>2. PipelineTypeOK
  BY DEF PipelineInv
<1>3. Max({0} \union cachedCatalog) \in LedgerCatalogs
  <2>1. cachedCatalog \in Optional(LedgerCatalogs \ {0})
    BY <1>2 DEF PipelineTypeOK
  <2>2. 0 \in LedgerCatalogs
    BY DEF LedgerCatalogs
  <2>3. CASE cachedCatalog = {}
    <3>1. Max({0}) = 0
      BY MaxIsUnique
    <3> QED
      BY <2>2, <2>3, <3>1
  <2>4. CASE cachedCatalog # {}
    <3>1. PICK etag \in LedgerCatalogs \ {0} : cachedCatalog = {etag}
      BY <2>1, <2>4 DEF Optional
    <3>2. etag \in Nat /\ 0 <= etag
      BY CatalogNumbers
    <3> DEFINE S == {0} \union cachedCatalog
    <3>3. S \in SUBSET Nat /\ etag \in S /\ \A x \in S : x <= etag
      BY <3>1, <3>2
    <3> HIDE DEF S
    <3>4. Max(S) = etag
      BY <3>3, MaxIsUnique
    <3> QED
      BY <3>4 DEF S
  <2> QED
    BY <2>3, <2>4
<1>4. ForwardCheckpoint \in Nat /\ MaxBatches \in Nat
  BY <1>2, RowsHaveFields, Checkpoint
<1> DEFINE top == Max({0} \union cachedCatalog)
<1> HIDE DEF top
<1>5. top \in LedgerCatalogs
  BY <1>3 DEF top
<1>6. process = [pc |-> "idle", page |-> {}, after |-> 0, offer |-> {}, catalog |-> top]
  BY DEF top
<1> HIDE DEF process
<1>7. process \in Processes
  BY <1>4, <1>5, <1>6 DEF Processes, Working, Optional
<1>8. PageSound(process)
  <2>1. process.page = {} /\ process.after = 0
    BY <1>6
  <2> QED
    BY <2>1, <1>4 DEF PageSound
<1>9. worker' = [v \in Workers |-> IF v = w THEN process ELSE worker[v]]
  BY <1>1, SetProcess
<1>10. faults' \in 0..MaxFaults
  BY <1>1, <1>2 DEF PipelineTypeOK
<1> QED
  BY <1>1, <1>7, <1>8, <1>9, <1>10, QuietStep

LEMMA StopStep ==
  ASSUME PipelineInv, NEW w \in Workers, Stop(w)
  PROVE  PipelineInv'
<1>1. /\ Set(w, Down) /\ faults < MaxFaults /\ faults' = faults + 1
      /\ UNCHANGED <<inboxVars, storeVars, received, published>>
  BY DEF Stop, Fault
<1>2. faults' \in 0..MaxFaults
  BY <1>1, PipelineAssumption DEF PipelineInv, PipelineTypeOK
<1>3. worker' = [v \in Workers |-> IF v = w THEN Down ELSE worker[v]]
  BY <1>1, SetProcess
<1>4. PageSound(Down)
  BY DEF PageSound, Down
<1> QED
  BY <1>1, <1>2, <1>3, <1>4, QuietStep

LEMMA FetchCatalogStep ==
  ASSUME PipelineInv, NEW w \in Workers, FetchCatalog(w)
  PROVE  PipelineInv'
<1>1. PICK etag \in CatalogAnswer(worker[w].catalog) :
        /\ Compiles(Catalog(etag))
        /\ worker' = [worker EXCEPT ![w].pc = "activating", ![w].offer = {etag}]
  BY DEF FetchCatalog
<1>2. /\ worker[w].pc = "idle"
      /\ UNCHANGED <<inboxVars, storeVars, received, published, faults>>
  BY DEF FetchCatalog
<1>3. worker[w] \in Processes /\ PageSound(worker[w])
  BY <1>2, RunningProcess
<1> DEFINE process == [worker[w] EXCEPT !.pc = "activating", !.offer = {etag}]
<1>4. worker' = [v \in Workers |-> IF v = w THEN process ELSE worker[v]]
  <2>1. worker \in [Workers -> {Down} \union Processes]
    BY DEF PipelineInv, PipelineTypeOK
  <2> QED
    BY <1>1, <2>1
<1>5. {etag} \in Optional(LedgerCatalogs \ {0})
  <2>1. etag = published /\ published \in DOMAIN Published
    BY DEF CatalogAnswer, PipelineInv, PipelineTypeOK
  <2>2. etag \in LedgerCatalogs \ {0}
    BY <1>1, <2>1, CatalogNumbers
  <2> QED
    BY <2>2 DEF Optional
<1>6. process \in Processes
  BY <1>3, <1>5 DEF Processes, Working
<1>7. process.page = worker[w].page /\ process.after = worker[w].after
  BY <1>3 DEF Processes
<1> HIDE DEF process
<1>8. PageSound(process)
  BY <1>2, <1>3, <1>7 DEF PageSound
<1>9. faults' \in 0..MaxFaults
  BY <1>2 DEF PipelineInv, PipelineTypeOK
<1> QED
  BY <1>2, <1>4, <1>6, <1>8, <1>9, QuietStep

LEMMA ActivationFailsStep ==
  ASSUME PipelineInv, NEW w \in Workers, ActivationFails(w)
  PROVE  PipelineInv'
<1>1. /\ worker[w].pc = "activating" /\ faults < MaxFaults /\ faults' = faults + 1
      /\ worker' = [worker EXCEPT ![w].pc = "idle", ![w].offer = {}]
      /\ UNCHANGED <<inboxVars, storeVars, received, published>>
  BY DEF ActivationFails, Fault
<1>2. worker[w] \in Processes /\ PageSound(worker[w])
  BY <1>1, RunningProcess
<1> DEFINE process == [worker[w] EXCEPT !.pc = "idle", !.offer = {}]
<1>3. worker' = [v \in Workers |-> IF v = w THEN process ELSE worker[v]]
  <2>1. worker \in [Workers -> {Down} \union Processes]
    BY DEF PipelineInv, PipelineTypeOK
  <2> QED
    BY <1>1, <2>1
<1>4. process \in Processes
  BY <1>2 DEF Processes, Working, Optional
<1>5. process.page = worker[w].page /\ process.after = worker[w].after
  BY <1>2 DEF Processes
<1> HIDE DEF process
<1>6. PageSound(process)
  BY <1>1, <1>2, <1>5 DEF PageSound
<1>7. faults' \in 0..MaxFaults
  BY <1>1, PipelineAssumption DEF PipelineInv, PipelineTypeOK
<1> QED
  BY <1>1, <1>3, <1>4, <1>6, <1>7, QuietStep

LEMMA ActivateCatalogStep ==
  ASSUME PipelineInv, NEW w \in Workers, ActivateCatalog(w)
  PROVE  PipelineInv'
<1>1. PICK etag \in worker[w].offer : SaveCatalog(etag) /\ Use(w, etag)
  BY DEF ActivateCatalog
<1>2. /\ worker[w].pc = "activating"
      /\ UNCHANGED <<inboxVars, received, published, faults>>
  BY DEF ActivateCatalog
<1>3. worker[w] \in Processes /\ PageSound(worker[w])
  BY <1>2, RunningProcess
<1>4. /\ cachedCatalog' = {etag} /\ observations' = observations /\ conflicts' = conflicts
      /\ checkpoints' = checkpoints
      /\ worker' = [worker EXCEPT ![w].pc = "idle", ![w].offer = {}, ![w].catalog = etag]
  BY <1>1 DEF SaveCatalog, Use
<1>0. PICK process : process = [worker[w] EXCEPT !.pc = "idle", !.offer = {}, !.catalog = etag]
  OBVIOUS
<1>5. worker' = [v \in Workers |-> IF v = w THEN process ELSE worker[v]]
  <2>1. worker \in [Workers -> {Down} \union Processes]
    BY DEF PipelineInv, PipelineTypeOK
  <2> QED
    BY <1>0, <1>4, <2>1
<1>6. etag \in LedgerCatalogs \ {0}
  BY <1>3 DEF Processes, Optional
<1>7. process \in Processes
  BY <1>0, <1>3, <1>6 DEF Processes, Working, Optional
<1>8. process.page = worker[w].page /\ process.after = worker[w].after
  BY <1>0, <1>3 DEF Processes
<1>9. ForwardCheckpoint' = ForwardCheckpoint
  BY <1>4 DEF ForwardCheckpoint
<1>10. PageSound(process)'
  <2>1. batches' = batches /\ books' = books /\ lastId' = lastId /\ received' = received
    BY <1>2 DEF inboxVars
  <2> QED
    BY <1>2, <1>3, <1>8, <1>9, <2>1 DEF PageSound
<1>11. /\ observations' \in Seq(ObservationRows) /\ AcceptedOnce'
       /\ checkpoints' \in [Versions -> 0..lastId]
       /\ faults' \in 0..MaxFaults
  BY <1>2, <1>4 DEF PipelineInv, PipelineTypeOK, AcceptedOnce, OverOneSource
<1>12. ForwardCheckpoint <= ForwardCheckpoint' /\ ForwardCheckpoint' \in Nat
  <2>1. lastId \in Nat /\ ForwardCheckpoint \in 0..lastId
    BY RowsHaveFields, Checkpoint DEF PipelineInv
  <2> QED
    BY <2>1, <1>9
<1>13. cachedCatalog' \in Optional(LedgerCatalogs \ {0})
  BY <1>4, <1>6 DEF Optional
<1> QED
  BY <1>2, <1>5, <1>7, <1>10, <1>11, <1>12, <1>13, ProcessStep

LEMMA LocateStep ==
  ASSUME PipelineInv, NEW w \in Workers, Locate(w)
  PROVE  PipelineInv'
<1>1. /\ worker[w].pc = "idle"
      /\ worker' = [worker EXCEPT ![w].pc = "located", ![w].after = ForwardCheckpoint]
      /\ UNCHANGED <<inboxVars, storeVars, received, published, faults>>
  BY DEF Locate
<1>2. worker[w] \in Processes /\ PageSound(worker[w])
  BY <1>1, RunningProcess
<1>3. lastId \in Nat /\ lastId <= MaxBatches /\ MaxBatches \in Nat /\ ForwardCheckpoint \in 0..lastId
  BY RowsHaveFields, Checkpoint DEF PipelineInv
<1> DEFINE process == [worker[w] EXCEPT !.pc = "located", !.after = ForwardCheckpoint]
<1>4. worker' = [v \in Workers |-> IF v = w THEN process ELSE worker[v]]
  <2>1. worker \in [Workers -> {Down} \union Processes]
    BY DEF PipelineInv, PipelineTypeOK
  <2> QED
    BY <1>1, <2>1
<1>5. ForwardCheckpoint \in 0..MaxBatches
  BY <1>3
<1>6. process \in Processes
  BY <1>2, <1>5 DEF Processes, Working
<1>7. process.page = worker[w].page /\ process.after = ForwardCheckpoint
  BY <1>2 DEF Processes
<1> HIDE DEF process
<1>8. PageSound(process)
  BY <1>1, <1>2, <1>3, <1>7 DEF PageSound
<1>9. faults' \in 0..MaxFaults
  BY <1>1 DEF PipelineInv, PipelineTypeOK
<1> QED
  BY <1>1, <1>4, <1>6, <1>8, <1>9, QuietStep

\* A page starts behind the checkpoint and leaves nothing out.
LEMMA ReadPageStep ==
  ASSUME PipelineInv, NEW w \in Workers, ReadPage(w)
  PROVE  PipelineInv'
<1> DEFINE after == worker[w].after
           page == ReadAfter(after, ReadLimit)
<1>1. /\ worker[w].pc = "located"
      /\ worker' = [worker EXCEPT ![w].pc = IF page = {} THEN "idle" ELSE "committing",
                                  ![w].page = page]
      /\ UNCHANGED <<inboxVars, storeVars, received, published, faults>>
  BY DEF ReadPage
<1>2. worker[w] \in Processes /\ PageSound(worker[w])
  BY <1>1, RunningProcess
<1>3. /\ lastId \in Nat /\ DOMAIN received = 1..lastId
      /\ ForwardCheckpoint \in 0..lastId /\ MaxBatches \in Nat
      /\ \A i \in 1..lastId : received[i] \in LedgerBatches /\ received[i].id = i
  BY RowsHaveFields, Checkpoint DEF PipelineInv, ReceiptsInOrder
<1>4. /\ books.expired \in Nat
      /\ DOMAIN batches = (books.expired + 1)..lastId
      /\ \A id \in DOMAIN batches : batches[id] = received[id]
  BY DEF PipelineInv, PipelineTypeOK, InboxBooks
<1>5. after \in Nat /\ after <= ForwardCheckpoint /\ ReadLimit \in Nat
  BY <1>1, <1>2, <1>3, PipelineAssumption DEF Processes, PageSound
<1> DEFINE later == {id \in DOMAIN batches : id > after}
           Before(n) == {j \in later : j < n}
<1>6. page = {batches[id] : id \in {n \in later : Cardinality(Before(n)) < ReadLimit}}
  BY DEF ReadAfter
<1>7. \A n \in Nat : IsFiniteSet(Before(n)) /\ Cardinality(Before(n)) \in Nat
  <2> SUFFICES ASSUME NEW n \in Nat
               PROVE  IsFiniteSet(Before(n)) /\ Cardinality(Before(n)) \in Nat
    OBVIOUS
  <2>1. Before(n) \subseteq 0..lastId
    <3>1. DOMAIN batches \subseteq 0..lastId
      <4>1. \A low \in Nat, high \in Nat : (low + 1)..high \subseteq 0..high
        OBVIOUS
      <4> QED
        BY <4>1, <1>3, <1>4
    <3>2. Before(n) \subseteq DOMAIN batches
      OBVIOUS
    <3> HIDE DEF Before
    <3> QED
      BY <3>1, <3>2
  <2>2. IsFiniteSet(0..lastId)
    <3>1. 0 \in Int /\ lastId \in Int
      BY <1>3
    <3> QED
      BY <3>1, FS_Interval
  <2> HIDE DEF Before
  <2> QED
    BY <2>1, <2>2, FS_Subset, FS_CardinalityType
<1>8. \A m, n \in Nat : m < n => Cardinality(Before(m)) <= Cardinality(Before(n))
  <2> SUFFICES ASSUME NEW m \in Nat, NEW n \in Nat, m < n
               PROVE  Cardinality(Before(m)) <= Cardinality(Before(n))
    OBVIOUS
  <2>1. Before(m) \subseteq Before(n)
    BY <1>3, <1>4
  <2> HIDE DEF Before
  <2> QED
    BY <2>1, <1>7, FS_Subset
<1>9. \A n \in later : n \in 1..lastId /\ n \in Nat /\ batches[n] = received[n]
  BY <1>3, <1>4
<1> HIDE DEF Before, page
<1>10. \A row \in page : /\ row.id \in later /\ Cardinality(Before(row.id)) < ReadLimit
                         /\ row \in LedgerBatches /\ row = received[row.id]
  <2> SUFFICES ASSUME NEW row \in page
               PROVE  /\ row.id \in later /\ Cardinality(Before(row.id)) < ReadLimit
                      /\ row \in LedgerBatches /\ row = received[row.id]
    OBVIOUS
  <2>1. PICK n \in later : Cardinality(Before(n)) < ReadLimit /\ row = batches[n]
    <3> HIDE DEF later
    <3> QED
      BY <1>6
  <2>2. n \in 1..lastId /\ row = received[n]
    BY <1>9, <2>1
  <2>3. row.id = n /\ row \in LedgerBatches
    BY <1>3, <2>2
  <2> QED
    BY <2>1, <2>2, <2>3
<1>11. ASSUME NEW row \in page, NEW id \in (ForwardCheckpoint + 1)..(row.id - 1)
       PROVE  id <= books.expired \/ \E other \in page : other.id = id
  <2> DEFINE high == row.id
  <2>1. high \in Nat /\ high <= lastId /\ Cardinality(Before(high)) < ReadLimit
    BY <1>9, <1>10
  <2> HIDE DEF high
  <2>2. id \in (ForwardCheckpoint + 1)..(high - 1)
    BY DEF high
  <2>3. id \in Nat /\ id < high /\ id > after /\ id <= lastId
    BY <2>1, <2>2, <1>3, <1>5
  <2>4. CASE id > books.expired
    <3>1. id \in later
      BY <2>3, <2>4, <1>3, <1>4
    <3>2. Cardinality(Before(id)) < ReadLimit
      <4>1. Cardinality(Before(id)) <= Cardinality(Before(high))
        BY <2>1, <2>3, <1>8
      <4>2. Cardinality(Before(id)) \in Nat /\ Cardinality(Before(high)) \in Nat
        BY <2>1, <2>3, <1>7
      <4> QED
        BY <4>1, <4>2, <2>1, <1>5
    <3>3. batches[id] \in page
      <4> HIDE DEF later
      <4> QED
        BY <3>1, <3>2, <1>6
    <3>4. batches[id].id = id
      BY <3>1, <1>3, <1>9
    <3> QED
      BY <3>3, <3>4
  <2>5. CASE ~(id > books.expired)
    BY <2>3, <2>5, <1>4
  <2> QED
    BY <2>4, <2>5
<1> DEFINE pc == IF page = {} THEN "idle" ELSE "committing"
           process == [worker[w] EXCEPT !.pc = pc, !.page = page]
<1>12. worker' = [v \in Workers |-> IF v = w THEN process ELSE worker[v]]
  <2>1. worker \in [Workers -> {Down} \union Processes]
    BY DEF PipelineInv, PipelineTypeOK
  <2>2. worker' = [worker EXCEPT ![w].pc = pc, ![w].page = page]
    BY <1>1
  <2> HIDE DEF pc
  <2> QED
    BY <2>1, <2>2
<1>13. page \in SUBSET LedgerBatches /\ pc \in Working
  BY <1>10 DEF Working
<1> HIDE DEF pc
<1>14. process \in Processes
  BY <1>2, <1>13 DEF Processes
<1>15. process.page = page /\ process.after = after
  BY <1>2 DEF Processes
<1> HIDE DEF process
<1>16. \A row \in page : row.id \in 1..lastId
  BY <1>9, <1>10
<1>17. PageSound(process)
  BY <1>5, <1>10, <1>11, <1>15, <1>16 DEF PageSound
<1>18. faults' \in 0..MaxFaults
  BY <1>1 DEF PipelineInv, PipelineTypeOK
<1> QED
  BY <1>1, <1>12, <1>14, <1>17, <1>18, QuietStep

\* What is committed is what the batch projects to.
LEMMA CommitOfPage ==
  ASSUME PipelineInv, NEW w \in Workers, worker[w].pc = "committing", NEW commit \in NextCommit(w)
  PROVE  \E row \in LedgerBatches, etag \in LedgerCatalogs :
           /\ row \in worker[w].page
           /\ commit.id = row.id /\ commit.observations = Projection(row, etag).observations
           /\ row.id \in 1..lastId /\ row = received[row.id]
           /\ \A other \in worker[w].page : row.id <= other.id
<1>1. worker[w] \in Processes /\ PageSound(worker[w])
  BY RunningProcess
<1>2. PICK row \in worker[w].page :
        /\ \A other \in worker[w].page : row.id <= other.id
        /\ commit = [id |-> row.id,
                     observations |-> Projection(row, worker[w].catalog).observations,
                     diagnostics |-> Projection(row, worker[w].catalog).diagnostics]
  BY DEF NextCommit
<1>3. /\ worker[w].page \subseteq LedgerBatches /\ worker[w].catalog \in LedgerCatalogs
      /\ row.id \in 1..lastId /\ row = received[row.id]
  BY <1>1 DEF Processes, PageSound
<1>4. commit.id = row.id /\ commit.observations = Projection(row, worker[w].catalog).observations
  BY <1>2
<1> QED
  BY <1>2, <1>3, <1>4

\* With the batch behind the checkpoint, the rest of the page is still sound.
LEMMA RestOfPage ==
  ASSUME PipelineInv, NEW w \in Workers, worker[w].pc = "committing", NEW commit \in NextCommit(w),
         NextOfPage(w, commit), NEW later \in Nat, ForwardCheckpoint <= later, commit.id <= later
  PROVE  \E process \in Processes :
           /\ worker' = [v \in Workers |-> IF v = w THEN process ELSE worker[v]]
           /\ process.after <= later
           /\ \A row \in process.page : row.id \in 1..lastId /\ row = received[row.id]
           /\ \A row \in process.page : \A id \in (later + 1)..(row.id - 1) :
                id <= books.expired \/ \E other \in process.page : other.id = id
<1> DEFINE page == worker[w].page
           rest == {row \in page : row.id # commit.id}
           pc == IF rest = {} THEN "idle" ELSE "committing"
           process == [worker[w] EXCEPT !.page = rest, !.pc = pc]
<1>1. worker[w] \in Processes /\ PageSound(worker[w])
  BY RunningProcess
<1>2. ForwardCheckpoint \in Nat /\ lastId \in Nat
  BY RowsHaveFields, Checkpoint DEF PipelineInv
<1>3. /\ worker[w].after <= ForwardCheckpoint
      /\ \A row \in page : row.id \in 1..lastId /\ row = received[row.id]
      /\ \A row \in page : \A id \in (ForwardCheckpoint + 1)..(row.id - 1) :
           id <= books.expired \/ \E other \in page : other.id = id
  BY <1>1 DEF PageSound
<1>4. page \subseteq LedgerBatches /\ worker[w].after \in Nat
  BY <1>1, PipelineAssumption DEF Processes
<1>5. commit.id \in Nat
  BY <1>2, CommitOfPage
<1>6. worker' = [v \in Workers |-> IF v = w THEN process ELSE worker[v]]
  <2>1. worker \in [Workers -> {Down} \union Processes]
    BY DEF PipelineInv, PipelineTypeOK
  <2>2. worker' = [worker EXCEPT ![w].page = rest, ![w].pc = pc]
    BY DEF NextOfPage
  <2> HIDE DEF pc, rest
  <2> QED
    BY <2>1, <2>2
<1>7. rest \in SUBSET LedgerBatches /\ pc \in Working /\ \A row \in rest : row \in page
  BY <1>4 DEF Working
<1>8. \A row \in page : row.id # commit.id => row \in rest
  OBVIOUS
<1> HIDE DEF rest, pc
<1>9. process \in Processes
  BY <1>1, <1>7 DEF Processes
<1>10. process.page = rest /\ process.after = worker[w].after
  BY <1>1 DEF Processes
<1> HIDE DEF process
<1>11. process.after <= later
  BY <1>2, <1>3, <1>4, <1>10
<1>12. ASSUME NEW row \in rest, NEW id \in (later + 1)..(row.id - 1)
       PROVE  id <= books.expired \/ \E other \in rest : other.id = id
  <2> DEFINE top == row.id - 1
  <2>1. top \in Int /\ id \in (later + 1)..top
    BY <1>2, <1>3, <1>7
  <2> HIDE DEF top
  <2>2. id \in (ForwardCheckpoint + 1)..top
    BY <2>1, <1>2, FurtherInterval
  <2>3. id <= books.expired \/ \E other \in page : other.id = id
    BY <2>2, <1>3, <1>7 DEF top
  <2>4. id # commit.id
    BY <2>1, <1>5
  <2> QED
    BY <2>3, <2>4, <1>8
<1> QED
  BY <1>3, <1>6, <1>7, <1>9, <1>10, <1>11, <1>12

LEMMA CommitNothingStep ==
  ASSUME PipelineInv, NEW w \in Workers, CommitNothing(w)
  PROVE  PipelineInv'
<1>1. PICK commit \in NextCommit(w) : AlreadyCheckpointed(commit) /\ NextOfPage(w, commit)
  BY DEF CommitNothing
<1>2. /\ worker[w].pc = "committing"
      /\ UNCHANGED <<inboxVars, storeVars, received, published, faults>>
  BY DEF CommitNothing
<1>3. ForwardCheckpoint \in Nat
  BY RowsHaveFields, Checkpoint DEF PipelineInv
<1>4. commit.id \in Nat /\ commit.id <= ForwardCheckpoint
  <2>1. \E row \in LedgerBatches : commit.id = row.id
    BY <1>2, CommitOfPage
  <2>2. commit.id \in Nat
    BY <2>1, LedgerBatchFields
  <2> QED
    BY <2>2, <1>1, <1>3 DEF AlreadyCheckpointed
<1>5. PICK process \in Processes :
        /\ worker' = [v \in Workers |-> IF v = w THEN process ELSE worker[v]]
        /\ process.after <= ForwardCheckpoint
        /\ \A row \in process.page : row.id \in 1..lastId /\ row = received[row.id]
        /\ \A row \in process.page : \A id \in (ForwardCheckpoint + 1)..(row.id - 1) :
             id <= books.expired \/ \E other \in process.page : other.id = id
  <2>1. ForwardCheckpoint <= ForwardCheckpoint
    BY <1>3
  <2> QED
    BY <2>1, <1>1, <1>2, <1>3, <1>4, RestOfPage
<1>6. PageSound(process)
  BY <1>5 DEF PageSound
<1>7. faults' \in 0..MaxFaults
  BY <1>2 DEF PipelineInv, PipelineTypeOK
<1> QED
  BY <1>2, <1>5, <1>6, <1>7, QuietStep

\* A commit settles every observation of the batch, and moves the checkpoint to it.
LEMMA CommitWrites ==
  ASSUME PipelineInv, NEW w \in Workers, worker[w].pc = "committing", NEW commit \in NextCommit(w),
         CommitBatch(VersionOf[w], commit)
  PROVE  /\ \E rows : /\ Settled(rows, commit.id, commit.observations, Len(commit.observations))
                      /\ observations' = rows.observations /\ conflicts' = rows.conflicts
         /\ Len(commit.observations) \in Nat
         /\ commit.id \in 1..lastId /\ commit.id > ForwardCheckpoint
         /\ checkpoints' \in [Versions -> 0..lastId]
         /\ ForwardCheckpoint' = commit.id
         /\ cachedCatalog' = cachedCatalog
<1> DEFINE found == commit.observations
           last == Len(found)
<1>1. PICK row \in LedgerBatches, etag \in LedgerCatalogs :
        /\ commit.id = row.id /\ found = Projection(row, etag).observations
        /\ row.id \in 1..lastId
  BY CommitOfPage
<1>2. last \in Nat /\ DOMAIN found = 1..last
  BY <1>1, ProjectedBatch
<1>3. \A n \in 1..last : Row(commit.id, found[n]) \in ObservationRows
  <2> SUFFICES ASSUME NEW n \in 1..last
               PROVE  Row(commit.id, found[n]) \in ObservationRows
    OBVIOUS
  <2>1. found[n] \in ToSet(Projection(row, etag).observations)
    BY <1>1, <1>2 DEF ToSet
  <2>2. Row(row.id, found[n]) \in
          {Row(row.id, o) : o \in ToSet(Projection(row, etag).observations)}
    BY <2>1
  <2> DEFINE Rows(r, e) == {Row(r.id, o) : o \in ToSet(Projection(r, e).observations)}
  <2>3. Row(commit.id, found[n]) \in Rows(row, etag)
    BY <1>1, <2>2
  <2>4. ObservationRows = UNION {Rows(r, e) : r \in LedgerBatches, e \in LedgerCatalogs}
    BY DEF ObservationRows
  <2> HIDE DEF Rows
  <2> QED
    BY <2>3, <2>4
<1>4. observations \in Seq(ObservationRows) /\ AcceptedOnce /\ PipelineTypeOK
  BY DEF PipelineInv, PipelineTypeOK
<1> HIDE DEF found
<1>5. PICK f : /\ IsWriting(f, commit.id, found, last, VersionOf[w])
               /\ WriteAll(commit, VersionOf[w]) = f[last]
  BY <1>2, WriteAllIsWriting DEF found
<1>6. Settled(f[last], commit.id, found, last)
  BY <1>2, <1>3, <1>4, <1>5, WritingSettles
<1>7. observations' = f[last].observations /\ conflicts' = f[last].conflicts
  BY <1>5, Zenon DEF CommitBatch
<1>8. VersionOf[w] \in Versions
  BY PipelineAssumption
<1>9. lastId \in Nat /\ ForwardCheckpoint \in Nat
  BY <1>4, RowsHaveFields, Checkpoint
<1>10. commit.id > ForwardCheckpoint /\ commit.id \in 1..lastId
  BY <1>1, <1>9 DEF CommitBatch, AlreadyCheckpointed
<1>11. checkpoints' = [checkpoints EXCEPT ![VersionOf[w]] = Max({@, commit.id})]
       /\ cachedCatalog' = cachedCatalog
  BY Zenon DEF CommitBatch
<1>12. checkpoints' \in [Versions -> 0..lastId] /\ ForwardCheckpoint' = commit.id
  BY <1>4, <1>8, <1>10, <1>11, CheckpointMoves
<1> QED
  BY <1>2, <1>6, <1>7, <1>10, <1>11, <1>12 DEF found

LEMMA CommitStep ==
  ASSUME PipelineInv, NEW w \in Workers, Commit(w)
  PROVE  PipelineInv'
<1>1. PICK commit \in NextCommit(w) : CommitBatch(VersionOf[w], commit) /\ NextOfPage(w, commit)
  BY DEF Commit
<1>2. /\ worker[w].pc = "committing"
      /\ UNCHANGED <<inboxVars, received, published, faults>>
  BY DEF Commit
<1>3. PICK rows : /\ Settled(rows, commit.id, commit.observations, Len(commit.observations))
                  /\ observations' = rows.observations /\ conflicts' = rows.conflicts
  BY <1>1, <1>2, CommitWrites
<1>4. /\ commit.id \in 1..lastId /\ commit.id > ForwardCheckpoint
      /\ checkpoints' \in [Versions -> 0..lastId]
      /\ ForwardCheckpoint' = commit.id
      /\ cachedCatalog' = cachedCatalog
  BY <1>1, <1>2, CommitWrites
<1>5. ForwardCheckpoint \in Nat /\ lastId \in Nat
  BY RowsHaveFields, Checkpoint DEF PipelineInv
<1>6. PICK later \in Nat : later = ForwardCheckpoint' /\ commit.id = later /\ ForwardCheckpoint <= later
  BY <1>4, <1>5
<1>7. PICK process \in Processes :
        /\ worker' = [v \in Workers |-> IF v = w THEN process ELSE worker[v]]
        /\ process.after <= later
        /\ \A row \in process.page : row.id \in 1..lastId /\ row = received[row.id]
        /\ \A row \in process.page : \A id \in (later + 1)..(row.id - 1) :
             id <= books.expired \/ \E other \in process.page : other.id = id
  <2>1. commit.id <= later
    BY <1>6
  <2> QED
    BY <2>1, <1>1, <1>2, <1>6, RestOfPage
<1>8. lastId' = lastId /\ received' = received /\ books' = books
  BY <1>2 DEF inboxVars
<1>9. PageSound(process)'
  BY <1>6, <1>7, <1>8 DEF PageSound
<1>10. observations' \in Seq(ObservationRows) /\ AcceptedOnce'
  BY <1>3 DEF Settled, IsRows, Once, AcceptedOnce, OverOneSource
<1>11. ForwardCheckpoint <= ForwardCheckpoint' /\ ForwardCheckpoint' \in Nat
  BY <1>6
<1>12. cachedCatalog' \in Optional(LedgerCatalogs \ {0}) /\ faults' \in 0..MaxFaults
  BY <1>2, <1>4 DEF PipelineInv, PipelineTypeOK
<1> QED
  BY <1>2, <1>4, <1>7, <1>9, <1>10, <1>11, <1>12, ProcessStep

-----------------------------------------------------------------------------
(* The invariant holds *)

LEMMA PipelineInitInv ==
  ASSUME PipelineInit
  PROVE  PipelineInv
<1>1. /\ batches = [id \in {} |-> {}]
      /\ books = [retained |-> 0, bytes |-> 0, expired |-> 0, expiredBytes |-> 0,
                  earliestReplay |-> {}, lastReceived |-> {}]
      /\ lastId = 0
      /\ observations = <<>> /\ conflicts = {} /\ checkpoints = [v \in Versions |-> 0] /\ cachedCatalog = {}
      /\ received = <<>> /\ published = 1 /\ faults = 0
      /\ worker = [w \in Workers |-> Down]
  BY DEF PipelineInit, InboxInit, EvidenceInit
<1>2. MaxBatches \in Nat /\ MaxFaults \in Nat /\ Max(Clocks) \in Nat /\ MaxRetainedBytes \in Nat
  BY PipelineAssumption, LatestClock, LimitsAssumption
<1>3. DOMAIN batches = {} /\ DOMAIN received = {} /\ DOMAIN observations = {}
  BY <1>1
<1>4. PipelineTypeOK
  <2>1. {} \in Optional(0..Max(Clocks)) /\ {} \in Optional(LedgerCatalogs \ {0})
    BY DEF Optional
  <2>2. books \in [retained : 0..MaxBatches, bytes : Nat, expired : 0..MaxBatches,
                   expiredBytes : Nat, earliestReplay : Optional(0..Max(Clocks)),
                   lastReceived : Optional(0..Max(Clocks))]
    BY <1>1, <1>2, <2>1
  <2>3. received \in Seq(LedgerBatches) /\ Len(received) = 0 /\ observations \in Seq(ObservationRows)
    BY <1>1
  <2>4. published \in DOMAIN Published
    BY <1>1, PipelineAssumption
  <2>5. checkpoints \in [Versions -> 0..lastId]
    BY <1>1
  <2>6. worker \in [Workers -> {Down} \union Processes]
    BY <1>1
  <2>7. lastId \in 0..MaxBatches /\ faults \in 0..MaxFaults /\ DOMAIN batches \subseteq 1..lastId
    BY <1>1, <1>2, <1>3
  <2> QED
    BY <1>1, <2>1, <2>2, <2>3, <2>4, <2>5, <2>6, <2>7 DEF PipelineTypeOK
<1>5. InboxBooks
  <2>1. PayloadBytes(batches, 0) = 0 /\ PayloadBytes(received, 0) = 0
    BY PayloadBytesEmpty
  <2>2. Cardinality({}) = 0
    BY FS_EmptySet
  <2>3. (0 + 1)..0 = {}
    OBVIOUS
  <2>4. /\ books.retained = 0 /\ books.bytes = 0 /\ books.expired = 0 /\ books.expiredBytes = 0
        /\ books.earliestReplay = {}
    BY <1>1
  <2> QED
    BY <1>1, <1>2, <1>3, <2>1, <2>2, <2>3, <2>4 DEF InboxBooks
<1>6. ReceiptsInOrder /\ AcceptedOnce
  BY <1>1, <1>3 DEF ReceiptsInOrder, AcceptedOnce, OverOneSource
<1>7. \A w \in Workers : PageSound(worker[w])
  BY <1>1 DEF PageSound, Down
<1> QED
  BY <1>4, <1>5, <1>6, <1>7 DEF PipelineInv

LEMMA PipelineNextInv ==
  ASSUME PipelineInv, [PipelineNext]_vars
  PROVE  PipelineInv'
<1>1. ASSUME NEW request \in Requests, NEW clock \in Clocks, Ingest(request, clock)
      PROVE  PipelineInv'
  BY <1>1, IngestStep
<1>2. ASSUME NEW clock \in Clocks, Maintain(clock)
      PROVE  PipelineInv'
  BY <1>2, MaintainStep
<1>3. CASE Publish
  BY <1>3, PublishStep
<1>4. ASSUME NEW w \in Workers, Work(w)
      PROVE  PipelineInv'
  BY <1>4, LocateStep, ReadPageStep, CommitStep, CommitNothingStep, FetchCatalogStep,
     ActivateCatalogStep, ActivationFailsStep, StartStep, StopStep DEF Work
<1>5. CASE UNCHANGED vars
  <2>1. /\ batches' = batches /\ books' = books /\ lastId' = lastId
        /\ observations' = observations /\ conflicts' = conflicts /\ checkpoints' = checkpoints
        /\ cachedCatalog' = cachedCatalog /\ received' = received /\ published' = published
        /\ worker' = worker /\ faults' = faults
    BY <1>5 DEF vars, inboxVars, storeVars
  <2>2. PipelineTypeOK /\ InboxBooks /\ ReceiptsInOrder /\ AcceptedOnce
        /\ \A w \in Workers : PageSound(worker[w])
    BY DEF PipelineInv
  <2>3. PipelineTypeOK'
    BY <2>1, <2>2 DEF PipelineTypeOK
  <2>4. InboxBooks' /\ ReceiptsInOrder' /\ AcceptedOnce'
    BY <2>1, <2>2 DEF InboxBooks, ReceiptsInOrder, AcceptedOnce, OverOneSource
  <2>5. \A w \in Workers : PageSound(worker[w])'
    BY <2>1, <2>2 DEF PageSound, ForwardCheckpoint
  <2> QED
    BY <2>3, <2>4, <2>5 DEF PipelineInv
<1> QED
  BY <1>1, <1>2, <1>3, <1>4, <1>5 DEF PipelineNext

LEMMA PipelineInvariant == PipelineSpec => []PipelineInv
<1>1. PipelineInit => PipelineInv
  BY PipelineInitInv
<1>2. PipelineInv /\ [PipelineNext]_vars => PipelineInv'
  BY PipelineNextInv
<1> QED
  BY <1>1, <1>2, PTL DEF PipelineSpec

\* The state of the pipeline keeps its shape; no checkpoint is ever ahead of
\* the inbox and every catalog in use compiles (PipelineTypeOK).
THEOREM PipelineTypeCorrect == PipelineSpec => []PipelineTypeOK
<1>1. PipelineInv => PipelineTypeOK
  BY DEF PipelineInv
<1> QED
  BY <1>1, PipelineInvariant, PTL

\* The books of the inbox agree with its rows, whatever the clock shows and
\* however appends and retention interleave (InboxBooks; append, expire_before).
THEOREM InboxBooksHold == PipelineSpec => []InboxBooks
<1>1. PipelineInv => InboxBooks
  BY DEF PipelineInv
<1> QED
  BY <1>1, PipelineInvariant, PTL

-----------------------------------------------------------------------------
(* Catalogs *)

CatalogStep ==
  \A w \in Workers :
    LET before == worker[w]
        after == worker'[w]
    IN after.pc # "down" /\ after.catalog # 0 =>
         \/ before.pc # "down" /\ before.catalog = after.catalog
         \/ cachedCatalog' = {after.catalog}

\* A process that stays up with its catalog, goes down, or takes up the saved one.
LEMMA TakesUpSaved ==
  ASSUME NEW w \in Workers, NEW process,
         worker' = [v \in Workers |-> IF v = w THEN process ELSE worker[v]],
         \/ process.pc = "down" \/ process.catalog = 0
         \/ worker[w].pc # "down" /\ worker[w].catalog = process.catalog
         \/ cachedCatalog' = {process.catalog}
  PROVE  CatalogStep
<1> SUFFICES ASSUME NEW v \in Workers, worker'[v].pc # "down", worker'[v].catalog # 0
             PROVE  \/ worker[v].pc # "down" /\ worker[v].catalog = worker'[v].catalog
                    \/ cachedCatalog' = {worker'[v].catalog}
  BY DEF CatalogStep
<1>1. CASE v = w
  <2>1. worker'[v] = process
    BY <1>1
  <2> QED
    BY <1>1, <2>1
<1>2. CASE v # w
  <2>1. worker'[v] = worker[v]
    BY <1>2
  <2> QED
    BY <2>1
<1> QED
  BY <1>1, <1>2

LEMMA SameWorkers ==
  ASSUME worker' = worker
  PROVE  CatalogStep
BY DEF CatalogStep

LEMMA KeepsCatalog ==
  ASSUME NEW w \in Workers, worker[w].pc # "down", worker'[w].catalog = worker[w].catalog,
         \A v \in Workers : v # w => worker'[v] = worker[v]
  PROVE  CatalogStep
BY DEF CatalogStep

LEMMA CatalogStepHolds ==
  ASSUME PipelineInv, [PipelineNext]_vars
  PROVE  CatalogStep
<1>0. worker \in [Workers -> {Down} \union Processes]
  BY DEF PipelineInv, PipelineTypeOK
<1>1. ASSUME NEW request \in Requests, NEW clock \in Clocks, Ingest(request, clock)
      PROVE  CatalogStep
  BY <1>1, SameWorkers DEF Ingest
<1>2. ASSUME NEW clock \in Clocks, Maintain(clock)
      PROVE  CatalogStep
  BY <1>2, SameWorkers DEF Maintain
<1>3. CASE Publish
  BY <1>3, SameWorkers DEF Publish
<1>4. CASE UNCHANGED vars
  BY <1>4, SameWorkers DEF vars
<1>5. ASSUME NEW w \in Workers, Start(w)
      PROVE  CatalogStep
  <2> DEFINE top == Max({0} \union cachedCatalog)
             process == [pc |-> "idle", page |-> {}, after |-> 0, offer |-> {}, catalog |-> top]
  <2>1. Set(w, process) /\ cachedCatalog' = cachedCatalog
    BY <1>5, Zenon DEF Start, storeVars
  <2>2. top = 0 \/ cachedCatalog = {top}
    <3>1. cachedCatalog \in Optional(LedgerCatalogs \ {0})
      BY DEF PipelineInv, PipelineTypeOK
    <3>2. CASE cachedCatalog = {}
      <4>1. Max({0}) = 0
        BY MaxIsUnique
      <4> QED
        BY <3>2, <4>1
    <3>3. CASE cachedCatalog # {}
      <4>1. PICK etag \in LedgerCatalogs \ {0} : cachedCatalog = {etag}
        BY <3>1, <3>3 DEF Optional
      <4> DEFINE S == {0} \union cachedCatalog
      <4>2. S \in SUBSET Nat /\ etag \in S /\ \A x \in S : x <= etag
        BY <4>1, CatalogNumbers
      <4> HIDE DEF S
      <4>3. Max(S) = etag
        BY <4>2, MaxIsUnique
      <4> QED
        BY <4>1, <4>3 DEF S
    <3> QED
      BY <3>2, <3>3
  <2> HIDE DEF top
  <2>3. process.catalog = top
    OBVIOUS
  <2> HIDE DEF process
  <2>4. worker' = [v \in Workers |-> IF v = w THEN process ELSE worker[v]]
    BY <2>1, SetProcess
  <2>5. process.catalog = 0 \/ cachedCatalog' = {process.catalog}
    BY <2>1, <2>2, <2>3
  <2> QED
    BY <2>4, <2>5, TakesUpSaved
<1>6. ASSUME NEW w \in Workers, Stop(w)
      PROVE  CatalogStep
  <2>1. worker' = [v \in Workers |-> IF v = w THEN Down ELSE worker[v]]
    BY <1>6, SetProcess DEF Stop
  <2>2. Down.pc = "down"
    BY DEF Down
  <2> QED
    BY <2>1, <2>2, TakesUpSaved
<1>7. ASSUME NEW w \in Workers, ActivateCatalog(w)
      PROVE  CatalogStep
  <2>1. PICK etag \in worker[w].offer :
          /\ cachedCatalog' = {etag}
          /\ worker' = [worker EXCEPT ![w].pc = "idle", ![w].offer = {}, ![w].catalog = etag]
    BY <1>7 DEF ActivateCatalog, SaveCatalog, Use
  <2>2. worker[w] \in Processes
    <3>1. worker[w].pc # "down"
      BY <1>7 DEF ActivateCatalog
    <3> QED
      BY <3>1, RunningProcess
  <2>3. PICK process : process = [worker[w] EXCEPT !.pc = "idle", !.offer = {}, !.catalog = etag]
    OBVIOUS
  <2>4. worker' = [v \in Workers |-> IF v = w THEN process ELSE worker[v]]
    BY <1>0, <2>1, <2>3
  <2>5. process.catalog = etag
    BY <2>2, <2>3 DEF Processes
  <2>6. cachedCatalog' = {process.catalog}
    BY <2>1, <2>5
  <2> QED
    BY <2>4, <2>6, TakesUpSaved
<1>8. ASSUME NEW w \in Workers,
             Locate(w) \/ ReadPage(w) \/ FetchCatalog(w) \/ ActivationFails(w)
      PROVE  CatalogStep
  <2>1. worker[w].pc # "down"
    BY <1>8 DEF Locate, ReadPage, FetchCatalog, ActivationFails
  <2>2. worker[w] \in Processes
    BY <2>1, RunningProcess
  <2>3. CASE Locate(w)
    <3>1. worker' = [worker EXCEPT ![w].pc = "located", ![w].after = ForwardCheckpoint]
      BY <2>3 DEF Locate
    <3> QED
      BY <3>1, <1>0, <2>1, <2>2, KeepsCatalog DEF Processes
  <2>4. CASE ReadPage(w)
    <3> DEFINE page == ReadAfter(worker[w].after, ReadLimit)
               pc == IF page = {} THEN "idle" ELSE "committing"
    <3>1. worker' = [worker EXCEPT ![w].pc = pc, ![w].page = page]
      BY <2>4 DEF ReadPage
    <3> HIDE DEF page, pc
    <3> QED
      BY <3>1, <1>0, <2>1, <2>2, KeepsCatalog DEF Processes
  <2>5. CASE FetchCatalog(w)
    <3>1. PICK etag : worker' = [worker EXCEPT ![w].pc = "activating", ![w].offer = {etag}]
      BY <2>5 DEF FetchCatalog
    <3> QED
      BY <3>1, <1>0, <2>1, <2>2, KeepsCatalog DEF Processes
  <2>6. CASE ActivationFails(w)
    <3>1. worker' = [worker EXCEPT ![w].pc = "idle", ![w].offer = {}]
      BY <2>6 DEF ActivationFails
    <3> QED
      BY <3>1, <1>0, <2>1, <2>2, KeepsCatalog DEF Processes
  <2> QED
    BY <1>8, <2>3, <2>4, <2>5, <2>6
<1>9. ASSUME NEW w \in Workers, Commit(w) \/ CommitNothing(w)
      PROVE  CatalogStep
  <2>1. worker[w].pc = "committing" /\ \E commit \in NextCommit(w) : NextOfPage(w, commit)
    BY <1>9 DEF Commit, CommitNothing
  <2>2. PICK commit \in NextCommit(w) : NextOfPage(w, commit)
    BY <2>1
  <2>3. worker[w] \in Processes
    BY <2>1, RunningProcess
  <2> DEFINE rest == {row \in worker[w].page : row.id # commit.id}
             pc == IF rest = {} THEN "idle" ELSE "committing"
  <2>4. worker' = [worker EXCEPT ![w].page = rest, ![w].pc = pc]
    BY <2>2 DEF NextOfPage
  <2> HIDE DEF rest, pc
  <2> QED
    BY <2>1, <2>3, <2>4, <1>0, KeepsCatalog DEF Processes
<1>10. ASSUME NEW w \in Workers, Work(w)
       PROVE  CatalogStep
  BY <1>5, <1>6, <1>7, <1>8, <1>9, <1>10 DEF Work
<1> QED
  BY <1>1, <1>2, <1>3, <1>4, <1>10 DEF PipelineNext

\* Whatever files evidence under a catalog would find it again after a restart:
\* the catalog is saved before it is taken up (CatalogDurable; activate_catalog, run).
THEOREM CatalogDurableHolds == PipelineSpec => CatalogDurable
<1>1. PipelineInv /\ [PipelineNext]_vars => [CatalogStep]_vars
  BY CatalogStepHolds
<1>2. [CatalogStep]_vars =>
        [\A w \in Workers :
           LET before == worker[w]
               after == worker'[w]
           IN after.pc # "down" /\ after.catalog # 0 =>
                \/ before.pc # "down" /\ before.catalog = after.catalog
                \/ cachedCatalog' = {after.catalog}]_vars
  BY DEF CatalogStep
<1> QED
  BY <1>1, <1>2, PipelineInvariant, PTL DEF PipelineSpec, CatalogDurable

-----------------------------------------------------------------------------
(* The pipeline implements the ledger *)

Promised(id, found) == {EvidenceFrom(id, o) : o \in ToSet(found)}

\* In the order they are found, the first of a source is the one with the least ordinal.
LEMMA FirstIsLeast ==
  ASSUME NEW id, NEW found, NEW last \in Nat, DOMAIN found = 1..last,
         \A i \in DOMAIN found : found[i].ordinal \in Nat,
         \A i, j \in DOMAIN found : i < j => found[i].ordinal < found[j].ordinal
  PROVE  FirstOf(id, found, last) =
           {e \in Promised(id, found) :
              /\ ~ \E a \in EvidenceOf(observations) : a.logical = e.logical
              /\ \A f \in Promised(id, found) : f.logical = e.logical => f.ordinal >= e.ordinal}
<1> DEFINE First(k) == /\ \A e \in EvidenceOf(observations) : e.logical # found[k].logical
                       /\ \A l \in 1..(k - 1) : found[l].logical # found[k].logical
           Least(e) == /\ ~ \E a \in EvidenceOf(observations) : a.logical = e.logical
                       /\ \A f \in Promised(id, found) :
                            f.logical = e.logical => f.ordinal >= e.ordinal
           E(k) == EvidenceFrom(id, found[k])
<1>1. Promised(id, found) = {E(k) : k \in 1..last}
  BY DEF Promised, ToSet
<1>2. \A k : E(k).logical = found[k].logical /\ E(k).ordinal = found[k].ordinal
  BY DEF EvidenceFrom
<1>3. FirstOf(id, found, last) = {E(j) : j \in {k \in 1..last : First(k)}}
  BY DEF FirstOf
<1> HIDE DEF E
<1>4. \A k \in 1..last : First(k) <=> Least(E(k))
  <2> SUFFICES ASSUME NEW k \in 1..last
               PROVE  First(k) <=> Least(E(k))
    OBVIOUS
  <2>1. ASSUME First(k)
        PROVE  Least(E(k))
    <3>1. ~ \E a \in EvidenceOf(observations) : a.logical = E(k).logical
      BY <2>1, <1>2
    <3>2. ASSUME NEW f \in Promised(id, found), f.logical = E(k).logical
          PROVE  f.ordinal >= E(k).ordinal
      <4>1. PICK l \in 1..last : f = E(l)
        BY <1>1
      <4>2. found[l].logical = found[k].logical
        BY <3>2, <4>1, <1>2
      <4>3. ~(l < k)
        <5>1. l < k => l \in 1..(k - 1)
          OBVIOUS
        <5> QED
          BY <5>1, <4>2, <2>1
      <4>4. l = k \/ k < l
        BY <4>3
      <4>5. found[l].ordinal \in Nat /\ found[k].ordinal \in Nat
        OBVIOUS
      <4>6. k < l => found[k].ordinal < found[l].ordinal
        OBVIOUS
      <4>7. found[l].ordinal >= found[k].ordinal
        BY <4>4, <4>5, <4>6
      <4> QED
        BY <4>1, <4>7, <1>2
    <3> QED
      BY <3>1, <3>2
  <2>2. ASSUME Least(E(k))
        PROVE  First(k)
    <3>1. \A e \in EvidenceOf(observations) : e.logical # found[k].logical
      BY <2>2, <1>2
    <3>2. ASSUME NEW l \in 1..(k - 1), found[l].logical = found[k].logical
          PROVE  FALSE
      <4>1. l \in 1..last /\ l < k
        OBVIOUS
      <4>2. E(l) \in Promised(id, found) /\ E(l).logical = E(k).logical
        BY <4>1, <3>2, <1>1, <1>2
      <4>3. E(l).ordinal >= E(k).ordinal
        BY <4>2, <2>2
      <4>4. found[l].ordinal < found[k].ordinal /\ found[l].ordinal \in Nat /\ found[k].ordinal \in Nat
        BY <4>1
      <4> QED
        BY <4>3, <4>4, <1>2
    <3> QED
      BY <3>1, <3>2
  <2> QED
    BY <2>1, <2>2
<1> HIDE DEF First
<1>5. {E(j) : j \in {k \in 1..last : First(k)}} = {e \in Promised(id, found) : Least(e)}
  <2> HIDE DEF Least
  <2> QED
    BY <1>1, <1>4
<1> QED
  BY <1>3, <1>5

LEMMA RefusedAreAgainst ==
  ASSUME NEW id, NEW found, NEW last \in Nat, DOMAIN found = 1..last, NEW evidence
  PROVE  RefusedOf(evidence, found, last) =
           {[logical |-> e.logical, content |-> e.content] :
              e \in {f \in Promised(id, found) : \E a \in evidence :
                       a.logical = f.logical /\ a.content # f.content}}
<1> DEFINE Against(x) == \E a \in evidence : a.logical = x.logical /\ a.content # x.content
           E(k) == EvidenceFrom(id, found[k])
           R(x) == [logical |-> x.logical, content |-> x.content]
<1>1. Promised(id, found) = {E(k) : k \in 1..last}
  BY DEF Promised, ToSet
<1>2. \A k : E(k).logical = found[k].logical /\ E(k).content = found[k].content
  BY DEF EvidenceFrom
<1>3. RefusedOf(evidence, found, last) = {R(found[j]) : j \in {k \in 1..last : Against(found[k])}}
  BY DEF RefusedOf, RefusalOf
<1>4. \A k : R(E(k)) = R(found[k]) /\ (Against(E(k)) <=> Against(found[k]))
  BY <1>2
<1> HIDE DEF E, R, Against
<1>5. {R(found[j]) : j \in {k \in 1..last : Against(found[k])}} =
        {R(e) : e \in {f \in Promised(id, found) : Against(f)}}
  BY <1>1, <1>4
<1> QED
  BY <1>3, <1>5 DEF R, Against

LEMMA LedgerStutters ==
  ASSUME received' = received, books' = books, checkpoints' = checkpoints,
         observations' = observations, conflicts' = conflicts
  PROVE  UNCHANGED Ledger!ledgerVars
BY DEF Ledger!ledgerVars, Expired, ForwardCheckpoint

LEMMA IngestAcknowledges ==
  ASSUME PipelineInv, NEW request \in Requests, NEW clock \in Clocks, Ingest(request, clock)
  PROVE  Ledger!Acknowledge
<1>1. PipelineInv'
  BY IngestStep
<1>2. PICK x : x = batches'[lastId'] /\ received' = Append(received, x)
  BY DEF Ingest
<1>3. /\ received \in Seq(LedgerBatches) /\ Len(received) = lastId /\ lastId \in Nat
      /\ lastId' = lastId + 1 /\ books'.expired = books.expired
      /\ checkpoints' = checkpoints /\ observations' = observations /\ conflicts' = conflicts
  BY PipelineAssumption DEF PipelineInv, PipelineTypeOK, Ingest, AppendBatch, storeVars
<1>4. received'[lastId + 1] = x /\ lastId + 1 \in DOMAIN received'
  BY <1>2, <1>3
<1>5. received' \in Seq(LedgerBatches) /\ \A i \in DOMAIN received' : received'[i].id = i
  BY <1>1 DEF PipelineInv, PipelineTypeOK, ReceiptsInOrder
<1>6. x \in LedgerBatches /\ x.id = Len(received) + 1
  BY <1>3, <1>4, <1>5
<1>7. Expired' = Expired /\ ForwardCheckpoint' = ForwardCheckpoint
  BY <1>3 DEF Expired, ForwardCheckpoint
<1> QED
  BY <1>2, <1>3, <1>6, <1>7 DEF Ledger!Acknowledge

LEMMA MaintainExpires ==
  ASSUME PipelineInv, NEW clock \in Clocks, Maintain(clock)
  PROVE  Ledger!Expire
<1> DEFINE cutoff == InboxTime(clock) - HardRetention
           old == Older(cutoff)
<1>1. /\ old # {}
      /\ books' = [books EXCEPT !.retained = @ - Cardinality(old),
                                !.bytes = @ - PayloadBytes(Restrict(batches, old), lastId),
                                !.expired = @ + Cardinality(old),
                                !.expiredBytes = @ + PayloadBytes(Restrict(batches, old), lastId),
                                !.earliestReplay = {Max(@ \union {cutoff})}]
      /\ UNCHANGED <<storeVars, received>>
  BY Zenon DEF Maintain, EnforceRetention, ExpireBefore
<1>2. cutoff \in Int
  <2>1. InboxTime(clock) \in Int /\ HardRetention \in Int
    BY ReceiptTime, LatestClock, LimitsAssumption DEF PipelineInv
  <2> QED
    BY <2>1
<1> HIDE DEF cutoff
<1>3. PICK last \in (books.expired + 1)..lastId : old = (books.expired + 1)..last
  BY <1>1, <1>2, OlderIsFront
<1>4. /\ lastId \in Nat /\ DOMAIN received = 1..lastId /\ books.expired \in Nat
      /\ books \in [retained : 0..MaxBatches, bytes : Nat, expired : 0..MaxBatches,
                    expiredBytes : Nat, earliestReplay : Optional(0..Max(Clocks)),
                    lastReceived : Optional(0..Max(Clocks))]
  BY RowsHaveFields DEF PipelineInv, PipelineTypeOK
<1>5. last \in Nat /\ books.expired <= last /\ last \in DOMAIN received
  BY <1>3, <1>4
<1>6. Cardinality(old) = last - books.expired
  <2>1. Cardinality((books.expired + 1)..last) = last - books.expired
    BY <1>4, <1>5, IntervalCardinality
  <2> QED
    BY <2>1, <1>3
<1> HIDE DEF old
<1>7. books'.expired = books.expired + Cardinality(old)
  BY <1>1, <1>4
<1>8. books'.expired = last
  BY <1>4, <1>5, <1>6, <1>7
<1>9. Expired' = 1..last /\ Expired \subseteq 1..last
  BY <1>4, <1>5, <1>8 DEF Expired
<1>10. received' = received /\ observations' = observations /\ conflicts' = conflicts
       /\ ForwardCheckpoint' = ForwardCheckpoint
  BY <1>1 DEF storeVars, ForwardCheckpoint
<1> QED
  BY <1>5, <1>9, <1>10 DEF Ledger!Expire

\* The step of the ledger, in the terms of what a commit writes.
NewEvidence(promised) ==
  {e \in promised : /\ ~ \E a \in EvidenceOf(observations) : a.logical = e.logical
                    /\ \A f \in promised : f.logical = e.logical => f.ordinal >= e.ordinal}

Against(promised, evidence) ==
  {[logical |-> e.logical, content |-> e.content] :
     e \in {f \in promised : \E a \in evidence : a.logical = f.logical /\ a.content # f.content}}

ConsumeStep(i, document) ==
  LET promised == Promised(i, Projection(received[i], document).observations)
      new == NewEvidence(promised)
  IN /\ i > ForwardCheckpoint
     /\ (ForwardCheckpoint + 1)..(i - 1) \subseteq Expired
     /\ ForwardCheckpoint' = i
     /\ EvidenceOf(observations)' = EvidenceOf(observations) \union new
     /\ RefusedIn(conflicts)' =
          RefusedIn(conflicts) \union Against(promised, EvidenceOf(observations) \union new)
     /\ UNCHANGED <<received, Expired>>

LEMMA ConsumeUnfolds ==
  ASSUME NEW i \in DOMAIN received, NEW document \in LedgerCatalogs, ConsumeStep(i, document)
  PROVE  Ledger!Consume
<1> DEFINE found == {Ledger!Evidence(o, i) : o \in Ledger!ToSet(Projection(received[i], document).observations)}
           new == {e \in found :
                     /\ ~Ledger!Claimed(e.logical)
                     /\ \A f \in found : f.logical = e.logical => f.ordinal >= e.ordinal}
           against == {[logical |-> e.logical, content |-> e.content] :
                         e \in {f \in found : \E a \in EvidenceOf(observations) \union new :
                                  a.logical = f.logical /\ a.content # f.content}}
<1>1. Promised(i, Projection(received[i], document).observations) = found
  BY DEF Promised, EvidenceFrom, Ledger!Evidence, ToSet, Ledger!ToSet
<1>2. \A logical : Ledger!Claimed(logical) <=> \E a \in EvidenceOf(observations) : a.logical = logical
  BY DEF Ledger!Claimed, EvidenceOf
<1>3. NewEvidence(found) = new
  <2> HIDE DEF found
  <2> QED
    BY <1>2 DEF NewEvidence
<1>4. Against(found, EvidenceOf(observations) \union new) = against
  <2> HIDE DEF found, new
  <2> QED
    BY DEF Against
<1>5. /\ i > ForwardCheckpoint
      /\ (ForwardCheckpoint + 1)..(i - 1) \subseteq Expired
      /\ ForwardCheckpoint' = i
      /\ EvidenceOf(observations)' = EvidenceOf(observations) \union new
      /\ RefusedIn(conflicts)' = RefusedIn(conflicts) \union against
      /\ UNCHANGED <<received, Expired>>
  <2> HIDE DEF found, new, against
  <2> QED
    BY <1>1, <1>3, <1>4 DEF ConsumeStep
<1> DEFINE Taken(x, d) ==
             LET here == {Ledger!Evidence(o, x) : o \in Ledger!ToSet(Projection(received[x], d).observations)}
                 fresh == {e \in here :
                             /\ ~Ledger!Claimed(e.logical)
                             /\ \A f \in here : f.logical = e.logical => f.ordinal >= e.ordinal}
             IN /\ x > ForwardCheckpoint
                /\ (ForwardCheckpoint + 1)..(x - 1) \subseteq Expired
                /\ ForwardCheckpoint' = x
                /\ EvidenceOf(observations)' = EvidenceOf(observations) \union fresh
                /\ RefusedIn(conflicts)' = RefusedIn(conflicts) \union
                     {[logical |-> e.logical, content |-> e.content] :
                        e \in {f \in here : \E a \in EvidenceOf(observations) \union fresh :
                                 a.logical = f.logical /\ a.content # f.content}}
                /\ UNCHANGED <<received, Expired>>
<1>6. Taken(i, document)
  BY <1>5
<1>7. \E x \in DOMAIN received, d \in LedgerCatalogs : Taken(x, d)
  <2> HIDE DEF Taken
  <2> QED
    BY <1>6
<1> QED
  BY <1>7 DEF Ledger!Consume, EvidenceOf, RefusedIn

LEMMA CommitConsumes ==
  ASSUME PipelineInv, NEW w \in Workers, Commit(w)
  PROVE  Ledger!Consume
<1>1. PICK commit \in NextCommit(w) : CommitBatch(VersionOf[w], commit)
  BY DEF Commit
<1>2. worker[w].pc = "committing" /\ received' = received /\ books' = books
  BY DEF Commit, inboxVars
<1>3. PICK row \in LedgerBatches, etag \in LedgerCatalogs :
        /\ row \in worker[w].page
        /\ commit.id = row.id /\ commit.observations = Projection(row, etag).observations
        /\ row.id \in 1..lastId /\ row = received[row.id]
        /\ \A other \in worker[w].page : row.id <= other.id
  BY <1>1, <1>2, CommitOfPage
<1> DEFINE id == row.id
           found == Projection(row, etag).observations
           last == Len(found)
<1>4. PICK rows : /\ Settled(rows, id, found, last)
                  /\ observations' = rows.observations /\ conflicts' = rows.conflicts
  BY <1>1, <1>2, <1>3, CommitWrites
<1>5. id > ForwardCheckpoint /\ ForwardCheckpoint' = id
  BY <1>1, <1>2, <1>3, CommitWrites
<1>6. last \in Nat /\ DOMAIN found = 1..last
      /\ (\A i \in DOMAIN found : found[i].ordinal \in Nat)
      /\ (\A i, j \in DOMAIN found : i < j => found[i].ordinal < found[j].ordinal)
  BY ProjectedBatch
<1>7. lastId \in Nat /\ DOMAIN received = 1..lastId /\ ForwardCheckpoint \in Nat
  BY RowsHaveFields, Checkpoint DEF PipelineInv
<1>8. (ForwardCheckpoint + 1)..(id - 1) \subseteq Expired
  <2> SUFFICES ASSUME NEW j \in (ForwardCheckpoint + 1)..(id - 1)
               PROVE  j \in Expired
    OBVIOUS
  <2>1. j <= books.expired \/ \E other \in worker[w].page : other.id = j
    BY <1>2, <1>3, RunningProcess DEF PageSound
  <2>2. j \in Nat /\ j >= 1 /\ ~(id <= j)
    BY <1>3, <1>7
  <2>3. j <= books.expired
    BY <2>1, <2>2, <1>3
  <2>4. books.expired \in Nat
    BY DEF PipelineInv, PipelineTypeOK
  <2> QED
    BY <2>2, <2>3, <2>4 DEF Expired
<1> DEFINE promised == Promised(id, found)
           new == {e \in promised :
                     /\ ~ \E a \in EvidenceOf(observations) : a.logical = e.logical
                     /\ \A f \in promised : f.logical = e.logical => f.ordinal >= e.ordinal}
           against == {[logical |-> e.logical, content |-> e.content] :
                         e \in {f \in promised :
                                  \E a \in EvidenceOf(observations) \union new :
                                    a.logical = f.logical /\ a.content # f.content}}
<1>9. FirstOf(id, found, last) = new
  <2> HIDE DEF found
  <2> QED
    BY <1>6, FirstIsLeast
<1>10. EvidenceOf(observations)' = EvidenceOf(observations) \union new
  <2>1. EvidenceOf(rows.observations) = EvidenceOf(observations) \union FirstOf(id, found, last)
    BY <1>4 DEF Settled
  <2>2. EvidenceOf(observations)' = EvidenceOf(rows.observations)
    BY <1>4 DEF EvidenceOf
  <2> HIDE DEF new
  <2> QED
    BY <2>1, <2>2, <1>9
<1>11. RefusedIn(conflicts)' = RefusedIn(conflicts) \union against
  <2> DEFINE evidence == EvidenceOf(observations) \union new
  <2>1. EvidenceOf(rows.observations) = evidence
    <3> HIDE DEF new
    <3> QED
      BY <1>4, <1>9 DEF Settled
  <2>2. RefusedIn(rows.conflicts) = RefusedIn(conflicts) \union RefusedOf(evidence, found, last)
    <3> HIDE DEF evidence
    <3> QED
      BY <1>4, <2>1 DEF Settled
  <2>3. RefusedOf(evidence, found, last) = against
    <3>1. \A ev : RefusedOf(ev, found, last) =
            {[logical |-> e.logical, content |-> e.content] :
               e \in {f \in promised : \E a \in ev :
                        a.logical = f.logical /\ a.content # f.content}}
      <4> HIDE DEF found
      <4> QED
        BY <1>6, RefusedAreAgainst
    <3> HIDE DEF new
    <3> QED
      BY <3>1
  <2>4. RefusedIn(conflicts)' = RefusedIn(rows.conflicts)
    BY <1>4 DEF RefusedIn
  <2> HIDE DEF against, evidence
  <2> QED
    BY <2>2, <2>3, <2>4
<1>12. Expired' = Expired
  BY <1>2 DEF Expired
<1>13. received[id] = row /\ id \in DOMAIN received
  BY <1>3, <1>7
<1>14. ConsumeStep(id, etag)
  <2>1. /\ Promised(id, Projection(received[id], etag).observations) = promised
        /\ NewEvidence(Promised(id, Projection(received[id], etag).observations)) = new
    BY <1>13 DEF NewEvidence
  <2>2. Against(promised, EvidenceOf(observations) \union new) = against
    BY DEF Against
  <2> HIDE DEF promised, new, against
  <2> QED
    BY <2>1, <2>2, <1>2, <1>5, <1>8, <1>10, <1>11, <1>12 DEF ConsumeStep
<1> QED
  BY <1>13, <1>14, ConsumeUnfolds

LEMMA LedgerStarts ==
  ASSUME PipelineInit
  PROVE  Ledger!LedgerInit
<1>1. /\ books.expired = 0 /\ received = <<>> /\ observations = <<>> /\ conflicts = {}
      /\ checkpoints = [v \in Versions |-> 0]
  BY DEF PipelineInit, InboxInit, EvidenceInit
<1>2. Expired = {}
  BY <1>1 DEF Expired
<1>3. ForwardCheckpoint = 0
  <2>1. PipelineTypeOK /\ lastId = 0
    BY PipelineInitInv DEF PipelineInv, PipelineInit, InboxInit
  <2> QED
    BY <2>1, Checkpoint
<1>4. DOMAIN observations = {}
  BY <1>1
<1> QED
  BY <1>1, <1>2, <1>3, <1>4 DEF Ledger!LedgerInit

\* Every step of the pipeline is a step of the ledger or leaves it as it is.
LEMMA LedgerSteps ==
  ASSUME PipelineInv, [PipelineNext]_vars
  PROVE  [Ledger!LedgerNext]_(Ledger!ledgerVars)
<1>1. ASSUME NEW request \in Requests, NEW clock \in Clocks, Ingest(request, clock)
      PROVE  Ledger!LedgerNext
  BY <1>1, IngestAcknowledges DEF Ledger!LedgerNext
<1>2. ASSUME NEW clock \in Clocks, Maintain(clock)
      PROVE  Ledger!LedgerNext
  BY <1>2, MaintainExpires DEF Ledger!LedgerNext
<1>3. ASSUME NEW w \in Workers, Commit(w)
      PROVE  Ledger!LedgerNext
  BY <1>3, CommitConsumes DEF Ledger!LedgerNext
<1>4. CASE Publish
  BY <1>4, LedgerStutters DEF Publish, inboxVars, storeVars
<1>5. ASSUME NEW w \in Workers,
             \/ Locate(w) \/ ReadPage(w) \/ CommitNothing(w) \/ FetchCatalog(w)
             \/ ActivationFails(w) \/ Start(w) \/ Stop(w)
      PROVE  UNCHANGED Ledger!ledgerVars
  <2>1. UNCHANGED <<inboxVars, storeVars, received>>
    BY <1>5 DEF Locate, ReadPage, CommitNothing, FetchCatalog, ActivationFails, Start, Stop
  <2> QED
    BY <2>1, LedgerStutters DEF inboxVars, storeVars
<1>6. ASSUME NEW w \in Workers, ActivateCatalog(w)
      PROVE  UNCHANGED Ledger!ledgerVars
  <2>1. /\ UNCHANGED <<inboxVars, received>>
        /\ UNCHANGED <<observations, conflicts, diagnostics, checkpoints>>
    BY <1>6 DEF ActivateCatalog, SaveCatalog
  <2> QED
    BY <2>1, LedgerStutters DEF inboxVars
<1>7. CASE UNCHANGED vars
  BY <1>7, LedgerStutters DEF vars, inboxVars, storeVars
<1>8. ASSUME NEW w \in Workers, Work(w)
      PROVE  [Ledger!LedgerNext]_(Ledger!ledgerVars)
  BY <1>3, <1>5, <1>6, <1>8 DEF Work
<1> QED
  BY <1>1, <1>2, <1>4, <1>7, <1>8 DEF PipelineNext

\* The pipeline keeps the promise of the ledger: what it acknowledges is
\* consumed in order, nothing twice and nothing passed over that has not
\* expired, and evidence once accepted stays (ImplementsLedger; append,
\* expire_before, run_once, commit_batch).
THEOREM PipelineImplementsLedger == PipelineSpec => ImplementsLedger
<1>1. PipelineInit => Ledger!LedgerInit
  BY LedgerStarts
<1>2. PipelineInv /\ [PipelineNext]_vars => [Ledger!LedgerNext]_(Ledger!ledgerVars)
  BY LedgerSteps
<1> QED
  BY <1>1, <1>2, PipelineInvariant, PTL DEF PipelineSpec, ImplementsLedger, Ledger!LedgerSpec

-----------------------------------------------------------------------------
(* Nothing acknowledged stops a materializer for good *)

LEMMA NothingPoisons ==
  ASSUME PipelineInv
  PROVE  NoPoison
<1>1. /\ lastId \in Nat /\ DOMAIN received = 1..lastId
      /\ \A i \in 1..lastId : received[i] \in LedgerBatches
  BY RowsHaveFields DEF PipelineInv
<1>2. \A i \in DOMAIN received :
        Decodes(received[i].signal, received[i].encoding, received[i].payload)
  BY <1>1, LedgerBatchFields
<1>3. ASSUME NEW w \in Workers, worker[w].pc = "committing", NEW commit \in NextCommit(w)
      PROVE  ValidCommit(commit)
  <2>1. PICK row \in LedgerBatches, etag \in LedgerCatalogs :
          /\ commit.id = row.id /\ commit.observations = Projection(row, etag).observations
          /\ row.id \in 1..lastId
    BY <1>3, CommitOfPage
  <2>2. Decodes(row.signal, row.encoding, row.payload)
    BY LedgerBatchFields
  <2>3. \A i \in DOMAIN commit.observations : ValidObservation(commit.observations[i])
    BY <2>1, ProjectedBatch
  <2>4. commit.id > 0
    BY <2>1, <1>1
  <2> QED
    BY <2>3, <2>4 DEF ValidCommit
<1>4. \A etag \in cachedCatalog : Compiles(Catalog(etag))
  <2> SUFFICES ASSUME NEW etag \in cachedCatalog
               PROVE  Compiles(Catalog(etag))
    OBVIOUS
  <2>1. etag \in LedgerCatalogs \ {0}
    BY DEF PipelineInv, PipelineTypeOK, Optional
  <2>2. etag \in DOMAIN Published /\ Compiles(Published[etag])
    BY <2>1 DEF LedgerCatalogs
  <2>3. Catalog(etag) = Published[etag]
    BY <2>1, <2>2 DEF Catalog
  <2> QED
    BY <2>2, <2>3
<1> QED
  BY <1>2, <1>3, <1>4 DEF NoPoison

\* No batch and no catalog that was let in makes every restart fail at the same
\* place (NoPoison; receiver.rs, projector.rs, validate_commit).
THEOREM NoPoisonHolds == PipelineSpec => []NoPoison
<1>1. PipelineInv => NoPoison
  BY NothingPoisons
<1> QED
  BY <1>1, PipelineInvariant, PTL

-----------------------------------------------------------------------------
(* What a candidate is identified by *)

LEMMA PayloadFields ==
  ASSUME NEW c
  PROVE  /\ CanonicalPayload(c).resource = c.resource
         /\ CanonicalPayload(c).source = SourceKey(c)
         /\ CanonicalPayload(c).payload = c.payload
         /\ CanonicalPayload(c).source.signal = c.signal
         /\ CanonicalPayload(c).source.name = c.name
BY DEF CanonicalPayload, SourceKey

LEMMA AuthorityOfPayload ==
  ASSUME NEW c
  PROVE  DeriveAuthority(CanonicalPayload(c)) = DeriveAuthority(c)
<1>1. CanonicalPayload(c).resource = c.resource
  BY PayloadFields
<1> QED
  BY <1>1 DEF DeriveAuthority

\* The parts of a candidate that its identity is made of, by signal.
LEMMA LogFields ==
  ASSUME NEW c, FromLog(c)
  PROVE  /\ c.signal = "log"
         /\ c.identity = NonEmptyString(c.payload.attributes, "flaggo.observation.id")
         /\ c.contentDerived = (c.identity = {})
         /\ c.attributes = c.payload.attributes
<1>1. PICK record : c = LogCandidate(record)
  BY DEF FromLog
<1>2. /\ c.signal = "log" /\ c.payload = record /\ c.attributes = record.attributes
      /\ c.identity = NonEmptyString(record.attributes, "flaggo.observation.id")
      /\ c.contentDerived = (c.identity = {})
  BY <1>1 DEF LogCandidate
<1> QED
  BY <1>2

LEMMA SpanFields ==
  ASSUME NEW c, FromSpan(c)
  PROVE  c.signal = "span" /\ c.identity = SpanIdentity(c.payload) /\ c.contentDerived = FALSE
<1>1. PICK span : c = SpanCandidate(span)
  BY DEF FromSpan
<1> QED
  BY <1>1 DEF SpanCandidate

LEMMA EventFields ==
  ASSUME NEW c, FromEvent(c)
  PROVE  /\ c.signal = "spanEvent" /\ c.contentDerived = FALSE
         /\ c.identity = [event |-> c.name, occurrence |-> c.payload.eventIndex,
                          time |-> EventTime(c.payload),
                          parent |-> SpanIdentity(c.payload.parentSpan)]
<1>1. PICK span, i : c = EventCandidate(span, i)
  BY DEF FromEvent
<1>2. /\ c.signal = "spanEvent" /\ c.contentDerived = FALSE /\ c.name = span.events[i].name
      /\ c.payload.parentSpan = span /\ c.payload.eventIndex = i
      /\ c.identity = [event |-> span.events[i].name, occurrence |-> i,
                       time |-> span.events[i].time, parent |-> SpanIdentity(span)]
  BY <1>1 DEF EventCandidate
<1>3. EventTime(c.payload) = span.events[i].time
  BY <1>2 DEF EventTime
<1> QED
  BY <1>2, <1>3

LEMMA PointFields ==
  ASSUME NEW c, FromPoint(c)
  PROVE  /\ c.signal = "metric" /\ c.contentDerived = FALSE
         /\ c.identity = [aggregation |-> c.payload.aggregation,
                          attributes |-> c.payload.point.attributes,
                          start |-> c.payload.point.start, end |-> c.payload.point.time]
<1>1. PICK metric, data, point : c = PointCandidate(metric, data, point)
  BY DEF FromPoint
<1>2. /\ c.signal = "metric" /\ c.contentDerived = FALSE
      /\ c.payload.aggregation = data.aggregation /\ c.payload.point = point
      /\ c.identity = [aggregation |-> data.aggregation, attributes |-> point.attributes,
                       start |-> point.start, end |-> point.time]
  BY <1>1 DEF PointCandidate
<1> QED
  BY <1>2

\* Contents of one source and one authority are of one logical source.
LEMMA OneLogicalSource ==
  ASSUME NEW c, NEW d, IsCandidate(c), IsCandidate(d),
         DeriveAuthority(c) = DeriveAuthority(d),
         SameSource(CanonicalPayload(c), CanonicalPayload(d))
  PROVE  LogicalSource(c) = LogicalSource(d)
<1> DEFINE a == CanonicalPayload(c)
           b == CanonicalPayload(d)
<1>1. /\ a.source.signal = c.signal /\ b.source.signal = d.signal
      /\ a.payload = c.payload /\ b.payload = d.payload
      /\ a.source.name = c.name /\ b.source.name = d.name
      /\ a.resource = c.resource /\ b.resource = d.resource
      /\ a.source = SourceKey(c) /\ b.source = SourceKey(d)
  BY PayloadFields
<1> HIDE DEF a, b
<1>2. SameSource(a, b)
  BY DEF a, b
<1>3. c.signal = d.signal
  BY <1>1, <1>2 DEF SameSource
<1>4. CASE FromLog(c)
  <2>1. FromLog(d)
    BY <1>3, <1>4, LogFields, SpanFields, EventFields, PointFields DEF IsCandidate
  <2>2. \/ a = b
        \/ c.identity # {} /\ c.identity = d.identity
    <3>1. /\ c.identity = NonEmptyString(a.payload.attributes, "flaggo.observation.id")
          /\ d.identity = NonEmptyString(b.payload.attributes, "flaggo.observation.id")
          /\ a.source.signal = "log"
      BY <1>1, <1>4, <2>1, LogFields
    <3>2. \/ a = b
          \/ /\ NonEmptyString(a.payload.attributes, "flaggo.observation.id") # {}
             /\ NonEmptyString(a.payload.attributes, "flaggo.observation.id") =
                  NonEmptyString(b.payload.attributes, "flaggo.observation.id")
      BY <1>2, <3>1 DEF SameSource
    <3> QED
      BY <3>1, <3>2
  <2>3. CASE a = b
    <3>1. c.identity = d.identity /\ c.contentDerived = d.contentDerived
      BY <1>1, <1>4, <2>1, <2>3, LogFields
    <3>2. c.signal = "log" /\ d.signal = "log"
      BY <1>4, <2>1, LogFields
    <3>3. CanonicalIdentity(c) = CanonicalIdentity(d)
      BY <3>1, <3>2 DEF CanonicalIdentity
    <3> QED
      BY <2>3, <3>1, <3>3 DEF LogicalSource, a, b
  <2>4. CASE c.identity # {} /\ c.identity = d.identity
    <3>1. c.contentDerived = FALSE /\ d.contentDerived = FALSE
      BY <1>4, <2>1, <2>4, LogFields
    <3>2. c.signal = "log" /\ d.signal = "log"
      BY <1>4, <2>1, LogFields
    <3>3. CanonicalIdentity(c) = CanonicalIdentity(d)
      BY <2>4, <3>2 DEF CanonicalIdentity
    <3> QED
      BY <3>1, <3>3 DEF LogicalSource
  <2> QED
    BY <2>2, <2>3, <2>4
<1>5. CASE FromSpan(c)
  <2>1. FromSpan(d)
    BY <1>3, <1>5, LogFields, SpanFields, EventFields, PointFields DEF IsCandidate
  <2>2. c.signal = "span" /\ d.signal = "span" /\ c.contentDerived = FALSE /\ d.contentDerived = FALSE
        /\ c.identity = SpanIdentity(c.payload) /\ d.identity = SpanIdentity(d.payload)
    BY <1>5, <2>1, SpanFields
  <2>3. c.identity = d.identity
    BY <1>1, <1>2, <2>2 DEF SameSource
  <2>4. CanonicalIdentity(c) = CanonicalIdentity(d)
    BY <2>2, <2>3 DEF CanonicalIdentity
  <2> QED
    BY <2>2, <2>4 DEF LogicalSource
<1>6. CASE FromEvent(c)
  <2>1. FromEvent(d)
    BY <1>3, <1>6, LogFields, SpanFields, EventFields, PointFields DEF IsCandidate
  <2>2. c.signal = "spanEvent" /\ d.signal = "spanEvent"
        /\ c.contentDerived = FALSE /\ d.contentDerived = FALSE
    BY <1>6, <2>1, EventFields
  <2>3. /\ c.payload.eventIndex = d.payload.eventIndex /\ c.name = d.name
        /\ EventTime(c.payload) = EventTime(d.payload)
        /\ SpanIdentity(c.payload.parentSpan) = SpanIdentity(d.payload.parentSpan)
    BY <1>1, <1>2, <2>2 DEF SameSource
  <2>4. c.identity = d.identity
    BY <1>6, <2>1, <2>3, EventFields
  <2>5. CanonicalIdentity(c) = CanonicalIdentity(d)
    BY <2>2, <2>4 DEF CanonicalIdentity
  <2> QED
    BY <2>2, <2>5 DEF LogicalSource
<1>7. CASE FromPoint(c)
  <2>1. FromPoint(d)
    BY <1>3, <1>7, LogFields, SpanFields, EventFields, PointFields DEF IsCandidate
  <2>2. c.signal = "metric" /\ d.signal = "metric"
        /\ c.contentDerived = FALSE /\ d.contentDerived = FALSE
    BY <1>7, <2>1, PointFields
  <2>3. /\ <<a.resource, a.source, a.payload.aggregation, a.payload.point.attributes>> =
             <<b.resource, b.source, b.payload.aggregation, b.payload.point.attributes>>
        /\ <<a.payload.point.start, a.payload.point.time>> =
             <<b.payload.point.start, b.payload.point.time>>
    BY <1>1, <1>2, <2>2 DEF SameSource
  <2>4. /\ c.resource = d.resource /\ SourceKey(c) = SourceKey(d)
        /\ c.payload.aggregation = d.payload.aggregation
        /\ c.payload.point.attributes = d.payload.point.attributes
        /\ c.payload.point.start = d.payload.point.start
        /\ c.payload.point.time = d.payload.point.time
    BY <1>1, <2>3
  <2>5. c.identity = d.identity
    BY <1>7, <2>1, <2>4, PointFields
  <2>6. CanonicalIdentity(c) = CanonicalIdentity(d)
    BY <2>2, <2>4, <2>5 DEF CanonicalIdentity
  <2> QED
    BY <2>2, <2>6 DEF LogicalSource
<1> QED
  BY <1>4, <1>5, <1>6, <1>7 DEF IsCandidate

\* And contents of one logical source are of one source, unless they are the same.
LEMMA OneSource ==
  ASSUME NEW c, NEW d, IsCandidate(c), IsCandidate(d),
         LogicalSource(c) = LogicalSource(d), CanonicalPayload(c) # CanonicalPayload(d)
  PROVE  SameSource(CanonicalPayload(c), CanonicalPayload(d))
<1> DEFINE a == CanonicalPayload(c)
           b == CanonicalPayload(d)
<1>1. /\ a.source.signal = c.signal /\ b.source.signal = d.signal
      /\ a.payload = c.payload /\ b.payload = d.payload
      /\ a.source.name = c.name /\ b.source.name = d.name
      /\ a.resource = c.resource /\ b.resource = d.resource
      /\ a.source = SourceKey(c) /\ b.source = SourceKey(d)
  BY PayloadFields
<1>2. c.contentDerived \in BOOLEAN /\ d.contentDerived \in BOOLEAN
  BY LogFields, SpanFields, EventFields, PointFields DEF IsCandidate
<1>3. c.contentDerived = d.contentDerived
  BY DEF LogicalSource
<1>4. c.contentDerived = FALSE /\ d.contentDerived = FALSE
  <2>1. c.contentDerived = TRUE => a = b
    BY <1>3 DEF LogicalSource
  <2> QED
    BY <1>2, <1>3, <2>1
<1>5. CanonicalIdentity(c) = CanonicalIdentity(d)
  BY <1>4 DEF LogicalSource
<1>6. CanonicalIdentity(c).kind = c.signal /\ CanonicalIdentity(c).identity = c.identity
      /\ CanonicalIdentity(d).kind = d.signal /\ CanonicalIdentity(d).identity = d.identity
  BY DEF CanonicalIdentity
<1>7. c.signal = d.signal /\ c.identity = d.identity
  BY <1>5, <1>6
<1>8. c.signal = "metric" => c.resource = d.resource /\ SourceKey(c) = SourceKey(d)
  <2> SUFFICES ASSUME c.signal = "metric"
               PROVE  c.resource = d.resource /\ SourceKey(c) = SourceKey(d)
    OBVIOUS
  <2>1. d.signal = "metric"
    BY <1>7
  <2>2. [kind |-> c.signal, identity |-> c.identity, resource |-> c.resource, source |-> SourceKey(c)] =
        [kind |-> d.signal, identity |-> d.identity, resource |-> d.resource, source |-> SourceKey(d)]
    BY <1>5, <2>1 DEF CanonicalIdentity
  <2> QED
    BY <2>2
<1> HIDE DEF a, b
<1>9. CASE FromLog(c)
  <2>1. FromLog(d)
    BY <1>7, <1>9, LogFields, SpanFields, EventFields, PointFields DEF IsCandidate
  <2>2. c.identity # {}
    BY <1>4, <1>9, LogFields
  <2>3. SameSource(a, b)
    <3>1. /\ c.identity = NonEmptyString(a.payload.attributes, "flaggo.observation.id")
          /\ d.identity = NonEmptyString(b.payload.attributes, "flaggo.observation.id")
          /\ c.signal = "log"
      BY <1>1, <1>9, <2>1, LogFields
    <3>2. /\ NonEmptyString(a.payload.attributes, "flaggo.observation.id") # {}
          /\ NonEmptyString(a.payload.attributes, "flaggo.observation.id") =
               NonEmptyString(b.payload.attributes, "flaggo.observation.id")
      BY <1>7, <2>2, <3>1
    <3> QED
      BY <1>1, <1>7, <3>1, <3>2 DEF SameSource
  <2> QED
    BY <2>3 DEF a, b
<1>10. CASE FromSpan(c)
  <2>1. FromSpan(d)
    BY <1>7, <1>10, LogFields, SpanFields, EventFields, PointFields DEF IsCandidate
  <2>2. SameSource(a, b)
    BY <1>1, <1>7, <1>10, <2>1, SpanFields DEF SameSource
  <2> QED
    BY <2>2 DEF a, b
<1>11. CASE FromEvent(c)
  <2>1. FromEvent(d)
    BY <1>7, <1>11, LogFields, SpanFields, EventFields, PointFields DEF IsCandidate
  <2>2. /\ c.name = d.name /\ c.payload.eventIndex = d.payload.eventIndex
        /\ EventTime(c.payload) = EventTime(d.payload)
        /\ SpanIdentity(c.payload.parentSpan) = SpanIdentity(d.payload.parentSpan)
    <3>1. /\ c.identity = [event |-> c.name, occurrence |-> c.payload.eventIndex,
                            time |-> EventTime(c.payload),
                            parent |-> SpanIdentity(c.payload.parentSpan)]
          /\ d.identity = [event |-> d.name, occurrence |-> d.payload.eventIndex,
                            time |-> EventTime(d.payload),
                            parent |-> SpanIdentity(d.payload.parentSpan)]
      BY <1>11, <2>1, EventFields
    <3>2. /\ c.identity.event = c.name /\ d.identity.event = d.name
          /\ c.identity.occurrence = c.payload.eventIndex
          /\ d.identity.occurrence = d.payload.eventIndex
          /\ c.identity.time = EventTime(c.payload) /\ d.identity.time = EventTime(d.payload)
          /\ c.identity.parent = SpanIdentity(c.payload.parentSpan)
          /\ d.identity.parent = SpanIdentity(d.payload.parentSpan)
      BY <3>1
    <3> QED
      BY <1>7, <3>2
  <2>3. c.signal = "spanEvent"
    BY <1>11, EventFields
  <2>4. SameSource(a, b)
    BY <1>1, <1>7, <2>2, <2>3 DEF SameSource
  <2> QED
    BY <2>4 DEF a, b
<1>12. CASE FromPoint(c)
  <2>1. FromPoint(d)
    BY <1>7, <1>12, LogFields, SpanFields, EventFields, PointFields DEF IsCandidate
  <2>2. /\ c.payload.aggregation = d.payload.aggregation
        /\ c.payload.point.attributes = d.payload.point.attributes
        /\ c.payload.point.start = d.payload.point.start
        /\ c.payload.point.time = d.payload.point.time
    <3>1. /\ c.identity = [aggregation |-> c.payload.aggregation,
                            attributes |-> c.payload.point.attributes,
                            start |-> c.payload.point.start, end |-> c.payload.point.time]
          /\ d.identity = [aggregation |-> d.payload.aggregation,
                            attributes |-> d.payload.point.attributes,
                            start |-> d.payload.point.start, end |-> d.payload.point.time]
      BY <1>12, <2>1, PointFields
    <3>2. /\ c.identity.aggregation = c.payload.aggregation
          /\ d.identity.aggregation = d.payload.aggregation
          /\ c.identity.attributes = c.payload.point.attributes
          /\ d.identity.attributes = d.payload.point.attributes
          /\ c.identity.start = c.payload.point.start /\ d.identity.start = d.payload.point.start
          /\ c.identity.end = c.payload.point.time /\ d.identity.end = d.payload.point.time
      BY <3>1
    <3> QED
      BY <1>7, <3>2
  <2>3. c.signal = "metric"
    BY <1>12, PointFields
  <2>4. SameSource(a, b)
    BY <1>1, <1>7, <1>8, <2>2, <2>3 DEF SameSource
  <2> QED
    BY <2>4 DEF a, b
<1> QED
  BY <1>9, <1>10, <1>11, <1>12 DEF IsCandidate

-----------------------------------------------------------------------------
(* What the observation rows hold *)

\* A digest is of one value, and the value can be had back from it.
LEMMA DigestIsOfOne ==
  ASSUME NEW v \in DigestedValues
  PROVE  ContentOf(DigestOf(v)) = v
<1>1. v \in ToSet(Digested)
  BY DigestAssumption
<1>2. \E i \in DOMAIN Digested : Digested[i] = v
  BY <1>1 DEF ToSet
<1>3. Digested[CHOOSE i \in DOMAIN Digested : Digested[i] = v] = v
  BY <1>2
<1> QED
  BY <1>3 DEF ContentOf, DigestOf

\* Every row is of a candidate that was admitted.
LEMMA RowOfCandidate ==
  ASSUME NEW r \in ObservationRows
  PROVE  \E c, document :
           /\ Candidate(c) /\ Admits(c, document)
           /\ r.logical = DigestOf(LogicalSource(c))
           /\ r.content = DigestOf(CanonicalPayload(c))
           /\ r.protocol => Disposition(c, document) = "decision"
           /\ r.contract = IF Disposition(c, document) = "decision"
                           THEN TextAt(c, "flaggo.contract.digest") ELSE {}
<1>1. PICK row \in LedgerBatches, etag \in LedgerCatalogs :
        \E o \in ToSet(Projection(row, etag).observations) : r = Row(row.id, o)
  <2> DEFINE Rows(b, e) == {Row(b.id, o) : o \in ToSet(Projection(b, e).observations)}
  <2>1. ObservationRows = UNION {Rows(b, e) : b \in LedgerBatches, e \in LedgerCatalogs}
    BY DEF ObservationRows
  <2>2. \A b, e : r \in Rows(b, e) =>
          \E o \in ToSet(Projection(b, e).observations) : r = Row(b.id, o)
    OBVIOUS
  <2> HIDE DEF Rows
  <2>3. PICK b \in LedgerBatches, e \in LedgerCatalogs : r \in Rows(b, e)
    BY <2>1
  <2> QED
    BY <2>2, <2>3
<1>2. PICK found : found = Projection(row, etag).observations
  OBVIOUS
<1>3. PICK o \in ToSet(found) : r = Row(row.id, o)
  BY <1>1, <1>2
<1>4. PICK i \in DOMAIN found : o = found[i]
  BY DEF ToSet
<1>5. PICK c, document : Candidate(c) /\ MadeOf(found[i], c, document)
  BY <1>2, ProjectedBatch
<1>6. PICK n \in Nat : Admits(c, document) /\ o = Made(c, n, document)
  BY <1>4, <1>5 DEF MadeOf
<1>7. /\ o.logical = DigestOf(LogicalSource(c)) /\ o.content = DigestOf(CanonicalPayload(c))
      /\ o.protocol = (Disposition(c, document) = "decision")
      /\ o.contract = IF Disposition(c, document) = "decision"
                      THEN TextAt(c, "flaggo.contract.digest") ELSE {}
  BY <1>6 DEF Made, CreateObservation
<1>8. /\ r.logical = o.logical /\ r.content = o.content
      /\ r.protocol = o.protocol /\ r.contract = o.contract
  BY <1>3 DEF Row
<1>9. r.protocol => Disposition(c, document) = "decision"
  BY <1>7, <1>8
<1> QED
  BY <1>5, <1>6, <1>7, <1>8, <1>9

\* So the rows of one source are of one logical source, and the other way round.
LEMMA RowsOfOneSource ==
  ASSUME NEW a \in ObservationRows, NEW b \in ObservationRows
  PROVE  /\ DeriveAuthority(ContentOf(a.content)) = DeriveAuthority(ContentOf(b.content))
              /\ SameSource(ContentOf(a.content), ContentOf(b.content))
            => a.logical = b.logical
         /\ a.logical = b.logical /\ a.content # b.content
            => SameSource(ContentOf(a.content), ContentOf(b.content))
<1>1. PICK c : Candidate(c) /\ a.logical = DigestOf(LogicalSource(c))
               /\ a.content = DigestOf(CanonicalPayload(c))
  BY RowOfCandidate
<1>2. PICK d : Candidate(d) /\ b.logical = DigestOf(LogicalSource(d))
               /\ b.content = DigestOf(CanonicalPayload(d))
  BY RowOfCandidate
<1>3. /\ ContentOf(a.content) = CanonicalPayload(c) /\ ContentOf(b.content) = CanonicalPayload(d)
      /\ ContentOf(a.logical) = LogicalSource(c) /\ ContentOf(b.logical) = LogicalSource(d)
      /\ IsCandidate(c) /\ IsCandidate(d)
  BY <1>1, <1>2, DigestIsOfOne DEF Candidate
<1>4. ASSUME DeriveAuthority(ContentOf(a.content)) = DeriveAuthority(ContentOf(b.content)),
             SameSource(ContentOf(a.content), ContentOf(b.content))
      PROVE  a.logical = b.logical
  <2>1. DeriveAuthority(c) = DeriveAuthority(d)
    BY <1>3, <1>4, AuthorityOfPayload
  <2>2. LogicalSource(c) = LogicalSource(d)
    BY <1>3, <1>4, <2>1, OneLogicalSource
  <2> QED
    BY <1>1, <1>2, <2>2
<1>5. ASSUME a.logical = b.logical, a.content # b.content
      PROVE  SameSource(ContentOf(a.content), ContentOf(b.content))
  <2>1. LogicalSource(c) = LogicalSource(d)
    BY <1>3, <1>5
  <2>2. CanonicalPayload(c) # CanonicalPayload(d)
    BY <1>1, <1>2, <1>5
  <2> QED
    BY <1>3, <2>1, <2>2, OneSource
<1> QED
  BY <1>4, <1>5

LEMMA SourcesKeptApart ==
  ASSUME PipelineInv
  PROVE  OneObservationPerSource
<1>1. observations \in Seq(ObservationRows) /\ AcceptedOnce
  BY DEF PipelineInv, PipelineTypeOK
<1>2. \A i \in DOMAIN observations : observations[i] \in ObservationRows
  BY <1>1
<1>3. ASSUME NEW i \in DOMAIN observations, NEW j \in DOMAIN observations,
             DeriveAuthority(ContentOf(observations[i].content)) =
               DeriveAuthority(ContentOf(observations[j].content)),
             SameSource(ContentOf(observations[i].content), ContentOf(observations[j].content))
      PROVE  i = j
  <2>1. observations[i].logical = observations[j].logical
    BY <1>2, <1>3, RowsOfOneSource
  <2> QED
    BY <1>1, <2>1 DEF AcceptedOnce
<1>4. ASSUME NEW c \in conflicts
      PROVE  c.accepted # c.rejected /\ SameSource(ContentOf(c.accepted), ContentOf(c.rejected))
  <2>1. PICK a \in ObservationRows, r \in ObservationRows :
          /\ a.logical = r.logical /\ a.content # r.content
          /\ c.accepted = a.content /\ c.rejected = r.content
    BY <1>1 DEF AcceptedOnce, OverOneSource
  <2>2. SameSource(ContentOf(a.content), ContentOf(r.content))
    BY <2>1, RowsOfOneSource
  <2> QED
    BY <2>1, <2>2
<1> QED
  BY <1>3, <1>4 DEF OneObservationPerSource

\* An authority has one observation of a source however often, in whatever
\* encoding and by however many processes it is delivered, and only another
\* content of that source is refused for it (OneObservationPerSource;
\* create_observation, insert_observation, insert_conflict).
THEOREM OneObservationPerSourceHolds == PipelineSpec => []OneObservationPerSource
<1>1. PipelineInv => OneObservationPerSource
  BY SourcesKeptApart
<1> QED
  BY <1>1, PipelineInvariant, PTL

-----------------------------------------------------------------------------
(* What the evidence of a decision says *)

\* An attribute that occurs once is found by its key.
LEMMA UniqueIsFound ==
  ASSUME NEW c, UniqueAttributes(c), NEW k \in DOMAIN c.attributes
  PROVE  c.attributes[k] \in LookupAttribute(c.attributes, c.attributes[k].key)
<1> DEFINE at == {i \in DOMAIN c.attributes : c.attributes[i].key = c.attributes[k].key}
<1>1. at = {k}
  BY DEF UniqueAttributes
<1>2. Cardinality(at) = 1
  BY <1>1, FS_Singleton
<1>3. c.attributes[k].type # "none"
  BY DEF UniqueAttributes
<1>4. LookupAttribute(c.attributes, c.attributes[k].key) =
        {c.attributes[i] : i \in {j \in at : Cardinality(at) = 1 /\ c.attributes[j].type # "none"}}
  BY DEF LookupAttribute
<1> HIDE DEF at
<1> QED
  BY <1>1, <1>2, <1>3, <1>4

\* What a valid decision states, each attribute at one place.
LEMMA ValidDecisionStates ==
  ASSUME NEW c, ValidDecision(c), NEW sent, sent = c.attributes
  PROVE  /\ \A k, l \in DOMAIN sent : sent[k].key = sent[l].key => k = l
         /\ \E k \in DOMAIN sent :
              /\ sent[k].key = "flaggo.contract.digest"
              /\ TextAt(c, "flaggo.contract.digest") = {sent[k].value}
         /\ \E j, h \in DOMAIN sent :
              /\ sent[j].key = "flaggo.result.json" /\ sent[h].key = "flaggo.result.hash"
              /\ ResultHash[sent[j].value] = sent[h].value
         /\ \A k, s \in DOMAIN sent :
              /\ sent[k].key = "flaggo.evaluation.rule"
              /\ sent[s].key = "flaggo.evaluation.source"
              => sent[s].value = "rule"
<1>1. UniqueAttributes(c) /\ ResultMatches(c) /\ RuleMatches(c)
  BY DEF ValidDecision
<1>2. /\ \E a \in LookupAttribute(c.attributes, "flaggo.contract.digest") :
             a.type = "string" /\ a.value \in Sha256Digests
      /\ \E a \in LookupAttribute(c.attributes, "flaggo.result.json") :
             a.type = "string" /\ a.value \in DOMAIN ResultHash
      /\ \E a \in LookupAttribute(c.attributes, "flaggo.result.hash") :
             a.type = "string" /\ a.value \in Sha256Digests
      /\ \E a \in LookupAttribute(c.attributes, "flaggo.evaluation.source") :
             a.type = "string" /\ a.value \in {"default", "rule"}
  BY DEF ValidDecision, RequiredStrings
<1>3. \A k, l \in DOMAIN sent : sent[k].key = sent[l].key => k = l
  BY <1>1 DEF UniqueAttributes
<1>4. PICK k \in DOMAIN sent : /\ sent[k].key = "flaggo.contract.digest"
                               /\ TextAt(c, "flaggo.contract.digest") = {sent[k].value}
  BY <1>1, <1>2, TextOfUnique
<1>5. PICK j \in DOMAIN sent : /\ sent[j].key = "flaggo.result.json"
                               /\ TextAt(c, "flaggo.result.json") = {sent[j].value}
  BY <1>1, <1>2, TextOfUnique
<1>6. PICK h \in DOMAIN sent : /\ sent[h].key = "flaggo.result.hash"
                               /\ TextAt(c, "flaggo.result.hash") = {sent[h].value}
  BY <1>1, <1>2, TextOfUnique
<1>7. ResultHash[sent[j].value] = sent[h].value
  <2>1. TextAt(c, "flaggo.result.hash") = {ResultHash[sent[j].value]}
    BY <1>1, <1>5 DEF ResultMatches
  <2> QED
    BY <1>6, <2>1
<1>8. ASSUME NEW r \in DOMAIN sent, NEW s \in DOMAIN sent,
             sent[r].key = "flaggo.evaluation.rule", sent[s].key = "flaggo.evaluation.source"
      PROVE  sent[s].value = "rule"
  <2>1. PICK t \in DOMAIN sent :
          /\ sent[t].key = "flaggo.evaluation.source"
          /\ TextAt(c, "flaggo.evaluation.source") = {sent[t].value}
    <3>1. PICK texts : texts = {"default", "rule"}
      OBVIOUS
    <3>2. \E a \in LookupAttribute(c.attributes, "flaggo.evaluation.source") :
            a.type = "string" /\ a.value \in texts
      BY <1>2, <3>1
    <3> QED
      BY <1>1, <3>2, TextOfUnique
  <2>2. TextAt(c, "flaggo.evaluation.source") = {sent[s].value}
    BY <1>3, <1>8, <2>1
  <2>3. sent[r].value \in TextAt(c, "flaggo.evaluation.rule")
    BY <1>1, <1>8, UniqueIsFound DEF TextAt
  <2>4. TextAt(c, "flaggo.evaluation.source") = {"rule"}
    BY <1>1, <2>3 DEF RuleMatches
  <2> QED
    BY <2>2, <2>4
<1> QED
  BY <1>3, <1>4, <1>5, <1>6, <1>7, <1>8

LEMMA DecisionRow ==
  ASSUME NEW r \in ObservationRows, r.protocol
  PROVE  \E c : /\ ValidDecision(c)
                /\ ContentOf(r.content).payload.attributes = c.attributes
                /\ r.contract = TextAt(c, "flaggo.contract.digest")
<1>1. PICK c, document :
        /\ Candidate(c) /\ Admits(c, document)
        /\ r.content = DigestOf(CanonicalPayload(c))
        /\ r.protocol => Disposition(c, document) = "decision"
        /\ r.contract = IF Disposition(c, document) = "decision"
                        THEN TextAt(c, "flaggo.contract.digest") ELSE {}
  BY RowOfCandidate
<1>2. Disposition(c, document) = "decision"
  BY <1>1
<1>3. IsBuiltIn(c) /\ ValidDecision(c)
  BY <1>2 DEF Disposition
<1>4. FromLog(c)
  <2>1. c.signal = "log"
    BY <1>3 DEF IsBuiltIn
  <2>2. IsCandidate(c)
    BY <1>1 DEF Candidate
  <2> QED
    BY <2>1, <2>2, SpanFields, EventFields, PointFields DEF IsCandidate
<1>5. ContentOf(r.content) = CanonicalPayload(c)
  BY <1>1, DigestIsOfOne DEF Candidate
<1>6. ContentOf(r.content).payload.attributes = c.attributes
  BY <1>4, <1>5, LogFields, PayloadFields
<1> QED
  BY <1>1, <1>2, <1>3, <1>6

LEMMA DecisionsAreSound ==
  ASSUME PipelineInv
  PROVE  DecisionEvidenceSound
<1>1. observations \in Seq(ObservationRows)
  BY DEF PipelineInv, PipelineTypeOK
<1>2. ASSUME NEW i \in DOMAIN observations, observations[i].protocol
      PROVE  LET sent == ContentOf(observations[i].content).payload.attributes
                 Sent(key) == {k \in DOMAIN sent : sent[k].key = key}
             IN /\ \A k, l \in DOMAIN sent : sent[k].key = sent[l].key => k = l
                /\ \E k \in Sent("flaggo.contract.digest") :
                     observations[i].contract = {sent[k].value}
                /\ \E j \in Sent("flaggo.result.json"), h \in Sent("flaggo.result.hash") :
                     ResultHash[sent[j].value] = sent[h].value
                /\ \A k \in Sent("flaggo.evaluation.rule"), s \in Sent("flaggo.evaluation.source") :
                     sent[s].value = "rule"
  <2> DEFINE sent == ContentOf(observations[i].content).payload.attributes
             Sent(key) == {k \in DOMAIN sent : sent[k].key = key}
  <2>2. observations[i] \in ObservationRows
    BY <1>1
  <2>3. PICK c : /\ ValidDecision(c) /\ sent = c.attributes
                 /\ observations[i].contract = TextAt(c, "flaggo.contract.digest")
    BY <2>2, <1>2, DecisionRow
  <2>4. \A k, l \in DOMAIN sent : sent[k].key = sent[l].key => k = l
    BY <2>3, ValidDecisionStates
  <2>5. \E k \in Sent("flaggo.contract.digest") : observations[i].contract = {sent[k].value}
    BY <2>3, ValidDecisionStates
  <2>6. \E j \in Sent("flaggo.result.json"), h \in Sent("flaggo.result.hash") :
          ResultHash[sent[j].value] = sent[h].value
    <3>1. PICK j \in DOMAIN sent, h \in DOMAIN sent :
            /\ sent[j].key = "flaggo.result.json" /\ sent[h].key = "flaggo.result.hash"
            /\ ResultHash[sent[j].value] = sent[h].value
      BY <2>3, ValidDecisionStates
    <3>2. j \in Sent("flaggo.result.json") /\ h \in Sent("flaggo.result.hash")
      BY <3>1
    <3> QED
      BY <3>1, <3>2
  <2>7. \A k \in Sent("flaggo.evaluation.rule"), s \in Sent("flaggo.evaluation.source") :
          sent[s].value = "rule"
    BY <2>3, ValidDecisionStates
  <2> QED
    BY <2>4, <2>5, <2>6, <2>7, Zenon
<1> QED
  BY <1>2, Zenon DEF DecisionEvidenceSound

\* Evidence of a decision names the contract and the result that were decided,
\* each once, and the result hashes to the hash it carries (DecisionEvidenceSound;
\* builtin.rs validate, create_observation).
THEOREM DecisionEvidenceSoundHolds == PipelineSpec => []DecisionEvidenceSound
<1>1. PipelineInv => DecisionEvidenceSound
  BY DecisionsAreSound
<1> QED
  BY <1>1, PipelineInvariant, PTL
=============================================================================
