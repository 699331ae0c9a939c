--------------------------- MODULE EvidenceQueries ---------------------------
(***************************************************************************)
(* What an analysis may ask of the Evidence Store: the scope of a contract, *)
(* the queries the read-only store takes, and their answers.  No state.     *)
(*                                                                         *)
(* A query is what its checks see of it: its statements, the relations and  *)
(* functions it uses, the names and types of its columns, and the rows it   *)
(* selects; the SQL engine itself is external.  Names are lower case.  An   *)
(* optional value is the set of the at most one value it has.               *)
(***************************************************************************)
EXTENDS Naturals, Sequences, FiniteSets, Selections

CONSTANT ScopeNames  \* texts AuthorityScope::new accepts

DecisionObservation ==
  [signal |-> "log", scope |-> "@flaggo/sdk", name |-> "flaggo.decision.received",
   metricKind |-> {}, metricUnit |-> {}, parentSpan |-> {}]

EvidenceSignals == {"log", "metric", "span", "spanEvent"}

DecisionDeclared(sources) ==
  \E s \in sources : /\ s.signal = DecisionObservation.signal
                     /\ s.scope = DecisionObservation.scope
                     /\ s.name = DecisionObservation.name

\* The scope of the queries of a contract's analysis; none when it has none.
EvidenceScope(contract) ==
  LET fits == /\ contract.authority \in ScopeNames \X ScopeNames \X ScopeNames
              /\ contract.sources # {}
              /\ \A s \in contract.sources : s.signal \in EvidenceSignals
      sources == IF DecisionDeclared(contract.sources) THEN contract.sources
                 ELSE contract.sources \union {DecisionObservation}
  IN {[authority |-> contract.authority, digest |-> contract.digest, sources |-> sources] :
        x \in {y \in {contract} : fits}}

-----------------------------------------------------------------------------
(* The observations relation *)

\* A source selects by every column, an absent one as NULL.
FromSource(row, source) ==
  /\ row.source.signal = source.signal
  /\ row.source.scope = source.scope /\ row.source.name = source.name
  /\ row.source.metricKind = source.metricKind
  /\ row.source.metricUnit = source.metricUnit
  /\ row.source.parentSpan = source.parentSpan

\* The rows of the view: of the authority, of no other contract, of a source.
Visible(row, scope) ==
  /\ row.authority = scope.authority
  /\ row.contract \in {{}, {scope.digest}}
  /\ \E s \in scope.sources : FromSource(row, s)

View(rows, scope) == Kept(rows, {i \in DOMAIN rows : Visible(rows[i], scope)})

-----------------------------------------------------------------------------
(* The checks of a query *)

SafeFunctions ==
  {"abs", "avg", "coalesce", "count", "json_extract", "json_type", "lower", "max",
   "min", "nullif", "round", "sum", "total", "upper"}

\* One SELECT over the view and its own named subqueries, with safe functions.
ReadOnly(query) ==
  LET names == {query.ctes[i] : i \in DOMAIN query.ctes}
  IN /\ query.statements = <<"query">>
     /\ ~query.recursive
     /\ Cardinality(names) = Len(query.ctes) /\ "observations" \notin names
     /\ query.relations \subseteq names \union {"observations"}
     /\ query.functions \subseteq SafeFunctions

DistinctColumns(query) ==
  Cardinality({query.columns[i] : i \in DOMAIN query.columns}) = Len(query.columns)

-----------------------------------------------------------------------------
(* The answer *)

Failed == [status |-> "failed"]

Computed(query, view) ==
  Kept(view, {i \in DOMAIN view : view[i].observation \in query.selects})

\* LIMIT asks for one row more than is kept.
Fetched(all, rows) == SubSeq(all, 1, IF Len(all) > rows THEN rows + 1 ELSE Len(all))

Limited(fetched, rows) == SubSeq(fetched, 1, IF Len(fetched) > rows THEN rows ELSE Len(fetched))

ResultBytes(rows) ==
  LET bytes[n \in 0..Len(rows)] == IF n = 0 THEN 0 ELSE bytes[n - 1] + rows[n].size
  IN bytes[Len(rows)]

\* What one query answers when the engine does; it may also be unavailable or late.
\* Which of the ways it fails in is left out.
QueryResult(query, scope, limits, evidence) ==
  LET fetched == Fetched(Computed(query, View(evidence, scope)), limits.rows)
      rows == Limited(fetched, limits.rows)
  IN IF \/ scope.sources = {} \/ limits.bytes = 0
        \/ ~ReadOnly(query) \/ ~DistinctColumns(query)
        \/ query.binary /\ rows # <<>>
        \/ ResultBytes(rows) > limits.bytes
     THEN Failed
     ELSE [status |-> "succeeded", rows |-> rows,
           ids |-> IF \E i \in DOMAIN query.columns : query.columns[i] = "observation_id"
                   THEN {rows[i].observation : i \in DOMAIN rows} ELSE {},
           truncated |-> Len(fetched) > limits.rows]

QueryAnswers(query, scope, limits, evidence) ==
  {QueryResult(query, scope, limits, evidence), Failed}
=============================================================================
