---------------------------- MODULE ContractModel ----------------------------
(***************************************************************************)
(* The documents of the contract crate: validation of a contract, of an    *)
(* executable and of a runtime input, and their digests.                   *)
(*                                                                         *)
(* A contract is [authority, name, syntax, attributes, result, authored,   *)
(* learning]; what JSON may omit or null is the set of the at most one     *)
(* value it has.  A rule is [name, when, result]: when is [expression] or  *)
(* [condition], result is [value] or [expression], an expression a text.   *)
(* Descriptions are kept: digests must not depend on them.  A digest is    *)
(* the content it is taken of, SHA-256 being taken to be injective.        *)
(***************************************************************************)
EXTENDS ExpressionProfile, SequencesExt

CONSTANTS
  NameShape,           \* names, and what the pattern of names sees in each
  MaximumAttributes    \* MAXIMUM_ATTRIBUTES

ASSUME NameAssumption ==
  /\ \A n \in DOMAIN NameShape :
       NameShape[n] \in {"word", "punctuated", "word and line feed", "internal", "malformed"}
  /\ MaximumAttributes \in Nat

\* The pattern also matches before one final line feed; a name that starts
\* with an underscore is internal.
IsDecisionName(n) == n \in DOMAIN NameShape /\ NameShape[n] \notin {"malformed", "internal"}
IsAttributeName(n) == IsDecisionName(n) /\ NameShape[n] # "punctuated"

\* The values of a sequence of optional entries, and whether one is missing.
Entries(optional) == UNION {optional[i] : i \in DOMAIN optional}
HasNull(optional) == \E i \in DOMAIN optional : optional[i] = {}

Repeated(optional) ==
  \E i, j \in DOMAIN optional :
    i # j /\ \E x \in optional[i], y \in optional[j] : x.name = y.name

\* Declared attributes: the first declaration of a name counts.
Declarations(contract) ==
  LET at(n) == {i \in DOMAIN contract.attributes : \E a \in contract.attributes[i] : a.name = n}
      first(n) == CHOOSE i \in at(n) : \A j \in at(n) : i <= j
  IN [n \in {a.name : a \in Entries(contract.attributes)} |->
        (CHOOSE a \in contract.attributes[first(n)] : TRUE).schema]

-----------------------------------------------------------------------------
(* Rules *)

ExpressionIssues(text, schemas, expected) ==
  CASE text = <<>> -> {"invalid-expression"}
    [] Len(text) > MaximumTokens -> {"expression-too-large"}
    [] OTHER -> Issue("invalid-expression", ~CompileExpression(text, schemas, expected).ok)

\* Slip: a literal result is not compared with the result schema.
ReturnIssuesLoose(result, contract, schemas) ==
  IF "value" \in DOMAIN result
    THEN {}
    ELSE ExpressionIssues(result.expression, schemas, contract.result.schema)

ReturnIssues(result, contract, schemas) ==
  IF "value" \in DOMAIN result
    THEN ValueIssues(contract.result.schema, result.value)
    ELSE ExpressionIssues(result.expression, schemas, contract.result.schema)

WhenIssues(when, schemas) ==
  IF "condition" \in DOMAIN when
    THEN Issue("invalid-authored-condition", when.condition = "")
    ELSE ExpressionIssues(when.expression, schemas, BooleanSchema)

RuleIssues(rules, contract, schemas) ==
  Issue("too-many-rules", Len(rules) > MaximumCollection)
  \union Issue("null-rule", HasNull(rules))
  \union Issue("invalid-member-name", \E r \in Entries(rules) : ~IsDecisionName(r.name))
  \union Issue("duplicate-rule", Repeated(rules))
  \union UNION {WhenIssues(r.when, schemas) \union ReturnIssues(r.result, contract, schemas)
                : r \in Entries(rules)}

AuthoredIssues(contract, schemas) ==
  UNION {Issue("empty-authored-executable", a.rules = <<>>)
         \union RuleIssues(a.rules, contract, schemas) : a \in contract.authored}

-----------------------------------------------------------------------------
(* Learning.  Texts that OpenTelemetry names are model values: the empty   *)
(* text is the one that is out of length.                                  *)

Mapped(source) == DOMAIN source.correlation

SourceIssues(source, correlations) ==
  Issue("invalid-otel-name",
        \/ source.scope = "" \/ source.name = ""
        \/ source.kind = "spanEvent" /\ source.spanName = ""
        \/ \E c \in Mapped(source) : \E a \in source.correlation[c] : a.attribute = "")
  \union Issue("invalid-metric-kind",
        /\ source.kind = "metric"
        /\ source.metricKind \notin {"gauge", "sum", "histogram", "exponentialHistogram", "summary"})
  \union Issue("invalid-metric-unit", source.kind = "metric" /\ ~source.unitFits)
  \union Issue("missing-evidence-correlation", ~(correlations \subseteq Mapped(source)))
  \union Issue("unexpected-evidence-correlation", ~(Mapped(source) \subseteq correlations))
  \union Issue("null-evidence-correlation", \E c \in Mapped(source) : source.correlation[c] = {})
  \union Issue("invalid-evidence-correlation-location",
        \E c \in Mapped(source) : \E a \in source.correlation[c] :
          \/ a.location \notin {"resource", "scope", "signal", "parentSpan"}
          \/ a.location = "parentSpan" /\ source.kind # "spanEvent")

\* What tells two sources apart: never their correlation.
SourceIdentity(source) ==
  CASE source.kind = "metric" ->
         <<"metric", source.scope, source.name, source.metricKind, source.unit>>
    [] source.kind = "spanEvent" -> <<"spanEvent", source.scope, source.name, source.spanName>>
    [] OTHER -> <<source.kind, source.scope, source.name>>

EvidenceIssues(evidence, schemas) ==
  LET correlations == Entries(evidence.correlateBy)
  IN Issue("invalid-member-name", ~IsDecisionName(evidence.name))
     \union Issue("unknown-evidence-attribute", evidence.attribute \notin DOMAIN schemas)
     \union Issue("invalid-correlation-attribute", HasNull(evidence.correlateBy) \/ "" \in correlations)
     \union Issue("duplicate-correlation-attribute",
                  \E i, j \in DOMAIN evidence.correlateBy :
                    i # j /\ evidence.correlateBy[i] = evidence.correlateBy[j]
                          /\ evidence.correlateBy[i] # {})
     \union Issue("unknown-correlation-attribute", ~(correlations \ {""} \subseteq DOMAIN schemas))
     \union SourceIssues(evidence.source, correlations \ {""})

GuardrailIssues(guardrails) ==
  Issue("null-guardrail", HasNull(guardrails))
  \union Issue("invalid-member-name", \E g \in Entries(guardrails) : ~IsDecisionName(g.name))
  \union Issue("duplicate-guardrail", Repeated(guardrails))
  \union Issue("invalid-guardrail-expression",
               \E g \in Entries(guardrails) : ~Canonicalize(g.expression).ok)

LearningIssues(contract, schemas) ==
  UNION {Issue("unsupported-learning-policy", l.mode # "auto-activation")
         \union Issue("invalid-learning-interval", ~l.positiveInterval)
         \union Issue("empty-evidence", l.evidence = <<>>)
         \union Issue("null-evidence", HasNull(l.evidence))
         \union Issue("duplicate-evidence", Repeated(l.evidence))
         \union UNION {EvidenceIssues(e, schemas) : e \in Entries(l.evidence)}
         \union Issue("duplicate-evidence-source",
                      \E i, j \in DOMAIN l.evidence : i # j /\
                        \E e \in l.evidence[i], f \in l.evidence[j] :
                          SourceIdentity(e.source) = SourceIdentity(f.source))
         \union Issue("unknown-primary-evidence",
                      l.primary \notin {e.name : e \in Entries(l.evidence)})
         \union Issue("invalid-objective-direction", l.direction \notin {"minimize", "maximize"})
         \union UNION {GuardrailIssues(g) : g \in l.guardrails}
         : l \in contract.learning}

-----------------------------------------------------------------------------
(* Contracts *)

AuthorityIssues(contract) ==
  Issue("invalid-authority-identifier",
        \E part \in {"tenant", "application", "environment"} :
          ~\E n \in contract.authority[part] : IsDecisionName(n))

AttributeIssues(contract) ==
  Issue("too-many-attributes", Len(contract.attributes) > MaximumAttributes)
  \union Issue("null-attribute", HasNull(contract.attributes))
  \union Issue("invalid-attribute-name",
               \E a \in Entries(contract.attributes) : ~IsAttributeName(a.name))
  \union Issue("duplicate-attribute", Repeated(contract.attributes))
  \union UNION {SchemaIssues(a.schema) : a \in Entries(contract.attributes)}

DefaultIssues(contract) ==
  LET issues == ValueIssues(contract.result.schema, contract.result.default)
  IN Issue("invalid-model", "invalid-model" \in issues)
     \union Issue("default-out-of-schema", issues # {})

\* validate_contract; "invalid-model" among the issues means that it fails
\* with an error and reports none.
ContractIssues(contract) ==
  LET schemas == Declarations(contract)
  IN AuthorityIssues(contract)
     \union Issue("invalid-decision-name", ~IsDecisionName(contract.name))
     \union Issue("unsupported-expression-syntax", contract.syntax # "flaggo.cel/v1")
     \union AttributeIssues(contract)
     \union SchemaIssues(contract.result.schema)
     \union DefaultIssues(contract)
     \union AuthoredIssues(contract, schemas)
     \union LearningIssues(contract, schemas)

Valid(contract) == ContractIssues(contract) = {}

\* validate_runtime_input
InputIssues(contract, input) ==
  LET schemas == Declarations(contract)
      given == DOMAIN input.attributes
      internal == {n \in given : NameShape[n] = "internal"}
  IN Issue("too-many-attributes", Cardinality(given) > MaximumAttributes + 1)
     \union Issue("invalid-internal-attribute",
                  \/ "_random" \notin given
                  \/ input.attributes["_random"].t \notin Numeric
                  \/ Halves(input.attributes["_random"]) \notin 0..1)
     \union Issue("unknown-internal-attribute", internal \ {"_random"} # {})
     \union Issue("undeclared-attribute", ~(given \ internal \subseteq DOMAIN schemas))
     \union UNION {ValueIssues(schemas[n], input.attributes[n])
                   : n \in (given \ internal) \intersect DOMAIN schemas}
     \union Issue("invalid-current-exposure", ~input.exposureFits)

-----------------------------------------------------------------------------
(* Digests *)

DropField(record, field) == [f \in DOMAIN record \ {field} |-> record[f]]

CanonicalOf(text) == Canonicalize(text).text

RECURSIVE NormalSchema(_)
NormalSchema(schema) ==
  [k \in DOMAIN schema \ {"description"} |->
     CASE k = "required" -> ToSet(schema.required)
       [] k = "items" -> NormalSchema(schema.items)
       [] k = "properties" -> [p \in DOMAIN schema.properties |-> NormalSchema(schema.properties[p])]
       [] OTHER -> schema[k]]

\* Canonical JSON writes 1 and 1.0 alike.
RECURSIVE NormalValue(_)
NormalValue(value) ==
  CASE value.t \in Numeric -> DoubleValue(Halves(value))
    [] value.t = "array" -> [value EXCEPT !.v = [i \in DOMAIN value.v |-> NormalValue(value.v[i])]]
    [] value.t = "object" -> [value EXCEPT !.v = [p \in DOMAIN value.v |-> NormalValue(value.v[p])]]
    [] OTHER -> value

CanonicalReturn(result) ==
  IF "value" \in DOMAIN result THEN [value |-> NormalValue(result.value)] ELSE [expression |-> CanonicalOf(result.expression)]

CanonicalRule(rule) ==
  [name |-> rule.name,
   when |-> IF "condition" \in DOMAIN rule.when THEN rule.when
            ELSE [expression |-> CanonicalOf(rule.when.expression)],
   result |-> CanonicalReturn(rule.result)]

NormalEvidence(e) ==
  [DropField(e, "description") EXCEPT !.correlateBy = Entries(e.correlateBy)]

NormalGuardrail(g) == [name |-> g.name, expression |-> CanonicalOf(g.expression)]

NormalLearning(l) ==
  [l EXCEPT !.evidence = {NormalEvidence(e) : e \in Entries(l.evidence)},
            !.guardrails = {{NormalGuardrail(x) : x \in Entries(g)} : g \in l.guardrails}]

\* contract_digest of a valid contract: named collections are sorted, so
\* they count as sets, and rules keep their order.
ContractDigest(contract) ==
  [authority |-> contract.authority, name |-> contract.name, syntax |-> contract.syntax,
   attributes |-> {[a EXCEPT !.schema = NormalSchema(a.schema)] : a \in Entries(contract.attributes)},
   result |-> [schema |-> NormalSchema(contract.result.schema), default |-> NormalValue(contract.result.default)],
   authored |-> {[i \in DOMAIN a.rules |-> {CanonicalRule(r) : r \in a.rules[i]}] : a \in contract.authored},
   learning |-> {NormalLearning(l) : l \in contract.learning}]
=============================================================================
