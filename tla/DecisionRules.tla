---------------------------- MODULE DecisionRules ----------------------------
(***************************************************************************)
(* From authored rules to a decision: the executable compiler, the check   *)
(* of the Executable Store before it stores one, materialisation of what   *)
(* is stored, and the evaluation of compiled rules.                        *)
(*                                                                         *)
(* An executable is [contractDigest, kind, rules], a rule [name, when,     *)
(* result] with when the text of its predicate.  Stored with it is its     *)
(* checked form: per rule [name, predicate, result], result the set of the *)
(* at most one checked expression.                                         *)
(***************************************************************************)
EXTENDS ContractModel

\* The expressions of an authored executable, when no rule is a condition
\* in words (lifecycle: such rules wait for the analysis).
Deployable(authored) ==
  \A i \in DOMAIN authored.rules :
    \E r \in authored.rules[i] : "expression" \in DOMAIN r.when

AuthoredRules(authored) ==
  [i \in DOMAIN authored.rules |->
     LET r == CHOOSE r \in authored.rules[i] : TRUE
     IN [name |-> r.name, when |-> r.when.expression, result |-> r.result]]

ExecutableDigest(executable) ==
  [executable EXCEPT !.rules =
     [i \in DOMAIN executable.rules |->
        [executable.rules[i] EXCEPT !.result =
           IF "value" \in DOMAIN executable.rules[i].result
             THEN [value |-> NormalValue(executable.rules[i].result.value)]
             ELSE executable.rules[i].result]]]

\* validate_executable for rules none of which is null.
ExecutableIssues(contract, executable) ==
  IF ~Valid(contract) THEN ContractIssues(contract)
  ELSE LET schemas == Declarations(contract)
           rules == executable.rules
       IN Issue("contract-digest-mismatch", executable.contractDigest # ContractDigest(contract))
          \union Issue("unsupported-executable-kind", executable.kind # "rules")
          \union Issue("too-many-rules", Len(rules) > MaximumCollection)
          \union Issue("invalid-member-name", \E i \in DOMAIN rules : ~IsDecisionName(rules[i].name))
          \union Issue("duplicate-rule",
                       \E i, j \in DOMAIN rules : i # j /\ rules[i].name = rules[j].name)
          \union UNION {ExpressionIssues(rules[i].when, schemas, BooleanSchema)
                        \union ReturnIssues(rules[i].result, contract, schemas)
                        : i \in DOMAIN rules}

\* ExecutableCompiler::compile
Compile(contract, executable) ==
  LET schemas == Declarations(contract)
      predicate(r) == CompileExpression(r.when, schemas, BooleanSchema).checked
      result(r) ==
        IF "value" \in DOMAIN r.result THEN {}
        ELSE {CompileExpression(r.result.expression, schemas, contract.result.schema).checked}
      canonical(r) ==
        [name |-> r.name, when |-> predicate(r).canonical,
         result |-> IF "value" \in DOMAIN r.result THEN r.result
                    ELSE [expression |-> (CHOOSE c \in result(r) : TRUE).canonical]]
      rules == executable.rules
  IN IF ExecutableIssues(contract, executable) # {} THEN Failed
     ELSE LET normalized == [executable EXCEPT !.rules = [i \in DOMAIN rules |-> canonical(rules[i])]]
          IN [ok |-> TRUE, executable |-> normalized, digest |-> ExecutableDigest(normalized),
              checked |-> [i \in DOMAIN rules |->
                             [name |-> rules[i].name, predicate |-> predicate(rules[i]),
                              result |-> result(rules[i])]]]

\* The texts of an executable.
Texts(executable) ==
  LET rules == executable.rules
  IN {rules[i].when : i \in DOMAIN rules}
     \union {rules[i].result.expression : i \in {j \in DOMAIN rules : "value" \notin DOMAIN rules[j].result}}

\* SqliteExecutableStore::validate_stored: every text must be the canonical
\* form of itself, or the digest is not the digest of the content.
StoreAccepts(stored) ==
  /\ stored.digest = ExecutableDigest(stored.executable)
  /\ \A text \in Texts(stored.executable) :
       LET c == Canonicalize(text) IN c.ok /\ c.text = text

-----------------------------------------------------------------------------
(* Materialisation of a stored row [executable, digest, checked]           *)

\* validate_stored_shape
ShapeSound(contract, row) ==
  LET rules == row.executable.rules
  IN /\ row.executable.contractDigest = ContractDigest(contract)
     /\ row.executable.kind = "rules"
     /\ Len(rules) <= MaximumCollection
     /\ ExecutableDigest(row.executable) = row.digest
     /\ Len(row.checked) = Len(rules)
     /\ \A i \in DOMAIN rules :
          /\ IsDecisionName(rules[i].name)
          /\ \A j \in DOMAIN rules : rules[i].name = rules[j].name => i = j
          /\ row.checked[i].name = rules[i].name
          /\ "value" \in DOMAIN rules[i].result =>
               Conforms(contract.result.schema, rules[i].result.value)

RuleSound(contract, rule, checked) ==
  LET schemas == Declarations(contract)
  IN /\ rule.when = checked.predicate.canonical
     /\ Materializes(checked.predicate, schemas, BooleanSchema)
     /\ IF "value" \in DOMAIN rule.result
          THEN checked.result = {}
          ELSE \E c \in checked.result :
                 /\ c.canonical = rule.result.expression
                 /\ Materializes(c, schemas, contract.result.schema)

\* A rule as the runtime keeps it.
CompiledRule(rule, checked) ==
  [name |-> rule.name, predicate |-> checked.predicate.tree,
   result |-> IF "value" \in DOMAIN rule.result THEN rule.result
              ELSE [tree |-> (CHOOSE c \in checked.result : TRUE).tree],
   references |-> checked.predicate.references \union UNION {c.references : c \in checked.result}]

\* ExecutableCompiler::materialize
Materialize(contract, row) ==
  LET rules == row.executable.rules
  IN IF /\ ShapeSound(contract, row)
        /\ \A i \in DOMAIN rules : RuleSound(contract, rules[i], row.checked[i])
       THEN [state |-> "compiled", digest |-> row.digest,
             rules |-> [i \in DOMAIN rules |-> CompiledRule(rules[i], row.checked[i])]]
       ELSE [state |-> "invalid"]

-----------------------------------------------------------------------------
(* Decisions.  An outcome is an answer or the error that ends the decision. *)
(* An answer names the rule it comes from, if any.                         *)

Answered(value, rule) == [outcome |-> "answered", value |-> value, rule |-> rule]
Refused(error) == [outcome |-> error, issues |-> {}]

\* validate_result, and the answer.
AnswerWith(contract, value, rule) ==
  IF Conforms(contract.result.schema, value)
    THEN Answered(value, rule)
    ELSE [outcome |-> "result violates the schema",
          issues |-> ValueIssues(contract.result.schema, value)]

IsFalse(value) == value.t = "bool" /\ ~value.v

Fires(rule, attributes) ==
  rule.references \subseteq DOMAIN attributes /\ ~IsFalse(Evaluate(rule.predicate, attributes))

RuleResult(rule, attributes) ==
  IF "value" \in DOMAIN rule.result THEN rule.result.value
                                    ELSE Evaluate(rule.result.tree, attributes)

\* What the first rule that is not passed over gives.
RuleOutcome(contract, rule, attributes) ==
  LET predicate == Evaluate(rule.predicate, attributes)
      value == RuleResult(rule, attributes)
  IN CASE predicate.t = "error" -> Refused("evaluation failed")
       [] NonFinite(predicate) -> Refused("result is not finite")
       [] predicate.t # "bool" -> Refused("predicate is not boolean")
       [] value.t = "error" -> Refused("evaluation failed")
       [] NonFinite(value) -> Refused("result is not finite")
       [] OTHER -> AnswerWith(contract, value, {rule.name})

\* decision::evaluate: rules in order, the first whose attributes are all
\* given and whose predicate is not false; otherwise the default.
Decide(contract, rules, attributes) ==
  LET firing == {i \in DOMAIN rules : Fires(rules[i], attributes)}
  IN IF firing = {} THEN AnswerWith(contract, contract.result.default, {})
     ELSE RuleOutcome(contract, rules[CHOOSE i \in firing : \A j \in firing : i <= j], attributes)
=============================================================================
