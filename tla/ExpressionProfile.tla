-------------------------- MODULE ExpressionProfile --------------------------
(***************************************************************************)
(* What flaggo.cel/v1 admits and what a rule's expression means: the limits *)
(* of the tree, its type, its static cost, the checked form that is stored, *)
(* and the evaluation that the CEL library does for it.                    *)
(*                                                                         *)
(* A type is <<kind>>, or <<"list", item>>.  The dynamic type, which only  *)
(* items of unknown type and operators between nulls have, is left out: it *)
(* is refused here.                                                        *)
(***************************************************************************)
EXTENDS ExpressionSyntax

CONSTANTS
  MaximumTreeDepth,     \* MAXIMUM_AST_DEPTH
  MaximumTreeNodes,     \* MAXIMUM_AST_NODES
  MaximumCost           \* MAXIMUM_STATIC_COST

ASSUME ProfileAssumption ==
  MaximumTreeDepth \in Nat /\ MaximumTreeNodes \in Nat /\ MaximumCost \in Nat


RECURSIVE SchemaType(_)
SchemaType(schema) ==
  CASE schema.type = "null" -> <<"null">>
    [] schema.type = "boolean" -> <<"bool">>
    [] schema.type = "integer" -> <<"int">>
    [] schema.type = "number" -> <<"double">>
    [] schema.type = "string" -> <<"string">>
    [] schema.type = "array" -> <<"list", SchemaType(schema.items)>>
    [] OTHER -> <<"map">>

Kind(type) == type[1]
Sized == {"string", "list", "map"}
Numeric == {"int", "double"}

Conversions == {"bool", "int", "double", "string", "size"}

Arity(fn) ==
  CASE fn = "?:" -> 3
    [] fn \in {"-_", "!_"} \union Conversions -> 1
    [] fn \in DOMAIN Operators -> 2
    [] OTHER -> 0           \* not a function of the profile

-----------------------------------------------------------------------------
(* Inspection of the tree.  schemas maps the declared attributes.          *)

IsAttribute(node) == node.op = "select" /\ node.operand = IdentNode("attributes")

RECURSIVE SumNodes(_)
RECURSIVE Nodes(_)
Nodes(node) == IF IsAttribute(node) THEN 2 ELSE IF node.op = "call" THEN 1 + SumNodes(node.args) ELSE 1
SumNodes(args) == IF args = <<>> THEN 0 ELSE Nodes(Head(args)) + SumNodes(Tail(args))

\* Only literals, attributes and functions of the profile.
RECURSIVE Admitted(_)
Admitted(node) ==
  CASE node.op = "literal" -> TRUE
    [] node.op = "call" -> Arity(node.fn) > 0 /\ \A i \in DOMAIN node.args : Admitted(node.args[i])
    [] OTHER -> IsAttribute(node)

RECURSIVE References(_)
References(node) ==
  CASE IsAttribute(node) -> {node.field}
    [] node.op = "call" -> UNION {References(node.args[i]) : i \in DOMAIN node.args}
    [] OTHER -> {}

Inspected(node, schemas) ==
  /\ Admitted(node)
  /\ Depth(node) <= MaximumTreeDepth
  /\ Nodes(node) <= MaximumTreeNodes
  /\ References(node) \subseteq DOMAIN schemas \union {"_random"}

-----------------------------------------------------------------------------
(* Types and cost.  A size or a cost is a number or Unbounded.             *)

Unbounded == -1
Plus(a, b) == IF Unbounded \in {a, b} THEN Unbounded ELSE a + b
Most(a, b) == IF Unbounded \in {a, b} THEN Unbounded ELSE Largest(a, b)

IllTyped == [ok |-> FALSE]
Typed(type, cost, size) == [ok |-> TRUE, type |-> type, cost |-> cost, size |-> size]

ValueType(value) == <<value.t>>

\* Slip: a conditional takes its type from one branch without comparing them.
ConditionalTypeOfOne(types) == {types[2]}

ConditionalType(types) ==
  IF types[1] = <<"bool">> /\ types[2] = types[3] THEN {types[2]} ELSE {}

\* The type of a call by the types of its arguments: none, or just one.
CallTypes(fn, types) ==
  LET a == types[1]
      same == Len(types) = 2 /\ types[1] = types[2]
      kinds == [i \in DOMAIN types |-> Kind(types[i])]
      sameKind == Len(types) = 2 /\ kinds[1] = kinds[2]
  IN CASE fn = "?:" -> ConditionalType(types)
       [] fn = "!_" -> IF a = <<"bool">> THEN {<<"bool">>} ELSE {}
       [] fn = "-_" -> IF Kind(a) \in Numeric THEN {a} ELSE {}
       [] fn \in {"&&", "||"} -> IF same /\ a = <<"bool">> THEN {<<"bool">>} ELSE {}
       [] fn \in {"==", "!="} -> IF sameKind THEN {<<"bool">>} ELSE {}
       [] fn \in {"<", "<=", ">", ">="} ->
            IF same /\ Kind(a) \in Numeric \union {"bool", "string"} THEN {<<"bool">>} ELSE {}
       [] fn = "+" /\ same /\ Kind(a) \in {"string", "list"} -> {a}
       [] fn \in {"+", "-", "*", "/"} -> IF same /\ Kind(a) \in Numeric THEN {a} ELSE {}
       [] fn = "%" -> IF same /\ a = <<"int">> THEN {a} ELSE {}
       [] fn = "bool" -> IF Kind(a) \in {"bool", "string"} THEN {<<"bool">>} ELSE {}
       [] fn = "int" -> IF Kind(a) \in {"int", "double", "string", "null"} THEN {<<"int">>} ELSE {}
       [] fn = "double" -> IF Kind(a) \in {"int", "double", "string"} THEN {<<"double">>} ELSE {}
       [] fn = "string" -> IF Kind(a) \in {"int", "double", "string", "bool", "null"}
                             THEN {<<"string">>} ELSE {}
       [] fn = "size" -> IF Kind(a) \in Sized THEN {<<"int">>} ELSE {}

InvocationCost(fn, type, args) ==
  CASE fn = "+" /\ Kind(type) \in Sized -> Most(1, Plus(args[1].size, args[2].size))
    [] fn \in {"==", "!="} /\ Kind(args[1].type) \in Sized -> Most(1, Most(args[1].size, args[2].size))
    [] OTHER -> 1

CallSize(fn, type, args) ==
  CASE fn = "+" /\ Kind(type) \in Sized -> Plus(args[1].size, args[2].size)
    [] Kind(type) \in Sized -> Unbounded
    [] OTHER -> 1

RECURSIVE SumCost(_)
SumCost(args) == IF args = <<>> THEN 0 ELSE Plus(Head(args).cost, SumCost(Tail(args)))

CheckCall(fn, args) ==
  IF Len(args) # Arity(fn) \/ \E i \in DOMAIN args : ~args[i].ok THEN IllTyped
  ELSE LET types == CallTypes(fn, [i \in DOMAIN args |-> args[i].type])
       IN IF types = {} THEN IllTyped
          ELSE LET type == CHOOSE x \in types : TRUE
               IN Typed(type, Plus(SumCost(args), InvocationCost(fn, type, args)),
                        CallSize(fn, type, args))

RECURSIVE CheckNode(_, _)

\* The arguments are checked in order.
RECURSIVE CheckArguments(_, _)
CheckArguments(args, schemas) ==
  IF args = <<>> THEN <<>>
  ELSE <<CheckNode(Head(args), schemas)>> \o CheckArguments(Tail(args), schemas)

CheckNode(node, schemas) ==
  CASE node.op = "literal" ->
         Typed(ValueType(node.value), 0, IF node.value.t = "string" THEN Len(node.value.v) ELSE 1)
    [] IsAttribute(node) ->
         LET type == IF node.field = "_random" THEN <<"double">> ELSE SchemaType(schemas[node.field])
         IN Typed(type, 2, IF Kind(type) \in Sized THEN Unbounded ELSE 1)
    [] node.op = "call" ->
         CheckCall(node.fn, CheckArguments(node.args, schemas))

BooleanSchema == [type |-> "boolean"]

\* profile::check: inspected, of the expected type (an integer where a number
\* is expected), and bounded in cost.
Checks(node, schemas, expected) ==
  /\ Inspected(node, schemas)
  /\ LET checked == CheckNode(node, schemas)
         kind == Kind(SchemaType(expected))
     IN /\ checked.ok
        /\ Kind(checked.type) = kind \/ (Kind(checked.type) = "int" /\ kind = "double")
        /\ checked.cost # Unbounded /\ checked.cost <= MaximumCost

-----------------------------------------------------------------------------
(* The checked form: canonical text, tree and references, and the digest   *)
(* of the tree as the compiler wrote it (a digest is what it digests).     *)

CheckedExpression(node) ==
  [canonical |-> CanonicalText(node), tree |-> node, references |-> References(node), digest |-> node]

\* ExpressionCompiler::compile
CompileExpression(text, schemas, expected) ==
  LET p == Parse(text)
  IN IF p.ok /\ Checks(p.node, schemas, expected)
       THEN [ok |-> TRUE, checked |-> CheckedExpression(p.node)]
       ELSE Failed

\* ExpressionCompiler::materialize: is the stored form still sound?
Materializes(checked, schemas, expected) ==
  /\ checked.digest = checked.tree
  /\ checked.references = References(checked.tree)
  /\ Checks(checked.tree, schemas, expected)
  /\ CanonicalText(checked.tree) = checked.canonical

-----------------------------------------------------------------------------
(* Evaluation, as the CEL library does it.  An error is a value that       *)
(* absorbs; integers overflow into an error, doubles into an infinity.     *)

Error == [t |-> "error", v |-> 0]

IntResult(n) == IF n > MaximumInt \/ n < -MaximumInt - 1 THEN Error ELSE IntValue(n)

DoubleResult(h) ==
  DoubleValue(IF h > MaximumDouble THEN Infinite ELSE IF h < -MaximumDouble THEN -Infinite ELSE h)

Truncated(a, b) ==      \* integer division rounds towards zero
  LET q == (IF a < 0 THEN -a ELSE a) \div (IF b < 0 THEN -b ELSE b)
  IN IF (a < 0) # (b < 0) THEN -q ELSE q

Arithmetic(fn, a, b) ==
  CASE a.t = "int" /\ b.t = "int" ->
         (CASE fn = "+" -> IntResult(a.v + b.v)
            [] fn = "-" -> IntResult(a.v - b.v)
            [] fn = "*" -> IntResult(a.v * b.v)
            [] fn = "/" -> IF b.v = 0 THEN Error ELSE IntResult(Truncated(a.v, b.v))
            [] fn = "%" -> IF b.v = 0 THEN Error ELSE IntResult(a.v - b.v * Truncated(a.v, b.v)))
    [] a.t = "double" /\ b.t = "double" /\ fn \in {"+", "-"} ->
         DoubleResult(IF fn = "+" THEN a.v + b.v ELSE a.v - b.v)
    [] a.t = "string" /\ b.t = "string" /\ fn = "+" -> TextValue(a.v \o b.v)
    [] OTHER -> Error

Ordered(fn, x, y) ==
  CASE fn = "<" -> x < y [] fn = "<=" -> x <= y [] fn = ">" -> x > y [] fn = ">=" -> x >= y

Comparison(fn, a, b) ==
  CASE fn \in {"==", "!="} -> BoolValue((fn = "==") = SameJson(a, b))
    [] {a.t, b.t} \subseteq Numeric -> BoolValue(Ordered(fn, Halves(a), Halves(b)))
    [] OTHER -> Error

Conversion(fn, a) ==
  CASE fn = "size" /\ a.t = "string" -> IntValue(Len(a.v))
    [] fn = "double" /\ a.t \in Numeric -> DoubleResult(Halves(a))
    [] fn = "int" /\ a.t = "int" -> a
    [] fn = "int" /\ a.t = "double" -> IntResult(Truncated(a.v, 2))
    [] OTHER -> Error

RECURSIVE Evaluate(_, _)

RECURSIVE EvaluateAll(_, _)
EvaluateAll(args, input) ==
  IF args = <<>> THEN <<>>
  ELSE <<Evaluate(Head(args), input)>> \o EvaluateAll(Tail(args), input)

\* The second operand of a connective is evaluated only when it decides.
Connective(fn, args, input) ==
  LET a == Evaluate(args[1], input)
  IN IF a.t # "bool" THEN Error
     ELSE IF a.v = (fn = "||") THEN a ELSE Evaluate(args[2], input)

Conditional(args, input) ==
  LET c == Evaluate(args[1], input)
  IN IF c.t # "bool" THEN Error ELSE Evaluate(args[IF c.v THEN 2 ELSE 3], input)

Strict(fn, values) ==
  CASE \E i \in DOMAIN values : values[i].t = "error" -> Error
    [] fn = "!_" -> IF values[1].t = "bool" THEN BoolValue(~values[1].v) ELSE Error
    [] fn = "-_" -> IF values[1].t = "double" THEN DoubleResult(-values[1].v)
                    ELSE IF values[1].t = "int" THEN IntResult(-values[1].v) ELSE Error
    [] fn \in {"+", "-", "*", "/", "%"} -> Arithmetic(fn, values[1], values[2])
    [] fn \in {"==", "!=", "<", "<=", ">", ">="} -> Comparison(fn, values[1], values[2])
    [] OTHER -> Conversion(fn, values[1])

Evaluate(node, input) ==
  CASE node.op = "literal" -> node.value
    [] IsAttribute(node) -> IF node.field \in DOMAIN input THEN input[node.field] ELSE Error
    [] node.fn \in {"&&", "||"} -> Connective(node.fn, node.args, input)
    [] node.fn = "?:" -> Conditional(node.args, input)
    [] OTHER -> Strict(node.fn, EvaluateAll(node.args, input))

NonFinite(value) == value.t = "double" /\ value.v \in {Infinite, -Infinite}
=============================================================================
