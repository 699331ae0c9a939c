--------------------------- MODULE ExpressionSyntax ---------------------------
(***************************************************************************)
(* The source text of flaggo.cel/v1: its parser and its canonical form.    *)
(*                                                                         *)
(* A text is the sequence of its tokens, so white space, comments, the     *)
(* spelling of numbers and the escapes of strings are left out; what is    *)
(* kept is how tokens group into a tree and back.  A token is <<symbol>>,  *)
(* <<"int", n>> or <<"double", h>> (an unsigned magnitude, h in halves),   *)
(* <<"text", letters>>, or a word: <<"ident", w>>, <<"reserved", w>>, the  *)
(* quoted <<"escaped", w>>, and the four words that are tokens of their    *)
(* own.  A node is a literal, an identifier, a selection or a call.        *)
(* Lists, maps, messages, indexing, method calls, bytes and unsigned       *)
(* literals, and names with a leading dot, parse but no rule may use them; *)
(* they do not parse here.                                                 *)
(***************************************************************************)
EXTENDS ValueSchema

CONSTANTS
  MaximumInt,          \* i64::MAX
  MaximumDouble,       \* the largest finite double, in halves
  MaximumNesting,      \* nested parentheses, branches and arguments: 250
  MaximumParsedDepth,  \* depth of the tree of a text: 1000
  MaximumTokens,       \* MAXIMUM_EXPRESSION_BYTES
  ReservedWords        \* as, break, const, ...

ASSUME SyntaxAssumption ==
  /\ MaximumInt \in Nat /\ MaximumDouble \in Nat
  /\ MaximumNesting \in Nat /\ MaximumParsedDepth \in Nat /\ MaximumTokens \in Nat

Infinite == MaximumDouble + 1     \* a double that overflowed

LiteralNode(value) == [op |-> "literal", value |-> value]
IdentNode(name) == [op |-> "ident", name |-> name]
SelectNode(operand, field) == [op |-> "select", operand |-> operand, field |-> field]
CallNode(fn, args) == [op |-> "call", fn |-> fn, args |-> args]
Attribute(name) == SelectNode(IdentNode("attributes"), name)

WordTokens == {"true", "false", "null", "in"}

\* How the lexer classifies a bare word.
WordToken(word) ==
  CASE word \in WordTokens -> <<word>>
    [] word \in ReservedWords -> <<"reserved", word>>
    [] OTHER -> <<"ident", word>>

-----------------------------------------------------------------------------
(* Parsing *)

Failed == [ok |-> FALSE]
Parsed(node, next) == [ok |-> TRUE, node |-> node, next |-> next]

\* Precedence and function of the binary operators, for the parser.
Operators ==
  [op \in {"||", "&&", "==", "!=", "<", "<=", ">", ">=", "+", "-", "*", "/", "%"} |->
     CASE op = "||" -> 1
       [] op = "&&" -> 2
       [] op \in {"==", "!=", "<", "<=", ">", ">="} -> 3
       [] op \in {"+", "-"} -> 4
       [] OTHER -> 5]

BinaryAt(s, i) == Len(s[i]) = 1 /\ s[i][1] \in DOMAIN Operators

\* The number of equal tokens that follow each other from i on.
Run(s, i) == CHOOSE n \in 1..(Len(s) - i) :
               /\ \A j \in i..(i + n - 1) : s[j] = s[i]
               /\ s[i + n] # s[i]

\* A number token as a value: integers out of range do not parse, doubles
\* out of range are infinite.
NumberAt(s, i, negative, next) ==
  LET magnitude == s[i][2]
      sign == IF negative THEN -1 ELSE 1
  IN IF s[i][1] = "int"
       THEN IF magnitude <= MaximumInt \/ (negative /\ magnitude = MaximumInt + 1)
              THEN Parsed(LiteralNode(IntValue(sign * magnitude)), next)
              ELSE Failed
       ELSE Parsed(LiteralNode(DoubleValue(sign * (IF magnitude > MaximumDouble THEN Infinite
                                              ELSE magnitude))), next)

IsNumber(token) == token[1] \in {"int", "double"}

\* Selections after a primary expression.
RECURSIVE Suffix(_, _)
Suffix(s, p) ==
  IF ~p.ok \/ s[p.next] # <<".">> THEN p
  ELSE IF s[p.next + 1][1] \in {"ident", "reserved", "escaped"}
         THEN Suffix(s, Parsed(SelectNode(p.node, s[p.next + 1][2]), p.next + 2))
         ELSE Failed

RECURSIVE ParseExpression(_, _, _)

\* Arguments from i on, up to the closing parenthesis.
RECURSIVE Arguments(_, _, _, _)
Arguments(s, i, depth, args) ==
  LET a == ParseExpression(s, i, depth + 1)
  IN CASE ~a.ok -> Failed
       [] s[a.next] = <<",">> -> Arguments(s, a.next + 1, depth, Append(args, a.node))
       [] s[a.next] = <<")">> -> Parsed(Append(args, a.node), a.next + 1)
       [] OTHER -> Failed

CallAt(s, i, depth) ==
  LET args == IF s[i + 2] = <<")">> THEN Parsed(<<>>, i + 3) ELSE Arguments(s, i + 2, depth, <<>>)
  IN IF args.ok THEN Parsed(CallNode(s[i][2], args.node), args.next) ELSE Failed

Parenthesised(s, i, depth) ==
  LET inner == ParseExpression(s, i + 1, depth + 1)
  IN IF inner.ok /\ s[inner.next] = <<")">> THEN Parsed(inner.node, inner.next + 1) ELSE Failed

Primary(s, i, depth) ==
  LET token == s[i] IN
  CASE token = <<"(">> -> Parenthesised(s, i, depth)
    [] token[1] = "ident" ->
         IF s[i + 1] = <<"(">> THEN CallAt(s, i, depth) ELSE Parsed(IdentNode(token[2]), i + 1)
    [] IsNumber(token) -> NumberAt(s, i, FALSE, i + 1)
    [] token[1] = "text" -> Parsed(LiteralNode(TextValue(token[2])), i + 1)
    [] token \in {<<"true">>, <<"false">>} -> Parsed(LiteralNode(BoolValue(token = <<"true">>)), i + 1)
    [] token = <<"null">> -> Parsed(LiteralNode(NullValue), i + 1)
    [] OTHER -> Failed

\* A run of one unary operator counts by its parity; an odd minus before a
\* number is part of the literal; a second kind of operator does not parse.
Unary(s, i, depth) ==
  IF s[i] \in {<<"-">>, <<"!">>}
    THEN LET n == Run(s, i)
             odd == n % 2 = 1
         IN IF odd /\ s[i] = <<"-">> /\ IsNumber(s[i + n])
              THEN Suffix(s, NumberAt(s, i + n, TRUE, i + n + 1))
              ELSE LET operand == Suffix(s, Primary(s, i + n, depth))
                   IN IF operand.ok /\ odd
                        THEN Parsed(CallNode(IF s[i] = <<"-">> THEN "-_" ELSE "!_",
                                             <<operand.node>>), operand.next)
                        ELSE operand
    ELSE Suffix(s, Primary(s, i, depth))

\* Precedence climbing: operators of one level associate to the left.
RECURSIVE BinaryTail(_, _, _, _)
BinaryTail(s, left, minimum, depth) ==
  IF ~left.ok THEN Failed
  ELSE IF ~BinaryAt(s, left.next) THEN left
  ELSE LET op == s[left.next][1] IN
       IF Operators[op] < minimum THEN left
       ELSE LET right == BinaryTail(s, Unary(s, left.next + 1, depth), Operators[op] + 1, depth)
            IN IF right.ok
                 THEN BinaryTail(s, Parsed(CallNode(op, <<left.node, right.node>>), right.next),
                                 minimum, depth)
                 ELSE Failed

Binary(s, i, depth) == BinaryTail(s, Unary(s, i, depth), 1, depth)

ParseExpression(s, i, depth) ==
  IF depth > MaximumNesting THEN Failed
  ELSE LET c == Binary(s, i, depth) IN
       IF ~c.ok \/ s[c.next] # <<"?">> THEN c
       ELSE LET a == Binary(s, c.next + 1, depth) IN
            IF ~a.ok \/ s[a.next] # <<":">> THEN Failed
            ELSE LET b == ParseExpression(s, a.next + 1, depth + 1) IN
                 IF b.ok THEN Parsed(CallNode("?:", <<c.node, a.node, b.node>>), b.next)
                         ELSE Failed

Largest(a, b) == IF a >= b THEN a ELSE b

RECURSIVE Depth(_)
RECURSIVE DepthOfAll(_)
Depth(node) ==
  CASE node.op = "call" -> 1 + DepthOfAll(node.args)
    [] node.op = "select" -> 1 + Depth(node.operand)
    [] OTHER -> 1
DepthOfAll(args) ==
  IF args = <<>> THEN 0 ELSE Largest(Depth(Head(args)), DepthOfAll(Tail(args)))

\* The whole text, which must be neither blank nor too long.  Operators and
\* selections in a row make a tree deeper than the text is nested.
Parse(text) ==
  LET s == Append(text, <<"end">>)
      p == ParseExpression(s, 1, 1)
  IN IF /\ text # <<>> /\ Len(text) <= MaximumTokens
        /\ p.ok /\ s[p.next] = <<"end">> /\ Depth(p.node) <= MaximumParsedDepth
       THEN p ELSE Failed

-----------------------------------------------------------------------------
(* The canonical text *)

Precedence(op) == Operators[op] + 1       \* the printer counts from 2

FieldToken(name) == WordToken(name)

NumberText(n, magnitude) == IF n < 0 THEN <<<<"-">>, magnitude>> ELSE <<magnitude>>

LiteralText(value) ==
  CASE value.t = "null" -> <<<<"null">>>>
    [] value.t = "bool" -> IF value.v THEN <<<<"true">>>> ELSE <<<<"false">>>>
    [] value.t = "int" ->
         NumberText(value.v, <<"int", IF value.v < 0 THEN -value.v ELSE value.v>>)
    [] value.t = "double" ->
         IF value.v \in {Infinite, -Infinite}
           THEN <<IF value.v < 0 THEN <<"-">> ELSE <<"+">>, <<"ident", "Inf">>>>
           ELSE NumberText(value.v,
                           <<"double", IF value.v < 0 THEN -value.v ELSE value.v>>)
    [] value.t = "string" -> <<<<"text", value.v>>>>

Wrapped(text, parentheses) ==
  IF parentheses THEN <<<<"(">>>> \o text \o <<<<")">>>> ELSE text

RECURSIVE Canonical(_, _, _)

RECURSIVE ArgumentText(_)
ArgumentText(args) ==
  IF args = <<>> THEN <<>>
  ELSE Canonical(Head(args), 0, FALSE)
       \o (IF Len(args) = 1 THEN <<>> ELSE <<<<",">>>> \o ArgumentText(Tail(args)))

\* Slip: the parentheses of a right operand of the same precedence are lost.
BinaryTextLoose(node, parent, right) ==
  LET p == Precedence(node.fn)
  IN Wrapped(Canonical(node.args[1], p, FALSE) \o <<<<node.fn>>>> \o Canonical(node.args[2], p, TRUE),
             parent > p)

BinaryText(node, parent, right) ==
  LET p == Precedence(node.fn)
  IN Wrapped(Canonical(node.args[1], p, FALSE) \o <<<<node.fn>>>> \o Canonical(node.args[2], p, TRUE),
             parent > p \/ (parent = p /\ right))

ConditionalText(node, parent, right) ==
  Wrapped(Canonical(node.args[1], 2, FALSE) \o <<<<"?">>>> \o Canonical(node.args[2], 2, FALSE)
            \o <<<<":">>>> \o Canonical(node.args[3], 1, TRUE),
          parent > 1 \/ (parent = 1 /\ ~right))

\* A unary operator never adds parentheses of its own.
Canonical(node, parent, right) ==
  CASE node.op = "literal" -> LiteralText(node.value)
    [] node.op = "ident" -> <<<<"ident", node.name>>>>
    [] node.op = "select" ->
         Canonical(node.operand, 8, FALSE) \o <<<<".">>, FieldToken(node.field)>>
    [] node.op = "call" ->
         CASE node.fn \in DOMAIN Operators -> BinaryText(node, parent, right)
           [] node.fn = "?:" -> ConditionalText(node, parent, right)
           [] node.fn \in {"-_", "!_"} ->
                <<IF node.fn = "-_" THEN <<"-">> ELSE <<"!">>>> \o Canonical(node.args[1], 7, FALSE)
           [] OTHER -> <<<<"ident", node.fn>>, <<"(">>>> \o ArgumentText(node.args) \o <<<<")">>>>

CanonicalText(node) == Canonical(node, 0, FALSE)

\* ExpressionCanonicalizer: the canonical form of a text that parses.
Canonicalize(text) ==
  LET p == Parse(text)
  IN IF p.ok THEN [ok |-> TRUE, text |-> CanonicalText(p.node)] ELSE Failed
=============================================================================
