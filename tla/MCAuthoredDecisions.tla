------------------------- MODULE MCAuthoredDecisions -------------------------
(* Small worlds for authored decisions.  Each is one contract, in one or more *)
(* documents, with the programs the analysis may submit for it and the inputs *)
(* decisions are made for; a world is there for what its name says.           *)
EXTENDS AuthoredDecisions

MCNameShape ==
  [n \in {"acme", "shop", "prod", "a", "b", "c", "n", "s", "list", "low", "high", "load", "cost",
          "grouping", "versions", "branches", "ranges", "evidence", "failures", "unary", "words", "guard",
          "two words", "_random", "_clock"} |->
     CASE n = "two words" -> "malformed"
       [] n \in {"_random", "_clock"} -> "internal"
       [] OTHER -> "word"]

\* Texts
A(name) == <<<<"ident", "attributes">>, <<".">>, <<"ident", name>>>>
I(n) == <<<<"int", n>>>>
D(h) == <<<<"double", h>>>>
T(s) == <<<<"text", s>>>>
True == <<<<"true">>>>
Par(x) == <<<<"(">>>> \o x \o <<<<")">>>>
Call(f, x) == <<<<"ident", f>>>> \o Par(x)
Op(x, op, y) == x \o <<<<op>>>> \o y
If(c, x, y) == c \o <<<<"?">>>> \o x \o <<<<":">>>> \o y
Neg(x) == <<<<"-">>>> \o x
Not(x) == <<<<"!">>>> \o x

Rule(name, when, result) == {[name |-> name, when |-> [expression |-> when], result |-> result]}
InWords(name, result) == {[name |-> name, when |-> [condition |-> "busy"], result |-> result]}
V(value) == [value |-> value]
E(text) == [expression |-> text]

Whole == [type |-> "integer"]
Number == [type |-> "number"]
Small == [type |-> "integer", minimum |-> 0, maximum |-> 8]
Str == [type |-> "string", maxLength |-> 2]
Wholes == [type |-> "array", items |-> Whole, maxItems |-> 2]
Smalls == [type |-> "array", items |-> Small]
Empty == [t |-> "array", v |-> <<>>]

Attr(name, schema) == {[name |-> name, schema |-> schema]}
Described(name, schema) == {[name |-> name, schema |-> schema @@ ("description" :> "of the load")]}

Authority == [tenant |-> {"acme"}, application |-> {"shop"}, environment |-> {"prod"}]

Written(name, attributes, schema, default, rules) ==
  [authority |-> Authority, name |-> name, syntax |-> "flaggo.cel/v1", attributes |-> attributes,
   result |-> [schema |-> schema, default |-> default],
   authored |-> IF rules = <<>> THEN {} ELSE {[rules |-> rules]},
   learning |-> {}]

\* Learning
Metric(name, unit, location) ==
  [kind |-> "metric", scope |-> "app", name |-> name, metricKind |-> "gauge", unit |-> unit,
   unitFits |-> TRUE,
   correlation |-> "a" :> {[location |-> location, attribute |-> "user"]}]
Evidence(name, source) ==
  {[name |-> name, attribute |-> "a", correlateBy |-> <<{"a"}>>, source |-> source,
    description |-> name]}
Learning(evidence, guardrails) ==
  {[mode |-> "auto-activation", positiveInterval |-> TRUE, evidence |-> evidence,
    primary |-> "load", direction |-> "minimize", guardrails |-> {guardrails}]}
Guard(name, text) == {[name |-> name, expression |-> text]}

Learns(evidence) ==
  [Written("evidence", <<Attr("a", Whole)>>, Whole, IntValue(0), <<>>) EXCEPT
     !.learning = Learning(evidence, <<Guard("guard", Op(A("a"), "<", I(2)))>>)]

AB == <<Attr("a", Whole), Attr("b", Whole)>>
Low == Rule("low", Op(A("a"), ">", I(0)), V(IntValue(1)))
High(value) == Rule("high", Op(A("n"), ">=", D(1)), V(value))

Flag == <<Attr("c", [type |-> "boolean"])>>

grouping == 1
versions1 == 2
versions2 == 3
branches1 == 4
branches2 == 5
ranges == 6
evidence1 == 7
evidence2 == 8
failures == 9
words1 == 10
words2 == 11
unary == 12

MCDocuments == <<
  Written("grouping", AB, Whole, IntValue(0), <<>>),
  Written("versions", <<Attr("a", Whole), Attr("n", Number)>>, Number, IntValue(0),
           <<High(IntValue(1)), Low>>),
  Written("versions", <<Described("n", Number), Attr("a", Whole)>>, Number, DoubleValue(0),
           <<High(DoubleValue(2)), Low>>),
  Written("branches", Flag, Small, IntValue(0),
           <<Rule("low", If(A("c"), True, I(1)), V(IntValue(1)))>>),
  Written("branches", Flag, Small, IntValue(0),
           <<Rule("low", True, E(If(A("c"), I(1), I(2))))>>),
  Written("ranges", <<Attr("a", Whole)>>, Small, IntValue(3),
           <<Rule("low", Op(A("a"), ">", I(0)), E(A("a")))>>),
  Learns(<<Evidence("load", Metric("load", "1", "signal")), Evidence("cost", Metric("load", "s", "signal"))>>),
  Learns(<<Evidence("load", Metric("load", "1", "signal")), Evidence("cost", Metric("load", "1", "resource"))>>),
  Written("failures", <<Attr("a", Whole), Attr("n", Number)>>, Number, IntValue(0),
           <<Rule("low", Op(Op(A("a"), "/", A("a")), "==", I(1)), E(Op(A("a"), "*", I(3)))),
             Rule("high", Op(A("n"), ">", Call("double", I(1))), E(Op(A("n"), "+", D(7))))>>),
  Written("words", <<Attr("list", Wholes)>>, Smalls, Empty,
           <<InWords("low", E(A("list"))), Low>>),
  Written("words", <<Attr("list", Wholes), Attr("s", Str)>>, Smalls, Empty,
           <<InWords("low", E(A("list")))>>),
  Written("unary", Flag, Whole, IntValue(0),
           <<Rule("low", Not(Par(Not(A("c")))), V(IntValue(1)))>>)
>>

MCWorlds == {{grouping}, {versions1, versions2}, {branches1, branches2}, {ranges},
             {evidence1, evidence2}, {failures}, {words1, words2}}
UnaryWorlds == {{unary}}

Proposed(document, rules) == [document |-> document, rules |-> rules]
Positive(x) == <<[name |-> "low", when |-> Op(x, ">", I(0)), result |-> V(IntValue(1))]>>

MCPrograms == <<
  Proposed(grouping, Positive(Op(Par(Op(A("a"), "-", A("b"))), "-", I(1)))),
  Proposed(grouping, Positive(Op(A("a"), "-", Par(Op(A("b"), "-", I(1)))))),
  Proposed(ranges, <<[name |-> "high", when |-> True, result |-> V(IntValue(5))]>>),
  Proposed(evidence1, Positive(Neg(Par(Neg(A("a")))))),
  Proposed(words2, <<[name |-> "low",
                     when |-> Op(Op(Call("size", A("list")), ">", Call("size", A("s"))), "&&",
                                 Op(A("_random"), "<", D(1))),
                     result |-> E(A("list"))]>>)
>>

Given(document, attributes) ==
  [document |-> document, exposureFits |-> TRUE,
   attributes |-> attributes @@ ("_random" :> DoubleValue(0))]

MCInputs == <<
  Given(grouping, "a" :> IntValue(1) @@ "b" :> IntValue(1)),
  Given(versions1, "a" :> IntValue(1)),
  Given(versions1, "a" :> IntValue(1) @@ "n" :> DoubleValue(3)),
  Given(branches1, "c" :> BoolValue(FALSE)),
  Given(branches2, "c" :> BoolValue(FALSE)),
  Given(ranges, "a" :> IntValue(5)),
  Given(ranges, "a" :> TextValue(<<"x">>)),
  Given(evidence1, "a" :> IntValue(1)),
  Given(failures, "a" :> IntValue(0)),
  Given(failures, "a" :> IntValue(3)),
  Given(failures, "n" :> DoubleValue(14)),
  Given(words2, "list" :> [t |-> "array", v |-> <<IntValue(5)>>] @@ "s" :> TextValue(<<>>)),
  Given(unary, "c" :> BoolValue(TRUE))
>>

Interchangeable == Permutations(Threads) \union Permutations(Slots)
=============================================================================
