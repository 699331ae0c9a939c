----------------------------- MODULE ValueSchema -----------------------------
(***************************************************************************)
(* JSON values, value schemas, and what the contract crate reports of both. *)
(*                                                                         *)
(* A value is [t, v]: a number is "int" when its text is a JSON integer    *)
(* (as_i64 succeeds) and otherwise "double", whose v counts halves; a      *)
(* string is the sequence of its letters; an array is a sequence and an    *)
(* object a function from member names.  A schema is a record of the       *)
(* keywords it gives, numeric ones in halves.  A set of issues holds their *)
(* codes: paths and wording are left out.                                  *)
(***************************************************************************)
EXTENDS Integers, Sequences, FiniteSets

CONSTANTS
  MaximumDepth,        \* MAXIMUM_DEPTH
  MaximumString,       \* MAXIMUM_STRING_BYTES
  MaximumCollection    \* MAXIMUM_COLLECTION_SIZE

ASSUME SchemaAssumption ==
  MaximumDepth \in Nat /\ MaximumString \in Nat /\ MaximumCollection \in Nat

NullValue == [t |-> "null", v |-> 0]
BoolValue(b) == [t |-> "bool", v |-> b]
IntValue(n) == [t |-> "int", v |-> n]
DoubleValue(h) == [t |-> "double", v |-> h]
TextValue(s) == [t |-> "string", v |-> s]
Halves(value) == IF value.t = "int" THEN 2 * value.v ELSE value.v

NullSchema == [type |-> "missing"]     \* a JSON null where a schema belongs
NullName == "null name"                \* a JSON null where a name belongs

Issue(code, found) == IF found THEN {code} ELSE {}

-----------------------------------------------------------------------------
(* Schemas *)

NumericKeywords == {"minimum", "maximum", "exclusiveMinimum", "exclusiveMaximum", "multipleOf"}
StringKeywords == {"minLength", "maxLength"}
ArrayKeywords == {"items", "minItems", "maxItems", "uniqueItems"}
ObjectKeywords == {"properties", "required", "additionalProperties", "minProperties", "maxProperties"}

Gives(schema, keyword) == keyword \in DOMAIN schema

Inapplicable(schema, keywords) ==
  Issue("inapplicable-schema-keyword", keywords \intersect DOMAIN schema # {})

RangeIssues(schema, least, most, limit) ==
  Issue("invalid-schema-range",
        \/ \E k \in {least, most} \intersect DOMAIN schema : schema[k] < 0 \/ schema[k] > limit
        \/ {least, most} \subseteq DOMAIN schema /\ schema[least] > schema[most])

\* The bound that is compared: the inclusive one hides the exclusive one.
Bounds(schema, inclusive, exclusive) ==
  LET given == IF Gives(schema, inclusive) THEN inclusive ELSE exclusive
  IN {schema[k] : k \in {given} \intersect DOMAIN schema}

NumericSchemaIssues(schema) ==
  Issue("non-integer-schema-keyword",
        /\ schema.type = "integer"
        /\ \E k \in NumericKeywords \intersect DOMAIN schema : schema[k] % 2 # 0)
  \union Issue("invalid-schema-range",
        \E lower \in Bounds(schema, "minimum", "exclusiveMinimum"),
           upper \in Bounds(schema, "maximum", "exclusiveMaximum") : lower > upper)
  \union Issue("invalid-multiple-of", Gives(schema, "multipleOf") /\ schema.multipleOf <= 0)
  \union Inapplicable(schema, StringKeywords \union ArrayKeywords \union ObjectKeywords)

StringSchemaIssues(schema) ==
  RangeIssues(schema, "minLength", "maxLength", MaximumString)
  \union Inapplicable(schema, NumericKeywords \union ArrayKeywords \union ObjectKeywords)

RequiredNames(schema) ==
  IF Gives(schema, "required") THEN {schema.required[i] : i \in DOMAIN schema.required} ELSE {}

RECURSIVE SchemaAtDepth(_, _)

ArraySchemaIssues(schema, depth) ==
  (IF Gives(schema, "items") THEN SchemaAtDepth(schema.items, depth + 1) ELSE {"missing-items"})
  \union RangeIssues(schema, "minItems", "maxItems", MaximumCollection)
  \union Inapplicable(schema, NumericKeywords \union ObjectKeywords)

ObjectSchemaIssues(schema, depth) ==
  LET closed == /\ Gives(schema, "properties")
                /\ Gives(schema, "additionalProperties")
                /\ ~schema.additionalProperties
      names == IF Gives(schema, "properties") THEN DOMAIN schema.properties ELSE {}
  IN Issue("open-object-schema", ~closed)
     \union (IF closed
               THEN Issue("too-many-schema-properties", Cardinality(names) > MaximumCollection)
                    \union UNION {IF schema.properties[p] = NullSchema
                                    THEN {"null-property-schema"}
                                    ELSE SchemaAtDepth(schema.properties[p], depth + 1) : p \in names}
               ELSE {})
     \union Issue("duplicate-required-property",
                  /\ Gives(schema, "required")
                  /\ Cardinality(RequiredNames(schema)) # Len(schema.required))
     \union Issue("invalid-required-property",
                  Gives(schema, "properties") /\ RequiredNames(schema) \intersect {NullName, ""} # {})
     \union Issue("unknown-required-property",
                  /\ Gives(schema, "properties")
                  /\ ~(RequiredNames(schema) \subseteq names \union {NullName, ""}))
     \union RangeIssues(schema, "minProperties", "maxProperties", MaximumCollection)
     \union Inapplicable(schema, NumericKeywords \union ArrayKeywords)

SchemaAtDepth(schema, depth) ==
  CASE depth > MaximumDepth -> {"schema-too-deep"}
    [] schema.type \in {"null", "boolean"} ->
         Inapplicable(schema, NumericKeywords \union StringKeywords
                              \union ArrayKeywords \union ObjectKeywords)
    [] schema.type \in {"integer", "number"} -> NumericSchemaIssues(schema)
    [] schema.type = "string" -> StringSchemaIssues(schema)
    [] schema.type = "array" -> ArraySchemaIssues(schema, depth)
    [] schema.type = "object" -> ObjectSchemaIssues(schema, depth)
    [] OTHER -> {"unsupported-value-type"}

SchemaIssues(schema) == SchemaAtDepth(schema, 0)

-----------------------------------------------------------------------------
(* Values.  "invalid-model" stands for the error that ends the whole       *)
(* validation: a null inside a schema is no issue of the value.            *)

Below(n, schema, keyword) == Gives(schema, keyword) /\ n < schema[keyword]
Above(n, schema, keyword) == Gives(schema, keyword) /\ n > schema[keyword]

\* h is the number in halves.  The tolerance of the quotient is finer than
\* the halves kept here, so a multiple is an exact one.
NumberIssues(h, schema) ==
  Issue("number-out-of-range",
        \/ Below(h, schema, "minimum") \/ Above(h, schema, "maximum")
        \/ Gives(schema, "exclusiveMinimum") /\ h <= schema.exclusiveMinimum
        \/ Gives(schema, "exclusiveMaximum") /\ h >= schema.exclusiveMaximum)
  \union Issue("number-not-multiple",
        /\ Gives(schema, "multipleOf")
        /\ ~\E q \in (-(IF h < 0 THEN -h ELSE h))..(IF h < 0 THEN -h ELSE h) :
              h = q * schema.multipleOf)

StringIssues(s, schema) ==
  Issue("string-out-of-range",
        Len(s) > MaximumString \/ Below(Len(s), schema, "minLength")
                               \/ Above(Len(s), schema, "maxLength"))

\* The canonical JSON of a number does not tell 1 from 1.0.
SameJson(a, b) ==
  \/ a.t = b.t /\ a.v = b.v
  \/ {a.t, b.t} \subseteq {"int", "double"} /\ Halves(a) = Halves(b)

RECURSIVE ValueAtDepth(_, _, _)

ArrayIssues(items, schema, depth) ==
  Issue("array-out-of-range",
        Len(items) > MaximumCollection \/ Below(Len(items), schema, "minItems")
                                       \/ Above(Len(items), schema, "maxItems"))
  \union Issue("array-items-not-unique",
        /\ Gives(schema, "uniqueItems") /\ schema.uniqueItems
        /\ \E i, j \in DOMAIN items : i # j /\ SameJson(items[i], items[j]))
  \union (IF Gives(schema, "items")
            THEN UNION {ValueAtDepth(schema.items, items[i], depth + 1) : i \in DOMAIN items}
            ELSE {})

ObjectIssues(members, schema, depth) ==
  LET names == DOMAIN members
      declared == IF Gives(schema, "properties") THEN DOMAIN schema.properties ELSE {}
      count == Cardinality(names)
  IN Issue("object-out-of-range",
           count > MaximumCollection \/ Below(count, schema, "minProperties")
                                     \/ Above(count, schema, "maxProperties"))
     \union Issue("invalid-model", NullName \in RequiredNames(schema))
     \union Issue("required-property-missing", ~(RequiredNames(schema) \subseteq names \union {NullName}))
     \union Issue("additional-property", ~(names \subseteq declared))
     \union UNION {IF schema.properties[p] = NullSchema
                     THEN {"invalid-model"}
                     ELSE ValueAtDepth(schema.properties[p], members[p], depth + 1)
                   : p \in names \intersect declared}

ValueAtDepth(schema, value, depth) ==
  LET typed(types, issues) == IF value.t \in types THEN issues ELSE {"invalid-value-type"}
  IN CASE depth > MaximumDepth -> {"value-too-deep"}
       [] schema.type = "null" -> typed({"null"}, {})
       [] schema.type = "boolean" -> typed({"bool"}, {})
       [] schema.type = "integer" -> typed({"int"}, NumberIssues(Halves(value), schema))
       [] schema.type = "number" -> typed({"int", "double"}, NumberIssues(Halves(value), schema))
       [] schema.type = "string" -> typed({"string"}, StringIssues(value.v, schema))
       [] schema.type = "array" -> typed({"array"}, ArrayIssues(value.v, schema, depth))
       [] schema.type = "object" -> typed({"object"}, ObjectIssues(value.v, schema, depth))
       [] OTHER -> {"invalid-value-type"}

ValueIssues(schema, value) == ValueAtDepth(schema, value, 0)

\* The value satisfies the schema.
Conforms(schema, value) == ValueIssues(schema, value) = {}
=============================================================================
