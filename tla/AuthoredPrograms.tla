--------------------------- MODULE AuthoredPrograms ---------------------------
(***************************************************************************)
(* Contract documents and the rules submitted for them: what is compiled,  *)
(* which digests coincide, what a row of the Executable Store materialises *)
(* to and what a decision makes of it.  Everything here is computed from   *)
(* the documents, the programs and the inputs of a world; the operators    *)
(* whose names end in Of are what AuthoredDecisions is parameterised by.   *)
(***************************************************************************)
EXTENDS DecisionRules

CONSTANTS
  Documents,     \* the contracts of all worlds
  Worlds,        \* sets of documents: those that are deployed in one world
  Programs,      \* [document, rules]: rules that the analysis submits
  Inputs         \* [document, attributes, exposureFits]: runtime inputs

ASSUME ProgramsAssumption ==
  /\ \A w \in Worlds : w \subseteq DOMAIN Documents
  /\ \A w, u \in Worlds : w = u \/ w \intersect u = {}
  /\ \A p \in DOMAIN Programs : Programs[p].document \in DOMAIN Documents
  /\ \A n \in DOMAIN Inputs : Inputs[n].document \in DOMAIN Documents

\* The function, computed once.
Table(f) == <<>> @@ f

Document == Table(Documents)
Program == Table(Programs)
Input == Table(Inputs)

-----------------------------------------------------------------------------
(* Submissions.  A digest is represented by the first document, or the     *)
(* first submission, that has it.                                          *)

Digests ==
  Table([i \in DOMAIN Document |->
           IF Valid(Document[i]) THEN <<ContractDigest(Document[i])>> ELSE <<>>])

Together(i, j) == \E w \in Worlds : {i, j} \subseteq w

\* The valid documents with the digest of a valid one.
Versions(i) ==
  {j \in DOMAIN Document : Together(i, j) /\ Digests[j] # <<>> /\ Digests[j] = Digests[i]}

FirstVersion ==
  Table([i \in {j \in DOMAIN Document : Versions(j) # {}} |->
           CHOOSE j \in Versions(i) : \A k \in Versions(i) : j <= k])

\* The first version, 0 for an invalid document.
ContractOf(i) ==
  LET valid == i \in DOMAIN FirstVersion
  IN IF valid THEN FirstVersion[i] ELSE 0

\* The rules may be compiled: the default ones, those the author wrote, or a
\* program for the contract.
IsSubmissionOf(s) ==
  LET contract == ContractOf(s.document)
  IN /\ contract # 0
     /\ \/ s.kind = "default" /\ s.program = 0
        \/ /\ s.kind = "authored" /\ s.program = 0
           /\ \E a \in Document[s.document].authored : Deployable(a)
        \/ /\ s.kind = "candidate" /\ s.program # 0
           /\ ContractOf(Program[s.program].document) = contract

Submissions ==
  {s \in [kind : {"default", "authored", "candidate"}, document : DOMAIN Document,
          program : DOMAIN Program \union {0}] : IsSubmissionOf(s)}

SubmittedRules(s) ==
  CASE s.kind = "default" -> <<>>
    [] s.kind = "authored" -> AuthoredRules(CHOOSE a \in Document[s.document].authored : TRUE)
    [] s.kind = "candidate" -> Program[s.program].rules

Compiled ==
  Table([s \in Submissions |->
           Compile(Document[s.document],
                   [contractDigest |-> Digests[s.document][1], kind |-> "rules",
                    rules |-> SubmittedRules(s)])])

Peers(s) == {r \in DOMAIN Compiled : Together(r.document, s.document) /\ Compiled[r].ok}

SameExecutable(r, s) == Compiled[r].digest = Compiled[s].digest

\* What the cache key holds besides the digest: names and checked trees.
Representation(s) ==
  LET checked == Compiled[s].checked
  IN [i \in DOMAIN checked |->
        <<checked[i].name, checked[i].predicate.digest, {c.digest : c \in checked[i].result}>>]

IsExecutableOf(s) ==
  LET compilation == Compiled[s]
  IN s \in DOMAIN Compiled /\ compilation.ok

StoreTakesOf(s) ==
  LET compilation == Compiled[s]
  IN IsExecutableOf(s) /\ StoreAccepts(compilation)

Digested ==
  Table([s \in {r \in DOMAIN Compiled : Compiled[r].ok} |->
           CHOOSE r \in Peers(s) : SameExecutable(r, s)])

CacheKey ==
  Table([s \in DOMAIN Digested |->
           CHOOSE r \in Peers(s) :
             SameExecutable(r, s) /\ Representation(r) = Representation(s)])

ExecutableOf(s) ==
  LET compiled == s \in DOMAIN Digested
  IN IF compiled THEN Digested[s] ELSE s

-----------------------------------------------------------------------------
(* The Decision Service on stored rows.  A row is [writer, sound]: the     *)
(* submission that wrote it, and whether its checked form is undamaged.    *)

StoredRow(row) ==
  LET c == Compiled[row.writer]
      damaged(x) == [x EXCEPT !.predicate.tree = LiteralNode(BoolValue(TRUE))]
  IN [executable |-> c.executable, digest |-> c.digest,
      checked |-> IF row.sound THEN c.checked
                  ELSE [i \in DOMAIN c.checked |-> damaged(c.checked[i])]]

RowsOf ==
  [writer : [kind : {"default", "authored", "candidate"}, document : DOMAIN Document,
             program : DOMAIN Program \union {0}],
   sound : BOOLEAN]

\* The document is the one stored under the digest of the request.
RequestsOf == [input : DOMAIN Input, document : DOMAIN Document]

\* Rows that the contract of a document may have.
Loadable ==
  UNION {{<<d, [writer |-> s, sound |-> b]>> : b \in BOOLEAN, d \in Versions(s.document)}
         : s \in DOMAIN Digested}

Materials == Table([x \in Loadable |-> Materialize(Document[x[1]], StoredRow(x[2]))])

KeyOf(row) ==
  LET s == row.writer
  IN IF s \in DOMAIN CacheKey THEN CacheKey[s] ELSE s

MaterializedOf(q, row) ==
  LET read == <<q.document, row>>
  IN [document |-> q.document, row |-> row,
      state |-> IF read \in DOMAIN Materials THEN Materials[read].state ELSE "invalid"]

LoadsOf(i, row) ==
  LET read == <<i, row>>
  IN Materials[read].state = "compiled"

ResultsOf == [document : DOMAIN Document, row : RowsOf, state : {"compiled", "invalid"}]

IsCompiledOf(result) == result.state = "compiled"
IsInvalidOf(result) == result.state = "invalid"

\* The answer names the executable it comes from.
EvaluatedOf(q, result) ==
  LET outcome == Decide(Document[q.document], Materials[result.document, result.row].rules,
                        Input[q.input].attributes)
  IN [executable |-> ExecutableOf(result.row.writer), is |-> outcome]

InputFitsOf(n, i) ==
  LET issues == InputIssues(Document[i], Input[n])
  IN issues = {}

-----------------------------------------------------------------------------
(* What a submitted text means, read off its own tree.                     *)

Tree(text) == Parse(text).node

SourceRule(r) ==
  [name |-> r.name, predicate |-> Tree(r.when),
   result |-> IF "value" \in DOMAIN r.result THEN LiteralNode(r.result.value) ELSE Tree(r.result.expression)]

Source ==
  Table([s \in DOMAIN Digested |->
           [i \in DOMAIN SubmittedRules(s) |-> SourceRule(SubmittedRules(s)[i])]])

\* The rule has nothing to say about the attributes.
Passes(rule, attributes) ==
  \/ ~(References(rule.predicate) \union References(rule.result) \subseteq DOMAIN attributes)
  \/ IsFalse(Evaluate(rule.predicate, attributes))

\* The outcome is one the submission allows.
FollowsOf(outcome, s, attributes) ==
  LET rules == Source[s]
      passed(n) == \A i \in 1..n : Passes(rules[i], attributes)
      value(i) == Evaluate(rules[i].result, attributes)
      default == Document[s.document].result.default
  IN \/ /\ passed(Len(rules))
        /\ outcome.outcome = "answered" => outcome.rule = {} /\ SameJson(outcome.value, default)
     \/ \E i \in DOMAIN rules :
          /\ passed(i - 1) /\ ~Passes(rules[i], attributes)
          /\ outcome.outcome = "answered" =>
               outcome.rule = {rules[i].name} /\ SameJson(outcome.value, value(i))

\* Some rule of the submission has something to say about the attributes.
ConcernsOf(s, attributes) ==
  LET rules == Source[s]
  IN \E i \in DOMAIN rules : ~Passes(rules[i], attributes)
=============================================================================
