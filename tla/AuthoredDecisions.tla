-------------------------- MODULE AuthoredDecisions --------------------------
(***************************************************************************)
(* From a contract document to the answer of a decision: deployment and    *)
(* submission by the Contract Service, what the two stores keep of it, and *)
(* the decisions the Decision Service makes meanwhile.                     *)
(*                                                                         *)
(* The interleavings of deployments, submissions and activations with each *)
(* other are the business of ContractService: a deployment is one step     *)
(* here, and a decision is not.  The operators among the constants stand   *)
(* for those of AuthoredPrograms whose names end in Of.                    *)
(***************************************************************************)
EXTENDS AuthoredPrograms, DecisionRuntime

CONSTANTS
  MaxDamages,        \* bound: how often a stored checked executable is damaged
  Contract(_),       \* the document stored under the digest of one, 0 for none
  IsSubmission(_),   \* the rules are submitted for the document
  IsExecutable(_),   \* they compile
  StoreTakes(_),     \* and the Executable Store accepts what they compile to
  Loads(_, _),       \* the stored row compiles against the document
  Executable(_),     \* the executable digest of a submission
  InputFits(_, _),   \* the input is valid for the document
  Follows(_, _, _),  \* the outcome is one the submitted texts allow
  Concerns(_, _)     \* a rule of the submission says something of attributes

ASSUME DamagesAssumption == MaxDamages \in Nat

VARIABLES
  world,        \* the documents of this world
  contracts,    \* the documents that were stored, each the first with its digest
  executables,  \* the rows of the Executable Store
  active,       \* contract -> the submission whose row is active
  deployed,     \* submissions the service acknowledged
  refused,      \* submissions of valid documents it refused
  damages       \* how many rows were damaged so far

serviceState == <<world, contracts, executables, active, deployed, refused, damages>>
decisionVars == <<serviceState, runtimeVars>>

-----------------------------------------------------------------------------
(* Deployment, submission, activation *)

\* The rows after one was put, unless its digest has one.
Put(rows, s) ==
  IF \E r \in rows : Executable(r.writer) = Executable(s) THEN rows
  ELSE rows \union {[writer |-> s, sound |-> TRUE]}

RowOf(executable) ==
  CHOOSE r \in executables : Executable(r.writer) = executable

Stored(contract) == {i \in contracts : Contract(i) = contract}

Activated(contract, s) ==
  [c \in DOMAIN active \union {contract} |-> IF c = contract THEN Executable(s) ELSE active[c]]

\* PUT of a contract: its first document is stored, the default executable
\* becomes active where none is, and the authored one where the default is.
\* When the store refuses the authored one, what was done before stays.
Deploy(i) ==
  LET c == Contract(i)
      default == [kind |-> "default", document |-> i, program |-> 0]
      authored == {s \in {[default EXCEPT !.kind = "authored"]} : IsSubmission(s)}
      serving == IF c \in DOMAIN active THEN active[c] ELSE Executable(default)
      waiting == {s \in authored : serving = Executable(default)}
      accepted == {s \in waiting : StoreTakes(s)}
      rows == IF c \in DOMAIN active THEN executables ELSE Put(executables, default)
  IN /\ i \in world
     /\ c # 0
     /\ \A s \in authored \union {default} : IsExecutable(s)
     /\ contracts' = IF Stored(c) = {} THEN contracts \union {i} ELSE contracts
     /\ IF accepted = {}
          THEN /\ executables' = rows
               /\ active' = IF c \in DOMAIN active THEN active ELSE Activated(c, default)
          ELSE LET s == CHOOSE s \in accepted : TRUE
               IN /\ executables' = Put(rows, s)
                  /\ active' = Activated(c, s)
     /\ deployed' = IF waiting \subseteq accepted THEN deployed \union authored \union {default}
                                                  ELSE deployed
     /\ refused' = refused \union (waiting \ accepted)
     /\ UNCHANGED <<world, damages, runtimeVars>>

\* The analysis submits a program for a stored contract.
Submit(p) ==
  \E i \in Stored(Contract(Program[p].document)) :
    LET s == [kind |-> "candidate", document |-> i, program |-> p]
    IN /\ IsSubmission(s)
       /\ s \notin deployed
       /\ \/ /\ StoreTakes(s)
             /\ executables' = Put(executables, s)
             /\ deployed' = deployed \union {s}
             /\ UNCHANGED refused
          \/ /\ ~StoreTakes(s)
             /\ refused' = refused \union {s}
             /\ UNCHANGED <<executables, deployed>>
       /\ UNCHANGED <<world, contracts, active, damages, runtimeVars>>

\* A candidate is activated.
Activate(row) ==
  LET c == Contract(row.writer.document)
  IN /\ row.writer.kind = "candidate"
     /\ active[c] # Executable(row.writer)
     /\ active' = Activated(c, row.writer)
     /\ UNCHANGED <<world, contracts, executables, deployed, refused, damages, runtimeVars>>

\* The checked form of a stored row changes on disk; its digests do not.
Damage(row) ==
  /\ row.sound
  /\ SubmittedRules(row.writer) # <<>>
  /\ damages < MaxDamages
  /\ damages' = damages + 1
  /\ executables' = (executables \ {row}) \union {[row EXCEPT !.sound = FALSE]}
  /\ UNCHANGED <<world, contracts, active, deployed, refused, runtimeVars>>

Repair(row) ==
  /\ ~row.sound
  /\ executables' = (executables \ {row}) \union {[row EXCEPT !.sound = TRUE]}
  /\ UNCHANGED <<world, contracts, active, deployed, refused, damages, runtimeVars>>

-----------------------------------------------------------------------------
(* Decisions *)

\* A request for the contract of the input, which may not be stored yet.
Request(t, n) ==
  LET found == Stored(Contract(Input[n].document))
  IN /\ Input[n].document \in world
     /\ IF found = {} THEN Begin(t, NoRequest, FALSE)
        ELSE LET i == CHOOSE i \in found : TRUE
             IN Begin(t, [input |-> n, document |-> i], InputFits(n, i))
     /\ UNCHANGED serviceState

ReadRow(t) ==
  /\ At(t, "read")
  /\ LET c == Contract(task[t].request.document)
     IN ReadActive(t, IF c \in DOMAIN active THEN RowOf(active[c]) ELSE NoRow)
  /\ UNCHANGED serviceState

AuthoredInit ==
  /\ world \in Worlds
  /\ contracts = {}
  /\ executables = {}
  /\ active = <<>>
  /\ deployed = {}
  /\ refused = {}
  /\ damages = 0
  /\ RuntimeInit

AuthoredNext ==
  \/ \E i \in DOMAIN Document : Deploy(i)
  \/ \E p \in DOMAIN Program : Submit(p)
  \/ \E row \in executables : Activate(row) \/ Damage(row) \/ Repair(row)
  \/ \E t \in Threads :
       \/ \E n \in DOMAIN Input : Request(t, n)
       \/ ReadRow(t)
       \/ Proceed(t) /\ UNCHANGED serviceState

AuthoredSpec == AuthoredInit /\ [][AuthoredNext]_decisionVars

-----------------------------------------------------------------------------
(* Properties *)

\* A decision that has an answer of a compiled executable.
HasAnswer(t) == At(t, "answered") /\ task[t].answer # NoResult

\* The acknowledged submissions a row stands for: those with its digest, and
\* every version of its contract for what the deployment itself compiled.
StandsFor(writer) ==
  {s \in deployed : \/ Executable(s) = Executable(writer)
                    \/ /\ s.kind = writer.kind /\ s.kind # "candidate"
                       /\ Contract(s.document) = Contract(writer.document)}

\* An answer is what the texts its executable was submitted as mean: all of
\* them, those whose submission only found the row of another one included.
\* Canonical texts, digests, first-come storage, the cache and its sharing
\* stand between the two (digests.rs, checked.rs, runtime.rs).
AnswersFollowSource ==
  \A t \in Threads : HasAnswer(t) =>
    /\ task[t].answer.executable = Executable(task[t].row.writer)
    /\ \A s \in StandsFor(task[t].row.writer) :
         Follows(task[t].answer.is, s, Input[task[t].request.input].attributes)

\* What the checker promised of a rule holds whenever it runs: a predicate is
\* boolean, and a result has the type of the result schema, whose elements
\* alone are left to the check at run time (profile.rs check, validate_result).
\* A decision that no rule answers is never refused.
AnswersSound ==
  \A t \in Threads : HasAnswer(t) =>
    LET outcome == task[t].answer.is
        contract == Document[task[t].request.document]
    IN /\ outcome.outcome # "predicate is not boolean"
       /\ outcome.outcome = "result violates the schema" =>
            \/ contract.result.schema.type \in {"array", "object"}
            \/ "invalid-value-type" \notin outcome.issues
       /\ outcome.outcome # "answered" =>
            Concerns(task[t].row.writer, Input[task[t].request.input].attributes)

\* Every sound row the store accepted materialises against the document that
\* is stored, be it another version than the one it was compiled for
\* (validate_executable and validate_stored_shape agree).
SoundRowsMaterialize ==
  \A row \in executables : \A i \in Stored(Contract(row.writer.document)) :
    row.sound => Loads(i, row)

\* A contract that validates is deployed with its authored rules.
DeploymentsAccepted == \A s \in refused : s.kind # "authored"
=============================================================================
