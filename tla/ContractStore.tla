--------------------------- MODULE ContractStore ---------------------------
(***************************************************************************)
(* The tables of the Contract Store: which authority scope owns a decision *)
(* name, which contract versions are durable, and the management current   *)
(* pointer of each name.  Every operation is one SQLite BEGIN IMMEDIATE    *)
(* transaction, so one atomic action.                                      *)
(*                                                                         *)
(* A contract stands for its digest.  The digest commits to the name and   *)
(* the authority scope, so both are functions of the contract.  Contract   *)
(* names are naturals: the code only compares and orders them.             *)
(***************************************************************************)
EXTENDS Naturals, FiniteSets

CONSTANTS
  Names,      \* decision names
  Contracts,  \* contract digests
  Scopes,     \* authority scopes (tenant, application, environment)
  NameOf,     \* the name a contract digest commits to
  ScopeOf,    \* the authority scope a contract digest commits to
  None        \* SQL NULL, or a row that does not exist

ASSUME ContractsAssumption ==
  /\ Names \subseteq Nat \ {0}
  /\ NameOf \in [Contracts -> Names]
  /\ ScopeOf \in [Contracts -> Scopes]
  /\ None \notin Contracts \union Scopes

VARIABLES
  resources,  \* decision_contract_resources: the scope that owns a name
  versions,   \* decision_contract_versions: the durable contract digests
  current     \* decision_contract_current: the current digest of a name

contractVars == <<resources, versions, current>>

ContractTypeOK ==
  /\ resources \in [Names -> Scopes \union {None}]
  /\ versions \subseteq Contracts
  /\ current \in [Names -> Contracts \union {None}]

ContractInit ==
  /\ resources = [n \in Names |-> None]
  /\ versions = {}
  /\ current = [n \in Names |-> None]

-----------------------------------------------------------------------------

\* Slip: the authority of a name is not compared.
OwnsAnyName(d) == resources[NameOf[d]] \in Scopes \union {None}

\* The name is unclaimed or already belongs to the contract's scope; a put of
\* another scope fails with AuthorityConflict and writes nothing.
Owns(d) == resources[NameOf[d]] \in {None, ScopeOf[d]}

\* The first put of a name claims it; a digest already stored is left alone.
Put(d) ==
  /\ Owns(d)
  /\ resources' = [resources EXCEPT ![NameOf[d]] = ScopeOf[d]]
  /\ versions' = versions \union {d}
  /\ UNCHANGED current

\* Move the current pointer of the contract's name to a stored version.
SetCurrent(d) ==
  /\ d \in versions
  /\ current' = [current EXCEPT ![NameOf[d]] = d]
  /\ UNCHANGED <<resources, versions>>

=============================================================================
