-------------------------- MODULE RuntimeAuthority --------------------------
(***************************************************************************)
(* What the Contract Service promises to the rest of the system, without   *)
(* its requests, candidates and transactions: each contract digest has at  *)
(* most one executable in force, an executable that has left the lifecycle *)
(* never comes back, and a contract becomes the current one of its name    *)
(* only while it has an executable in force.                               *)
(***************************************************************************)
CONSTANTS Names, Contracts, Executables, NameOf, ContractOf, None

VARIABLES
  activation,  \* RuntimeActivation[contractDigest], a set of at most one executable
  retired,     \* executables whose authority or candidacy is over
  published    \* ManagementCurrent[contractName]

authorityVars == <<activation, retired, published>>

AuthorityInit ==
  /\ activation = [d \in Contracts |-> {}]
  /\ retired = {}
  /\ published = [n \in Names |-> None]

InForce == UNION {activation[d] : d \in Contracts}

\* What is retired stays retired, and is not in force.
RetireMore ==
  /\ retired' \in SUBSET Executables
  /\ retired \subseteq retired'
  /\ retired' \intersect InForce' = {}

\* e takes over from whatever was in force for its contract, and candidates
\* that lost to it may be retired in the same step.
Grant(e) ==
  /\ e \notin retired \union InForce
  /\ activation' = [activation EXCEPT ![ContractOf[e]] = {e}]
  /\ RetireMore
  /\ activation[ContractOf[e]] \subseteq retired'
  /\ UNCHANGED published

\* Candidates are retired without a grant.
Discard ==
  /\ UNCHANGED <<activation, published>>
  /\ RetireMore

Publish(d) ==
  /\ activation[d] # {}
  /\ published' = [published EXCEPT ![NameOf[d]] = d]
  /\ UNCHANGED <<activation, retired>>

AuthorityNext ==
  \/ \E e \in Executables : Grant(e)
  \/ Discard
  \/ \E d \in Contracts : Publish(d)

AuthoritySpec == AuthorityInit /\ [][AuthorityNext]_authorityVars

=============================================================================
