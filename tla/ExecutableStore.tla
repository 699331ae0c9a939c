-------------------------- MODULE ExecutableStore --------------------------
(***************************************************************************)
(* The Executable Store: executables with their lifecycle row (Candidate,  *)
(* Active, Inactive, and a version), the admissions of analysis            *)
(* candidates, and the transactions that move runtime authority.  It       *)
(* shares one SQLite database with the Contract Store and reads its        *)
(* current pointer inside its own transactions.                            *)
(*                                                                         *)
(* The specification at the end is open: any caller may issue any          *)
(* transaction with any arguments at any time.  What holds here holds      *)
(* whatever the Contract Service does.                                     *)
(*                                                                         *)
(* An executable stands for its digest, which commits to its contract.     *)
(* Digests are naturals: the code compares and orders them.  A proposal    *)
(* stands for the whole identity of an admission (workspace, cycle,        *)
(* attempt, contract, executable, manifest) without its timestamp.         *)
(***************************************************************************)
EXTENDS ContractStore

CONSTANTS
  Executables,  \* executable digests
  ContractOf,   \* the contract digest an executable commits to
  Proposals,    \* admission identities
  CycleOf,      \* the (workspace, cycle) key of a proposal, ordered as naturals
  CandidateOf,  \* the executable a proposal submits
  Times,        \* clock readings; they may repeat and go backwards
  MaxVersion    \* bound on state_version (the code's bound is the i64 range)

ASSUME ExecutablesAssumption ==
  /\ Executables \subseteq Nat
  /\ ContractOf \in [Executables -> Contracts]
  /\ CycleOf \in [Proposals -> Nat]
  /\ CandidateOf \in [Proposals -> Executables]
  /\ Times \subseteq Nat
  /\ MaxVersion \in Nat

VARIABLES
  lifecycle_state,  \* decision_executables.lifecycle_state, "absent" without a row
  state_version,    \* decision_executables.state_version
  admissions        \* analysis_candidate_admissions

executableVars == <<lifecycle_state, state_version, admissions>>
storeVars == <<resources, versions, current, lifecycle_state, state_version, admissions>>

LifecycleStates == {"absent", "candidate", "active", "inactive"}
Admission == [proposal : Proposals, created_at : Times]

StoreTypeOK ==
  /\ ContractTypeOK
  /\ lifecycle_state \in [Executables -> LifecycleStates]
  /\ state_version \in [Executables -> 0..MaxVersion]
  /\ admissions \subseteq Admission

StoreInit ==
  /\ ContractInit
  /\ lifecycle_state = [e \in Executables |-> "absent"]
  /\ state_version = [e \in Executables |-> 0]
  /\ admissions = {}

-----------------------------------------------------------------------------
(* Reading the tables. *)

Active(d) ==
  {e \in Executables : ContractOf[e] = d /\ lifecycle_state[e] = "active"}

\* The lifecycle token a caller compares: the digest with its state version.
Token(e) == [executable |-> e, version |-> state_version[e]]
ActiveTokens(d) == {Token(e) : e \in Active(d)}

\* No token, or one: the values an expected-active argument can take.
ExpectedTokens ==
  {{}} \union {{[executable |-> e, version |-> v]} : e \in Executables, v \in 0..MaxVersion}

Executable(a) == CandidateOf[a.proposal]
Contract(a) == ContractOf[Executable(a)]
Name(a) == NameOf[Contract(a)]

\* Slip: the updates that retire pending candidates forget lifecycle_state.
PendingInAnyState(n) == {a \in admissions : Name(a) = n}

\* The admissions whose executable still waits for a resolution.
Pending(n) ==
  {a \in admissions : Name(a) = n /\ lifecycle_state[Executable(a)] = "candidate"}

\* ORDER BY created_at DESC, executable_digest DESC, workspace, cycle DESC.
Newer(a, b) ==
  \/ a.created_at > b.created_at
  \/ /\ a.created_at = b.created_at
     /\ \/ Executable(a) > Executable(b)
        \/ Executable(a) = Executable(b) /\ CycleOf[a.proposal] > CycleOf[b.proposal]

Newest(S) == {a \in S : \A b \in S : ~Newer(b, a)}

\* Pending executables of the name other than e, and those of contracts that
\* are not current: what a resolution sweeps away besides its own candidate.
Others(n, e) == {Executable(a) : a \in Pending(n)} \ {e}
Stale(n) == {Executable(a) : a \in {b \in Pending(n) : Contract(b) # current[n]}}

-----------------------------------------------------------------------------
(* Writing the lifecycle rows. *)

\* INSERT ... ON CONFLICT(executable_digest) DO NOTHING, as candidate version 0.
Insert(e) ==
  /\ lifecycle_state' =
       [lifecycle_state EXCEPT ![e] = IF @ = "absent" THEN "candidate" ELSE @]
  /\ UNCHANGED state_version

\* The executables of L become inactive, each with its version increased.
Retire(L) ==
  /\ \A x \in L : state_version[x] < MaxVersion
  /\ lifecycle_state' =
       [x \in Executables |-> IF x \in L THEN "inactive" ELSE lifecycle_state[x]]
  /\ state_version' =
       [x \in Executables |-> IF x \in L THEN state_version[x] + 1 ELSE state_version[x]]

\* e becomes active at version next, and the executables of L become inactive.
Install(e, next, L) ==
  /\ next <= MaxVersion
  /\ \A x \in L : state_version[x] < MaxVersion
  /\ lifecycle_state' =
       [x \in Executables |-> IF x = e THEN "active"
                              ELSE IF x \in L THEN "inactive" ELSE lifecycle_state[x]]
  /\ state_version' =
       [x \in Executables |-> IF x = e THEN next
                              ELSE IF x \in L THEN state_version[x] + 1 ELSE state_version[x]]

-----------------------------------------------------------------------------
(* Transactions: candidates and admissions. *)

PutCandidate(e) ==
  /\ Insert(e)
  /\ UNCHANGED <<contractVars, admissions>>

SameCycle(p) == {a \in admissions : CycleOf[a.proposal] = CycleOf[p]}

\* A first admission of the cycle, of an executable that is still a candidate.
Admit(p, t) ==
  /\ SameCycle(p) = {}
  /\ lifecycle_state[CandidateOf[p]] \in {"absent", "candidate"}
  /\ Insert(CandidateOf[p])
  /\ admissions' = admissions \union {[proposal |-> p, created_at |-> t]}
  /\ UNCHANGED contractVars

\* Every other submission leaves the tables alone: an exact retry replays the
\* original admission, a changed identity is an AdmissionConflict, and an
\* executable that was already resolved a LifecycleConflict.
AdmitUnchanged(p) ==
  /\ \/ SameCycle(p) # {}
     \/ lifecycle_state[CandidateOf[p]] \in {"active", "inactive"}
  /\ UNCHANGED storeVars

-----------------------------------------------------------------------------
(* Transactions: activation. *)

\* Slip: the previous active executable is not deactivated first.
ActivateBesideActive(e) ==
  /\ lifecycle_state[e] # "absent"
  /\ Install(e, state_version[e] + 1, {})
  /\ UNCHANGED <<contractVars, admissions>>

\* activate and activate_if_none once their expected digest has matched.  They
\* take an executable in any lifecycle state; the one already active is kept.
Activate(e) ==
  LET d == ContractOf[e]
  IN /\ lifecycle_state[e] # "absent"
     /\ \/ /\ e \in Active(d)
           /\ UNCHANGED <<lifecycle_state, state_version>>
        \/ /\ Active(d) = {}
           /\ Install(e, 1, {})
        \/ /\ e \notin Active(d)
           /\ \E a \in Active(d) : Install(e, state_version[a] + 1, Active(d))
     /\ UNCHANGED <<contractVars, admissions>>

\* Slip: the next version counts from the candidate's own.
SecondOf(m, n) == n

Larger(m, n) == IF m >= n THEN m ELSE n

\* activate_candidate: e still a candidate at the expected version, of the
\* current contract, and the active executable still the expected one.
CanActivateCandidate(e, v, expected) ==
  /\ lifecycle_state[e] = "candidate"
  /\ state_version[e] = v
  /\ current[NameOf[ContractOf[e]]] = ContractOf[e]
  /\ Active(ContractOf[e]) # {}
  /\ ActiveTokens(ContractOf[e]) = expected

ActivateCandidate(e, v, expected) ==
  /\ CanActivateCandidate(e, v, expected)
  /\ \E a \in Active(ContractOf[e]) :
       Install(e, Larger(state_version[a], v) + 1,
               Active(ContractOf[e]) \union Others(NameOf[ContractOf[e]], e))
  /\ UNCHANGED <<contractVars, admissions>>

-----------------------------------------------------------------------------
(* Transactions: the resolution of a pending candidate, from the snapshot    *)
(* [admission, version, active] that list_pending returned.                  *)

Snapshot(a) ==
  [admission |-> a,
   version   |-> state_version[Executable(a)],
   active    |-> ActiveTokens(Contract(a))]

\* The candidate is unchanged since the snapshot.
Unresolved(s) ==
  /\ lifecycle_state[Executable(s.admission)] = "candidate"
  /\ state_version[Executable(s.admission)] = s.version

IsCurrent(s) == current[Name(s.admission)] = Contract(s.admission)

\* The newest pending admission of the same contract submits this executable.
IsNewest(s) ==
  \E a \in Newest({b \in Pending(Name(s.admission)) : Contract(b) = Contract(s.admission)}) :
    Executable(a) = Executable(s.admission)

\* The current pointer moved: every pending candidate of another contract of
\* the name is retired with it.
ResolveSuperseded(s) ==
  /\ Unresolved(s) /\ ~IsCurrent(s)
  /\ Retire(Stale(Name(s.admission)))
  /\ UNCHANGED <<contractVars, admissions>>

ResolveRejected(s) ==
  /\ Unresolved(s) /\ IsCurrent(s) /\ IsNewest(s)
  /\ Retire({Executable(s.admission)}
            \union Others(Name(s.admission), Executable(s.admission)))
  /\ UNCHANGED <<contractVars, admissions>>

ResolveActivated(s) ==
  LET e == Executable(s.admission)
      d == Contract(s.admission)
      others == Others(Name(s.admission), e)
  IN /\ Unresolved(s) /\ IsCurrent(s) /\ IsNewest(s)
     /\ ActiveTokens(d) = s.active
     /\ \/ Active(d) = {} /\ Install(e, s.version + 1, others)
        \/ \E a \in Active(d) : Install(e, state_version[a] + 1, Active(d) \union others)
     /\ UNCHANGED <<contractVars, admissions>>

\* Already resolved, or yielded to a newer candidate or another activation.
ResolveUnchanged(s, action) ==
  /\ \/ ~Unresolved(s)
     \/ IsCurrent(s) /\ ~IsNewest(s)
     \/ /\ IsCurrent(s) /\ action = "activate"
        /\ ActiveTokens(Contract(s.admission)) # s.active
  /\ UNCHANGED storeVars

Resolve(s, action) ==
  \/ ResolveSuperseded(s)
  \/ action = "reject" /\ ResolveRejected(s)
  \/ action = "activate" /\ ResolveActivated(s)
  \/ ResolveUnchanged(s, action)

-----------------------------------------------------------------------------
(* The open store: any transaction, with any arguments. *)

Snapshots ==
  [admission : admissions, version : 0..MaxVersion, active : ExpectedTokens]

PutAny == \E d \in Contracts : Put(d) /\ UNCHANGED executableVars
SetCurrentAny == \E d \in Contracts : SetCurrent(d) /\ UNCHANGED executableVars
PutCandidateAny == \E e \in Executables : PutCandidate(e)
AdmitAny == \E p \in Proposals, t \in Times : Admit(p, t)
ActivateAny == \E e \in Executables : Activate(e)
ActivateCandidateAny ==
  \E e \in Executables, v \in 0..MaxVersion, expected \in ExpectedTokens :
    ActivateCandidate(e, v, expected)
ResolveSupersededAny == \E s \in Snapshots : ResolveSuperseded(s)
ResolveRejectedAny == \E s \in Snapshots : ResolveRejected(s)
ResolveActivatedAny == \E s \in Snapshots : ResolveActivated(s)

StoreNext ==
  \/ PutAny
  \/ SetCurrentAny
  \/ PutCandidateAny
  \/ AdmitAny
  \/ ActivateAny
  \/ ActivateCandidateAny
  \/ ResolveSupersededAny
  \/ ResolveRejectedAny
  \/ ResolveActivatedAny

StoreSpec == StoreInit /\ [][StoreNext]_storeVars

-----------------------------------------------------------------------------
(* What the store promises to every caller. *)

\* A contract has at most one active executable, whichever transactions
\* interleave (the partial unique index would turn a second one into an error).
OneActive == \A d \in Contracts : \A e, f \in Active(d) : e = f

\* Versions count lifecycle moves: a row is at version 0 exactly until it is
\* activated or retired for the first time.
FreshAtZero ==
  \A e \in Executables :
    state_version[e] = 0 <=> lifecycle_state[e] \in {"absent", "candidate"}

\* No retired executable is ahead of the active one of its contract, and one
\* retired before its contract had any authority is at version 1 at most.
RetiredBelowActive ==
  \A e \in Executables : lifecycle_state[e] = "inactive" =>
    /\ \A a \in Active(ContractOf[e]) : state_version[e] <= state_version[a]
    /\ Active(ContractOf[e]) = {} => state_version[e] <= 1

\* The inductive invariant of the lifecycle rows: uniqueness of the active
\* executable and the order of versions that the lifecycle tokens rely on.
StoreInvariant ==
  /\ StoreTypeOK
  /\ OneActive
  /\ FreshAtZero
  /\ RetiredBelowActive

\* Whichever scopes compete for a name, all its durable versions belong to the
\* scope that owns it, and the current pointer selects one of them.
NameAuthority ==
  /\ \A d \in versions : resources[NameOf[d]] = ScopeOf[d]
  /\ \A n \in Names : current[n] # None =>
       current[n] \in versions /\ NameOf[current[n]] = n

\* A lifecycle token names one tenure: the active executable keeps its version
\* while it is active, and a replacement of it takes a larger one.  A caller
\* that saw a token and finds the same token has missed no activation (no ABA).
TokensNameOneTenure ==
  [][\A d \in Contracts : \A a \in Active(d) : \A b \in Active(d)' :
       IF a = b THEN state_version'[b] = state_version[a]
                ELSE state_version'[b] > state_version[a]]_storeVars

\* A contract that has an active executable always has one: replacements are
\* atomic and no transaction only takes authority away.
AuthorityNeverLost ==
  [][\A d \in Contracts : Active(d) # {} => Active(d)' # {}]_storeVars

\* state_version of a row never decreases, also when a retired executable is
\* activated again with a version taken from the one it replaces.
VersionsNeverDecrease ==
  [][\A e \in Executables : state_version'[e] >= state_version[e]]_storeVars

=============================================================================
