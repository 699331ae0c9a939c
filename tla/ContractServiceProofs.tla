----------------------- MODULE ContractServiceProofs -----------------------
(***************************************************************************)
(* Proofs about the open Executable Store and the Contract Service, for     *)
(* every number of instances, names, requests, contracts, executables and   *)
(* proposals and every order of transactions.                               *)
(*                                                                         *)
(* First the store: every transaction changes the lifecycle rows in one of  *)
(* four shapes: it inserts a candidate, leaves them alone, retires          *)
(* candidates only, or installs an executable in place of the active one of *)
(* its contract.  The lemma StepShape reduces StoreNext to these shapes;    *)
(* each theorem then looks at four cases instead of nine transactions.      *)
(*                                                                         *)
(* Then the service, which is a client of the open store: each of its steps *)
(* is a store transaction or leaves the tables alone, so what is proved of  *)
(* StoreSpec holds of the service.                                         *)
(***************************************************************************)
EXTENDS ContractService, TLAPS

OnlyCandidates(L) == \A x \in L : lifecycle_state[x] = "candidate"

\* e replaces the active executable of its contract at version next, and L is
\* what leaves: the replaced one and candidates.
Replacement(e, next, L) ==
  /\ e \in Executables \ L
  /\ lifecycle_state[e] # "active"
  /\ L \subseteq Executables
  /\ Active(ContractOf[e]) \subseteq L
  /\ \A x \in L : lifecycle_state[x] = "candidate" \/ x \in Active(ContractOf[e])
  /\ next \in Nat \ {0}
  /\ \A a \in Active(ContractOf[e]) : next > state_version[a]

LifecycleUnchanged == UNCHANGED <<lifecycle_state, state_version>>

RetiresCandidates ==
  \E L \in SUBSET Executables : OnlyCandidates(L) /\ Retire(L)

Replaces ==
  \E e \in Executables, next \in Nat, L \in SUBSET Executables :
    Replacement(e, next, L) /\ Install(e, next, L)

Shape ==
  \/ \E e \in Executables : Insert(e)
  \/ LifecycleUnchanged
  \/ RetiresCandidates
  \/ Replaces

-----------------------------------------------------------------------------
(* The sets that a resolution sweeps away hold pending candidates only. *)

LEMMA SweptAreCandidates ==
  ASSUME StoreTypeOK, NEW n, NEW e
  PROVE  /\ Others(n, e) \subseteq Executables \ {e}
         /\ Stale(n) \subseteq Executables
         /\ OnlyCandidates(Others(n, e))
         /\ OnlyCandidates(Stale(n))
  BY ExecutablesAssumption
  DEF StoreTypeOK, Admission, Others, Stale, Pending, Executable, OnlyCandidates

LEMMA SnapshotsTyped ==
  ASSUME StoreTypeOK, NEW s \in Snapshots
  PROVE  /\ Executable(s.admission) \in Executables
         /\ s.version \in Nat
  BY ExecutablesAssumption DEF StoreTypeOK, Snapshots, Admission, Executable

\* A transaction that installs e over the active executable, at a version
\* above its own, has the shape of a replacement.
LEMMA InstallReplaces ==
  ASSUME StoreInvariant,
         NEW e \in Executables, lifecycle_state[e] # "active",
         NEW next \in Nat, next > 0,
         \A a \in Active(ContractOf[e]) : next > state_version[a],
         NEW L \in SUBSET Executables, e \notin L, OnlyCandidates(L),
         Install(e, next, Active(ContractOf[e]) \union L)
  PROVE  Replaces
<1> DEFINE M == Active(ContractOf[e]) \union L
<1>1. M \in SUBSET Executables
  BY DEF Active
<1>2. e \notin M
  BY DEF Active
<1>3. Replacement(e, next, M)
  BY <1>1, <1>2 DEF Replacement, OnlyCandidates
<1> QED
  BY <1>1, <1>3 DEF Replaces

\* The versions of active executables are positive naturals.
LEMMA ActiveVersions ==
  ASSUME StoreInvariant, NEW d, NEW a \in Active(d)
  PROVE  /\ a \in Executables
         /\ state_version[a] \in Nat \ {0}
         /\ \A b \in Active(ContractOf[a]) : b = a
<1>1. a \in Executables /\ lifecycle_state[a] = "active"
  BY DEF Active
<1>2. state_version[a] \in Nat \ {0}
  BY <1>1 DEF StoreInvariant, StoreTypeOK, FreshAtZero
<1>3. a \in Active(ContractOf[a]) /\ ContractOf[a] \in Contracts
  BY <1>1, ExecutablesAssumption DEF Active
<1> QED
  BY <1>1, <1>2, <1>3 DEF StoreInvariant, OneActive

\* Every transaction of the store has one of the four shapes.
LEMMA StepShape ==
  ASSUME StoreInvariant, StoreNext
  PROVE  Shape
<1> USE DEF StoreInvariant
<1>1. CASE PutAny
  BY <1>1 DEF PutAny, Shape, LifecycleUnchanged, executableVars
<1>2. CASE SetCurrentAny
  BY <1>2 DEF SetCurrentAny, Shape, LifecycleUnchanged, executableVars
<1>3. CASE PutCandidateAny
  BY <1>3 DEF PutCandidateAny, PutCandidate, Shape
<1>4. CASE AdmitAny
  BY <1>4, ExecutablesAssumption DEF AdmitAny, Admit, Shape
<1>5. CASE ActivateAny
  <2>1. PICK e \in Executables : Activate(e)
    BY <1>5 DEF ActivateAny
  <2>2. CASE e \in Active(ContractOf[e]) /\ UNCHANGED <<lifecycle_state, state_version>>
    BY <2>2 DEF Shape, LifecycleUnchanged
  <2>3. CASE Active(ContractOf[e]) = {} /\ Install(e, 1, {})
    <3>1. lifecycle_state[e] # "active"
      BY <2>3 DEF Active
    <3>2. Install(e, 1, Active(ContractOf[e]) \union {})
      BY <2>3
    <3> QED
      BY <2>3, <3>1, <3>2, InstallReplaces DEF OnlyCandidates, Shape
  <2>4. CASE /\ e \notin Active(ContractOf[e])
             /\ \E a \in Active(ContractOf[e]) :
                  Install(e, state_version[a] + 1, Active(ContractOf[e]))
    <3>1. PICK a \in Active(ContractOf[e]) :
            Install(e, state_version[a] + 1, Active(ContractOf[e]))
      BY <2>4
    <3>2. /\ state_version[a] \in Nat
          /\ \A b \in Active(ContractOf[e]) : b = a
      BY <3>1, ActiveVersions DEF Active
    <3>3. lifecycle_state[e] # "active"
      BY <2>4 DEF Active
    <3>4. Install(e, state_version[a] + 1, Active(ContractOf[e]) \union {})
      BY <3>1
    <3>5. \A b \in Active(ContractOf[e]) : state_version[a] + 1 > state_version[b]
      BY <3>2
    <3>6. state_version[a] + 1 \in Nat /\ state_version[a] + 1 > 0
      BY <3>2
    <3>7. {} \in SUBSET Executables /\ e \notin {} /\ OnlyCandidates({})
      BY DEF OnlyCandidates
    <3> QED
      BY <2>1, <3>3, <3>4, <3>5, <3>6, <3>7, InstallReplaces DEF Shape
  <2> QED
    BY <2>1, <2>2, <2>3, <2>4 DEF Activate
<1>6. CASE ActivateCandidateAny
  <2>1. PICK e \in Executables, v \in 0..MaxVersion, expected \in ExpectedTokens :
          ActivateCandidate(e, v, expected)
    BY <1>6 DEF ActivateCandidateAny
  <2> DEFINE L == Others(NameOf[ContractOf[e]], e)
  <2>2. lifecycle_state[e] # "active"
    BY <2>1 DEF ActivateCandidate, CanActivateCandidate
  <2>3. PICK a \in Active(ContractOf[e]) :
          Install(e, Larger(state_version[a], v) + 1, Active(ContractOf[e]) \union L)
    BY <2>1 DEF ActivateCandidate
  <2>4. /\ state_version[a] \in Nat
        /\ \A b \in Active(ContractOf[e]) : b = a
    BY <2>3, ActiveVersions DEF Active
  <2>5. /\ Larger(state_version[a], v) + 1 \in Nat
        /\ Larger(state_version[a], v) + 1 > 0
        /\ Larger(state_version[a], v) + 1 > state_version[a]
    BY <2>4, ExecutablesAssumption DEF Larger
  <2>6. \A b \in Active(ContractOf[e]) : Larger(state_version[a], v) + 1 > state_version[b]
    BY <2>4, <2>5
  <2>7. L \in SUBSET Executables /\ e \notin L /\ OnlyCandidates(L)
    BY SweptAreCandidates
  <2> QED
    BY <2>2, <2>3, <2>5, <2>6, <2>7, InstallReplaces DEF Shape
<1>7. CASE ResolveSupersededAny
  <2>1. PICK s \in Snapshots : ResolveSuperseded(s)
    BY <1>7 DEF ResolveSupersededAny
  <2> DEFINE L == Stale(Name(s.admission))
  <2>2. L \in SUBSET Executables /\ OnlyCandidates(L)
    BY SweptAreCandidates
  <2>3. Retire(L)
    BY <2>1 DEF ResolveSuperseded
  <2> QED
    BY <2>2, <2>3 DEF Shape, RetiresCandidates
<1>8. CASE ResolveRejectedAny
  <2>1. PICK s \in Snapshots : ResolveRejected(s)
    BY <1>8 DEF ResolveRejectedAny
  <2> DEFINE e == Executable(s.admission)
             L == {e} \union Others(Name(s.admission), e)
  <2>2. e \in Executables /\ lifecycle_state[e] = "candidate"
    BY <2>1, SnapshotsTyped DEF ResolveRejected, Unresolved
  <2>3. L \in SUBSET Executables /\ OnlyCandidates(L)
    BY <2>2, SweptAreCandidates DEF OnlyCandidates
  <2>4. Retire(L)
    BY <2>1 DEF ResolveRejected
  <2> QED
    BY <2>3, <2>4 DEF Shape, RetiresCandidates
<1>9. CASE ResolveActivatedAny
  <2>1. PICK s \in Snapshots : ResolveActivated(s)
    BY <1>9 DEF ResolveActivatedAny
  <2> DEFINE e == Executable(s.admission)
             d == ContractOf[e]
             L == Others(Name(s.admission), e)
  <2>2. /\ e \in Executables
        /\ s.version \in Nat
        /\ lifecycle_state[e] # "active"
    BY <2>1, SnapshotsTyped DEF ResolveActivated, Unresolved
  <2>3. L \in SUBSET Executables /\ e \notin L /\ OnlyCandidates(L)
    BY SweptAreCandidates
  <2>4. CASE Active(d) = {} /\ Install(e, s.version + 1, L)
    <3>1. Install(e, s.version + 1, Active(d) \union L)
      BY <2>4
    <3> QED
      BY <2>2, <2>3, <2>4, <3>1, InstallReplaces DEF Shape
  <2>5. CASE \E a \in Active(d) : Install(e, state_version[a] + 1, Active(d) \union L)
    <3>1. PICK a \in Active(d) : Install(e, state_version[a] + 1, Active(d) \union L)
      BY <2>5
    <3>2. /\ state_version[a] \in Nat
          /\ \A b \in Active(d) : b = a
      BY <3>1, ActiveVersions DEF Active
    <3>3. \A b \in Active(d) : state_version[a] + 1 > state_version[b]
      BY <3>2
    <3>4. state_version[a] + 1 \in Nat /\ state_version[a] + 1 > 0
      BY <3>2
    <3> QED
      BY <2>2, <2>3, <3>1, <3>3, <3>4, InstallReplaces DEF Shape
  <2> QED
    BY <2>1, <2>4, <2>5 DEF ResolveActivated, Contract
<1> QED
  BY <1>1, <1>2, <1>3, <1>4, <1>5, <1>6, <1>7, <1>8, <1>9 DEF StoreNext

-----------------------------------------------------------------------------
(* Each shape keeps what the invariant says of the lifecycle rows. *)

LifecycleOK ==
  /\ lifecycle_state \in [Executables -> LifecycleStates]
  /\ state_version \in [Executables -> 0..MaxVersion]
  /\ OneActive
  /\ FreshAtZero
  /\ RetiredBelowActive

LEMMA InsertKeepsLifecycle ==
  ASSUME LifecycleOK, NEW e \in Executables, Insert(e)
  PROVE  LifecycleOK'
<1>1. /\ lifecycle_state' \in [Executables -> LifecycleStates]
      /\ state_version' = state_version
  BY DEF LifecycleOK, Insert, LifecycleStates
<1>2. \A x \in Executables :
        \/ lifecycle_state'[x] = lifecycle_state[x]
        \/ lifecycle_state[x] = "absent" /\ lifecycle_state'[x] = "candidate"
  BY DEF LifecycleOK, Insert
<1>3. \A d : Active(d)' = Active(d)
  BY <1>2 DEF Active
<1>4. OneActive'
  BY <1>3 DEF LifecycleOK, OneActive
<1>5. FreshAtZero'
  BY <1>1, <1>2 DEF LifecycleOK, FreshAtZero
<1>6. RetiredBelowActive'
  BY <1>1, <1>2, <1>3 DEF LifecycleOK, RetiredBelowActive
<1> QED
  BY <1>1, <1>4, <1>5, <1>6 DEF LifecycleOK

LEMMA RetireKeepsLifecycle ==
  ASSUME LifecycleOK, NEW L \in SUBSET Executables, OnlyCandidates(L), Retire(L)
  PROVE  LifecycleOK'
<1>1. /\ lifecycle_state' \in [Executables -> LifecycleStates]
      /\ state_version' \in [Executables -> 0..MaxVersion]
  <2>1. lifecycle_state' \in [Executables -> LifecycleStates]
    BY DEF LifecycleOK, Retire, LifecycleStates
  <2>2. ASSUME NEW x \in Executables
        PROVE  state_version'[x] \in 0..MaxVersion
    BY ExecutablesAssumption DEF LifecycleOK, Retire
  <2> QED
    BY <2>1, <2>2 DEF Retire
<1>2. \A x \in L : /\ lifecycle_state[x] = "candidate"
                   /\ lifecycle_state'[x] = "inactive"
                   /\ state_version[x] = 0
                   /\ state_version'[x] = 1
  BY DEF LifecycleOK, FreshAtZero, OnlyCandidates, Retire
<1>3. \A x \in Executables \ L : /\ lifecycle_state'[x] = lifecycle_state[x]
                                 /\ state_version'[x] = state_version[x]
  BY DEF LifecycleOK, Retire
<1>4. \A d : Active(d)' = Active(d) /\ Active(d) \subseteq Executables \ L
  BY <1>2, <1>3 DEF Active
<1>5. OneActive'
  BY <1>4 DEF LifecycleOK, OneActive
<1>6. FreshAtZero'
  BY <1>2, <1>3 DEF LifecycleOK, FreshAtZero
<1>7. RetiredBelowActive'
  <2> SUFFICES ASSUME NEW x \in Executables, lifecycle_state'[x] = "inactive"
               PROVE  /\ \A a \in Active(ContractOf[x]) : state_version'[x] <= state_version'[a]
                      /\ Active(ContractOf[x]) = {} => state_version'[x] <= 1
    BY <1>4 DEF RetiredBelowActive
  <2>1. CASE x \in L
    <3>1. \A a \in Active(ContractOf[x]) : state_version[a] \in Nat \ {0}
      BY DEF LifecycleOK, FreshAtZero, Active
    <3> QED
      BY <2>1, <3>1, <1>2, <1>3, <1>4
  <2>2. CASE x \notin L
    BY <2>2, <1>3, <1>4 DEF LifecycleOK, RetiredBelowActive
  <2> QED
    BY <2>1, <2>2
<1> QED
  BY <1>1, <1>5, <1>6, <1>7 DEF LifecycleOK

LEMMA InstallKeepsLifecycle ==
  ASSUME LifecycleOK, NEW e \in Executables, NEW next \in Nat, NEW L \in SUBSET Executables,
         Replacement(e, next, L), Install(e, next, L)
  PROVE  LifecycleOK'
<1> DEFINE d == ContractOf[e]
<1>1. /\ lifecycle_state' \in [Executables -> LifecycleStates]
      /\ state_version' \in [Executables -> 0..MaxVersion]
  <2>1. lifecycle_state' \in [Executables -> LifecycleStates]
    BY DEF LifecycleOK, Install, LifecycleStates
  <2>2. ASSUME NEW x \in Executables
        PROVE  state_version'[x] \in 0..MaxVersion
    BY ExecutablesAssumption DEF LifecycleOK, Install
  <2> QED
    BY <2>1, <2>2 DEF Install
<1>2. lifecycle_state'[e] = "active" /\ state_version'[e] = next
  BY DEF Install
<1>3. \A x \in L : /\ lifecycle_state'[x] = "inactive"
                   /\ state_version'[x] = state_version[x] + 1
  BY DEF Install, Replacement
<1>4. \A x \in Executables \ (L \union {e}) :
        /\ lifecycle_state'[x] = lifecycle_state[x]
        /\ state_version'[x] = state_version[x]
  BY DEF LifecycleOK, Install
<1>5. \A x \in L : \/ /\ lifecycle_state[x] = "candidate"
                     /\ state_version[x] = 0
                  \/ /\ x \in Active(d)
                     /\ state_version[x] \in Nat \ {0}
                     /\ state_version[x] < next
  BY DEF LifecycleOK, FreshAtZero, Replacement, Active
<1>6. Active(d)' = {e}
  BY <1>2, <1>3, <1>4 DEF Active, Replacement
<1>7. \A c : c # d => Active(c)' = Active(c) /\ Active(c) \subseteq Executables \ (L \union {e})
  BY <1>2, <1>3, <1>4, <1>5 DEF Active, Replacement
<1>8. OneActive'
  BY <1>6, <1>7 DEF LifecycleOK, OneActive
<1>9. FreshAtZero'
  BY <1>2, <1>3, <1>4, <1>5 DEF LifecycleOK, FreshAtZero, Replacement
<1>10. RetiredBelowActive'
  <2> SUFFICES ASSUME NEW x \in Executables, lifecycle_state'[x] = "inactive"
               PROVE  /\ \A a \in Active(ContractOf[x])' : state_version'[x] <= state_version'[a]
                      /\ Active(ContractOf[x])' = {} => state_version'[x] <= 1
    BY DEF RetiredBelowActive
  <2>1. x # e
    BY <1>2
  <2>2. CASE ContractOf[x] = d
    <3>1. state_version'[x] <= next
      <4>1. CASE x \in L
        BY <4>1, <1>3, <1>5 DEF Replacement
      <4>2. CASE x \notin L
        <5>1. /\ lifecycle_state[x] = "inactive"
              /\ state_version'[x] = state_version[x]
          BY <2>1, <4>2, <1>4
        <5>2. \/ Active(d) = {} /\ state_version[x] <= 1
              \/ \E a \in Active(d) : state_version[x] <= state_version[a]
          BY <2>2, <5>1 DEF LifecycleOK, RetiredBelowActive
        <5>3. \A a \in Active(d) : state_version[a] \in Nat /\ state_version[a] < next
          BY DEF LifecycleOK, Replacement, Active
        <5>4. state_version[x] \in Nat /\ next >= 1
          BY DEF LifecycleOK, Replacement
        <5> QED
          BY <5>1, <5>2, <5>3, <5>4
      <4> QED
        BY <4>1, <4>2
    <3> QED
      BY <2>2, <3>1, <1>2, <1>6
  <2>3. CASE ContractOf[x] # d
    <3>1. Active(ContractOf[x])' = Active(ContractOf[x])
      BY <2>3, <1>7
    <3>2. \A a \in Active(ContractOf[x]) :
            /\ state_version'[a] = state_version[a]
            /\ state_version[a] \in Nat \ {0}
      BY <2>3, <1>4, <1>7 DEF LifecycleOK, FreshAtZero, Active
    <3>3. CASE x \in L
      <4>1. x \notin Active(d)
        BY <2>3 DEF Active
      <4>2. state_version'[x] = 1
        BY <3>3, <4>1, <1>3, <1>5
      <4> QED
        BY <3>1, <3>2, <4>2
    <3>4. CASE x \notin L
      <4>1. /\ lifecycle_state[x] = "inactive"
            /\ state_version'[x] = state_version[x]
        BY <2>1, <3>4, <1>4
      <4> QED
        BY <3>1, <3>2, <4>1 DEF LifecycleOK, RetiredBelowActive
    <3> QED
      BY <3>3, <3>4
  <2> QED
    BY <2>2, <2>3
<1> QED
  BY <1>1, <1>8, <1>9, <1>10 DEF LifecycleOK

LEMMA ShapeKeepsLifecycle ==
  ASSUME LifecycleOK, Shape
  PROVE  LifecycleOK'
<1>1. CASE \E e \in Executables : Insert(e)
  BY <1>1, InsertKeepsLifecycle
<1>2. CASE LifecycleUnchanged
  BY <1>2 DEF LifecycleUnchanged, LifecycleOK, OneActive, FreshAtZero, RetiredBelowActive, Active
<1>3. CASE RetiresCandidates
  BY <1>3, RetireKeepsLifecycle DEF RetiresCandidates
<1>4. CASE Replaces
  BY <1>4, InstallKeepsLifecycle DEF Replaces
<1> QED
  BY <1>1, <1>2, <1>3, <1>4 DEF Shape

-----------------------------------------------------------------------------
(* The contract tables and the admissions keep their types. *)

LEMMA TablesTyped ==
  ASSUME StoreTypeOK, StoreNext
  PROVE  ContractTypeOK' /\ (admissions \subseteq Admission)'
<1> USE DEF StoreTypeOK, ContractTypeOK, contractVars, executableVars
<1>1. CASE PutAny
  BY <1>1, ContractsAssumption DEF PutAny, Put
<1>2. CASE SetCurrentAny
  BY <1>2, ContractsAssumption DEF SetCurrentAny, SetCurrent
<1>3. CASE PutCandidateAny
  BY <1>3 DEF PutCandidateAny, PutCandidate
<1>4. CASE AdmitAny
  BY <1>4 DEF AdmitAny, Admit, Admission
<1>5. CASE ActivateAny
  BY <1>5 DEF ActivateAny, Activate
<1>6. CASE ActivateCandidateAny
  BY <1>6 DEF ActivateCandidateAny, ActivateCandidate
<1>7. CASE ResolveSupersededAny
  BY <1>7 DEF ResolveSupersededAny, ResolveSuperseded
<1>8. CASE ResolveRejectedAny
  BY <1>8 DEF ResolveRejectedAny, ResolveRejected
<1>9. CASE ResolveActivatedAny
  BY <1>9 DEF ResolveActivatedAny, ResolveActivated
<1> QED
  BY <1>1, <1>2, <1>3, <1>4, <1>5, <1>6, <1>7, <1>8, <1>9 DEF StoreNext

LEMMA InvariantSplits ==
  StoreInvariant <=> ContractTypeOK /\ admissions \subseteq Admission /\ LifecycleOK
  BY DEF StoreInvariant, StoreTypeOK, LifecycleOK

LEMMA InvariantStep ==
  StoreInvariant /\ [StoreNext]_storeVars => StoreInvariant'
<1> SUFFICES ASSUME StoreInvariant, [StoreNext]_storeVars
             PROVE  StoreInvariant'
  OBVIOUS
<1>1. CASE StoreNext
  <2>1. Shape
    BY <1>1, StepShape
  <2>2. LifecycleOK'
    BY <2>1, InvariantSplits, ShapeKeepsLifecycle
  <2>3. ContractTypeOK' /\ (admissions \subseteq Admission)'
    BY <1>1, TablesTyped DEF StoreInvariant
  <2> QED
    BY <2>2, <2>3 DEF StoreInvariant, StoreTypeOK, LifecycleOK
<1>2. CASE UNCHANGED storeVars
  BY <1>2 DEF storeVars, StoreInvariant, StoreTypeOK, ContractTypeOK, OneActive,
              FreshAtZero, RetiredBelowActive, Active
<1> QED
  BY <1>1, <1>2

\* Whatever transactions interleave, a contract has at most one active
\* executable, versions count lifecycle moves, and no retired executable is
\* ahead of the active one: put_candidate, put_analysis_candidate, activate,
\* activate_if_none, activate_candidate and resolve keep the invariant.
THEOREM StoreInvariantHolds == StoreSpec => []StoreInvariant
<1>1. StoreInit => StoreInvariant
  BY ContractsAssumption, ExecutablesAssumption
  DEF StoreInit, ContractInit, StoreInvariant, StoreTypeOK, ContractTypeOK, LifecycleStates,
      OneActive, FreshAtZero, RetiredBelowActive, Active
<1> QED
  BY <1>1, InvariantStep, PTL DEF StoreSpec

\* Whichever scopes compete, put and set_current keep every durable version of
\* a name, and so its current one, in the scope that owns the name.
THEOREM NameAuthorityHolds == StoreSpec => []NameAuthority
<1> DEFINE Inv == ContractTypeOK /\ NameAuthority
<1>1. StoreInit => Inv
  BY ContractsAssumption DEF StoreInit, ContractInit, ContractTypeOK, NameAuthority
<1>2. Inv /\ [StoreNext]_storeVars => Inv'
  <2> SUFFICES ASSUME Inv, [StoreNext]_storeVars
               PROVE  Inv'
    OBVIOUS
  <2> USE DEF ContractTypeOK, NameAuthority
  <2>1. CASE PutAny
    <3>1. PICK c \in Contracts : Put(c)
      BY <2>1 DEF PutAny
    <3>2. /\ resources' \in [Names -> Scopes \union {None}]
          /\ versions' = versions \union {c}
          /\ current' = current
          /\ NameOf[c] \in Names /\ ScopeOf[c] \in Scopes
          /\ resources'[NameOf[c]] = ScopeOf[c]
          /\ \A n \in Names : n # NameOf[c] => resources'[n] = resources[n]
          /\ resources[NameOf[c]] \in {None, ScopeOf[c]}
      BY <3>1, ContractsAssumption DEF Put, Owns
    <3>3. ASSUME NEW v \in versions'
          PROVE  resources'[NameOf[v]] = ScopeOf[v]
      <4>1. CASE v = c
        BY <4>1, <3>2
      <4>2. CASE v \in versions
        <5>1. /\ resources[NameOf[v]] = ScopeOf[v]
              /\ NameOf[v] \in Names
              /\ ScopeOf[v] # None
          BY <4>2, ContractsAssumption
        <5>2. CASE NameOf[v] = NameOf[c]
          BY <5>1, <5>2, <3>2
        <5>3. CASE NameOf[v] # NameOf[c]
          BY <5>1, <5>3, <3>2
        <5> QED
          BY <5>2, <5>3
      <4> QED
        BY <3>2, <4>1, <4>2
    <3> QED
      BY <3>2, <3>3
  <2>2. CASE SetCurrentAny
    BY <2>2, ContractsAssumption DEF SetCurrentAny, SetCurrent
  <2>3. CASE UNCHANGED <<resources, versions, current>>
    BY <2>3
  <2> QED
    BY <2>1, <2>2, <2>3
    DEF StoreNext, storeVars, contractVars, PutCandidateAny, PutCandidate, AdmitAny, Admit,
        ActivateAny, Activate, ActivateCandidateAny, ActivateCandidate,
        ResolveSupersededAny, ResolveSuperseded, ResolveRejectedAny, ResolveRejected,
        ResolveActivatedAny, ResolveActivated
<1> QED
  BY <1>1, <1>2, PTL DEF StoreSpec

-----------------------------------------------------------------------------
(* The action properties: each shape has them, in a state of the invariant. *)

\* The active executable of a contract keeps its version while it is active,
\* and what replaces it has a larger one.
TenureStep ==
  \A d \in Contracts : \A a \in Active(d) : \A b \in Active(d)' :
    IF a = b THEN state_version'[b] = state_version[a]
             ELSE state_version'[b] > state_version[a]

AuthorityStep == \A d \in Contracts : Active(d) # {} => Active(d)' # {}

VersionStep == \A e \in Executables : state_version'[e] >= state_version[e]

LEMMA ActiveUnlessReplaced ==
  ASSUME StoreInvariant, NEW d, Active(d)' = Active(d),
         \A a \in Active(d) : state_version'[a] = state_version[a]
  PROVE  \A a \in Active(d) : \A b \in Active(d)' : a = b /\ state_version'[b] = state_version[a]
<1>1. \A a, b \in Active(d) : ContractOf[a] = d /\ ContractOf[b] = d /\ d \in Contracts
  BY ExecutablesAssumption DEF Active
<1> QED
  BY <1>1 DEF StoreInvariant, OneActive

LEMMA ShapeSteps ==
  ASSUME StoreInvariant, Shape
  PROVE  TenureStep /\ AuthorityStep /\ VersionStep
<1> USE DEF TenureStep, AuthorityStep, VersionStep
<1>0. state_version \in [Executables -> 0..MaxVersion]
  BY DEF StoreInvariant, StoreTypeOK
<1>1. CASE \E e \in Executables : Insert(e)
  <2>1. state_version' = state_version
    BY <1>1 DEF Insert
  <2>2. \A d : Active(d)' = Active(d)
    BY <1>1 DEF Insert, Active, StoreInvariant, StoreTypeOK
  <2> QED
    BY <2>1, <2>2, <1>0, ActiveUnlessReplaced
<1>2. CASE LifecycleUnchanged
  <2>1. state_version' = state_version /\ \A d : Active(d)' = Active(d)
    BY <1>2 DEF LifecycleUnchanged, Active
  <2> QED
    BY <2>1, <1>0, ActiveUnlessReplaced
<1>3. CASE RetiresCandidates
  <2>1. PICK L \in SUBSET Executables : OnlyCandidates(L) /\ Retire(L)
    BY <1>3 DEF RetiresCandidates
  <2>2. \A d : /\ Active(d)' = Active(d)
             /\ \A a \in Active(d) : state_version'[a] = state_version[a]
    BY <2>1 DEF OnlyCandidates, Retire, Active
  <2>3. VersionStep
    BY <2>1, <1>0 DEF Retire
  <2> QED
    BY <2>2, <2>3, ActiveUnlessReplaced
<1>4. CASE Replaces
  <2>1. PICK e \in Executables, next \in Nat, L \in SUBSET Executables :
          Replacement(e, next, L) /\ Install(e, next, L)
    BY <1>4 DEF Replaces
  <2>2. Active(ContractOf[e])' = {e}
    BY <2>1 DEF Replacement, Install, Active
  <2>3. \A d : d # ContractOf[e] =>
          /\ Active(d)' = Active(d)
          /\ \A a \in Active(d) : state_version'[a] = state_version[a]
    BY <2>1 DEF Replacement, Install, Active
  <2>4. \A a \in Active(ContractOf[e]) : a # e /\ state_version'[e] > state_version[a]
    BY <2>1 DEF Replacement, Install, Active
  <2>5. next >= state_version[e]
    <3>1. CASE lifecycle_state[e] = "inactive"
      <4>1. \/ Active(ContractOf[e]) = {} /\ state_version[e] <= 1
            \/ \E a \in Active(ContractOf[e]) :
                 state_version[e] <= state_version[a] /\ a \in Executables
        BY <3>1 DEF StoreInvariant, RetiredBelowActive, Active
      <4> QED
        BY <4>1, <2>1, <1>0 DEF Replacement
    <3>2. CASE lifecycle_state[e] # "inactive"
      BY <3>2, <2>1, <1>0 DEF StoreInvariant, StoreTypeOK, FreshAtZero, Replacement, LifecycleStates
    <3> QED
      BY <3>1, <3>2
  <2>6. VersionStep
    BY <2>1, <2>5, <1>0 DEF Install, Replacement
  <2> QED
    BY <2>2, <2>3, <2>4, <2>6, ActiveUnlessReplaced
<1> QED
  BY <1>1, <1>2, <1>3, <1>4 DEF Shape

LEMMA StepProperties ==
  StoreInvariant /\ [StoreNext]_storeVars =>
    [TenureStep /\ AuthorityStep /\ VersionStep]_storeVars
  BY StepShape, ShapeSteps

\* A caller that saw a lifecycle token and finds the same token active has
\* missed no activation: activate, activate_candidate and resolve never give
\* a version back to a contract that has moved on.
THEOREM TokensNameOneTenureHolds == StoreSpec => TokensNameOneTenure
  BY StoreInvariantHolds, StepProperties, PTL
  DEF StoreSpec, TokensNameOneTenure, TenureStep

\* No transaction leaves a contract without an active executable once it had
\* one, whatever its arguments.
THEOREM AuthorityNeverLostHolds == StoreSpec => AuthorityNeverLost
  BY StoreInvariantHolds, StepProperties, PTL
  DEF StoreSpec, AuthorityNeverLost, AuthorityStep

\* The state version of an executable never decreases, also when activate
\* takes a retired executable back.
THEOREM VersionsNeverDecreaseHolds == StoreSpec => VersionsNeverDecrease
  BY StoreInvariantHolds, StepProperties, PTL
  DEF StoreSpec, VersionsNeverDecrease, VersionStep

-----------------------------------------------------------------------------
(* The Contract Service *)

LEMMA DeployTyped ==
  ASSUME ServiceTypeOK, NEW s \in Slots, request[s].pc \in DeploySteps
  PROVE  /\ request[s].contract \in Contracts
         /\ request[s] \in [pc : DeploySteps, contract : Contracts]
  BY DEF ServiceTypeOK, DeploySteps, SubmitSteps, Idle

LEMMA SubmitTyped ==
  ASSUME ServiceTypeOK, NEW s \in Slots, request[s].pc \in SubmitSteps
  PROVE  /\ request[s].admission \in Admission
         /\ request[s] \in [pc : SubmitSteps, admission : Admission]
  BY DEF ServiceTypeOK, DeploySteps, SubmitSteps, Idle

LEMMA PageTyped ==
  ASSUME ServiceTypeOK, NEW i \in Instances, NEW s \in First(worker[i].page)
  PROVE  s \in Snapshots
  BY DEF ServiceTypeOK, First

\* The tokens a handler or the worker compares are tokens a caller can send.
LEMMA TokensTyped ==
  ASSUME StoreInvariant, NEW d \in Contracts
  PROVE  ActiveTokens(d) \in ExpectedTokens
<1>1. CASE Active(d) = {}
  BY <1>1 DEF ActiveTokens, ExpectedTokens
<1>2. CASE \E a \in Executables : Active(d) = {a}
  <2>1. PICK a \in Executables : Active(d) = {a}
    BY <1>2
  <2>2. ActiveTokens(d) = {Token(a)}
    BY <2>1 DEF ActiveTokens
  <2>3. state_version[a] \in 0..MaxVersion
    BY DEF StoreInvariant, StoreTypeOK
  <2> QED
    BY <2>2, <2>3 DEF ExpectedTokens, Token
<1> QED
  BY <1>1, <1>2 DEF StoreInvariant, OneActive, Active

LEMMA SnapshotTyped ==
  ASSUME StoreInvariant, NEW a \in admissions
  PROVE  Snapshot(a) \in Snapshots
<1>1. Executable(a) \in Executables /\ Contract(a) \in Contracts
  BY ExecutablesAssumption DEF StoreInvariant, StoreTypeOK, Admission, Executable, Contract
<1>2. state_version[Executable(a)] \in 0..MaxVersion
  BY <1>1 DEF StoreInvariant, StoreTypeOK
<1>3. ActiveTokens(Contract(a)) \in ExpectedTokens
  BY <1>1, TokensTyped
<1> QED
  BY <1>2, <1>3 DEF Snapshot, Snapshots

LEMMA ServiceStepIsStoreStep ==
  ASSUME ServiceTypeOK, StoreInvariant, ServiceNext
  PROVE  StoreNext \/ UNCHANGED storeVars
<1>1. ASSUME NEW s \in Slots, NEW d \in Contracts, DeployPut(s, d)
      PROVE  PutAny
  BY <1>1 DEF DeployPut, PutAny
<1>2. ASSUME NEW s \in Slots, DeployPutDefault(s)
      PROVE  PutCandidateAny
  BY <1>2, DeployTyped, ServiceAssumption DEF DeployPutDefault, PutCandidateAny, DeploySteps
<1>3. ASSUME NEW s \in Slots, DeployPutAuthored(s)
      PROVE  PutCandidateAny
  BY <1>3, DeployTyped, ServiceAssumption DEF DeployPutAuthored, PutCandidateAny, DeploySteps
<1>4. ASSUME NEW s \in Slots, DeployActivateDefault(s)
      PROVE  ActivateAny \/ UNCHANGED storeVars
  BY <1>4, DeployTyped, ServiceAssumption
  DEF DeployActivateDefault, Bootstrap, ActivateAny, DeploySteps
<1>5. ASSUME NEW s \in Slots, DeployActivateAuthored(s)
      PROVE  ActivateAny \/ UNCHANGED storeVars
  BY <1>5, DeployTyped, ServiceAssumption
  DEF DeployActivateAuthored, Bootstrap, ActivateAny, DeploySteps
<1>6. ASSUME NEW s \in Slots, DeployPublish(s)
      PROVE  SetCurrentAny
  BY <1>6, DeployTyped DEF DeployPublish, SetCurrentAny, DeploySteps
<1>7. ASSUME NEW s \in Slots, SubmitAdmit(s)
      PROVE  AdmitAny \/ UNCHANGED storeVars
  BY <1>7, SubmitTyped DEF SubmitAdmit, AdmitAny, AdmitUnchanged, SubmitSteps, Admission
<1>8. ASSUME NEW e \in Executables, OperatorActivate(e)
      PROVE  ActivateCandidateAny
  <2>1. state_version[e] \in 0..MaxVersion
    BY DEF StoreInvariant, StoreTypeOK
  <2>2. ActiveTokens(ContractOf[e]) \in ExpectedTokens
    BY TokensTyped, ExecutablesAssumption
  <2> QED
    BY <1>8, <2>1, <2>2 DEF OperatorActivate, ActivateCandidateAny
<1>9. ASSUME NEW i \in Instances, WorkerResolve(i)
      PROVE  \/ ResolveSupersededAny \/ ResolveRejectedAny \/ ResolveActivatedAny
             \/ UNCHANGED storeVars
  <2>1. PICK s \in First(worker[i].page) : Resolve(s, worker[i].action)
    BY <1>9 DEF WorkerResolve
  <2>2. s \in Snapshots
    BY PageTyped
  <2> QED
    BY <2>1, <2>2 DEF Resolve, ResolveUnchanged, ResolveSupersededAny, ResolveRejectedAny,
                      ResolveActivatedAny
<1>10. ASSUME NEW s \in Slots,
              \/ DeployRead(s) \/ DeployLock(s) \/ SubmitLock(s) \/ SubmitCheck(s) \/ Abandon(s)
              \/ \E p \in Proposals, t \in Times : SubmitRequest(s, p, t)
       PROVE  UNCHANGED storeVars
  BY <1>10 DEF DeployRead, DeployLock, SubmitLock, SubmitCheck, Abandon, SubmitRequest
<1>11. ASSUME NEW i \in Instances,
              WorkerScan(i) \/ WorkerAssess(i) \/ WorkerSkip(i) \/ Restart(i)
       PROVE  UNCHANGED storeVars
  BY <1>11 DEF WorkerScan, WorkerAssess, WorkerSkip, Restart
<1> QED
  BY <1>1, <1>2, <1>3, <1>4, <1>5, <1>6, <1>7, <1>8, <1>9, <1>10, <1>11
  DEF ServiceNext, StoreNext

-----------------------------------------------------------------------------
(* Types: the locals of the requests and of the workers. *)

RequestsTyped ==
  request \in [Slots -> {Idle} \union [pc : DeploySteps, contract : Contracts]
                              \union [pc : SubmitSteps, admission : Admission]]

WorkersTyped ==
  worker \in [Instances -> [cursor : Names \union {0}, page : SUBSET Snapshots,
                           action : {None, "activate", "reject"}]]

LEMMA RespondTyped ==
  ASSUME RequestsTyped, NEW s \in Slots, Respond(s)
  PROVE  RequestsTyped'
  BY DEF RequestsTyped, Respond

LEMMA DeployGotoTyped ==
  ASSUME RequestsTyped, NEW s \in Slots,
         request[s] \in [pc : DeploySteps, contract : Contracts],
         NEW step \in DeploySteps, Goto(s, step)
  PROVE  RequestsTyped'
<1>1. [request[s] EXCEPT !.pc = step] \in [pc : DeploySteps, contract : Contracts]
  OBVIOUS
<1> QED
  BY <1>1 DEF RequestsTyped, Goto

LEMMA SubmitGotoTyped ==
  ASSUME RequestsTyped, NEW s \in Slots,
         request[s] \in [pc : SubmitSteps, admission : Admission],
         NEW step \in SubmitSteps, Goto(s, step)
  PROVE  RequestsTyped'
<1>1. [request[s] EXCEPT !.pc = step] \in [pc : SubmitSteps, admission : Admission]
  OBVIOUS
<1> QED
  BY <1>1 DEF RequestsTyped, Goto

\* Admissions are never removed, so a snapshot stays a snapshot.
LEMMA AdmissionsGrow ==
  ASSUME StoreNext \/ UNCHANGED storeVars
  PROVE  admissions \subseteq admissions'
  BY DEF StoreNext, storeVars, executableVars, PutAny, SetCurrentAny, PutCandidateAny,
         PutCandidate, AdmitAny, Admit, ActivateAny, Activate, ActivateCandidateAny,
         ActivateCandidate, ResolveSupersededAny, ResolveSuperseded, ResolveRejectedAny,
         ResolveRejected, ResolveActivatedAny, ResolveActivated

LEMMA SameWorkersTyped ==
  ASSUME WorkersTyped, UNCHANGED worker, admissions \subseteq admissions'
  PROVE  WorkersTyped'
<1>1. SUBSET Snapshots \subseteq SUBSET Snapshots'
  BY DEF Snapshots, ExpectedTokens
<1> QED
  BY <1>1 DEF WorkersTyped

LEMMA RequestsStayTyped ==
  ASSUME ServiceTypeOK, ServiceNext
  PROVE  RequestsTyped'
<1>0. RequestsTyped
  BY DEF ServiceTypeOK, RequestsTyped
<1>1. ASSUME NEW s \in Slots, NEW d \in Contracts, DeployPut(s, d)
      PROVE  RequestsTyped'
  BY <1>0, <1>1 DEF DeployPut, RequestsTyped, DeploySteps
<1>2. ASSUME NEW s \in Slots, DeployRead(s)
      PROVE  RequestsTyped'
  <2>1. request[s] \in [pc : DeploySteps, contract : Contracts]
    BY <1>2, DeployTyped DEF DeployRead, DeploySteps
  <2>2. \E step \in DeploySteps : Goto(s, step)
    BY <1>2 DEF DeployRead, AfterDefault, DeploySteps
  <2> QED
    BY <1>0, <2>1, <2>2, DeployGotoTyped
<1>3. ASSUME NEW s \in Slots,
             \/ DeployPutDefault(s) \/ DeployPutAuthored(s) \/ DeployActivateDefault(s)
             \/ DeployActivateAuthored(s) \/ DeployLock(s)
      PROVE  RequestsTyped'
  <2> USE DEF DeployPutDefault, DeployPutAuthored, DeployActivateDefault,
              DeployActivateAuthored, DeployLock, DeploySteps
  <2>1. request[s] \in [pc : DeploySteps, contract : Contracts]
    BY <1>3, DeployTyped
  <2>2. \E step \in DeploySteps : Goto(s, step)
    BY <1>3
  <2> QED
    BY <1>0, <2>1, <2>2, DeployGotoTyped
<1>4. ASSUME NEW s \in Slots, NEW p \in Proposals, NEW t \in Times, SubmitRequest(s, p, t)
      PROVE  RequestsTyped'
  BY <1>0, <1>4 DEF SubmitRequest, RequestsTyped, SubmitSteps, Admission
<1>5. ASSUME NEW s \in Slots, SubmitLock(s) \/ SubmitCheck(s)
      PROVE  RequestsTyped'
  <2>1. request[s] \in [pc : SubmitSteps, admission : Admission]
    BY <1>5, SubmitTyped DEF SubmitLock, SubmitCheck, SubmitSteps
  <2>2. (\E step \in SubmitSteps : Goto(s, step)) \/ Respond(s)
    BY <1>5 DEF SubmitLock, SubmitCheck, SubmitSteps
  <2> QED
    BY <1>0, <2>1, <2>2, SubmitGotoTyped, RespondTyped
<1>6. ASSUME NEW s \in Slots, DeployPublish(s) \/ SubmitAdmit(s) \/ Abandon(s)
      PROVE  RequestsTyped'
  BY <1>0, <1>6, RespondTyped DEF DeployPublish, SubmitAdmit, Abandon
<1>7. ASSUME NEW i \in Instances, Restart(i)
      PROVE  RequestsTyped'
  BY <1>0, <1>7 DEF Restart, RequestsTyped
<1>8. ASSUME UNCHANGED request
      PROVE  RequestsTyped'
  BY <1>0, <1>8 DEF RequestsTyped, Admission
<1> QED
  BY <1>1, <1>2, <1>3, <1>4, <1>5, <1>6, <1>7, <1>8
  DEF ServiceNext, OperatorActivate, WorkerScan, WorkerAssess, WorkerResolve, WorkerSkip

LEMMA WorkersStayTyped ==
  ASSUME ServiceTypeOK, StoreInvariant, ServiceNext
  PROVE  WorkersTyped'
<1>0. WorkersTyped
  BY DEF ServiceTypeOK, WorkersTyped
<1>1. admissions \subseteq admissions'
  BY ServiceStepIsStoreStep, AdmissionsGrow
<1>2. ASSUME NEW i \in Instances, WorkerScan(i)
      PROVE  WorkersTyped'
  <2>1. \E cursor \in Names \union {0}, page \in SUBSET Snapshots :
          worker' = [worker EXCEPT ![i] = [cursor |-> cursor, page |-> page, action |-> None]]
    <3>1. \A n : Preferred(n) \subseteq admissions
      BY DEF Preferred, Newest, Pending
    <3>2. \A S : {Snapshot(a) : a \in UNION {Preferred(n) : n \in S}} \subseteq Snapshots
      BY <3>1, SnapshotTyped
    <3> QED
      BY <1>2, <3>2 DEF WorkerScan
  <2>2. admissions' = admissions
    BY <1>2 DEF WorkerScan, storeVars
  <2> QED
    BY <1>0, <2>1, <2>2 DEF WorkersTyped, Snapshots, ExpectedTokens
<1>3. ASSUME NEW i \in Instances, WorkerAssess(i)
      PROVE  WorkersTyped'
  <2>1. \E action \in {"activate", "reject"} : worker' = [worker EXCEPT ![i].action = action]
    BY <1>3 DEF WorkerAssess, Assessment
  <2>2. admissions' = admissions
    BY <1>3 DEF WorkerAssess, storeVars
  <2> QED
    BY <1>0, <2>1, <2>2 DEF WorkersTyped, Snapshots, ExpectedTokens
<1>4. ASSUME NEW i \in Instances, WorkerResolve(i) \/ WorkerSkip(i)
      PROVE  WorkersTyped'
  <2> DEFINE Worker == [cursor : Names \union {0}, page : SUBSET Snapshots,
                        action : {None, "activate", "reject"}]
  <2>1. PICK s : Done(i, s)
    BY <1>4 DEF WorkerResolve, WorkerSkip
  <2>2. worker' \in [Instances -> Worker]
    <3>1. worker \in [Instances -> Worker]
      BY <1>0 DEF WorkersTyped
    <3>2. worker[i] \in Worker
      BY <3>1
    <3>3. [cursor |-> worker[i].cursor, page |-> worker[i].page \ {s}, action |-> None] \in Worker
      BY <3>2
    <3>4. worker' = [worker EXCEPT ![i] =
            [cursor |-> worker[i].cursor, page |-> worker[i].page \ {s}, action |-> None]]
      BY <2>1, <3>1, <3>2 DEF Done
    <3> HIDE DEF Worker
    <3> QED
      BY <3>1, <3>3, <3>4
  <2>3. SUBSET Snapshots \subseteq SUBSET Snapshots'
    BY <1>1 DEF Snapshots, ExpectedTokens
  <2> QED
    BY <2>2, <2>3 DEF WorkersTyped
<1>5. ASSUME NEW i \in Instances, Restart(i)
      PROVE  WorkersTyped'
  <2>1. admissions' = admissions
    BY <1>5 DEF Restart, storeVars
  <2> QED
    BY <1>0, <1>5, <2>1 DEF Restart, FreshWorker, WorkersTyped, Snapshots, ExpectedTokens
<1>6. ASSUME UNCHANGED worker
      PROVE  WorkersTyped'
  BY <1>0, <1>1, <1>6, SameWorkersTyped
<1> QED
  BY <1>2, <1>3, <1>4, <1>5, <1>6
  DEF ServiceNext, DeployPut, DeployRead, DeployPutDefault, DeployActivateDefault,
      DeployPutAuthored, DeployActivateAuthored, DeployLock, DeployPublish, SubmitRequest,
      SubmitLock, SubmitCheck, SubmitAdmit, Abandon, OperatorActivate

-----------------------------------------------------------------------------
(* The service is a client of the store. *)

LEMMA ServiceTypesStep ==
  ServiceTypeOK /\ StoreInvariant /\ [ServiceNext]_serviceVars =>
    ServiceTypeOK' /\ StoreInvariant' /\ [StoreNext]_storeVars
<1> SUFFICES ASSUME ServiceTypeOK, StoreInvariant, [ServiceNext]_serviceVars
             PROVE  ServiceTypeOK' /\ StoreInvariant' /\ [StoreNext]_storeVars
  OBVIOUS
<1>1. CASE ServiceNext
  <2>1. [StoreNext]_storeVars
    BY <1>1, ServiceStepIsStoreStep
  <2>2. StoreInvariant'
    BY <2>1, InvariantStep
  <2>3. RequestsTyped' /\ WorkersTyped'
    BY <1>1, RequestsStayTyped, WorkersStayTyped
  <2> QED
    BY <2>1, <2>2, <2>3 DEF ServiceTypeOK, StoreInvariant, RequestsTyped, WorkersTyped
<1>2. CASE UNCHANGED serviceVars
  <2>1. UNCHANGED storeVars
    BY <1>2 DEF serviceVars, storeVars
  <2>2. StoreInvariant'
    BY <2>1, InvariantStep
  <2>3. RequestsTyped' /\ WorkersTyped'
    BY <1>2, SameWorkersTyped
    DEF ServiceTypeOK, RequestsTyped, WorkersTyped, serviceVars, Admission
  <2> QED
    BY <2>1, <2>2, <2>3 DEF ServiceTypeOK, StoreInvariant, RequestsTyped, WorkersTyped
<1> QED
  BY <1>1, <1>2

LEMMA ServiceTypesInit ==
  ServiceInit => ServiceTypeOK /\ StoreInvariant
<1> SUFFICES ASSUME ServiceInit
             PROVE  ServiceTypeOK /\ StoreInvariant
  OBVIOUS
<1>1. StoreInvariant
  BY ContractsAssumption, ExecutablesAssumption
  DEF ServiceInit, StoreInit, ContractInit, StoreInvariant, StoreTypeOK, ContractTypeOK,
      LifecycleStates, OneActive, FreshAtZero, RetiredBelowActive, Active
<1>2. FreshWorker \in [cursor : Names \union {0}, page : SUBSET Snapshots,
                      action : {None, "activate", "reject"}]
  BY DEF FreshWorker
<1> QED
  BY <1>1, <1>2 DEF ServiceInit, ServiceTypeOK, StoreInvariant

\* Every handler local and worker snapshot has its type in every reachable
\* state: in particular a snapshot that is still to be processed always names
\* an admission that exists, which resolve would answer with an error.
THEOREM ServiceTypeCorrect == ServiceSpec => []ServiceTypeOK
<1> DEFINE Inv == ServiceTypeOK /\ StoreInvariant
<1>1. ServiceInit => Inv
  BY ServiceTypesInit
<1>2. Inv /\ [ServiceNext]_serviceVars => Inv'
  BY ServiceTypesStep
<1> QED
  BY <1>1, <1>2, PTL DEF ServiceSpec

\* Every behaviour of the handlers, the worker and their failures is a
\* behaviour of the open store, so everything proved of StoreSpec (unique
\* authority, tenures, versions, name ownership) holds of the service.
THEOREM ServiceUsesStore == ServiceSpec => StoreSpec
<1> DEFINE Inv == ServiceTypeOK /\ StoreInvariant
<1>1. ServiceInit => Inv /\ StoreInit
  BY ServiceTypesInit DEF ServiceInit
<1>2. Inv /\ [ServiceNext]_serviceVars => Inv' /\ [StoreNext]_storeVars
  BY ServiceTypesStep
<1> QED
  BY <1>1, <1>2, PTL DEF ServiceSpec, StoreSpec

-----------------------------------------------------------------------------
(* The shapes of the lifecycle changes, with the reason the service has for  *)
(* an installation.                                                          *)

AdmittedCandidates(L) ==
  /\ OnlyCandidates(L)
  /\ L \subseteq {Executable(a) : a \in admissions}

\* The default where nothing is in force, the authored executable where the
\* default is, or a candidate of the current contract.
MayInstall(e) ==
  LET d == ContractOf[e]
  IN \/ e = DefaultOf[d] /\ Active(d) = {}
     \/ e \in AuthoredOf[d] /\ DefaultOf[d] \in Active(d)
     \/ lifecycle_state[e] = "candidate" /\ current[NameOf[d]] = d

ServiceRetires == \E L \in SUBSET Executables : AdmittedCandidates(L) /\ Retire(L)

ServiceInstalls ==
  \E e \in Executables, next \in Nat, L \in SUBSET Executables :
    /\ MayInstall(e)
    /\ AdmittedCandidates(L)
    /\ Replacement(e, next, Active(ContractOf[e]) \union L)
    /\ Install(e, next, Active(ContractOf[e]) \union L)

ServiceShape ==
  \/ \E e \in Executables : Insert(e)
  \/ LifecycleUnchanged
  \/ ServiceRetires
  \/ ServiceInstalls

LEMMA SweptAreAdmitted ==
  ASSUME StoreTypeOK, NEW n, NEW e
  PROVE  /\ Others(n, e) \in SUBSET Executables
         /\ Stale(n) \in SUBSET Executables
         /\ AdmittedCandidates(Others(n, e))
         /\ AdmittedCandidates(Stale(n))
<1>1. /\ Others(n, e) \in SUBSET Executables
      /\ Stale(n) \in SUBSET Executables
      /\ OnlyCandidates(Others(n, e))
      /\ OnlyCandidates(Stale(n))
  BY SweptAreCandidates
<1> QED
  BY <1>1 DEF AdmittedCandidates, Others, Stale, Pending

\* As InstallReplaces, with the reason kept.
LEMMA InstallServes ==
  ASSUME StoreInvariant,
         NEW e \in Executables, lifecycle_state[e] # "active", MayInstall(e),
         NEW next \in Nat, next > 0,
         \A a \in Active(ContractOf[e]) : next > state_version[a],
         NEW L \in SUBSET Executables, e \notin L, AdmittedCandidates(L),
         Install(e, next, Active(ContractOf[e]) \union L)
  PROVE  ServiceInstalls
<1> DEFINE M == Active(ContractOf[e]) \union L
<1>1. M \in SUBSET Executables /\ e \notin M
  BY DEF Active
<1>2. Replacement(e, next, M)
  BY <1>1 DEF Replacement, OnlyCandidates, AdmittedCandidates
<1> QED
  BY <1>2 DEF ServiceInstalls

LEMMA VersionAboveActive ==
  ASSUME StoreInvariant, NEW d, NEW a \in Active(d)
  PROVE  /\ state_version[a] + 1 \in Nat
         /\ state_version[a] + 1 > 0
         /\ \A b \in Active(d) : state_version[a] + 1 > state_version[b]
<1>1. ContractOf[a] = d
  BY DEF Active
<1>2. state_version[a] \in Nat /\ \A b \in Active(d) : b = a
  BY <1>1, ActiveVersions
<1> QED
  BY <1>2

\* A bootstrap activation that finds what it expects.
LEMMA BootstrapServes ==
  ASSUME StoreInvariant, NEW e \in Executables, MayInstall(e), Activate(e)
  PROVE  ServiceShape
<1> DEFINE d == ContractOf[e]
<1>0. {} \in SUBSET Executables /\ e \notin {} /\ AdmittedCandidates({})
  BY DEF AdmittedCandidates, OnlyCandidates
<1>1. CASE e \in Active(d) /\ UNCHANGED <<lifecycle_state, state_version>>
  BY <1>1 DEF ServiceShape, LifecycleUnchanged
<1>2. CASE Active(d) = {} /\ Install(e, 1, {})
  <2>1. lifecycle_state[e] # "active"
    BY <1>2 DEF Active
  <2>2. Install(e, 1, Active(d) \union {})
    BY <1>2
  <2> QED
    BY <1>0, <1>2, <2>1, <2>2, InstallServes DEF ServiceShape
<1>3. CASE /\ e \notin Active(d)
           /\ \E a \in Active(d) : Install(e, state_version[a] + 1, Active(d))
  <2>1. PICK a \in Active(d) : Install(e, state_version[a] + 1, Active(d))
    BY <1>3
  <2>2. lifecycle_state[e] # "active"
    BY <1>3 DEF Active
  <2>3. Install(e, state_version[a] + 1, Active(d) \union {})
    BY <2>1
  <2> QED
    BY <1>0, <2>2, <2>3, VersionAboveActive, InstallServes DEF ServiceShape
<1> QED
  BY <1>1, <1>2, <1>3 DEF Activate

LEMMA OperatorServes ==
  ASSUME StoreInvariant, NEW e \in Executables, OperatorActivate(e)
  PROVE  ServiceShape
<1> DEFINE d == ContractOf[e]
           L == Others(NameOf[d], e)
<1>1. ActivateCandidate(e, state_version[e], ActiveTokens(d))
  BY DEF OperatorActivate
<1>2. lifecycle_state[e] = "candidate" /\ current[NameOf[d]] = d
  BY <1>1 DEF ActivateCandidate, CanActivateCandidate
<1>3. PICK a \in Active(d) : Install(e, Larger(state_version[a], state_version[e]) + 1,
                                    Active(d) \union L)
  BY <1>1 DEF ActivateCandidate
<1>4. state_version[e] = 0 /\ state_version[a] \in Nat
  BY <1>2, <1>3 DEF StoreInvariant, StoreTypeOK, FreshAtZero, Active
<1>5. Larger(state_version[a], state_version[e]) = state_version[a]
  BY <1>4 DEF Larger
<1>6. L \in SUBSET Executables /\ e \notin L /\ AdmittedCandidates(L)
  BY SweptAreAdmitted DEF StoreInvariant, Others
<1> QED
  BY <1>2, <1>3, <1>5, <1>6, VersionAboveActive, InstallServes DEF ServiceShape, MayInstall

LEMMA ResolveServes ==
  ASSUME ServiceTypeOK, StoreInvariant, NEW i \in Instances, WorkerResolve(i)
  PROVE  ServiceShape
<1>1. PICK s \in First(worker[i].page) : Resolve(s, worker[i].action)
  BY DEF WorkerResolve
<1> DEFINE e == Executable(s.admission)
           d == ContractOf[e]
           L == Others(Name(s.admission), e)
<1>2. s.admission \in admissions /\ e \in Executables /\ s.version \in Nat
  BY PageTyped, SnapshotsTyped DEF StoreInvariant, Snapshots
<1>3. L \in SUBSET Executables /\ e \notin L /\ AdmittedCandidates(L)
  BY SweptAreAdmitted DEF StoreInvariant, Others
<1>4. CASE ResolveSuperseded(s)
  BY <1>4, SweptAreAdmitted
  DEF StoreInvariant, ResolveSuperseded, ServiceShape, ServiceRetires
<1>5. CASE ResolveRejected(s)
  <2>1. AdmittedCandidates({e} \union L)
    BY <1>2, <1>3, <1>5
    DEF AdmittedCandidates, OnlyCandidates, ResolveRejected, Unresolved
  <2> QED
    BY <1>2, <1>3, <1>5, <2>1 DEF ResolveRejected, ServiceShape, ServiceRetires
<1>6. CASE ResolveActivated(s)
  <2>1. lifecycle_state[e] = "candidate" /\ MayInstall(e)
    BY <1>6 DEF ResolveActivated, Unresolved, IsCurrent, MayInstall, Name, Contract
  <2>2. CASE Active(d) = {} /\ Install(e, s.version + 1, L)
    <3>1. Install(e, s.version + 1, Active(d) \union L)
      BY <2>2
    <3> QED
      BY <1>2, <1>3, <2>1, <2>2, <3>1, InstallServes DEF ServiceShape
  <2>3. CASE \E a \in Active(d) : Install(e, state_version[a] + 1, Active(d) \union L)
    <3>1. PICK a \in Active(d) : Install(e, state_version[a] + 1, Active(d) \union L)
      BY <2>3
    <3> QED
      BY <1>2, <1>3, <2>1, <3>1, VersionAboveActive, InstallServes DEF ServiceShape
  <2> QED
    BY <1>6, <2>2, <2>3 DEF ResolveActivated, Contract
<1>7. CASE ResolveUnchanged(s, worker[i].action)
  BY <1>7 DEF ResolveUnchanged, storeVars, ServiceShape, LifecycleUnchanged
<1> QED
  BY <1>1, <1>4, <1>5, <1>6, <1>7 DEF Resolve

\* Every step of the service changes the lifecycle rows in one of the shapes.
LEMMA ServiceStepShape ==
  ASSUME ServiceTypeOK, StoreInvariant, ServiceNext
  PROVE  ServiceShape
<1>1. ASSUME NEW s \in Slots, DeployPutDefault(s) \/ DeployPutAuthored(s)
      PROVE  ServiceShape
  BY <1>1, DeployTyped, ServiceAssumption
  DEF DeployPutDefault, DeployPutAuthored, DeploySteps, PutCandidate, ServiceShape
<1>2. ASSUME NEW s \in Slots, DeployActivateDefault(s)
      PROVE  ServiceShape
  <2> DEFINE d == request[s].contract
  <2>1. d \in Contracts /\ DefaultOf[d] \in Executables /\ ContractOf[DefaultOf[d]] = d
    BY <1>2, DeployTyped, ServiceAssumption DEF DeployActivateDefault, DeploySteps
  <2>2. CASE Active(d) = {} /\ Activate(DefaultOf[d])
    BY <2>1, <2>2, BootstrapServes DEF MayInstall
  <2>3. CASE UNCHANGED storeVars
    BY <2>3 DEF storeVars, ServiceShape, LifecycleUnchanged
  <2> QED
    BY <1>2, <2>1, <2>2, <2>3 DEF DeployActivateDefault, Bootstrap
<1>3. ASSUME NEW s \in Slots, DeployActivateAuthored(s)
      PROVE  ServiceShape
  <2> DEFINE d == request[s].contract
  <2>1. d \in Contracts
    BY <1>3, DeployTyped DEF DeployActivateAuthored, DeploySteps
  <2>2. PICK e \in AuthoredOf[d] : Bootstrap(e, {DefaultOf[d]})
    BY <1>3 DEF DeployActivateAuthored
  <2>3. e \in Executables /\ ContractOf[e] = d
    BY <2>1, <2>2, ServiceAssumption
  <2>4. CASE Active(d) = {DefaultOf[d]} /\ Activate(e)
    BY <2>2, <2>3, <2>4, BootstrapServes DEF MayInstall
  <2>5. CASE UNCHANGED storeVars
    BY <2>5 DEF storeVars, ServiceShape, LifecycleUnchanged
  <2> QED
    BY <2>2, <2>3, <2>4, <2>5 DEF Bootstrap
<1>4. ASSUME NEW s \in Slots, SubmitAdmit(s)
      PROVE  ServiceShape
  <2>1. CandidateOf[request[s].admission.proposal] \in Executables
    BY <1>4, SubmitTyped, ExecutablesAssumption DEF SubmitAdmit, SubmitSteps, Admission
  <2> QED
    BY <1>4, <2>1
    DEF SubmitAdmit, Admit, AdmitUnchanged, storeVars, ServiceShape, LifecycleUnchanged
<1>5. ASSUME NEW e \in Executables, OperatorActivate(e)
      PROVE  ServiceShape
  BY <1>5, OperatorServes
<1>6. ASSUME NEW i \in Instances, WorkerResolve(i)
      PROVE  ServiceShape
  BY <1>6, ResolveServes
<1>7. ASSUME UNCHANGED <<lifecycle_state, state_version>>
      PROVE  ServiceShape
  BY <1>7 DEF ServiceShape, LifecycleUnchanged
<1> QED
  BY <1>1, <1>2, <1>3, <1>4, <1>5, <1>6, <1>7
  DEF ServiceNext, storeVars, executableVars, DeployPut, DeployRead, DeployLock, DeployPublish,
      SubmitRequest, SubmitLock, SubmitCheck, Abandon, WorkerScan, WorkerAssess, WorkerSkip,
      Restart

-----------------------------------------------------------------------------
(* The order of bootstrap is inductive.  Its first part speaks of the        *)
(* lifecycle rows alone; the rest says which contracts are ready, and        *)
(* readiness is never lost.                                                  *)

ContractOrder(d) ==
  /\ Active(d) = {} => \A e \in Executables : ContractOf[e] = d => ~Settled(e)
  /\ Active(d) # {} => Settled(DefaultOf[d])
  /\ \A a \in Active(d) : a # DefaultOf[d] => Ready(d)
  /\ DefaultOf[d] \in Active(d) =>
       \A e \in AuthoredOf[d] \ {DefaultOf[d]} : ~Settled(e)

ServiceInvariant == ServiceTypeOK /\ StoreInvariant /\ BootstrapOrder

LEMMA OrderOfEach ==
  ASSUME BootstrapOrder, NEW d \in Contracts
  PROVE  ContractOrder(d)
  BY DEF BootstrapOrder, ContractOrder

LEMMA SettledStays ==
  ASSUME StoreInvariant, Shape, NEW e \in Executables, Settled(e)
  PROVE  Settled(e)'
<1>0. lifecycle_state \in [Executables -> LifecycleStates]
  BY DEF StoreInvariant, StoreTypeOK
<1>1. CASE \E x \in Executables : Insert(x)
  BY <1>0, <1>1 DEF Insert, Settled
<1>2. CASE LifecycleUnchanged
  BY <1>2 DEF LifecycleUnchanged, Settled
<1>3. CASE RetiresCandidates
  BY <1>0, <1>3 DEF RetiresCandidates, Retire, Settled
<1>4. CASE Replaces
  BY <1>0, <1>4 DEF Replaces, Install, Settled
<1> QED
  BY <1>1, <1>2, <1>3, <1>4 DEF Shape

LEMMA ReadyStays ==
  ASSUME StoreInvariant, Shape, NEW d \in Contracts, Ready(d)
  PROVE  Ready(d)' /\ (Active(d) # {})'
<1>1. (Active(d) # {})'
  BY ShapeSteps DEF AuthorityStep, Ready
<1>2. \A e \in AuthoredOf[d] : Settled(e)'
  BY SettledStays, ServiceAssumption DEF Ready
<1> QED
  BY <1>1, <1>2 DEF Ready

\* What a resolution retires belongs to contracts that are ready.
LEMMA AdmittedAreReady ==
  ASSUME StoreInvariant, BootstrapOrder, NEW L, AdmittedCandidates(L), NEW x \in L
  PROVE  /\ x \in Executables
         /\ ContractOf[x] \in Contracts
         /\ Ready(ContractOf[x])
         /\ x \notin AuthoredOf[ContractOf[x]]
         /\ x # DefaultOf[ContractOf[x]]
<1>1. PICK a \in admissions : x = Executable(a)
  BY DEF AdmittedCandidates
<1>2. x \in Executables /\ ContractOf[x] \in Contracts
  BY <1>1, ExecutablesAssumption DEF StoreInvariant, StoreTypeOK, Admission, Executable
<1>3. Ready(ContractOf[x])
  BY <1>1 DEF BootstrapOrder, Contract
<1>4. ~Settled(x)
  BY DEF AdmittedCandidates, OnlyCandidates, Settled
<1>5. Settled(DefaultOf[ContractOf[x]])
  BY <1>2, <1>3 DEF BootstrapOrder, Ready
<1> QED
  BY <1>2, <1>3, <1>4, <1>5 DEF Ready

LEMMA InsertKeepsOrder ==
  ASSUME StoreInvariant, BootstrapOrder, NEW d \in Contracts,
         NEW x \in Executables, Insert(x)
  PROVE  ContractOrder(d)'
<1>1. \A e \in Executables : Settled(e)' <=> Settled(e)
  BY DEF Insert, Settled, StoreInvariant, StoreTypeOK
<1>2. Active(d)' = Active(d)
  BY DEF Insert, Active, StoreInvariant, StoreTypeOK
<1>3. DefaultOf[d] \in Executables /\ AuthoredOf[d] \subseteq Executables
  BY ServiceAssumption
<1>4. Ready(d) => Ready(d)'
  BY <1>1, <1>2, <1>3 DEF Ready
<1> QED
  BY <1>1, <1>2, <1>3, <1>4, OrderOfEach DEF ContractOrder

LEMMA RetireKeepsOrder ==
  ASSUME StoreInvariant, BootstrapOrder, NEW d \in Contracts,
         NEW L \in SUBSET Executables, AdmittedCandidates(L), Retire(L)
  PROVE  ContractOrder(d)'
<1>1. /\ \A e \in L : Settled(e)'
      /\ \A e \in Executables \ L : Settled(e)' <=> Settled(e)
  BY DEF Retire, Settled
<1>2. Active(d)' = Active(d)
  BY DEF Retire, Active, AdmittedCandidates, OnlyCandidates
<1>3. DefaultOf[d] \in Executables \ L /\ AuthoredOf[d] \subseteq Executables \ L
  BY ServiceAssumption, AdmittedAreReady
<1>4. Ready(d) => Ready(d)'
  BY <1>1, <1>2, <1>3 DEF Ready
<1>5. ASSUME Active(d) = {}, NEW e \in Executables, ContractOf[e] = d
      PROVE  ~Settled(e)'
  <2>1. e \notin L
    BY <1>5, AdmittedAreReady DEF Ready
  <2> QED
    BY <1>1, <1>5, <2>1, OrderOfEach DEF ContractOrder
<1> QED
  BY <1>1, <1>2, <1>3, <1>4, <1>5, OrderOfEach DEF ContractOrder

LEMMA InstallKeepsOrder ==
  ASSUME StoreInvariant, BootstrapOrder, NEW d \in Contracts,
         NEW x \in Executables, NEW next \in Nat, NEW L \in SUBSET Executables,
         MayInstall(x), AdmittedCandidates(L),
         Replacement(x, next, Active(ContractOf[x]) \union L),
         Install(x, next, Active(ContractOf[x]) \union L)
  PROVE  ContractOrder(d)'
<1> DEFINE c == ContractOf[x]
           M == Active(c) \union L
<1>1. c \in Contracts /\ M \in SUBSET Executables
  BY ExecutablesAssumption DEF Active
<1>2. /\ lifecycle_state'[x] = "active"
      /\ \A e \in M : lifecycle_state'[e] = "inactive"
      /\ \A e \in Executables \ (M \union {x}) : lifecycle_state'[e] = lifecycle_state[e]
  BY <1>1 DEF Install, Replacement
<1>3. /\ \A e \in M \union {x} : Settled(e)'
      /\ \A e \in Executables \ (M \union {x}) : Settled(e)' <=> Settled(e)
  BY <1>2 DEF Settled
<1>4. \A e \in Active(c) : Settled(e)
  BY DEF Active, Settled
<1>5. DefaultOf[d] \in Executables \ L /\ AuthoredOf[d] \subseteq Executables \ L
  BY ServiceAssumption, AdmittedAreReady
<1>6. ContractOf[DefaultOf[d]] = d /\ \A e \in AuthoredOf[d] : ContractOf[e] = d
  BY ServiceAssumption
<1>7. CASE d # c
  <2>1. Active(d)' = Active(d)
    BY <1>1, <1>2, <1>7 DEF Active, AdmittedCandidates, OnlyCandidates
  <2>2. \A e \in {DefaultOf[d]} \union AuthoredOf[d] : Settled(e)' <=> Settled(e)
    BY <1>3, <1>5, <1>6, <1>7 DEF Active
  <2>3. Ready(d) => Ready(d)'
    BY <2>1, <2>2 DEF Ready
  <2>4. ASSUME Active(d) = {}, NEW e \in Executables, ContractOf[e] = d
        PROVE  ~Settled(e)'
    <3>1. e \notin L
      BY <2>4, AdmittedAreReady DEF Ready
    <3>2. e \notin M \union {x}
      BY <1>7, <2>4, <3>1 DEF Active
    <3> QED
      BY <1>3, <2>4, <3>2, OrderOfEach DEF ContractOrder
  <2> QED
    BY <2>1, <2>2, <2>3, <2>4, OrderOfEach DEF ContractOrder
<1>8. CASE d = c
  <2>1. Active(d)' = {x}
    BY <1>1, <1>2, <1>8 DEF Active
  <2>2. ContractOrder(d)
    BY OrderOfEach
  <2>3. CASE x = DefaultOf[d] /\ Active(d) = {}
    <3>1. \A e \in AuthoredOf[d] \ {x} : ~Settled(e)'
      BY <1>3, <1>5, <1>6, <1>8, <2>2, <2>3 DEF ContractOrder
    <3> QED
      BY <1>3, <2>1, <2>3, <3>1 DEF ContractOrder
  <2>4. CASE x \in AuthoredOf[d] /\ DefaultOf[d] \in Active(d)
    <3>1. x # DefaultOf[d]
      BY <2>4 DEF Replacement, Active
    <3>2. Settled(DefaultOf[d])' /\ Settled(x)'
      BY <1>3, <1>8, <2>4
    <3>3. Ready(d)'
      BY <2>1, <2>4, <3>2, ServiceAssumption DEF Ready
    <3> QED
      BY <2>1, <3>1, <3>2, <3>3 DEF ContractOrder
  <2>5. CASE lifecycle_state[x] = "candidate" /\ current[NameOf[d]] = d
    <3>1. Ready(d)
      <4>1. NameOf[d] \in Names /\ d # None
        BY ContractsAssumption
      <4>2. \A n \in Names : current[n] # None => Ready(current[n])
        BY DEF BootstrapOrder
      <4> QED
        BY <2>5, <4>1, <4>2
    <3>2. Settled(DefaultOf[d]) /\ x # DefaultOf[d]
      BY <2>2, <2>5, <3>1 DEF ContractOrder, Ready, Settled
    <3>3. \A e \in {DefaultOf[d]} \union AuthoredOf[d] : Settled(e)'
      BY <1>3, <1>5, <3>1, <3>2 DEF Ready
    <3> QED
      BY <2>1, <3>2, <3>3 DEF ContractOrder, Ready
  <2> QED
    BY <1>8, <2>3, <2>4, <2>5 DEF MayInstall
<1> QED
  BY <1>7, <1>8

LEMMA ShapeKeepsOrder ==
  ASSUME StoreInvariant, BootstrapOrder, ServiceShape, NEW d \in Contracts
  PROVE  ContractOrder(d)'
<1>1. CASE \E x \in Executables : Insert(x)
  BY <1>1, InsertKeepsOrder
<1>2. CASE LifecycleUnchanged
  BY <1>2, OrderOfEach DEF LifecycleUnchanged, ContractOrder, Ready, Settled, Active
<1>3. CASE ServiceRetires
  BY <1>3, RetireKeepsOrder DEF ServiceRetires
<1>4. CASE ServiceInstalls
  BY <1>4, InstallKeepsOrder DEF ServiceInstalls
<1> QED
  BY <1>1, <1>2, <1>3, <1>4 DEF ServiceShape

LEMMA ServiceShapeIsShape ==
  ASSUME ServiceShape
  PROVE  Shape
<1>1. ServiceRetires => RetiresCandidates
  BY DEF ServiceRetires, RetiresCandidates, AdmittedCandidates
<1>2. ServiceInstalls => Replaces
  <2> SUFFICES ASSUME NEW e \in Executables, NEW next \in Nat, NEW L \in SUBSET Executables,
                      Replacement(e, next, Active(ContractOf[e]) \union L),
                      Install(e, next, Active(ContractOf[e]) \union L)
               PROVE  Replaces
    BY DEF ServiceInstalls
  <2>1. Active(ContractOf[e]) \union L \in SUBSET Executables
    BY DEF Active
  <2> QED
    BY <2>1 DEF Replaces
<1> QED
  BY <1>1, <1>2 DEF ServiceShape, Shape

-----------------------------------------------------------------------------
(* What the locals of a request say: the part of the order each step of a    *)
(* handler adds to.                                                          *)

HasAuthority == {"reread_active", "put_authored", "activate_authored"}
HasReady == {"read_authored", "lock_deploy", "publish"}

RequestOrder(r) ==
  /\ r.pc \in HasAuthority => Active(r.contract) # {}
  /\ r.pc \in HasReady => Ready(r.contract)
  /\ r.pc = "admit" => Ready(Contract(r.admission))
  /\ r.pc # "integrity"

LEMMA OrderOfRequests ==
  ASSUME BootstrapOrder, NEW s \in Slots
  PROVE  RequestOrder(request[s])
  BY DEF BootstrapOrder, RequestOrder, HasAuthority, HasReady

\* The same of locals that do not change: what they say stays true.
LEMMA RequestOrderStays ==
  ASSUME StoreInvariant, Shape, NEW r, RequestOrder(r),
         r.pc \in HasAuthority \union HasReady => r.contract \in Contracts,
         r.pc = "admit" => Contract(r.admission) \in Contracts
  PROVE  RequestOrder(r)'
<1>1. ASSUME r.pc \in HasAuthority
      PROVE  (Active(r.contract) # {})'
  <2>1. PICK d \in Contracts : r.contract = d
    BY <1>1
  <2>2. (Active(d) # {})'
    BY <1>1, <2>1, ShapeSteps DEF RequestOrder, AuthorityStep
  <2> QED
    BY <2>1, <2>2 DEF Active
<1>2. ASSUME r.pc \in HasReady
      PROVE  Ready(r.contract)'
  <2>1. PICK d \in Contracts : r.contract = d
    BY <1>2
  <2>2. Ready(d)'
    BY <1>2, <2>1, ReadyStays DEF RequestOrder
  <2> QED
    BY <2>1, <2>2 DEF Ready, Active, Settled
<1>3. ASSUME r.pc = "admit"
      PROVE  Ready(Contract(r.admission))'
  <2>1. PICK d \in Contracts : Contract(r.admission) = d
    BY <1>3
  <2>2. Ready(d)'
    BY <1>3, <2>1, ReadyStays DEF RequestOrder
  <2> QED
    BY <2>1, <2>2 DEF Ready, Active, Settled, Contract, Executable
<1> QED
  BY <1>1, <1>2, <1>3 DEF RequestOrder, HasAuthority, HasReady

LEMMA KeptRequest ==
  ASSUME ServiceInvariant, Shape, NEW s \in Slots, request'[s] = request[s]
  PROVE  RequestOrder(request[s])'
<1>1. PICK r : r = request[s]
  OBVIOUS
<1>2. RequestOrder(r)
  BY <1>1, OrderOfRequests DEF ServiceInvariant
<1>3. r.pc \in HasAuthority \union HasReady => r.contract \in Contracts
  BY <1>1, DeployTyped DEF ServiceInvariant, HasAuthority, HasReady, DeploySteps
<1>4. r.pc = "admit" => Contract(r.admission) \in Contracts
  BY <1>1, SubmitTyped, ExecutablesAssumption
  DEF ServiceInvariant, SubmitSteps, Admission, Contract, Executable
<1>5. RequestOrder(r)'
  BY <1>2, <1>3, <1>4, RequestOrderStays DEF ServiceInvariant
<1>6. request'[s] = r
  BY <1>1
<1> QED
  BY <1>5, <1>6 DEF RequestOrder, Ready, Active, Settled, Contract, Executable

LEMMA RespondOrder ==
  ASSUME ServiceInvariant, Shape, NEW s \in Slots, Respond(s)
  PROVE  \A t \in Slots : RequestOrder(request[t])'
<1> SUFFICES ASSUME NEW t \in Slots
             PROVE  RequestOrder(request[t])'
  OBVIOUS
<1>1. CASE t = s
  BY <1>1 DEF ServiceInvariant, ServiceTypeOK, Respond, Idle, RequestOrder, HasAuthority, HasReady
<1>2. CASE t # s
  BY <1>2, KeptRequest DEF ServiceInvariant, ServiceTypeOK, Respond
<1> QED
  BY <1>1, <1>2

\* A deployment that moves on knows of its contract what the next step needs.
LEMMA DeployGotoOrder ==
  ASSUME ServiceInvariant, Shape, NEW s \in Slots, NEW step, Goto(s, step),
         NEW d \in Contracts, request[s].contract = d,
         request[s] \in [pc : DeploySteps, contract : Contracts],
         step \in DeploySteps \ {"integrity"},
         step \in HasAuthority => (Active(d) # {})',
         step \in HasReady => Ready(d)'
  PROVE  \A t \in Slots : RequestOrder(request[t])'
<1> SUFFICES ASSUME NEW t \in Slots
             PROVE  RequestOrder(request[t])'
  OBVIOUS
<1>1. CASE t = s
  <2>1. request'[t].pc = step /\ request'[t].contract = d
    BY <1>1 DEF ServiceInvariant, ServiceTypeOK, Goto
  <2>2. step # "admit" /\ step # "integrity"
    BY DEF DeploySteps
  <2> QED
    BY <2>1, <2>2 DEF RequestOrder, Ready, Active, Settled
<1>2. CASE t # s
  BY <1>2, KeptRequest DEF ServiceInvariant, ServiceTypeOK, Goto
<1> QED
  BY <1>1, <1>2

\* The same of any move of one request.
LEMMA MovedRequestOrder ==
  ASSUME ServiceInvariant, Shape, NEW s \in Slots,
         \A t \in Slots \ {s} : request'[t] = request[t],
         RequestOrder(request[s])'
  PROVE  \A t \in Slots : RequestOrder(request[t])'
<1> SUFFICES ASSUME NEW t \in Slots
             PROVE  RequestOrder(request[t])'
  OBVIOUS
<1>1. CASE t = s
  BY <1>1
<1>2. CASE t # s
  BY <1>2, KeptRequest
<1> QED
  BY <1>1, <1>2

\* Where a deployment goes when its contract has an active executable.
LEMMA AfterDefaultOrder ==
  ASSUME StoreInvariant, BootstrapOrder, NEW d \in Contracts, Active(d) # {}
  PROVE  /\ AfterDefault(d, Active(d)) \in {"put_authored", "lock_deploy"}
         /\ AfterDefault(d, Active(d)) = "lock_deploy" => Ready(d)
<1>1. CASE Active(d) = {DefaultOf[d]}
  BY <1>1 DEF AfterDefault, Ready
<1>2. CASE Active(d) # {DefaultOf[d]}
  <2>1. PICK a \in Active(d) : a # DefaultOf[d]
    BY <1>2
  <2>2. Ready(d)
    BY <2>1, OrderOfEach DEF ContractOrder
  <2> QED
    BY <1>2, <2>2 DEF AfterDefault
<1> QED
  BY <1>1, <1>2

LEMMA ActivateActivates ==
  ASSUME StoreInvariant, NEW e \in Executables, Activate(e)
  PROVE  e \in Active(ContractOf[e])'
<1>1. ASSUME NEW next, NEW L, Install(e, next, L)
      PROVE  e \in Active(ContractOf[e])'
  BY <1>1 DEF Install, Active
<1>2. CASE e \in Active(ContractOf[e]) /\ lifecycle_state' = lifecycle_state
  BY <1>2 DEF Active
<1> QED
  BY <1>1, <1>2 DEF Activate

-----------------------------------------------------------------------------
(* One lemma per step of a deployment that adds to what the request knows.   *)

LEMMA ReadOrder ==
  ASSUME ServiceInvariant, Shape, NEW s \in Slots, DeployRead(s)
  PROVE  \A t \in Slots : RequestOrder(request[t])'
<1> DEFINE d == request[s].contract
<1> USE DEF ServiceInvariant
<1>1. /\ d \in Contracts
      /\ request[s] \in [pc : DeploySteps, contract : Contracts]
  BY DeployTyped DEF DeployRead, DeploySteps
<1>2. RequestOrder(request[s])
  BY OrderOfRequests
<1>3. PICK step \in {"put_default", "put_authored", "lock_deploy"} :
        /\ Goto(s, step)
        /\ step = "put_authored" => Active(d) # {}
        /\ step = "lock_deploy" => Ready(d)
  <2>1. CASE request[s].pc = "read_active"
    <3>1. CASE Active(d) = {}
      BY <2>1, <3>1 DEF DeployRead
    <3>2. CASE Active(d) # {}
      BY <1>1, <2>1, <3>2, AfterDefaultOrder DEF DeployRead
    <3> QED
      BY <3>1, <3>2
  <2>2. CASE request[s].pc = "reread_active"
    <3>1. Active(d) # {}
      BY <1>2, <2>2 DEF RequestOrder, HasAuthority
    <3> QED
      BY <1>1, <2>2, <3>1, AfterDefaultOrder DEF DeployRead
  <2>3. CASE request[s].pc = "read_authored"
    <3>1. Ready(d)
      BY <1>2, <2>3 DEF RequestOrder, HasReady
    <3> QED
      BY <2>3, <3>1 DEF DeployRead, Ready
  <2> QED
    BY <2>1, <2>2, <2>3 DEF DeployRead
<1>4. step \in DeploySteps \ {"integrity"}
  BY DEF DeploySteps
<1>5. PICK c \in Contracts : c = d
  BY <1>1
<1>6. /\ step \in HasAuthority => (Active(c) # {})'
      /\ step \in HasReady => Ready(c)'
  BY <1>3, <1>5, ReadyStays, ShapeSteps DEF AuthorityStep, HasAuthority, HasReady
<1> QED
  BY <1>1, <1>3, <1>4, <1>5, <1>6, DeployGotoOrder

LEMMA DefaultOrder ==
  ASSUME ServiceInvariant, Shape, NEW s \in Slots, DeployActivateDefault(s)
  PROVE  \A t \in Slots : RequestOrder(request[t])'
<1> USE DEF ServiceInvariant
<1>1. request[s] \in [pc : DeploySteps, contract : Contracts]
  BY DeployTyped DEF DeployActivateDefault, DeploySteps
<1>2. PICK d \in Contracts : d = request[s].contract
  BY <1>1
<1>3. DefaultOf[d] \in Executables /\ ContractOf[DefaultOf[d]] = d
  BY ServiceAssumption
<1>4. Bootstrap(DefaultOf[d], {})
  BY <1>2 DEF DeployActivateDefault
<1>5. (Active(d) # {})'
  <2>1. CASE Activate(DefaultOf[d])
    <3>1. DefaultOf[d] \in Active(ContractOf[DefaultOf[d]])'
      BY <1>3, <2>1, ActivateActivates
    <3> QED
      BY <1>3, <3>1 DEF Active
  <2>2. CASE Active(d) # {} /\ UNCHANGED storeVars
    BY <2>2, ShapeSteps DEF AuthorityStep
  <2> QED
    BY <1>3, <1>4, <2>1, <2>2 DEF Bootstrap
<1> QED
  BY <1>1, <1>2, <1>5, DeployGotoOrder DEF DeployActivateDefault, DeploySteps, HasAuthority, HasReady

LEMMA AuthoredOrder ==
  ASSUME ServiceInvariant, Shape, NEW s \in Slots, DeployActivateAuthored(s)
  PROVE  \A t \in Slots : RequestOrder(request[t])'
<1> USE DEF ServiceInvariant
<1>1. request[s] \in [pc : DeploySteps, contract : Contracts]
  BY DeployTyped DEF DeployActivateAuthored, DeploySteps
<1>2. PICK d \in Contracts : d = request[s].contract
  BY <1>1
<1>3. Active(d) # {}
  BY <1>2, OrderOfRequests DEF RequestOrder, HasAuthority, DeployActivateAuthored
<1>4. PICK e \in AuthoredOf[d] : Bootstrap(e, {DefaultOf[d]})
  BY <1>2 DEF DeployActivateAuthored
<1>5. /\ e \in Executables
      /\ ContractOf[e] = d
      /\ \A f \in AuthoredOf[d] : f = e
  BY ServiceAssumption
<1>6. Ready(d)'
  <2>1. CASE Activate(e)
    <3>1. e \in Active(ContractOf[e])'
      BY <1>5, <2>1, ActivateActivates
    <3>2. Settled(e)'
      BY <3>1 DEF Active, Settled
    <3> QED
      BY <1>5, <3>1, <3>2 DEF Ready, Active, Settled
  <2>2. CASE Active(d) # {DefaultOf[d]}
    <3>1. PICK a \in Active(d) : a # DefaultOf[d]
      BY <1>3, <2>2
    <3>2. Ready(d)
      BY <3>1, OrderOfEach DEF ContractOrder
    <3> QED
      BY <3>2, ReadyStays
  <2> QED
    BY <1>4, <1>5, <2>1, <2>2 DEF Bootstrap
<1> QED
  BY <1>1, <1>2, <1>6, DeployGotoOrder
  DEF DeployActivateAuthored, DeploySteps, HasAuthority, HasReady

-----------------------------------------------------------------------------
(* The step. *)

LEMMA RequestsStep ==
  ASSUME ServiceInvariant, Shape, ServiceNext
  PROVE  \A t \in Slots : RequestOrder(request[t])'
<1> USE DEF ServiceInvariant
<1>0. ASSUME request' = request
      PROVE  \A t \in Slots : RequestOrder(request[t])'
  BY <1>0, KeptRequest
<1>1. ASSUME NEW s \in Slots, NEW d \in Contracts, DeployPut(s, d)
      PROVE  \A t \in Slots : RequestOrder(request[t])'
  <2>1. /\ request'[s].pc = "read_active"
        /\ \A t \in Slots \ {s} : request'[t] = request[t]
    BY <1>1 DEF DeployPut, ServiceTypeOK
  <2>2. RequestOrder(request[s])'
    BY <2>1 DEF RequestOrder, HasAuthority, HasReady
  <2> QED
    BY <2>1, <2>2, MovedRequestOrder
<1>2. ASSUME NEW s \in Slots, DeployPutDefault(s) \/ DeployPutAuthored(s) \/ DeployLock(s)
      PROVE  \A t \in Slots : RequestOrder(request[t])'
  <2>1. /\ request[s].pc \in {"put_default", "put_authored", "lock_deploy"}
        /\ request[s] \in [pc : DeploySteps, contract : Contracts]
    BY <1>2, DeployTyped DEF DeployPutDefault, DeployPutAuthored, DeployLock, DeploySteps
  <2>2. PICK d \in Contracts : d = request[s].contract
    BY <2>1
  <2>3. RequestOrder(request[s])
    BY OrderOfRequests
  <2>4. CASE DeployPutDefault(s)
    BY <2>1, <2>2, <2>4, DeployGotoOrder
    DEF DeployPutDefault, DeploySteps, HasAuthority, HasReady
  <2>5. CASE DeployPutAuthored(s)
    <3>1. (Active(d) # {})'
      BY <2>2, <2>3, <2>5, ShapeSteps DEF RequestOrder, HasAuthority, AuthorityStep, DeployPutAuthored
    <3> QED
      BY <2>1, <2>2, <2>5, <3>1, DeployGotoOrder
      DEF DeployPutAuthored, DeploySteps, HasAuthority, HasReady
  <2>6. CASE DeployLock(s)
    <3>1. Ready(d)'
      BY <2>2, <2>3, <2>6, ReadyStays DEF RequestOrder, HasReady, DeployLock
    <3> QED
      BY <2>1, <2>2, <2>6, <3>1, DeployGotoOrder
      DEF DeployLock, DeploySteps, HasAuthority, HasReady
  <2> QED
    BY <1>2, <2>4, <2>5, <2>6
<1>3. ASSUME NEW s \in Slots, DeployRead(s)
      PROVE  \A t \in Slots : RequestOrder(request[t])'
  BY <1>3, ReadOrder
<1>4. ASSUME NEW s \in Slots, DeployActivateDefault(s)
      PROVE  \A t \in Slots : RequestOrder(request[t])'
  BY <1>4, DefaultOrder
<1>5. ASSUME NEW s \in Slots, DeployActivateAuthored(s)
      PROVE  \A t \in Slots : RequestOrder(request[t])'
  BY <1>5, AuthoredOrder
<1>6. ASSUME NEW s \in Slots, DeployPublish(s) \/ SubmitAdmit(s) \/ Abandon(s)
      PROVE  \A t \in Slots : RequestOrder(request[t])'
  BY <1>6, RespondOrder DEF DeployPublish, SubmitAdmit, Abandon
<1>7. ASSUME NEW s \in Slots, NEW p \in Proposals, NEW t \in Times, SubmitRequest(s, p, t)
      PROVE  \A u \in Slots : RequestOrder(request[u])'
  <2>1. /\ request'[s].pc = "lock_submit"
        /\ \A u \in Slots \ {s} : request'[u] = request[u]
    BY <1>7 DEF SubmitRequest, ServiceTypeOK
  <2>2. RequestOrder(request[s])'
    BY <2>1 DEF RequestOrder, HasAuthority, HasReady
  <2> QED
    BY <2>1, <2>2, MovedRequestOrder
<1>8. ASSUME NEW s \in Slots, SubmitLock(s)
      PROVE  \A t \in Slots : RequestOrder(request[t])'
  <2>1. request[s] \in [pc : SubmitSteps, admission : Admission]
    BY <1>8, SubmitTyped DEF SubmitLock, SubmitSteps
  <2>2. /\ request'[s].pc = "check"
        /\ \A t \in Slots \ {s} : request'[t] = request[t]
    BY <1>8, <2>1 DEF SubmitLock, Goto, ServiceTypeOK
  <2>3. RequestOrder(request[s])'
    BY <2>2 DEF RequestOrder, HasAuthority, HasReady
  <2> QED
    BY <2>2, <2>3, MovedRequestOrder
<1>9. ASSUME NEW s \in Slots, SubmitCheck(s)
      PROVE  \A t \in Slots : RequestOrder(request[t])'
  <2>1. request[s] \in [pc : SubmitSteps, admission : Admission]
    BY <1>9, SubmitTyped DEF SubmitCheck, SubmitSteps
  <2>2. PICK a \in Admission : a = request[s].admission
    BY <2>1
  <2>3. CASE current[Name(a)] = Contract(a) /\ Goto(s, "admit")
    <3>1. PICK d \in Contracts : d = Contract(a)
      BY ExecutablesAssumption DEF Admission, Executable, Contract
    <3>2. NameOf[d] \in Names /\ d # None
      BY ContractsAssumption
    <3>3. Ready(d)
      BY <2>3, <3>1, <3>2 DEF BootstrapOrder, Name
    <3>4. Ready(d)'
      BY <3>3, ReadyStays
    <3>5. /\ request'[s].pc = "admit"
          /\ request'[s].admission = a
          /\ \A t \in Slots \ {s} : request'[t] = request[t]
      BY <2>1, <2>2, <2>3 DEF Goto, ServiceTypeOK
    <3>6. RequestOrder(request[s])'
      BY <3>1, <3>4, <3>5
      DEF RequestOrder, HasAuthority, HasReady, Ready, Active, Settled, Contract, Executable
    <3> QED
      BY <3>5, <3>6, MovedRequestOrder
  <2>4. CASE Respond(s)
    BY <2>4, RespondOrder
  <2> QED
    BY <1>9, <2>2, <2>3, <2>4 DEF SubmitCheck
<1>10. ASSUME NEW i \in Instances, Restart(i)
       PROVE  \A t \in Slots : RequestOrder(request[t])'
  <2> SUFFICES ASSUME NEW t \in Slots
               PROVE  RequestOrder(request[t])'
    OBVIOUS
  <2>1. CASE request'[t] = Idle
    BY <2>1 DEF Idle, RequestOrder, HasAuthority, HasReady
  <2>2. CASE request'[t] = request[t]
    BY <2>2, KeptRequest
  <2> QED
    BY <1>10, <2>1, <2>2 DEF Restart
<1> QED
  BY <1>0, <1>1, <1>2, <1>3, <1>4, <1>5, <1>6, <1>7, <1>8, <1>9, <1>10
  DEF ServiceNext, OperatorActivate, WorkerScan, WorkerAssess, WorkerResolve, WorkerSkip

\* Only a publication moves a current pointer, and only a submission admits.
LEMMA WhoWrites ==
  ASSUME ServiceNext
  PROVE  /\ current' = current \/ \E s \in Slots : DeployPublish(s)
         /\ admissions' = admissions \/ \E s \in Slots : SubmitAdmit(s)
<1> USE DEF storeVars, contractVars, executableVars
<1>1. ASSUME NEW e, Activate(e) \/ PutCandidate(e) \/ OperatorActivate(e)
      PROVE  current' = current /\ admissions' = admissions
  BY <1>1 DEF Activate, PutCandidate, OperatorActivate, ActivateCandidate
<1>2. ASSUME NEW s \in Slots,
             \/ DeployPutDefault(s) \/ DeployPutAuthored(s)
             \/ DeployActivateDefault(s) \/ DeployActivateAuthored(s)
      PROVE  current' = current /\ admissions' = admissions
  BY <1>1, <1>2
  DEF DeployPutDefault, DeployPutAuthored, DeployActivateDefault, DeployActivateAuthored, Bootstrap
<1>3. ASSUME NEW s \in Slots,
             \/ DeployRead(s) \/ DeployLock(s) \/ SubmitLock(s) \/ SubmitCheck(s) \/ Abandon(s)
             \/ \E d \in Contracts : DeployPut(s, d)
             \/ \E p \in Proposals, t \in Times : SubmitRequest(s, p, t)
      PROVE  current' = current /\ admissions' = admissions
  BY <1>3 DEF DeployRead, DeployLock, SubmitLock, SubmitCheck, Abandon, DeployPut, Put, SubmitRequest
<1>4. ASSUME NEW s \in Slots, DeployPublish(s)
      PROVE  admissions' = admissions
  BY <1>4 DEF DeployPublish
<1>5. ASSUME NEW s \in Slots, SubmitAdmit(s)
      PROVE  current' = current
  BY <1>5 DEF SubmitAdmit, Admit, AdmitUnchanged
<1>6. ASSUME NEW i \in Instances, WorkerResolve(i)
      PROVE  current' = current /\ admissions' = admissions
  BY <1>6 DEF WorkerResolve, Resolve, ResolveSuperseded, ResolveRejected, ResolveActivated,
              ResolveUnchanged
<1>7. ASSUME NEW i \in Instances,
             WorkerScan(i) \/ WorkerAssess(i) \/ WorkerSkip(i) \/ Restart(i)
      PROVE  current' = current /\ admissions' = admissions
  BY <1>7 DEF WorkerScan, WorkerAssess, WorkerSkip, Restart
<1> QED
  BY <1>1, <1>2, <1>3, <1>4, <1>5, <1>6, <1>7 DEF ServiceNext

\* What is published or admitted is ready, and readiness stays.
LEMMA ReadyTables ==
  ASSUME ServiceInvariant, Shape, ServiceNext
  PROVE  /\ \A n \in Names : current'[n] # None => Ready(current[n])'
         /\ \A a \in admissions' : Ready(Contract(a))'
<1> USE DEF ServiceInvariant
<1>1. /\ \A n \in Names : current[n] # None => current[n] \in Contracts /\ Ready(current[n])
      /\ \A a \in admissions : Contract(a) \in Contracts /\ Ready(Contract(a))
  BY ExecutablesAssumption
  DEF BootstrapOrder, ServiceTypeOK, StoreTypeOK, ContractTypeOK, Admission, Contract, Executable
<1>2. ASSUME NEW n \in Names, current'[n] # None
      PROVE  Ready(current[n])'
  <2>1. PICK d \in Contracts : d = current'[n] /\ Ready(d)
    <3>1. CASE current'[n] = current[n]
      BY <1>1, <1>2, <3>1
    <3>2. ASSUME NEW s \in Slots, DeployPublish(s), current'[n] # current[n]
          PROVE  current'[n] \in Contracts /\ Ready(current'[n])
      <4>1. request[s].contract \in Contracts /\ Ready(request[s].contract)
        BY <3>2, DeployTyped, OrderOfRequests
        DEF DeployPublish, DeploySteps, RequestOrder, HasReady
      <4>2. current'[n] = request[s].contract
        BY <3>2 DEF DeployPublish, SetCurrent, ServiceTypeOK, StoreTypeOK, ContractTypeOK
      <4> QED
        BY <4>1, <4>2
    <3>3. current' = current \/ \E s \in Slots : DeployPublish(s)
      BY WhoWrites
    <3> QED
      BY <3>1, <3>2, <3>3
  <2>2. Ready(d)'
    BY <2>1, ReadyStays
  <2> QED
    BY <2>1, <2>2 DEF Ready, Active, Settled
<1>3. ASSUME NEW a \in admissions'
      PROVE  Ready(Contract(a))'
  <2>1. PICK d \in Contracts : d = Contract(a) /\ Ready(d)
    <3>1. CASE a \in admissions
      BY <1>1, <3>1
    <3>2. ASSUME NEW s \in Slots, SubmitAdmit(s), a \notin admissions
          PROVE  Contract(a) \in Contracts /\ Ready(Contract(a))
      <4>1. Contract(request[s].admission) \in Contracts /\ Ready(Contract(request[s].admission))
        BY <3>2, SubmitTyped, OrderOfRequests, ExecutablesAssumption
        DEF SubmitAdmit, SubmitSteps, RequestOrder, Admission, Contract, Executable
      <4>2. a.proposal = request[s].admission.proposal
        BY <1>3, <3>2 DEF SubmitAdmit, Admit, AdmitUnchanged, storeVars
      <4> QED
        BY <4>1, <4>2 DEF Contract, Executable
    <3>3. admissions' = admissions \/ \E s \in Slots : SubmitAdmit(s)
      BY WhoWrites
    <3> QED
      BY <1>3, <3>1, <3>2, <3>3
  <2>2. Ready(d)'
    BY <2>1, ReadyStays
  <2> QED
    BY <2>1, <2>2 DEF Ready, Active, Settled, Contract, Executable
<1> QED
  BY <1>2, <1>3

LEMMA ServiceInvariantStep ==
  ServiceInvariant /\ [ServiceNext]_serviceVars => ServiceInvariant'
<1> SUFFICES ASSUME ServiceInvariant, [ServiceNext]_serviceVars
             PROVE  ServiceInvariant'
  OBVIOUS
<1>1. (ServiceTypeOK /\ StoreInvariant)'
  BY ServiceTypesStep DEF ServiceInvariant
<1>2. CASE ServiceNext
  <2>1. ServiceShape
    BY <1>2, ServiceStepShape DEF ServiceInvariant
  <2>2. Shape
    BY <2>1, ServiceShapeIsShape
  <2>3. \A d \in Contracts : ContractOrder(d)'
    BY <2>1, ShapeKeepsOrder DEF ServiceInvariant
  <2>4. /\ \A n \in Names : current'[n] # None => Ready(current[n])'
        /\ \A a \in admissions' : Ready(Contract(a))'
    BY <1>2, <2>2, ReadyTables
  <2>5. \A t \in Slots : RequestOrder(request[t])'
    BY <1>2, <2>2, RequestsStep
  <2>6. BootstrapOrder'
    BY <2>3, <2>4, <2>5
    DEF BootstrapOrder, ContractOrder, RequestOrder, HasAuthority, HasReady
  <2> QED
    BY <1>1, <2>6 DEF ServiceInvariant
<1>3. CASE UNCHANGED serviceVars
  BY <1>1, <1>3
  DEF ServiceInvariant, serviceVars, BootstrapOrder, Ready, Settled, Active, Contract, Executable
<1> QED
  BY <1>2, <1>3

LEMMA ServiceInvariantInit ==
  ServiceInit => ServiceInvariant
<1> SUFFICES ASSUME ServiceInit
             PROVE  ServiceInvariant
  OBVIOUS
<1>1. ServiceTypeOK /\ StoreInvariant
  BY ServiceTypesInit
<1>2. BootstrapOrder
  BY ServiceAssumption
  DEF ServiceInit, StoreInit, ContractInit, BootstrapOrder, Ready, Settled, Active, Idle
<1> QED
  BY <1>1, <1>2 DEF ServiceInvariant

\* The order default, then authored, then candidates, in which the handlers
\* bring a contract into force holds for every interleaving of deployments,
\* submissions, activations and the worker, with disconnects and restarts.
THEOREM BootstrapOrderHolds == ServiceSpec => []BootstrapOrder
<1>1. ServiceInvariant => BootstrapOrder
  BY DEF ServiceInvariant
<1> QED
  BY <1>1, ServiceInvariantInit, ServiceInvariantStep, PTL DEF ServiceSpec

\* The catalog, which requires an active executable of each current contract,
\* finds one, in every state the service can reach.
THEOREM CurrentHasActiveHolds == ServiceSpec => []CurrentHasActive
<1>1. BootstrapOrder => CurrentHasActive
  BY DEF BootstrapOrder, CurrentHasActive, Ready
<1> QED
  BY <1>1, BootstrapOrderHolds, PTL

\* No interleaving makes the handler of a deployment miss the authority that
\* its swallowed activation conflict promised.
THEOREM DeployFindsAuthorityHolds == ServiceSpec => []DeployFindsAuthority
<1>1. BootstrapOrder => DeployFindsAuthority
  BY DEF BootstrapOrder, DeployFindsAuthority
<1> QED
  BY <1>1, BootstrapOrderHolds, PTL

\* A current contract with authored rules does not serve its default.
THEOREM AuthoredReplacesDefaultHolds == ServiceSpec => []AuthoredReplacesDefault
<1>1. ServiceInvariant => AuthoredReplacesDefault
  <2> SUFFICES ASSUME ServiceInvariant, NEW n \in Names, current[n] # None,
                      NEW e \in AuthoredOf[current[n]] \ {DefaultOf[current[n]]}
               PROVE  DefaultOf[current[n]] \notin Active(current[n])
    BY DEF AuthoredReplacesDefault
  <2>1. current[n] \in Contracts
    BY DEF ServiceInvariant, ServiceTypeOK, StoreTypeOK, ContractTypeOK
  <2>2. Settled(e)
    BY DEF ServiceInvariant, BootstrapOrder, Ready
  <2> QED
    BY <2>1, <2>2 DEF ServiceInvariant, BootstrapOrder
<1> QED
  BY <1>1, ServiceInvariantInit, ServiceInvariantStep, PTL DEF ServiceSpec

-----------------------------------------------------------------------------
(* The refinement: the state functions that stand for the variables of       *)
(* RuntimeAuthority, and what each shape of a step does to them.             *)

InForceOf == [d \in Contracts |-> Active(d)]
RetiredOf == {e \in Executables : lifecycle_state[e] = "inactive"}

LEMMA QuietStep ==
  ASSUME StoreInvariant, LifecycleUnchanged \/ \E x \in Executables : Insert(x)
  PROVE  InForceOf' = InForceOf /\ RetiredOf' = RetiredOf
<1>1. \A x \in Executables :
        /\ lifecycle_state'[x] = "active" <=> lifecycle_state[x] = "active"
        /\ lifecycle_state'[x] = "inactive" <=> lifecycle_state[x] = "inactive"
  BY DEF LifecycleUnchanged, Insert, StoreInvariant, StoreTypeOK
<1>2. \A d \in Contracts : Active(d)' = Active(d)
  BY <1>1 DEF Active
<1>3. RetiredOf' = RetiredOf
  BY <1>1 DEF RetiredOf
<1> QED
  BY <1>2, <1>3 DEF InForceOf

LEMMA RetireStep ==
  ASSUME ServiceRetires
  PROVE  InForceOf' = InForceOf /\ RetiredOf \subseteq RetiredOf'
<1>1. PICK L \in SUBSET Executables : AdmittedCandidates(L) /\ Retire(L)
  BY DEF ServiceRetires
<1>2. \A d \in Contracts : Active(d)' = Active(d)
  BY <1>1 DEF Active, Retire, AdmittedCandidates, OnlyCandidates
<1>3. RetiredOf \subseteq RetiredOf'
  BY <1>1 DEF RetiredOf, Retire
<1> QED
  BY <1>2, <1>3 DEF InForceOf

\* What the service installs was never in force and never retired.
LEMMA InstallStep ==
  ASSUME StoreInvariant, BootstrapOrder, ServiceInstalls
  PROVE  \E e \in Executables :
           /\ e \notin RetiredOf \union UNION {InForceOf[d] : d \in Contracts}
           /\ InForceOf' = [InForceOf EXCEPT ![ContractOf[e]] = {e}]
           /\ RetiredOf \subseteq RetiredOf'
           /\ InForceOf[ContractOf[e]] \subseteq RetiredOf'
<1>1. PICK e \in Executables, next \in Nat, L \in SUBSET Executables :
        /\ MayInstall(e)
        /\ AdmittedCandidates(L)
        /\ Replacement(e, next, Active(ContractOf[e]) \union L)
        /\ Install(e, next, Active(ContractOf[e]) \union L)
  BY DEF ServiceInstalls
<1> DEFINE c == ContractOf[e]
           M == Active(c) \union L
<1>2. c \in Contracts
  BY ExecutablesAssumption
<1>3. e \notin M /\ M \in SUBSET Executables
  BY <1>1 DEF Replacement, Active
<1>4. ~Settled(e)
  <2>1. ContractOrder(c)
    BY <1>2, OrderOfEach
  <2>2. CASE e = DefaultOf[c] /\ Active(c) = {}
    BY <2>1, <2>2 DEF ContractOrder
  <2>3. CASE e \in AuthoredOf[c] /\ DefaultOf[c] \in Active(c)
    BY <1>3, <2>1, <2>3 DEF ContractOrder
  <2>4. CASE lifecycle_state[e] = "candidate"
    BY <2>4 DEF Settled
  <2> QED
    BY <1>1, <2>2, <2>3, <2>4 DEF MayInstall
<1>5. /\ lifecycle_state'[e] = "active"
      /\ \A x \in M : lifecycle_state'[x] = "inactive"
      /\ \A x \in Executables \ (M \union {e}) : lifecycle_state'[x] = lifecycle_state[x]
  BY <1>1, <1>3 DEF Install
<1>6. Active(c)' = {e}
  BY <1>5 DEF Active
<1>7. \A d \in Contracts \ {c} : Active(d)' = Active(d)
  BY <1>1, <1>5 DEF Active, AdmittedCandidates, OnlyCandidates
<1>8. InForceOf' = [InForceOf EXCEPT ![c] = {e}]
  BY <1>2, <1>6, <1>7 DEF InForceOf
<1>9. RetiredOf \subseteq RetiredOf'
  BY <1>3, <1>4, <1>5 DEF RetiredOf, Settled
<1>10. InForceOf[c] \subseteq RetiredOf'
  BY <1>2, <1>3, <1>5 DEF RetiredOf, InForceOf
<1>11. e \notin RetiredOf \union UNION {InForceOf[d] : d \in Contracts}
  BY <1>4 DEF RetiredOf, InForceOf, Active, Settled
<1> QED
  BY <1>8, <1>9, <1>10, <1>11

LEMMA ServiceStepRefines ==
  ASSUME ServiceInvariant, ServiceNext
  PROVE  Authority!AuthorityNext \/ UNCHANGED Authority!authorityVars
<1> USE DEF ServiceInvariant
<1>1. ServiceShape
  BY ServiceStepShape
<1>2. /\ RetiredOf' \in SUBSET Executables
      /\ RetiredOf' \intersect UNION {InForceOf'[d] : d \in Contracts} = {}
  BY DEF RetiredOf, InForceOf, Active
<1>3. ASSUME NEW s \in Slots, DeployPublish(s)
      PROVE  Authority!AuthorityNext
  <2>1. PICK d \in Contracts : d = request[s].contract
    BY <1>3, DeployTyped DEF DeployPublish, DeploySteps
  <2>2. Ready(d)
    BY <1>3, <2>1, OrderOfRequests DEF DeployPublish, RequestOrder, HasReady
  <2>3. LifecycleUnchanged /\ current' = [current EXCEPT ![NameOf[d]] = d]
    BY <1>3, <2>1 DEF DeployPublish, SetCurrent, executableVars, LifecycleUnchanged
  <2>4. InForceOf' = InForceOf /\ RetiredOf' = RetiredOf
    BY <2>3, QuietStep
  <2>5. InForceOf[d] # {}
    BY <2>2 DEF Ready, InForceOf
  <2>6. Authority!Publish(d)
    BY <2>3, <2>4, <2>5 DEF Authority!Publish, InForceOf, RetiredOf
  <2> QED
    BY <2>6 DEF Authority!AuthorityNext
<1>4. CASE current' = current
  <2>1. CASE LifecycleUnchanged \/ \E x \in Executables : Insert(x)
    <3>1. InForceOf' = InForceOf /\ RetiredOf' = RetiredOf
      BY <2>1, QuietStep
    <3> QED
      BY <1>4, <3>1 DEF Authority!authorityVars, InForceOf, RetiredOf
  <2>2. CASE ServiceRetires
    <3>1. InForceOf' = InForceOf /\ RetiredOf \subseteq RetiredOf'
      BY <2>2, RetireStep
    <3>2. Authority!Discard
      BY <1>2, <1>4, <3>1
      DEF Authority!Discard, Authority!RetireMore, Authority!InForce, InForceOf, RetiredOf
    <3> QED
      BY <3>2 DEF Authority!AuthorityNext
  <2>3. CASE ServiceInstalls
    <3>1. PICK e \in Executables :
            /\ e \notin RetiredOf \union UNION {InForceOf[d] : d \in Contracts}
            /\ InForceOf' = [InForceOf EXCEPT ![ContractOf[e]] = {e}]
            /\ RetiredOf \subseteq RetiredOf'
            /\ InForceOf[ContractOf[e]] \subseteq RetiredOf'
      BY <2>3, InstallStep
    <3>2. Authority!Grant(e)
      BY <1>2, <1>4, <3>1
      DEF Authority!Grant, Authority!RetireMore, Authority!InForce, InForceOf, RetiredOf
    <3> QED
      BY <3>2 DEF Authority!AuthorityNext
  <2> QED
    BY <1>1, <2>1, <2>2, <2>3 DEF ServiceShape
<1> QED
  BY <1>3, <1>4, WhoWrites

\* The handlers, the worker and their failures implement the abstract
\* authority: one executable at most is in force for a contract, what left the
\* lifecycle never returns, and only a contract in force is published.
THEOREM ServiceImplementsAuthority == ServiceSpec => ImplementsAuthority
<1>1. ServiceInit => Authority!AuthorityInit
  BY DEF ServiceInit, StoreInit, ContractInit, Authority!AuthorityInit, Active
<1>2. ServiceInvariant /\ [ServiceNext]_serviceVars =>
        [Authority!AuthorityNext]_Authority!authorityVars
  <2> SUFFICES ASSUME ServiceInvariant, [ServiceNext]_serviceVars
               PROVE  [Authority!AuthorityNext]_Authority!authorityVars
    OBVIOUS
  <2>1. CASE ServiceNext
    BY <2>1, ServiceStepRefines
  <2>2. CASE UNCHANGED serviceVars
    BY <2>2 DEF serviceVars, Authority!authorityVars, Active
  <2> QED
    BY <2>1, <2>2
<1> QED
  BY <1>1, <1>2, ServiceInvariantInit, ServiceInvariantStep, PTL
  DEF ServiceSpec, ImplementsAuthority, Authority!AuthoritySpec

-----------------------------------------------------------------------------
(* What the worker activates was assessed.  The assessment and the           *)
(* resolution are apart, so the invariant says of a page that is still being *)
(* processed: it has one snapshot per name, of a candidate that can only     *)
(* have been settled since; and what the first one was assessed to be.       *)

\* A submission of a cycle is admitted once (put_analysis_candidate).
OncePerCycle ==
  \A a, b \in admissions : CycleOf[a.proposal] = CycleOf[b.proposal] => a = b

PageSound(page) ==
  /\ \A s, r \in page : Name(s.admission) = Name(r.admission) => s = r
  /\ \A s \in page : s.version = 0 /\ lifecycle_state[Executable(s.admission)] # "absent"

Assessed(s) ==
  /\ Contract(s.admission) \in AutoActivation
  /\ Executable(s.admission) \in Conforming \/ Settled(Executable(s.admission))

WorkerSound(w) ==
  /\ PageSound(w.page)
  /\ w.action = "activate" => \A s \in First(w.page) : Assessed(s)

GrantInvariant ==
  /\ ServiceTypeOK /\ StoreInvariant
  /\ OncePerCycle
  /\ \A i \in Instances : WorkerSound(worker[i])

\* The order of admissions is strict: a name has one newest candidate.
LEMMA OneNewest ==
  ASSUME StoreTypeOK, OncePerCycle, NEW S \in SUBSET admissions,
         NEW a \in Newest(S), NEW b \in Newest(S)
  PROVE  a = b
<1>1. a \in Admission /\ b \in Admission /\ ~Newer(a, b) /\ ~Newer(b, a)
  BY DEF StoreTypeOK, Newest
<1>2. /\ a.created_at \in Nat /\ b.created_at \in Nat
      /\ Executable(a) \in Nat /\ Executable(b) \in Nat
      /\ CycleOf[a.proposal] \in Nat /\ CycleOf[b.proposal] \in Nat
  BY <1>1, ExecutablesAssumption DEF Admission, Executable
<1>3. CycleOf[a.proposal] = CycleOf[b.proposal]
  BY <1>1, <1>2 DEF Newer
<1> QED
  BY <1>3 DEF OncePerCycle, Newest

LEMMA OncePerCycleStep ==
  ASSUME OncePerCycle, StoreNext \/ UNCHANGED storeVars
  PROVE  OncePerCycle'
<1>1. \/ admissions' = admissions
      \/ \E p \in Proposals, t \in Times :
           /\ SameCycle(p) = {}
           /\ admissions' = admissions \union {[proposal |-> p, created_at |-> t]}
  BY DEF StoreNext, storeVars, executableVars, PutAny, SetCurrentAny, PutCandidateAny,
         PutCandidate, AdmitAny, Admit, ActivateAny, Activate, ActivateCandidateAny,
         ActivateCandidate, ResolveSupersededAny, ResolveSuperseded, ResolveRejectedAny,
         ResolveRejected, ResolveActivatedAny, ResolveActivated
<1> QED
  BY <1>1 DEF OncePerCycle, SameCycle

\* No step takes the row of an executable away.
LEMMA RowsStay ==
  ASSUME StoreInvariant, Shape, NEW e \in Executables, lifecycle_state[e] # "absent"
  PROVE  lifecycle_state'[e] # "absent"
<1>0. lifecycle_state \in [Executables -> LifecycleStates]
  BY DEF StoreInvariant, StoreTypeOK
<1>1. CASE \E x \in Executables : Insert(x)
  BY <1>0, <1>1 DEF Insert
<1>2. CASE LifecycleUnchanged
  BY <1>2 DEF LifecycleUnchanged
<1>3. CASE RetiresCandidates
  BY <1>0, <1>3 DEF RetiresCandidates, Retire
<1>4. CASE Replaces
  BY <1>0, <1>4 DEF Replaces, Install
<1> QED
  BY <1>1, <1>2, <1>3, <1>4 DEF Shape

LEMMA SameWorkerSound ==
  ASSUME StoreInvariant, Shape, NEW w, w.page \in SUBSET Snapshots, WorkerSound(w)
  PROVE  WorkerSound(w)'
<1>1. \A s \in w.page : Executable(s.admission) \in Executables
  BY ExecutablesAssumption
  DEF Snapshots, StoreInvariant, StoreTypeOK, Admission, Executable
<1> QED
  BY <1>1, RowsStay, SettledStays
  DEF WorkerSound, PageSound, Assessed, First, Executable, Contract, Name

LEMMA FirstIsOne ==
  ASSUME ServiceTypeOK, NEW page \in SUBSET Snapshots, PageSound(page),
         NEW s \in First(page), NEW r \in First(page)
  PROVE  s = r
<1>1. s \in page /\ r \in page /\ s \in Snapshots /\ r \in Snapshots
  BY DEF First
<1>2. Name(s.admission) \in Nat /\ Name(r.admission) \in Nat
  <2>1. s.admission \in Admission /\ r.admission \in Admission
    BY <1>1 DEF Snapshots, ServiceTypeOK, StoreTypeOK
  <2> QED
    BY <2>1, ExecutablesAssumption, ContractsAssumption
    DEF Admission, Name, Contract, Executable
<1>3. Name(s.admission) <= Name(r.admission) /\ Name(r.admission) <= Name(s.admission)
  BY <1>1 DEF First
<1>4. Name(s.admission) = Name(r.admission)
  BY <1>2, <1>3
<1> QED
  BY <1>1, <1>4 DEF PageSound

\* A scan reads one candidate per name, of rows that are still fresh.
LEMMA ScannedPageSound ==
  ASSUME StoreInvariant, OncePerCycle, NEW listed \in SUBSET Names
  PROVE  PageSound({Snapshot(a) : a \in UNION {Preferred(n) : n \in listed}})
<1> DEFINE page == {Snapshot(a) : a \in UNION {Preferred(n) : n \in listed}}
<1>1. \A n : Preferred(n) \subseteq Pending(n)
  BY DEF Preferred, Newest
<1>2. ASSUME NEW n, NEW a \in Preferred(n), NEW b \in Preferred(n)
      PROVE  a = b
  <2>1. PICK S \in SUBSET admissions : Preferred(n) = Newest(S)
    <3> DEFINE mine == {x \in Pending(n) : Contract(x) = current[n]}
               S == IF mine = {} THEN Pending(n) ELSE mine
    <3>1. S \in SUBSET admissions
      BY DEF Pending
    <3>2. Preferred(n) = Newest(S)
      BY DEF Preferred
    <3> HIDE DEF S
    <3> QED
      BY <3>1, <3>2
  <2>2. a \in Newest(S) /\ b \in Newest(S)
    BY <1>2, <2>1
  <2> QED
    BY <2>2, OneNewest DEF StoreInvariant
<1>3. ASSUME NEW s \in page
      PROVE  \E n \in listed : /\ s.admission \in Preferred(n)
                               /\ Name(s.admission) = n
                               /\ s = Snapshot(s.admission)
                               /\ lifecycle_state[Executable(s.admission)] = "candidate"
                               /\ Executable(s.admission) \in Executables
  <2>0. PICK n \in listed : \E a \in Preferred(n) : s = Snapshot(a)
    BY <1>3
  <2>1. PICK a \in Preferred(n) : s = Snapshot(a)
    BY <2>0
  <2>2. s.admission = a
    BY <2>1 DEF Snapshot
  <2>3. a \in admissions /\ Name(a) = n /\ lifecycle_state[Executable(a)] = "candidate"
    BY <2>1, <1>1 DEF Pending
  <2>4. Executable(a) \in Executables
    BY <2>3, ExecutablesAssumption DEF StoreInvariant, StoreTypeOK, Admission, Executable
  <2> QED
    BY <2>1, <2>2, <2>3, <2>4
<1> HIDE DEF page
<1>4. ASSUME NEW s \in page, NEW r \in page, Name(s.admission) = Name(r.admission)
      PROVE  s = r
  <2>1. PICK n \in listed : /\ s.admission \in Preferred(n) /\ Name(s.admission) = n
                            /\ s = Snapshot(s.admission)
    BY <1>3
  <2>2. PICK m \in listed : /\ r.admission \in Preferred(m) /\ Name(r.admission) = m
                            /\ r = Snapshot(r.admission)
    BY <1>3
  <2>3. s.admission = r.admission
    BY <1>2, <1>4, <2>1, <2>2
  <2> QED
    BY <2>1, <2>2, <2>3
<1>5. ASSUME NEW s \in page
      PROVE  s.version = 0 /\ lifecycle_state[Executable(s.admission)] # "absent"
  <2>1. /\ s = Snapshot(s.admission)
        /\ lifecycle_state[Executable(s.admission)] = "candidate"
        /\ Executable(s.admission) \in Executables
    BY <1>3
  <2>2. state_version[Executable(s.admission)] = 0
    BY <2>1 DEF StoreInvariant, FreshAtZero
  <2>3. Snapshot(s.admission).version = state_version[Executable(s.admission)]
    BY DEF Snapshot
  <2> QED
    BY <2>1, <2>2, <2>3
<1>6. PageSound(page)
  BY <1>4, <1>5 DEF PageSound
<1> QED
  BY <1>6 DEF page

\* An assessment is right when it is made: a candidate at version 0 was
\* verified, and one that is no longer a candidate has been settled.
LEMMA AssessmentIsRight ==
  ASSUME StoreInvariant, NEW s \in Snapshots, s.version = 0,
         lifecycle_state[Executable(s.admission)] # "absent",
         Assessment(s) = "activate"
  PROVE  Assessed(s)
<1>1. Executable(s.admission) \in Executables
  BY SnapshotsTyped DEF StoreInvariant
<1>2. /\ Contract(s.admission) \in AutoActivation
      /\ Unresolved(s) => Executable(s.admission) \in Conforming
  BY DEF Assessment
<1>3. lifecycle_state[Executable(s.admission)] \in {"candidate", "active", "inactive"}
  BY <1>1 DEF StoreInvariant, StoreTypeOK, LifecycleStates
<1>4. CASE lifecycle_state[Executable(s.admission)] = "candidate"
  <2>1. state_version[Executable(s.admission)] = 0
    BY <1>1, <1>4 DEF StoreInvariant, FreshAtZero
  <2> QED
    BY <1>2, <1>4, <2>1 DEF Unresolved, Assessed
<1> QED
  BY <1>2, <1>3, <1>4 DEF Assessed, Settled

\* Every step of the service keeps what is known of each worker's page.
LEMMA WorkerSoundStep ==
  ASSUME GrantInvariant, ServiceNext, NEW i \in Instances,
         NEW w, worker'[i] = w
  PROVE  WorkerSound(w)'
<1>1. Shape
  BY ServiceStepShape, ServiceShapeIsShape DEF GrantInvariant
<1>2. PICK v : v = worker[i]
  OBVIOUS
<1>3. v.page \in SUBSET Snapshots /\ WorkerSound(v) /\ v.page = worker[i].page
  BY <1>2 DEF GrantInvariant, ServiceTypeOK
<1>4. WorkerSound(v)'
  BY <1>1, <1>3, SameWorkerSound DEF GrantInvariant
<1>5. worker \in [Instances -> [cursor : Names \union {0}, page : SUBSET Snapshots,
                                action : {None, "activate", "reject"}]]
  BY DEF GrantInvariant, ServiceTypeOK
<1>6. CASE worker' = worker
  BY <1>2, <1>4, <1>6
<1>7. ASSUME NEW j \in Instances, j # i,
             WorkerScan(j) \/ WorkerAssess(j) \/ WorkerResolve(j) \/ WorkerSkip(j) \/ Restart(j)
      PROVE  w = v
  BY <1>2, <1>5, <1>7
  DEF WorkerScan, WorkerAssess, WorkerResolve, WorkerSkip, Restart, Done
<1>8. CASE WorkerScan(i)
  <2>1. PICK listed \in SUBSET Names :
          /\ w.page = {Snapshot(a) : a \in UNION {Preferred(n) : n \in listed}}
          /\ w.action = None
    <3> DEFINE names == {n \in Names : n > worker[i].cursor /\ Pending(n) # {}}
               listed == {n \in names : Cardinality({m \in names : m < n}) < PageSize}
               page == {Snapshot(a) : a \in UNION {Preferred(n) : n \in listed}}
    <3>1. PICK cursor :
            worker' = [worker EXCEPT ![i] = [cursor |-> cursor, page |-> page, action |-> None]]
      BY <1>8 DEF WorkerScan
    <3>2. listed \in SUBSET Names
      OBVIOUS
    <3> HIDE DEF listed
    <3>3. w.page = page /\ w.action = None
      BY <1>5, <3>1
    <3> QED
      BY <3>2, <3>3
  <2>2. WorkerSound(w)
    <3> DEFINE page == {Snapshot(a) : a \in UNION {Preferred(n) : n \in listed}}
    <3>1. PageSound(page)
      BY ScannedPageSound DEF GrantInvariant
    <3>2. w.page = page /\ w.action # "activate"
      BY <2>1, ServiceAssumption
    <3> HIDE DEF page
    <3> QED
      BY <3>1, <3>2 DEF WorkerSound
  <2> QED
    BY <1>8, <2>2
    DEF WorkerScan, WorkerSound, PageSound, Assessed, Settled, Executable, Contract, Name,
        First, storeVars
<1>9. CASE WorkerAssess(i)
  <2>1. PICK s \in First(v.page) : w = [v EXCEPT !.action = Assessment(s)]
    BY <1>2, <1>5, <1>9 DEF WorkerAssess
  <2>2. w.page = v.page /\ w.action = Assessment(s)
    BY <1>2, <1>5, <2>1
  <2>3. ASSUME NEW r \in First(w.page), Assessment(s) = "activate"
        PROVE  Assessed(r)
    <3>1. r = s
      BY <1>3, <2>1, <2>2, FirstIsOne DEF WorkerSound, GrantInvariant
    <3>2. s \in Snapshots /\ s.version = 0 /\ lifecycle_state[Executable(s.admission)] # "absent"
      BY <1>3, <2>1 DEF First, WorkerSound, PageSound
    <3> QED
      BY <2>3, <3>1, <3>2, AssessmentIsRight DEF GrantInvariant
  <2>4. WorkerSound(w)
    BY <1>3, <2>2, <2>3 DEF WorkerSound, PageSound
  <2> QED
    BY <1>9, <2>4
    DEF WorkerAssess, WorkerSound, PageSound, Assessed, Settled, Executable, Contract, Name,
        First, storeVars
<1>10. CASE WorkerResolve(i) \/ WorkerSkip(i)
  <2>1. PICK s \in First(v.page) :
          w = [cursor |-> v.cursor, page |-> v.page \ {s}, action |-> None]
    BY <1>2, <1>5, <1>10 DEF WorkerResolve, WorkerSkip, Done
  <2>2. w.page \subseteq v.page /\ w.action = None
    BY <2>1
  <2> QED
    BY <1>4, <2>2, ServiceAssumption
    DEF WorkerSound, PageSound, Assessed, Settled, Executable, Contract, Name, First
<1>11. CASE Restart(i)
  <2>1. w.page = {} /\ w.action = None
    BY <1>5, <1>11 DEF Restart, FreshWorker
  <2> QED
    BY <2>1, ServiceAssumption DEF WorkerSound, PageSound
<1>12. \/ worker' = worker
       \/ \E j \in Instances :
            WorkerScan(j) \/ WorkerAssess(j) \/ WorkerResolve(j) \/ WorkerSkip(j) \/ Restart(j)
  BY DEF ServiceNext, DeployPut, DeployRead, DeployPutDefault, DeployActivateDefault,
         DeployPutAuthored, DeployActivateAuthored, DeployLock, DeployPublish, SubmitRequest,
         SubmitLock, SubmitCheck, SubmitAdmit, Abandon, OperatorActivate
<1> QED
  BY <1>2, <1>4, <1>6, <1>7, <1>8, <1>9, <1>10, <1>11, <1>12

LEMMA GrantInvariantStep ==
  GrantInvariant /\ [ServiceNext]_serviceVars => GrantInvariant'
<1> SUFFICES ASSUME GrantInvariant, [ServiceNext]_serviceVars
             PROVE  GrantInvariant'
  OBVIOUS
<1>1. ServiceTypeOK' /\ StoreInvariant' /\ [StoreNext]_storeVars
  BY ServiceTypesStep DEF GrantInvariant
<1>2. OncePerCycle'
  BY <1>1, OncePerCycleStep DEF GrantInvariant
<1>3. CASE ServiceNext
  <2>1. ASSUME NEW i \in Instances
        PROVE  WorkerSound(worker[i])'
    <3>1. PICK w : w = worker'[i]
      OBVIOUS
    <3>2. WorkerSound(w)'
      BY <1>3, <3>1, WorkerSoundStep
    <3> QED
      BY <3>1, <3>2
      DEF WorkerSound, PageSound, Assessed, Settled, Executable, Contract, Name, First
  <2> QED
    BY <1>1, <1>2, <2>1 DEF GrantInvariant
<1>4. CASE UNCHANGED serviceVars
  BY <1>1, <1>2, <1>4
  DEF GrantInvariant, serviceVars, WorkerSound, PageSound, Assessed, Settled, Executable,
      Contract, Name, First
<1> QED
  BY <1>3, <1>4

LEMMA GrantInvariantInit ==
  ServiceInit => GrantInvariant
<1> SUFFICES ASSUME ServiceInit
             PROVE  GrantInvariant
  OBVIOUS
<1>1. ServiceTypeOK /\ StoreInvariant
  BY ServiceTypesInit
<1>2. OncePerCycle
  BY DEF ServiceInit, StoreInit, OncePerCycle
<1>3. \A i \in Instances : worker[i].page = {} /\ worker[i].action = None
  BY DEF ServiceInit, FreshWorker
<1>4. \A i \in Instances : WorkerSound(worker[i])
  BY <1>3, ServiceAssumption DEF WorkerSound, PageSound
<1> QED
  BY <1>1, <1>2, <1>4 DEF GrantInvariant

\* What one step of a worker may install.
LEMMA GrantStep ==
  ASSUME GrantInvariant, ServiceNext, worker' # worker,
         NEW e \in Executables, lifecycle_state'[e] = "active", lifecycle_state[e] # "active"
  PROVE  e \in Conforming /\ ContractOf[e] \in AutoActivation
<1>1. PICK i \in Instances : WorkerResolve(i)
  BY DEF ServiceNext, DeployPut, DeployRead, DeployPutDefault, DeployActivateDefault,
         DeployPutAuthored, DeployActivateAuthored, DeployLock, DeployPublish, SubmitRequest,
         SubmitLock, SubmitCheck, SubmitAdmit, Abandon, OperatorActivate, WorkerScan,
         WorkerAssess, WorkerSkip, Restart, storeVars
<1>2. PICK s \in First(worker[i].page) : Resolve(s, worker[i].action)
  BY <1>1 DEF WorkerResolve
<1>3. worker[i].action = "activate" /\ ResolveActivated(s)
  BY <1>2 DEF Resolve, ResolveSuperseded, ResolveRejected, ResolveUnchanged, Retire, storeVars
<1>4. Assessed(s)
  BY <1>2, <1>3 DEF GrantInvariant, WorkerSound
<1>5. e = Executable(s.admission) /\ Unresolved(s)
  BY <1>3 DEF ResolveActivated, Install
<1> QED
  BY <1>4, <1>5 DEF Assessed, Settled, Unresolved, Contract

\* The activation worker grants authority only to what it assessed: the
\* contract asks for automatic activation and the executable still compiles to
\* its digest.  A candidate that changed between the scan and the assessment is
\* passed on unverified, and the resolution then finds it settled: rows never
\* become candidates again, and every page holds one snapshot per name.
THEOREM WorkerGrantsAssessedHolds == ServiceSpec => WorkerGrantsAssessed
<1> DEFINE Granted ==
      worker' # worker =>
        \A e \in Executables :
          (lifecycle_state'[e] = "active" /\ lifecycle_state[e] # "active") =>
            e \in Conforming /\ ContractOf[e] \in AutoActivation
<1>1. GrantInvariant /\ [ServiceNext]_serviceVars => [Granted]_serviceVars
  BY GrantStep
<1>2. ServiceSpec => []GrantInvariant
  BY GrantInvariantInit, GrantInvariantStep, PTL DEF ServiceSpec
<1> QED
  BY <1>1, <1>2, PTL DEF ServiceSpec, WorkerGrantsAssessed

-----------------------------------------------------------------------------
(* Admissions are fenced while one process serves: the mutex is exclusive    *)
(* within an instance, and a submission that is past its check holds it      *)
(* while its contract is current.                                            *)

MutexExclusive ==
  \A s, t \in Slots :
    InstanceOf[s] = InstanceOf[t] /\ HoldsMutex(s) /\ HoldsMutex(t) => s = t

CheckedIsCurrent ==
  \A s \in Slots :
    request[s].pc = "admit" => current[Name(request[s].admission)] = Contract(request[s].admission)

FenceInvariant ==
  /\ ServiceTypeOK /\ StoreInvariant
  /\ MutexExclusive
  /\ CheckedIsCurrent

\* How a step may move the requests: one of them, which takes the mutex only
\* when it is free and passes the check only on a current contract; or none but
\* to end them.
RequestMoves(s) ==
  /\ \A t \in Slots \ {s} : request'[t] = request[t]
  /\ request'[s].pc \in {"publish", "check", "admit"} => HoldsMutex(s) \/ MutexFree(InstanceOf[s])
  /\ request'[s].pc = "admit" =>
       /\ current' = current
       /\ current[Name(request'[s].admission)] = Contract(request'[s].admission)

RequestsEnd == \A t \in Slots : request'[t] = request[t] \/ request'[t] = Idle

LEMMA HowRequestsMove ==
  ASSUME ServiceTypeOK, ServiceNext
  PROVE  RequestsEnd \/ \E s \in Slots : RequestMoves(s)
<1>1. request \in [Slots -> {Idle} \union [pc : DeploySteps, contract : Contracts]
                                  \union [pc : SubmitSteps, admission : Admission]]
  BY DEF ServiceTypeOK
<1>2. ASSUME NEW s \in Slots, NEW step, Goto(s, step), request[s].pc \in DeploySteps \union SubmitSteps
      PROVE  /\ request'[s].pc = step
             /\ request[s].pc \in SubmitSteps => request'[s].admission = request[s].admission
             /\ \A t \in Slots \ {s} : request'[t] = request[t]
  <2>1. request'[s] = [request[s] EXCEPT !.pc = step]
    BY <1>1, <1>2 DEF Goto
  <2>2. \A t \in Slots \ {s} : request'[t] = request[t]
    BY <1>1, <1>2 DEF Goto
  <2>3. CASE request[s].pc \in DeploySteps
    BY <1>2, <2>1, <2>2, <2>3, DeployTyped DEF DeploySteps, SubmitSteps
  <2>4. CASE request[s].pc \in SubmitSteps
    BY <2>1, <2>2, <2>4, SubmitTyped
  <2> QED
    BY <1>2, <2>3, <2>4
<1>3. ASSUME NEW s \in Slots,
             DeployRead(s) \/ DeployPutDefault(s) \/ DeployActivateDefault(s)
               \/ DeployPutAuthored(s) \/ DeployActivateAuthored(s)
      PROVE  RequestMoves(s)
  <2>1. PICK step \in DeploySteps \ {"publish"} : Goto(s, step) /\ request[s].pc \in DeploySteps
    BY <1>3
    DEF DeployRead, DeployPutDefault, DeployActivateDefault, DeployPutAuthored,
        DeployActivateAuthored, DeploySteps, AfterDefault
  <2>2. step \notin {"publish", "check", "admit"}
    BY <2>1 DEF DeploySteps
  <2> QED
    BY <1>2, <2>1, <2>2 DEF RequestMoves
<1>4. ASSUME NEW s \in Slots, DeployLock(s) \/ SubmitLock(s)
      PROVE  RequestMoves(s)
  <2>1. PICK step \in {"publish", "check"} :
          /\ Goto(s, step) /\ request[s].pc \in DeploySteps \union SubmitSteps
          /\ MutexFree(InstanceOf[s])
    BY <1>4 DEF DeployLock, SubmitLock, DeploySteps, SubmitSteps
  <2> QED
    BY <1>2, <2>1 DEF RequestMoves
<1>5. ASSUME NEW s \in Slots, SubmitCheck(s)
      PROVE  RequestsEnd \/ RequestMoves(s)
  <2>1. CASE Respond(s)
    BY <1>1, <2>1 DEF Respond, RequestsEnd
  <2>2. CASE Goto(s, "admit") /\ current[Name(request[s].admission)] = Contract(request[s].admission)
    <3>1. request[s].pc = "check" /\ request[s].pc \in SubmitSteps /\ current' = current
      BY <1>5 DEF SubmitCheck, SubmitSteps, storeVars
    <3>2. /\ request'[s].pc = "admit" /\ request'[s].admission = request[s].admission
          /\ \A t \in Slots \ {s} : request'[t] = request[t]
      BY <1>2, <2>2, <3>1
    <3> QED
      BY <2>2, <3>1, <3>2 DEF RequestMoves, HoldsMutex
  <2> QED
    BY <1>5, <2>1, <2>2 DEF SubmitCheck
<1>6. ASSUME NEW s \in Slots,
             \/ \E d \in Contracts : DeployPut(s, d)
             \/ \E p \in Proposals, t \in Times : SubmitRequest(s, p, t)
      PROVE  RequestMoves(s)
  <2>1. /\ \A t \in Slots \ {s} : request'[t] = request[t]
        /\ request'[s].pc \in {"read_active", "lock_submit"}
    BY <1>1, <1>6 DEF DeployPut, SubmitRequest
  <2> QED
    BY <2>1 DEF RequestMoves
<1>7. ASSUME NEW s \in Slots, DeployPublish(s) \/ SubmitAdmit(s) \/ Abandon(s)
      PROVE  RequestsEnd
  BY <1>1, <1>7 DEF DeployPublish, SubmitAdmit, Abandon, Respond, RequestsEnd
<1>8. ASSUME NEW i \in Instances, Restart(i)
      PROVE  RequestsEnd
  BY <1>8 DEF Restart, RequestsEnd
<1>9. ASSUME \/ \E e \in Executables : OperatorActivate(e)
             \/ \E i \in Instances :
                  WorkerScan(i) \/ WorkerAssess(i) \/ WorkerResolve(i) \/ WorkerSkip(i)
      PROVE  RequestsEnd
  BY <1>9 DEF OperatorActivate, WorkerScan, WorkerAssess, WorkerResolve, WorkerSkip, RequestsEnd
<1> QED
  BY <1>3, <1>4, <1>5, <1>6, <1>7, <1>8, <1>9 DEF ServiceNext

\* The mutex of an instance has one holder at most, with any number of
\* instances.
LEMMA MutexStep ==
  ASSUME MutexExclusive, RequestsEnd \/ \E s \in Slots : RequestMoves(s)
  PROVE  MutexExclusive'
<1>1. CASE RequestsEnd
  BY <1>1 DEF RequestsEnd, MutexExclusive, HoldsMutex, Idle
<1>2. ASSUME NEW s \in Slots, RequestMoves(s)
      PROVE  MutexExclusive'
  <2>1. \A t \in Slots \ {s} : HoldsMutex(t)' <=> HoldsMutex(t)
    BY <1>2 DEF RequestMoves, HoldsMutex
  <2>2. HoldsMutex(s)' => HoldsMutex(s) \/ MutexFree(InstanceOf[s])
    BY <1>2 DEF RequestMoves, HoldsMutex
  <2>3. ASSUME NEW t \in Slots \ {s}, InstanceOf[s] = InstanceOf[t], HoldsMutex(s)', HoldsMutex(t)'
        PROVE  FALSE
    <3>1. HoldsMutex(t)
      BY <2>1, <2>3
    <3>2. ~MutexFree(InstanceOf[s])
      BY <2>3, <3>1 DEF MutexFree
    <3> QED
      BY <2>2, <2>3, <3>1, <3>2 DEF MutexExclusive
  <2>4. ASSUME NEW t \in Slots, NEW u \in Slots, InstanceOf[t] = InstanceOf[u],
               HoldsMutex(t)', HoldsMutex(u)'
        PROVE  t = u
    BY <2>1, <2>3, <2>4 DEF MutexExclusive
  <2> QED
    BY <2>4 DEF MutexExclusive
<1> QED
  BY <1>1, <1>2

\* Whoever publishes holds the mutex, so nobody of its instance is past a check.
LEMMA CheckedStep ==
  ASSUME FenceInvariant, ServiceNext, \A i, j \in Instances : i = j
  PROVE  CheckedIsCurrent'
<1>1. RequestsEnd \/ \E s \in Slots : RequestMoves(s)
  BY HowRequestsMove DEF FenceInvariant
<1>2. ASSUME NEW t \in Slots, request[t].pc = "admit", request'[t] = request[t]
      PROVE  current' = current
  <2>1. ASSUME NEW s \in Slots, DeployPublish(s)
        PROVE  FALSE
    <3>1. HoldsMutex(s) /\ HoldsMutex(t) /\ request[s].pc = "publish"
      BY <1>2, <2>1 DEF DeployPublish, HoldsMutex
    <3>2. InstanceOf[s] = InstanceOf[t]
      BY ServiceAssumption
    <3> QED
      BY <1>2, <3>1, <3>2 DEF FenceInvariant, MutexExclusive
  <2> QED
    BY <2>1, WhoWrites
<1>3. ASSUME NEW t \in Slots, request'[t].pc = "admit"
      PROVE  current'[Name(request'[t].admission)] = Contract(request'[t].admission)
  <2>1. CASE request'[t] = request[t]
    BY <1>2, <1>3, <2>1 DEF FenceInvariant, CheckedIsCurrent
  <2>2. CASE request'[t] = Idle
    BY <1>3, <2>2 DEF Idle
  <2>3. CASE RequestMoves(t)
    BY <1>3, <2>3 DEF RequestMoves
  <2> QED
    BY <1>1, <2>1, <2>2, <2>3 DEF RequestsEnd, RequestMoves
<1> QED
  BY <1>3 DEF CheckedIsCurrent, Name, Contract, Executable

LEMMA FenceInvariantStep ==
  ASSUME \A i, j \in Instances : i = j
  PROVE  FenceInvariant /\ [ServiceNext]_serviceVars => FenceInvariant'
<1> SUFFICES ASSUME FenceInvariant, [ServiceNext]_serviceVars
             PROVE  FenceInvariant'
  OBVIOUS
<1>1. ServiceTypeOK' /\ StoreInvariant'
  BY ServiceTypesStep DEF FenceInvariant
<1>2. CASE ServiceNext
  BY <1>1, <1>2, HowRequestsMove, MutexStep, CheckedStep DEF FenceInvariant
<1>3. CASE UNCHANGED serviceVars
  BY <1>1, <1>3
  DEF FenceInvariant, serviceVars, MutexExclusive, HoldsMutex, CheckedIsCurrent, Name, Contract,
      Executable
<1> QED
  BY <1>2, <1>3

LEMMA FenceInvariantInit ==
  ServiceInit => FenceInvariant
BY ServiceTypesInit
DEF ServiceInit, FenceInvariant, MutexExclusive, CheckedIsCurrent, HoldsMutex, Idle

\* With one process on the database an analysis candidate is admitted only
\* while its contract is current, although the check and the insertion are
\* separate store calls: whoever moves the pointer holds the same mutex.  The
\* hypothesis is needed: the mutex is in the process, and between the check and
\* the insertion of one process another one can publish.
THEOREM AdmissionFencedHolds ==
  ASSUME \A i, j \in Instances : i = j
  PROVE  ServiceSpec => AdmissionFenced
<1> DEFINE Fenced == \A a \in admissions' \ admissions : current[Name(a)] = Contract(a)
<1>1. ASSUME FenceInvariant, ServiceNext
      PROVE  Fenced
  <2>1. ASSUME NEW a \in admissions' \ admissions
        PROVE  current[Name(a)] = Contract(a)
    <3>1. PICK s \in Slots : SubmitAdmit(s)
      BY <1>1, <2>1, WhoWrites
    <3>2. a.proposal = request[s].admission.proposal /\ request[s].pc = "admit"
      BY <2>1, <3>1 DEF SubmitAdmit, Admit, AdmitUnchanged, storeVars
    <3> QED
      BY <1>1, <3>2 DEF FenceInvariant, CheckedIsCurrent, Name, Contract, Executable
  <2> QED
    BY <2>1
<1>2. FenceInvariant /\ [ServiceNext]_serviceVars => [Fenced]_serviceVars
  BY <1>1
<1>3. ServiceSpec => []FenceInvariant
  BY FenceInvariantInit, FenceInvariantStep, PTL DEF ServiceSpec
<1> QED
  BY <1>2, <1>3, PTL DEF ServiceSpec, AdmissionFenced
=============================================================================
