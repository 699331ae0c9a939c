--------------------------- MODULE ContractService ---------------------------
(***************************************************************************)
(* The Contract Service: the HTTP handlers that deploy contracts, admit    *)
(* analysis candidates and activate them on an operator's request, and the *)
(* paced activation worker, over the stores of ExecutableStore.            *)
(*                                                                         *)
(* An action is the code between two awaits: one store call, or one wait   *)
(* for the mutex that serializes moves of the current pointer with         *)
(* admissions.  The mutex lives in the process, so each instance has its   *)
(* own; the database is shared by all of them.  The guard is a local of    *)
(* the handler's future: a request that ends, fails or is dropped releases *)
(* it, so the holder of the mutex is the request that is past the wait.    *)
(***************************************************************************)
EXTENDS ExecutableStore

CONSTANTS
  Instances,       \* service processes on the one database
  Slots,           \* HTTP requests being served at a time
  InstanceOf,      \* the process that serves a slot
  DefaultOf,       \* the executable compiled from a contract's default
  AuthoredOf,      \* the executable compiled from its authored rules, if any
  AutoActivation,  \* contracts whose learning policy is auto-activation
  Conforming,      \* executables that still compile to their own digest
  PageSize         \* names per scan of the activation worker (100 in the code)

ASSUME ServiceAssumption ==
  /\ InstanceOf \in [Slots -> Instances]
  /\ DefaultOf \in [Contracts -> Executables]
  /\ AuthoredOf \in [Contracts -> SUBSET Executables]
  /\ \A d \in Contracts :
       /\ ContractOf[DefaultOf[d]] = d
       /\ \A e, f \in AuthoredOf[d] : ContractOf[e] = d /\ e = f
  /\ AutoActivation \subseteq Contracts
  /\ Conforming \subseteq Executables
  /\ PageSize \in Nat \ {0}
  /\ None \notin {"activate", "reject"}

VARIABLES
  request,  \* what each slot is doing, with the handler's locals
  worker    \* the activation worker of each instance

serviceVars == <<resources, versions, current, lifecycle_state, state_version,
                 admissions, request, worker>>

Idle == [pc |-> "idle"]
DeploySteps ==
  {"read_active", "put_default", "activate_default", "reread_active",
   "put_authored", "activate_authored", "read_authored", "lock_deploy", "publish",
   "integrity"}
SubmitSteps == {"lock_submit", "check", "admit"}

\* cursor is next_contract_name (0 for None); page holds the snapshots of the
\* scan still to process; action is the assessment of the first of them.
ServiceTypeOK ==
  /\ StoreTypeOK
  /\ request \in [Slots -> {Idle} \union [pc : DeploySteps, contract : Contracts]
                                  \union [pc : SubmitSteps, admission : Admission]]
  /\ worker \in [Instances -> [cursor : Names \union {0}, page : SUBSET Snapshots,
                             action : {None, "activate", "reject"}]]

FreshWorker == [cursor |-> 0, page |-> {}, action |-> None]

ServiceInit ==
  /\ StoreInit
  /\ request = [s \in Slots |-> Idle]
  /\ worker = [i \in Instances |-> FreshWorker]

-----------------------------------------------------------------------------
(* The mutex current_mutation of an instance. *)

\* Slip: the guard of a submission is dropped before the insertion.
HoldsMutexForCheck(s) == request[s].pc \in {"publish", "check"}

\* Slip: the mutex is already taken where the handler waits for it.
HoldsMutexTwice(s) == request[s].pc \in {"lock_deploy", "publish", "check", "admit"}

HoldsMutex(s) == request[s].pc \in {"publish", "check", "admit"}
MutexFree(i) == \A s \in Slots : InstanceOf[s] = i => ~HoldsMutex(s)

Goto(s, step) == request' = [request EXCEPT ![s].pc = step]

Respond(s) == request' = [request EXCEPT ![s] = Idle]

-----------------------------------------------------------------------------
(* PUT of a contract.  Validation and compilation are pure; the read back of *)
(* the version just stored always succeeds, since versions are never deleted.*)

DeployPut(s, d) ==
  /\ request[s] = Idle
  /\ Put(d)
  /\ request' = [request EXCEPT ![s] = [pc |-> "read_active", contract |-> d]]
  /\ UNCHANGED <<executableVars, worker>>

\* Where deployment goes once the active executable is known.
AfterDefault(d, active) ==
  IF active = {DefaultOf[d]} /\ AuthoredOf[d] # {} THEN "put_authored"
  ELSE IF active = {} THEN "integrity" ELSE "lock_deploy"

\* Slip: a contract that has an active executable needs no authored one.
DeployReadOnce(s) ==
  LET d == request[s].contract
  IN /\ \/ /\ request[s].pc = "read_active"
           /\ Goto(s, IF Active(d) = {} THEN "put_default" ELSE "lock_deploy")
        \/ /\ request[s].pc = "reread_active"
           /\ Goto(s, AfterDefault(d, Active(d)))
        \/ /\ request[s].pc = "read_authored"
           /\ Goto(s, IF Active(d) = {} THEN "integrity" ELSE "lock_deploy")
     /\ UNCHANGED <<storeVars, worker>>

DeployRead(s) ==
  LET d == request[s].contract
  IN /\ \/ /\ request[s].pc = "read_active"
           /\ Goto(s, IF Active(d) = {} THEN "put_default" ELSE AfterDefault(d, Active(d)))
        \/ /\ request[s].pc = "reread_active"
           /\ Goto(s, AfterDefault(d, Active(d)))
        \/ /\ request[s].pc = "read_authored"
           /\ Goto(s, IF Active(d) = {} THEN "integrity" ELSE "lock_deploy")
     /\ UNCHANGED <<storeVars, worker>>

DeployPutDefault(s) ==
  /\ request[s].pc = "put_default"
  /\ PutCandidate(DefaultOf[request[s].contract])
  /\ Goto(s, "activate_default")
  /\ UNCHANGED worker

DeployPutAuthored(s) ==
  /\ request[s].pc = "put_authored"
  /\ \E e \in AuthoredOf[request[s].contract] : PutCandidate(e)
  /\ Goto(s, "activate_authored")
  /\ UNCHANGED worker

\* Slip: activate is called without an expectation.
BootstrapAlways(e, expected) == Activate(e)

\* activate or activate_if_none: the expected executable must be the active
\* one; an ActivationConflict means another request won and is not an error.
Bootstrap(e, expected) ==
  \/ Active(ContractOf[e]) = expected /\ Activate(e)
  \/ Active(ContractOf[e]) # expected /\ UNCHANGED storeVars

DeployActivateDefault(s) ==
  /\ request[s].pc = "activate_default"
  /\ Bootstrap(DefaultOf[request[s].contract], {})
  /\ Goto(s, "reread_active")
  /\ UNCHANGED worker

DeployActivateAuthored(s) ==
  /\ request[s].pc = "activate_authored"
  /\ \E e \in AuthoredOf[request[s].contract] :
       Bootstrap(e, {DefaultOf[request[s].contract]})
  /\ Goto(s, "read_authored")
  /\ UNCHANGED worker

DeployLock(s) ==
  /\ request[s].pc = "lock_deploy"
  /\ MutexFree(InstanceOf[s])
  /\ Goto(s, "publish")
  /\ UNCHANGED <<storeVars, worker>>

DeployPublish(s) ==
  /\ request[s].pc = "publish"
  /\ SetCurrent(request[s].contract)
  /\ Respond(s)
  /\ UNCHANGED <<executableVars, worker>>

-----------------------------------------------------------------------------
(* POST of an analysis candidate.  The contract must exist; created_at is    *)
(* taken before the wait for the mutex.                                      *)

SubmitRequest(s, p, t) ==
  /\ request[s] = Idle
  /\ ContractOf[CandidateOf[p]] \in versions
  /\ request' = [request EXCEPT ![s] =
       [pc |-> "lock_submit", admission |-> [proposal |-> p, created_at |-> t]]]
  /\ UNCHANGED <<storeVars, worker>>

SubmitLock(s) ==
  /\ request[s].pc = "lock_submit"
  /\ MutexFree(InstanceOf[s])
  /\ Goto(s, "check")
  /\ UNCHANGED <<storeVars, worker>>

SubmitCheck(s) ==
  LET a == request[s].admission
  IN /\ request[s].pc = "check"
     /\ \/ current[Name(a)] = Contract(a) /\ Goto(s, "admit")
        \/ current[Name(a)] # Contract(a) /\ Respond(s)
     /\ UNCHANGED <<storeVars, worker>>

SubmitAdmit(s) ==
  /\ request[s].pc = "admit"
  /\ \/ Admit(request[s].admission.proposal, request[s].admission.created_at)
     \/ AdmitUnchanged(request[s].admission.proposal)
  /\ Respond(s)
  /\ UNCHANGED worker

-----------------------------------------------------------------------------
(* POST of a manual activation.  A client sends any versions it has seen;    *)
(* only a request whose expectations hold when it commits changes anything.  *)

OperatorActivate(e) ==
  /\ ActivateCandidate(e, state_version[e], ActiveTokens(ContractOf[e]))
  /\ UNCHANGED <<request, worker>>

-----------------------------------------------------------------------------
(* The activation worker: scan a page of names, then for each snapshot       *)
(* assess it and resolve it.  A stale snapshot is the normal case.           *)

\* The candidate a scan proposes for a name: the newest one of the current
\* contract, else the newest of all.
Preferred(n) ==
  LET mine == {a \in Pending(n) : Contract(a) = current[n]}
  IN Newest(IF mine = {} THEN Pending(n) ELSE mine)

\* Slip: the cursor is not reset after the last page.
WorkerScanOnward(i) ==
  LET names == {n \in Names : n > worker[i].cursor /\ Pending(n) # {}}
      listed == {n \in names : Cardinality({m \in names : m < n}) < PageSize}
  IN /\ worker[i].page = {}
     /\ \E cursor \in listed :
          /\ \A n \in listed : n <= cursor
          /\ worker' = [worker EXCEPT ![i] =
               [cursor |-> cursor,
                page   |-> {Snapshot(a) : a \in UNION {Preferred(n) : n \in listed}},
                action |-> None]]
     /\ UNCHANGED <<storeVars, request>>

WorkerScan(i) ==
  LET names == {n \in Names : n > worker[i].cursor /\ Pending(n) # {}}
      listed == {n \in names : Cardinality({m \in names : m < n}) < PageSize}
  IN /\ worker[i].page = {}
     /\ \E cursor \in listed \union {0} :
          /\ IF listed = names THEN cursor = 0
             ELSE cursor \in listed /\ \A n \in listed : n <= cursor
          /\ worker' = [worker EXCEPT ![i] =
               [cursor |-> cursor,
                page   |-> {Snapshot(a) : a \in UNION {Preferred(n) : n \in listed}},
                action |-> None]]
     /\ UNCHANGED <<storeVars, request>>

First(page) == {s \in page : \A r \in page : Name(s.admission) <= Name(r.admission)}

\* Slip: the learning policy of the contract is not consulted.
AssessmentByCompiler(s) ==
  IF Unresolved(s) => Executable(s.admission) \in Conforming THEN "activate" ELSE "reject"

\* A candidate that changed since the scan is passed on unverified: resolve
\* will find that it changed.
Assessment(s) ==
  IF /\ Contract(s.admission) \in AutoActivation
     /\ Unresolved(s) => Executable(s.admission) \in Conforming
  THEN "activate" ELSE "reject"

WorkerAssess(i) ==
  /\ worker[i].action = None
  /\ \E s \in First(worker[i].page) :
       worker' = [worker EXCEPT ![i].action = Assessment(s)]
  /\ UNCHANGED <<storeVars, request>>

Done(i, s) ==
  worker' = [worker EXCEPT ![i] =
    [cursor |-> worker[i].cursor, page |-> worker[i].page \ {s}, action |-> None]]

WorkerResolve(i) ==
  /\ worker[i].action # None
  /\ \E s \in First(worker[i].page) : Resolve(s, worker[i].action) /\ Done(i, s)
  /\ UNCHANGED request

\* An infrastructure error while assessing or resolving: logged, next snapshot.
WorkerSkip(i) ==
  /\ \E s \in First(worker[i].page) : Done(i, s)
  /\ UNCHANGED <<storeVars, request>>

-----------------------------------------------------------------------------
(* Failures. *)

\* The client disconnects, or a store call fails: the future ends where it is.
Abandon(s) ==
  /\ request[s] # Idle
  /\ Respond(s)
  /\ UNCHANGED <<storeVars, worker>>

\* The process dies and comes back: its requests and its scan are gone.
Restart(i) ==
  /\ request' = [s \in Slots |-> IF InstanceOf[s] = i THEN Idle ELSE request[s]]
  /\ worker' = [worker EXCEPT ![i] = FreshWorker]
  /\ UNCHANGED storeVars

-----------------------------------------------------------------------------

ServiceNext ==
  \/ \E s \in Slots :
       \/ \E d \in Contracts : DeployPut(s, d)
       \/ DeployRead(s)
       \/ DeployPutDefault(s)
       \/ DeployActivateDefault(s)
       \/ DeployPutAuthored(s)
       \/ DeployActivateAuthored(s)
       \/ DeployLock(s)
       \/ DeployPublish(s)
       \/ \E p \in Proposals, t \in Times : SubmitRequest(s, p, t)
       \/ SubmitLock(s)
       \/ SubmitCheck(s)
       \/ SubmitAdmit(s)
       \/ Abandon(s)
  \/ \E e \in Executables : OperatorActivate(e)
  \/ \E i \in Instances :
       \/ WorkerScan(i)
       \/ WorkerAssess(i)
       \/ WorkerResolve(i)
       \/ WorkerSkip(i)
       \/ Restart(i)

ServiceSpec == ServiceInit /\ [][ServiceNext]_serviceVars

\* A handler that is not dropped is polled to its end, and the tokio mutex is
\* handed over in the order of arrival.
RequestFairness ==
  \A s \in Slots :
    /\ WF_serviceVars(\/ DeployRead(s) \/ DeployPutDefault(s) \/ DeployActivateDefault(s)
                      \/ DeployPutAuthored(s) \/ DeployActivateAuthored(s)
                      \/ DeployPublish(s) \/ SubmitCheck(s) \/ SubmitAdmit(s))
    /\ SF_serviceVars(DeployLock(s) \/ SubmitLock(s))

\* The worker polls for as long as its process runs, and storage failures and
\* restarts are transient: an assessment or a resolution that is tried again
\* and again in the end succeeds.
WorkerFairness ==
  \A i \in Instances :
    /\ WF_serviceVars(WorkerScan(i))
    /\ SF_serviceVars(WorkerAssess(i))
    /\ SF_serviceVars(WorkerResolve(i))

FairServiceSpec == ServiceSpec /\ RequestFairness /\ WorkerFairness

-----------------------------------------------------------------------------
(* What the service promises. *)

\* Every current contract has an active executable, however deployments,
\* activations, disconnects and restarts interleave: the catalog and the name
\* reads, which require one of each current contract, never meet a hole.
CurrentHasActive ==
  \A n \in Names : current[n] # None => Active(current[n]) # {}

\* The lifecycle of an executable has begun for good: it is or was in force, or
\* it was retired.
Settled(e) == lifecycle_state[e] \in {"active", "inactive"}

\* A contract is ready for publication: it has authority, and the order default
\* before authored is behind it.
Ready(d) == Active(d) # {} /\ \A e \in AuthoredOf[d] : Settled(e)

\* The order of bootstrap, which no transaction checks: the default is the first
\* executable in force, the authored one comes next and only from the default,
\* and candidates compete only for contracts that are ready.  Deployments keep
\* it however they overlap, stop halfway or are retried.
BootstrapOrder ==
  /\ \A d \in Contracts :
       /\ Active(d) = {} => \A e \in Executables : ContractOf[e] = d => ~Settled(e)
       /\ Active(d) # {} => Settled(DefaultOf[d])
       /\ \A a \in Active(d) : a # DefaultOf[d] => Ready(d)
       /\ DefaultOf[d] \in Active(d) =>
            \A e \in AuthoredOf[d] \ {DefaultOf[d]} : ~Settled(e)
  /\ \A n \in Names : current[n] # None => Ready(current[n])
  /\ \A a \in admissions : Ready(Contract(a))
  /\ \A s \in Slots :
       /\ request[s].pc \in {"reread_active", "put_authored", "activate_authored"} =>
            Active(request[s].contract) # {}
       /\ request[s].pc \in {"read_authored", "lock_deploy", "publish"} =>
            Ready(request[s].contract)
       /\ request[s].pc = "admit" => Ready(Contract(request[s].admission))
       /\ request[s].pc # "integrity"

\* No deployment ends with the integrity error for a default activation that
\* produced no authority, although it swallows every activation conflict.
DeployFindsAuthority == \A s \in Slots : request[s].pc # "integrity"

\* Once a contract with authored rules has been made current, its default
\* executable is no longer the active one: a retried or concurrent deployment,
\* a conflict or a crash between the two activations never publishes a
\* contract that serves its default in place of its authored behaviour.
AuthoredReplacesDefault ==
  \A n \in Names : current[n] # None =>
    \A e \in AuthoredOf[current[n]] \ {DefaultOf[current[n]]} :
      DefaultOf[current[n]] \notin Active(current[n])

\* An analysis candidate is admitted only while its contract is current: the
\* check and the insertion are separate store calls that the mutex joins.
AdmissionFenced ==
  [][\A a \in admissions' \ admissions : current[Name(a)] = Contract(a)]_serviceVars

\* What the worker activates was assessed: its contract asks for automatic
\* activation and it still compiles to its digest, although a candidate that
\* changed after the scan is passed on unverified.
WorkerGrantsAssessed ==
  [][worker' # worker =>
       \A e \in Executables :
         (lifecycle_state'[e] = "active" /\ lifecycle_state[e] # "active") =>
           e \in Conforming /\ ContractOf[e] \in AutoActivation]_serviceVars

\* A deployment or a submission that is being served ends: nobody keeps the
\* mutex, and nobody who waits for it is passed over forever.
RequestsFinish == \A s \in Slots : request[s] # Idle ~> request[s] = Idle

\* Every admitted candidate is eventually activated or retired, in spite of
\* newer candidates, moving current pointers, failed steps and restarts.
CandidatesResolve ==
  \A p \in Proposals :
    (\E a \in admissions : a.proposal = p /\ lifecycle_state[Executable(a)] = "candidate")
      ~> lifecycle_state[CandidateOf[p]] \in {"active", "inactive"}

-----------------------------------------------------------------------------
(* The service implements the abstract authority. *)

Authority == INSTANCE RuntimeAuthority WITH
  activation <- [d \in Contracts |-> Active(d)],
  retired <- {e \in Executables : lifecycle_state[e] = "inactive"},
  published <- current

\* Every step of every handler, worker and failure is a grant, a discard, a
\* publication or no step at all of the abstract authority: in particular no
\* transaction of the service brings a retired executable back, although the
\* bootstrap activations accept an executable in any lifecycle state.
ImplementsAuthority == Authority!AuthoritySpec

=============================================================================
