-------------------------- MODULE AgentSessionsProofs --------------------------
(***************************************************************************)
(* The runtime's account of its clients and the records of the sessions,    *)
(* for every number of workspaces, clients, calls, attempts, edits and      *)
(* queries, and whatever a scenario allows.                                *)
(*                                                                         *)
(* ClientsAccounted is not inductive: what keeps it is who holds the lock,  *)
(* that a client being stopped was taken from the runtime before, and that  *)
(* nobody refers to a client that does not exist yet.                      *)
(*                                                                         *)
(* Nor are RecordsFaithful and RecordsOnlyGrow: what keeps them is that no  *)
(* place of a record is one a session may write to or takes away with a     *)
(* directory, that the records have different places, what each call takes  *)
(* for granted of the records it has left when it makes its next step, and  *)
(* that a capture has what was read of its pipe.                           *)
(***************************************************************************)
EXTENDS AgentSessions, LoopProofs

WorkerPcs ==
  {"idle", "polling", "returned", "client", "launching", "creating", "invalidating",
   "stopping", "running", "broken", "closing", "closingAgain"}

WorkerRecords ==
  [pc : WorkerPcs, client : SUBSET Clients, retried : BOOLEAN,
   mode : {"run", "superseded", "yielding"}, next : {"none", "record", "complete"}]

ClientStates == {"unborn", "running", "failed", "discarded", "stopped"}

ClientTypes ==
  /\ service \in {"running", "stopping", "stopped"}
  /\ clients \in [Clients -> ClientStates]
  /\ current \in SUBSET Clients
  /\ worker \in [Spaces -> WorkerRecords]
  /\ session \in [Spaces -> SUBSET Clients]

\* A client is started under the lock, while the runtime has none.
StartsAlone ==
  \A s \in Spaces : worker[s].pc = "launching" => lock = {s} /\ current = {}

\* A client that is being stopped is the runtime's no more.
TakenApart ==
  \A s \in Spaces : worker[s].pc = "stopping" => worker[s].client \intersect current = {}

\* Nobody has a client that has not been started.
NoneUnborn ==
  \A s \in Spaces : (worker[s].client \union session[s]) \intersect Unborn = {}

\* Only a client that does not work is given up, and it never works again.
GivenUpFailed ==
  \A s \in Spaces : worker[s].pc \in {"invalidating", "stopping"} => ~Works(worker[s].client)

ClientsInv ==
  ClientTypes /\ ClientsAccounted /\ StartsAlone /\ TakenApart /\ NoneUnborn /\ GivenUpFailed

-----------------------------------------------------------------------------
(* Steps that leave the clients alone *)

\* Nothing the invariant reads changes.
LEMMA ClientsUntouched ==
  ASSUME ClientsInv, UNCHANGED <<service, clients, current, lock, worker, session>>
  PROVE  ClientsInv'
BY DEF ClientsInv, ClientTypes, ClientsAccounted, StartsAlone, TakenApart, NoneUnborn, Unborn,
       GivenUpFailed, Works

\* One worker moves on with a client it may know, and its session with it.
LEMMA WorkerMoves ==
  ASSUME ClientsInv, NEW s \in Spaces, UNCHANGED <<service, clients, current>>,
         lock' \in {lock, lock \ {s}},
         worker' \in [Spaces -> WorkerRecords],
         \A t \in Spaces : t # s => worker'[t] = worker[t],
         worker'[s].pc \notin {"launching", "stopping"},
         worker'[s].client \intersect Unborn = {},
         worker'[s].pc = "invalidating" => ~Works(worker'[s].client),
         session' \in [Spaces -> SUBSET Clients],
         \A t \in Spaces : session'[t] \subseteq session[t] \union worker[t].client
  PROVE  ClientsInv'
<1>1. ClientTypes'
  BY DEF ClientsInv, ClientTypes
<1>2. ClientsAccounted'
  BY DEF ClientsInv, ClientsAccounted
<1>3. StartsAlone'
  BY DEF ClientsInv, StartsAlone
<1>4. TakenApart'
  BY DEF ClientsInv, TakenApart
<1>5. NoneUnborn'
  <2>1. Unborn' = Unborn
    BY DEF Unborn
  <2> QED
    BY <2>1 DEF ClientsInv, NoneUnborn
<1>6. GivenUpFailed'
  BY DEF ClientsInv, GivenUpFailed, Works
<1> QED
  BY <1>1, <1>2, <1>3, <1>4, <1>5, <1>6 DEF ClientsInv

-----------------------------------------------------------------------------
(* The initial states *)

LEMMA ClientsStart == SessionsInit => ClientsInv
<1> SUFFICES ASSUME SessionsInit PROVE ClientsInv
  OBVIOUS
<1>1. \A s \in Spaces : worker[s] \in WorkerRecords /\ worker[s].client = {}
                         /\ worker[s].pc \in {"idle", "returned"}
  BY DEF SessionsInit, Starting, Resting, WorkerRecords, WorkerPcs
<1>2. ClientTypes
  BY <1>1 DEF SessionsInit, ClientTypes, ClientStates, Starting
<1>3. ClientsAccounted
  BY DEF SessionsInit, ClientsAccounted
<1>4. StartsAlone /\ TakenApart /\ GivenUpFailed
  BY <1>1 DEF StartsAlone, TakenApart, GivenUpFailed
<1>5. NoneUnborn
  BY <1>1 DEF SessionsInit, NoneUnborn
<1> QED
  BY <1>2, <1>3, <1>4, <1>5 DEF ClientsInv

-----------------------------------------------------------------------------
(* The steps of a worker *)

\* The record of a worker stays one when its fields change, and says the rest.
LEMMA WorkerFields ==
  ASSUME worker \in [Spaces -> WorkerRecords], NEW s \in Spaces,
         NEW pc \in WorkerPcs, NEW ns \in SUBSET Clients,
         NEW mode \in {"run", "superseded", "yielding"},
         NEW next \in {"none", "record", "complete"},
         \/ worker' = [worker EXCEPT ![s].pc = pc] /\ ns = worker[s].client
         \/ worker' = [worker EXCEPT ![s].pc = pc, ![s].client = ns]
         \/ worker' = [worker EXCEPT ![s].client = ns, ![s].pc = pc]
         \/ worker' = [worker EXCEPT ![s].pc = pc, ![s].retried = TRUE] /\ ns = worker[s].client
         \/ worker' = [worker EXCEPT ![s].pc = pc, ![s].next = next] /\ ns = worker[s].client
         \/ worker' = [worker EXCEPT ![s].mode = mode] /\ ns = worker[s].client
                                                       /\ pc = worker[s].pc
  PROVE  /\ worker' \in [Spaces -> WorkerRecords]
         /\ worker'[s].pc = pc /\ worker'[s].client = ns
         /\ \A t \in Spaces : t # s => worker'[t] = worker[t]
<1>1. PICK r : /\ r \in WorkerRecords /\ r.pc = pc /\ r.client = ns
               /\ worker' = [worker EXCEPT ![s] = r]
  <2>1. CASE worker' = [worker EXCEPT ![s].pc = pc] /\ ns = worker[s].client
    <3> WITNESS [worker[s] EXCEPT !.pc = pc]
    <3> QED BY <2>1 DEF WorkerRecords
  <2>2. CASE worker' = [worker EXCEPT ![s].pc = pc, ![s].client = ns]
    <3> WITNESS [worker[s] EXCEPT !.pc = pc, !.client = ns]
    <3> QED BY <2>2 DEF WorkerRecords
  <2>3. CASE worker' = [worker EXCEPT ![s].client = ns, ![s].pc = pc]
    <3> WITNESS [worker[s] EXCEPT !.client = ns, !.pc = pc]
    <3> QED BY <2>3 DEF WorkerRecords
  <2>4. CASE worker' = [worker EXCEPT ![s].pc = pc, ![s].retried = TRUE] /\ ns = worker[s].client
    <3> WITNESS [worker[s] EXCEPT !.pc = pc, !.retried = TRUE]
    <3> QED BY <2>4 DEF WorkerRecords
  <2>5. CASE worker' = [worker EXCEPT ![s].pc = pc, ![s].next = next] /\ ns = worker[s].client
    <3> WITNESS [worker[s] EXCEPT !.pc = pc, !.next = next]
    <3> QED BY <2>5 DEF WorkerRecords
  <2>6. CASE worker' = [worker EXCEPT ![s].mode = mode] /\ ns = worker[s].client /\ pc = worker[s].pc
    <3> WITNESS [worker[s] EXCEPT !.mode = mode]
    <3> QED BY <2>6 DEF WorkerRecords
  <2> QED
    BY <2>1, <2>2, <2>3, <2>4, <2>5, <2>6
<1> QED
  BY <1>1

LEMMA RestingIsRecord ==
  \A pc \in WorkerPcs : /\ Resting(pc) \in WorkerRecords
                        /\ Resting(pc).pc = pc /\ Resting(pc).client = {}
BY DEF Resting, WorkerRecords

\* The other worker steps leave the clients and the lock, and go on with a
\* client of theirs, of their session, or the runtime's.
LEMMA WorkerSteps ==
  ASSUME ClientsInv, NEW s \in Spaces,
         \/ Polls(s) \/ FindsNothing(s) \/ Claims(s) \/ TakesClient(s) \/ SessionStarts(s)
         \/ CreationBreaks(s) \/ AcquisitionEnds(s) \/ RunBreaks(s) \/ RunEnds(s)
         \/ HandoffRefused(s) \/ Interrupted(s) \/ Superseded(s) \/ SupersessionEnds(s)
         \/ ShutsDown(s) \/ GraceElapses(s) \/ Closes(s) \/ CloseFails(s)
  PROVE  ClientsInv'
<1> USE DEF ClientsInv, ClientTypes
<1> DEFINE Moves(pc, ns) ==
      /\ worker' \in [Spaces -> WorkerRecords]
      /\ worker'[s].pc = pc /\ worker'[s].client = ns
      /\ \A t \in Spaces : t # s => worker'[t] = worker[t]
<1>r. ASSUME NEW pc \in WorkerPcs, worker' = [worker EXCEPT ![s] = Resting(pc)]
      PROVE  Moves(pc, {})
  BY <1>r, RestingIsRecord
<1>g. ASSUME NEW pc \in WorkerPcs, Goto(s, pc)
      PROVE  Moves(pc, worker[s].client)
  BY <1>g, WorkerFields DEF Goto, WorkerRecords
<1>b. /\ worker[s] \in WorkerRecords /\ worker[s].client \intersect Unborn = {}
      /\ session[s] \intersect Unborn = {} /\ current \intersect Unborn = {}
      /\ worker[s].pc \in WorkerPcs /\ worker[s].client \in SUBSET Clients
  <2>1. current \intersect Unborn = {}
    BY DEF ClientsAccounted, Unborn
  <2> QED
    BY <2>1 DEF NoneUnborn, WorkerRecords
<1>k. ASSUME NEW pc \in WorkerPcs \ {"launching", "stopping"}, NEW ns, Moves(pc, ns),
             ns \intersect Unborn = {}, pc = "invalidating" => ~Works(ns),
             UNCHANGED <<service, clients, current>>, lock' \in {lock, lock \ {s}},
             session' = session \/ session' = [session EXCEPT ![s] = {}]
      PROVE  ClientsInv'
  <2>1. /\ session' \in [Spaces -> SUBSET Clients]
        /\ \A t \in Spaces : session'[t] \subseteq session[t] \union worker[t].client
    BY <1>k
  <2> HIDE DEF ClientsInv, ClientTypes
  <2> QED
    BY <1>k, <2>1, WorkerMoves
<1>f. Finishes(s) => \E pc \in {"idle", "returned"} : Moves(pc, {})
  BY <1>r DEF Finishes, Rests, WorkerPcs
<1>n. ASSUME NEW pc \in WorkerPcs, NEW next \in {"none", "record", "complete"},
             worker' = [worker EXCEPT ![s].pc = pc, ![s].next = next]
      PROVE  Moves(pc, worker[s].client)
  <2>1. "run" \in {"run", "superseded", "yielding"}
    OBVIOUS
  <2> QED
    BY <1>n, <1>b, <2>1, WorkerFields
<1>o. ASSUME NEW mode \in {"run", "superseded", "yielding"},
             worker' = [worker EXCEPT ![s].mode = mode]
      PROVE  Moves(worker[s].pc, worker[s].client)
  <2>1. "none" \in {"none", "record", "complete"}
    OBVIOUS
  <2> QED
    BY <1>o, <1>b, <2>1, WorkerFields
<1>c. ASSUME NEW pc \in WorkerPcs, NEW ns \in SUBSET Clients,
             worker' = [worker EXCEPT ![s].pc = pc, ![s].client = ns]
      PROVE  Moves(pc, ns)
  <2>1. /\ "run" \in {"run", "superseded", "yielding"}
        /\ "none" \in {"none", "record", "complete"}
    OBVIOUS
  <2> QED
    BY <1>c, <1>b, <2>1, WorkerFields
<1> HIDE DEF Moves, ClientsInv, ClientTypes
<1>1. ASSUME Polls(s) PROVE ClientsInv'
  <2>1. PICK pc \in {"polling", "returned"} : Goto(s, pc)
    BY <1>1 DEF Polls
  <2>2. Moves(pc, worker[s].client)
    BY <1>g, <2>1 DEF WorkerPcs
  <2> QED
    BY <1>1, <1>b, <1>k, <2>2 DEF Polls, WorkerPcs
<1>2. ASSUME FindsNothing(s) PROVE ClientsInv'
  BY <1>2, <1>f, <1>k DEF FindsNothing, WorkerPcs
<1>3. ASSUME Claims(s) PROVE ClientsInv'
  <2>1. Moves("client", {})
    BY <1>3, <1>r DEF Claims, WorkerPcs
  <2> QED
    BY <1>3, <1>k, <2>1 DEF Claims, WorkerPcs
<1>4. ASSUME TakesClient(s) PROVE ClientsInv'
  <2>1. current \in SUBSET Clients
    BY DEF ClientsInv, ClientTypes
  <2>2. Moves("creating", current)
    BY <1>4, <1>c, <2>1 DEF TakesClient, WorkerPcs
  <2> QED
    BY <1>4, <1>b, <1>k, <2>2 DEF TakesClient, WorkerPcs
<1>5. ASSUME SessionStarts(s) PROVE ClientsInv'
  <2>1. Moves("running", worker[s].client)
    BY <1>5, <1>g DEF SessionStarts, WorkerPcs
  <2>2. /\ session' \in [Spaces -> SUBSET Clients]
        /\ \A t \in Spaces : session'[t] \subseteq session[t] \union worker[t].client
    BY <1>5, <1>b DEF SessionStarts, ClientsInv, ClientTypes
  <2> QED
    BY <1>5, <1>b, <2>1, <2>2, WorkerMoves DEF SessionStarts, Moves
<1>6. ASSUME CreationBreaks(s) PROVE ClientsInv'
  <2>1. /\ "run" \in {"run", "superseded", "yielding"}
        /\ "none" \in {"none", "record", "complete"} /\ "invalidating" \in WorkerPcs
        /\ worker \in [Spaces -> WorkerRecords]
    BY DEF WorkerPcs, ClientsInv, ClientTypes
  <2>2. Moves("invalidating", worker[s].client)
    BY <1>6, <1>b, <2>1, WorkerFields DEF CreationBreaks, Moves
  <2> QED
    BY <1>6, <1>b, <1>k, <2>2 DEF CreationBreaks, WorkerPcs
<1>7. ASSUME AcquisitionEnds(s) PROVE ClientsInv'
  BY <1>7, <1>f, <1>k DEF AcquisitionEnds, LockDropped, WorkerPcs
<1>8. ASSUME RunBreaks(s) PROVE ClientsInv'
  <2>1. session[s] \in SUBSET Clients
    BY DEF ClientsInv, ClientTypes
  <2>2. Moves("invalidating", session[s])
    BY <1>8, <1>c, <2>1 DEF RunBreaks, WorkerPcs
  <2> QED
    BY <1>8, <1>b, <1>k, <2>2 DEF RunBreaks, WorkerPcs
<1>l. ASSUME NEW next \in {"none", "record", "complete"}, ToClose(s, next),
             UNCHANGED <<service, clients, current, lock, session>>
      PROVE  ClientsInv'
  <2>1. Moves("closing", worker[s].client)
    BY <1>l, <1>n DEF ToClose, WorkerPcs
  <2> QED
    BY <1>l, <1>b, <1>k, <2>1 DEF WorkerPcs
<1>9. ASSUME RunEnds(s) PROVE ClientsInv'
  BY <1>9, <1>l DEF RunEnds
<1>10. ASSUME HandoffRefused(s) PROVE ClientsInv'
  <2>1. Moves("closingAgain", worker[s].client)
    BY <1>10, <1>g DEF HandoffRefused, WorkerPcs
  <2> QED
    BY <1>10, <1>b, <1>k, <2>1 DEF HandoffRefused, WorkerPcs
<1>11. ASSUME Interrupted(s) PROVE ClientsInv'
  BY <1>11, <1>l DEF Interrupted
<1>12. ASSUME SupersessionEnds(s) \/ GraceElapses(s) PROVE ClientsInv'
  BY <1>12, <1>l DEF SupersessionEnds, GraceElapses
<1>13. ASSUME Superseded(s) \/ ShutsDown(s) PROVE ClientsInv'
  <2>1. Moves(worker[s].pc, worker[s].client)
    BY <1>13, <1>o DEF Superseded, ShutsDown
  <2>2. CASE worker[s].pc # "stopping"
    <3>1. worker[s].pc = "invalidating" => ~Works(worker[s].client)
      BY DEF ClientsInv, GivenUpFailed
    <3> QED
      BY <1>13, <1>b, <1>k, <2>1, <2>2, <3>1 DEF Superseded, ShutsDown, InRun
  <2>3. CASE worker[s].pc = "stopping"
    <3>1. \A t \in Spaces : worker'[t].pc = worker[t].pc /\ worker'[t].client = worker[t].client
      BY <2>1 DEF Moves
    <3>2. UNCHANGED <<service, clients, current, lock, session>> /\ Unborn' = Unborn
      BY <1>13 DEF Superseded, ShutsDown, Unborn
    <3>3. worker' \in [Spaces -> WorkerRecords]
      BY <2>1 DEF Moves
    <3> QED
      BY <3>1, <3>2, <3>3
         DEF ClientsInv, ClientTypes, ClientsAccounted, StartsAlone, TakenApart, NoneUnborn,
             GivenUpFailed, Works
  <2> QED
    BY <2>2, <2>3
<1>14. ASSUME Closes(s) PROVE ClientsInv'
  BY <1>14, <1>f, <1>k DEF Closes, WorkerPcs
<1>15. ASSUME CloseFails(s) PROVE ClientsInv'
  <2>1. \/ \E pc \in {"idle", "returned"} : Moves(pc, {})
        \/ Moves("closingAgain", worker[s].client)
    BY <1>15, <1>f, <1>n DEF CloseFails, WorkerPcs
  <2> QED
    BY <1>15, <1>b, <1>k, <2>1 DEF CloseFails, WorkerPcs
<1> QED
  BY <1>1, <1>2, <1>3, <1>4, <1>5, <1>6, <1>7, <1>8, <1>9, <1>10, <1>11, <1>12, <1>13,
     <1>14, <1>15

LEMMA FreshIsUnborn == Unborn # {} => Fresh \in Unborn
BY DEF Fresh

\* The lock is taken: nobody else starts a client.
LEMMA StartsClientKeeps ==
  ASSUME ClientsInv, NEW s \in Spaces, StartsClient(s)
  PROVE  ClientsInv'
<1>1. /\ worker' \in [Spaces -> WorkerRecords]
      /\ worker'[s].pc = "launching" /\ worker'[s].client = worker[s].client
      /\ \A t \in Spaces : t # s => worker'[t] = worker[t]
  <2>1. /\ "run" \in {"run", "superseded", "yielding"}
        /\ "none" \in {"none", "record", "complete"} /\ "launching" \in WorkerPcs
        /\ worker \in [Spaces -> WorkerRecords] /\ worker[s].client \in SUBSET Clients
    BY DEF WorkerPcs, ClientsInv, ClientTypes, WorkerRecords
  <2> QED
    BY <2>1, WorkerFields DEF StartsClient, Goto
<1>2. /\ UNCHANGED <<service, clients, current, session>> /\ Unborn' = Unborn
      /\ lock = {} /\ lock' = {s} /\ current = {}
  BY DEF StartsClient, Unborn, Unlocked
<1>3. ClientTypes'
  BY <1>1, <1>2 DEF ClientsInv, ClientTypes
<1>4. ClientsAccounted'
  BY <1>2 DEF ClientsInv, ClientsAccounted
<1>5. StartsAlone'
  BY <1>1, <1>2 DEF ClientsInv, StartsAlone
<1>6. TakenApart'
  BY <1>1, <1>2 DEF ClientsInv, TakenApart
<1>7. NoneUnborn'
  BY <1>1, <1>2 DEF ClientsInv, NoneUnborn
<1>8. GivenUpFailed'
  BY <1>1, <1>2 DEF ClientsInv, GivenUpFailed, Works
<1> QED
  BY <1>3, <1>4, <1>5, <1>6, <1>7, <1>8 DEF ClientsInv

\* The client is the only one that runs, as the runtime has none meanwhile.
LEMMA ClientStartsKeeps ==
  ASSUME ClientsInv, NEW s \in Spaces, ClientStarts(s)
  PROVE  ClientsInv'
<1> DEFINE n == Fresh
<1>1. n \in Clients /\ clients[n] = "unborn"
  BY FreshIsUnborn DEF ClientStarts, Unborn
<1>2. /\ worker' \in [Spaces -> WorkerRecords]
      /\ worker'[s].pc = "creating" /\ worker'[s].client = {n}
      /\ \A t \in Spaces : t # s => worker'[t] = worker[t]
  <2>1. /\ "run" \in {"run", "superseded", "yielding"}
        /\ "none" \in {"none", "record", "complete"} /\ "creating" \in WorkerPcs
        /\ worker \in [Spaces -> WorkerRecords] /\ {n} \in SUBSET Clients
    BY <1>1 DEF WorkerPcs, ClientsInv, ClientTypes
  <2>2. worker' = [worker EXCEPT ![s].pc = "creating", ![s].client = {n}]
    BY DEF ClientStarts
  <2> HIDE DEF n
  <2> QED
    BY <2>1, <2>2, WorkerFields
<1>3. /\ clients' = [clients EXCEPT ![n] = "running"] /\ current' = {n} /\ lock' = {}
      /\ UNCHANGED <<service, session>> /\ worker[s].pc = "launching"
      /\ clients \in [Clients -> ClientStates]
  BY DEF ClientStarts, ClientsInv, ClientTypes
<1> HIDE DEF n
<1>4. current = {} /\ \A t \in Spaces : t # s => worker[t].pc # "launching"
  BY <1>3 DEF ClientsInv, StartsAlone
<1>5. /\ clients' \in [Clients -> ClientStates] /\ clients'[n] = "running"
      /\ \A m \in Clients : m # n => clients'[m] = clients[m]
  BY <1>1, <1>3 DEF ClientStates
<1>6. ClientTypes'
  BY <1>1, <1>2, <1>3, <1>5 DEF ClientsInv, ClientTypes
<1>7. ClientsAccounted'
  BY <1>3, <1>4, <1>5 DEF ClientsInv, ClientsAccounted
<1>8. StartsAlone'
  BY <1>2, <1>4 DEF StartsAlone
<1>9. Unborn' = Unborn \ {n}
  BY <1>5 DEF Unborn
<1>10. NoneUnborn'
  BY <1>2, <1>3, <1>9 DEF ClientsInv, NoneUnborn
<1>11. TakenApart'
  <2>1. n \in Unborn
    BY <1>1 DEF Unborn
  <2> QED
    BY <1>2, <1>3, <2>1 DEF ClientsInv, TakenApart, NoneUnborn
<1>12. GivenUpFailed'
  <2>1. n \in Unborn
    BY <1>1 DEF Unborn
  <2> QED
    BY <1>2, <1>3, <1>5, <2>1 DEF ClientsInv, GivenUpFailed, NoneUnborn, Works
<1> QED
  BY <1>6, <1>7, <1>8, <1>10, <1>11, <1>12 DEF ClientsInv

\* What is taken from the runtime is no more the runtime's.
LEMMA InvalidatesKeeps ==
  ASSUME ClientsInv, NEW s \in Spaces, Invalidates(s)
  PROVE  ClientsInv'
<1> DEFINE taken == Taken(worker[s].client)
           next == IF taken = {} THEN AfterInvalidation(s) ELSE "stopping"
<1>1. /\ taken \subseteq current /\ taken \subseteq worker[s].client
      /\ taken \in SUBSET Clients /\ next \in WorkerPcs
      /\ next # "launching"
  BY DEF Taken, ClientsInv, ClientTypes, AfterInvalidation, WorkerPcs
<1>2. /\ UNCHANGED <<service, clients, lock, session>> /\ Unborn' = Unborn /\ lock = {}
      /\ current' = current \ taken
  BY DEF Invalidates, Unborn, Unlocked
<1>3. ~Works(taken)
  BY <1>1 DEF ClientsInv, GivenUpFailed, Invalidates, Works
<1>4. /\ worker' \in [Spaces -> WorkerRecords]
      /\ worker'[s].pc = next /\ worker'[s].client = taken
      /\ \A t \in Spaces : t # s => worker'[t] = worker[t]
  <2>1. /\ "run" \in {"run", "superseded", "yielding"}
        /\ "none" \in {"none", "record", "complete"}
        /\ worker \in [Spaces -> WorkerRecords]
    BY DEF ClientsInv, ClientTypes
  <2>2. worker' = [worker EXCEPT ![s].client = taken, ![s].pc = next]
    BY DEF Invalidates
  <2> HIDE DEF taken, next
  <2> QED
    BY <1>1, <2>1, <2>2, WorkerFields
<1>a. /\ worker[s].client \intersect Unborn = {} /\ taken \intersect Unborn = {}
      /\ worker[s].pc = "invalidating"
  BY <1>1 DEF ClientsInv, NoneUnborn, Invalidates
<1> HIDE DEF taken, next
<1>5. ClientTypes'
  BY <1>1, <1>2, <1>4 DEF ClientsInv, ClientTypes
<1>6. ClientsAccounted'
  BY <1>1, <1>2, <1>3 DEF ClientsInv, ClientsAccounted, Works
<1>7. StartsAlone'
  BY <1>1, <1>2, <1>4 DEF ClientsInv, StartsAlone
<1>8. TakenApart'
  BY <1>1, <1>2, <1>4 DEF ClientsInv, TakenApart
<1>9. NoneUnborn'
  BY <1>2, <1>4, <1>a DEF ClientsInv, NoneUnborn
<1>10. GivenUpFailed'
  BY <1>2, <1>3, <1>4 DEF ClientsInv, GivenUpFailed, Works
<1> QED
  BY <1>5, <1>6, <1>7, <1>8, <1>9, <1>10 DEF ClientsInv

\* A client that stops was given up before, and is nobody's to use.
LEMMA StopsClientKeeps ==
  ASSUME ClientsInv, NEW s \in Spaces, StopsClient(s)
  PROVE  ClientsInv'
<1>1. /\ worker' \in [Spaces -> WorkerRecords]
      /\ worker'[s].pc \in {"client", "broken"} /\ worker'[s].client = worker[s].client
      /\ \A t \in Spaces : t # s => worker'[t] = worker[t]
  <2>1. /\ "run" \in {"run", "superseded", "yielding"}
        /\ "none" \in {"none", "record", "complete"}
        /\ AfterInvalidation(s) \in WorkerPcs /\ AfterInvalidation(s) \in {"client", "broken"}
        /\ worker \in [Spaces -> WorkerRecords] /\ worker[s].client \in SUBSET Clients
    BY DEF WorkerPcs, ClientsInv, ClientTypes, WorkerRecords, AfterInvalidation
  <2> QED
    BY <2>1, WorkerFields DEF StopsClient, Goto
<1>2. /\ UNCHANGED <<service, current, lock, session>>
      /\ clients' = Stopped(worker[s].client)
      /\ ~Works(worker[s].client) /\ worker[s].client \intersect current = {}
      /\ worker[s].client \intersect Unborn = {}
  BY DEF StopsClient, ClientsInv, GivenUpFailed, TakenApart, NoneUnborn
<1>3. \A n \in Clients :
        /\ clients'[n] = IF n \in worker[s].client THEN "discarded" ELSE clients[n]
        /\ n \in worker[s].client => clients[n] # "running"
  BY <1>2 DEF Stopped, Works
<1>4. clients' \in [Clients -> ClientStates] /\ Unborn' = Unborn
  BY <1>2, <1>3 DEF ClientsInv, ClientTypes, ClientStates, Stopped, Unborn
<1>5. ClientTypes'
  BY <1>1, <1>2, <1>4 DEF ClientsInv, ClientTypes
<1>6. ClientsAccounted'
  BY <1>2, <1>3 DEF ClientsInv, ClientTypes, ClientsAccounted
<1>7. StartsAlone'
  BY <1>1, <1>2 DEF ClientsInv, StartsAlone
<1>8. TakenApart'
  BY <1>1, <1>2 DEF ClientsInv, TakenApart
<1>9. NoneUnborn'
  BY <1>1, <1>2, <1>4 DEF ClientsInv, NoneUnborn
<1>10. GivenUpFailed'
  <2>1. ASSUME NEW t \in Spaces, worker'[t].pc \in {"invalidating", "stopping"}
        PROVE  \A n \in worker'[t].client : clients'[n] # "running"
    <3>1. worker'[t] = worker[t] /\ ~Works(worker[t].client) /\ worker[t].client \in SUBSET Clients
      BY <1>1, <2>1 DEF ClientsInv, ClientTypes, GivenUpFailed, WorkerRecords
    <3> QED
      BY <1>3, <3>1 DEF Works
  <2> QED
    BY <2>1 DEF GivenUpFailed, Works
<1> QED
  BY <1>5, <1>6, <1>7, <1>8, <1>9, <1>10 DEF ClientsInv

LEMMA WorkerKeeps ==
  ASSUME ClientsInv, NEW s \in Spaces, WorkerStep(s)
  PROVE  ClientsInv'
BY WorkerSteps, StartsClientKeeps, ClientStartsKeeps, InvalidatesKeeps, StopsClientKeeps
   DEF WorkerStep

-----------------------------------------------------------------------------
(* The other steps *)

LEMMA ClientFailsKeeps ==
  ASSUME ClientsInv, NEW n \in Clients, ClientFails(n)
  PROVE  ClientsInv'
<1>1. /\ UNCHANGED <<service, current, lock, worker, session>>
      /\ clients[n] = "running" /\ clients' = [clients EXCEPT ![n] = "failed"]
      /\ clients \in [Clients -> ClientStates]
  BY DEF ClientFails, ClientsInv, ClientTypes
<1>2. \A m \in Clients : clients'[m] = IF m = n THEN "failed" ELSE clients[m]
  BY <1>1
<1>3. clients' \in [Clients -> ClientStates] /\ Unborn' = Unborn
  BY <1>1, <1>2 DEF ClientStates, Unborn
<1>4. ClientTypes' /\ StartsAlone' /\ TakenApart' /\ NoneUnborn'
  BY <1>1, <1>3 DEF ClientsInv, ClientTypes, StartsAlone, TakenApart, NoneUnborn
<1>5. ClientsAccounted'
  BY <1>1, <1>2 DEF ClientsInv, ClientTypes, ClientsAccounted
<1>6. GivenUpFailed'
  <2>1. \A t \in Spaces : worker[t].client \subseteq Clients
    BY DEF ClientsInv, ClientTypes, WorkerRecords
  <2> QED
    BY <1>1, <1>2, <2>1 DEF ClientsInv, GivenUpFailed, Works
<1> QED
  BY <1>4, <1>5, <1>6 DEF ClientsInv

LEMMA SessionDroppedKeeps ==
  ASSUME ClientsInv, NEW s \in Spaces, SessionDropped(s)
  PROVE  ClientsInv'
<1>1. /\ UNCHANGED <<service, clients, current, lock, worker>> /\ Unborn' = Unborn
      /\ session' = [session EXCEPT ![s] = {}]
  BY DEF SessionDropped, Unborn
<1>2. ClientTypes' /\ NoneUnborn'
  BY <1>1 DEF ClientsInv, ClientTypes, NoneUnborn
<1> QED
  BY <1>1, <1>2
     DEF ClientsInv, ClientsAccounted, StartsAlone, TakenApart, GivenUpFailed, Works

LEMMA StopRequestedKeeps ==
  ASSUME ClientsInv, StopRequested
  PROVE  ClientsInv'
BY DEF StopRequested, ClientsInv, ClientTypes, ClientsAccounted, StartsAlone, TakenApart,
       NoneUnborn, Unborn, GivenUpFailed, Works

\* The workers have returned: the runtime's client is the only one to stop.
LEMMA ServiceEndsKeeps ==
  ASSUME ClientsInv, ServiceEnds
  PROVE  ClientsInv'
<1>1. /\ clients' = Stopped(current) /\ current' = {} /\ service' = "stopped"
      /\ worker' = worker /\ session' = [s \in Spaces |-> {}]
      /\ \A s \in Spaces : worker[s].pc = "returned"
      /\ clients \in [Clients -> ClientStates]
  BY DEF ServiceEnds, ProcessEnds, ClientsInv, ClientTypes
<1>2. \A n \in Clients :
        clients'[n] = IF n \notin current THEN clients[n]
                      ELSE IF clients[n] = "running" THEN "stopped" ELSE "discarded"
  BY <1>1 DEF Stopped
<1>3. clients' \in [Clients -> ClientStates] /\ Unborn' \subseteq Unborn
  BY <1>1, <1>2 DEF Stopped, ClientStates, Unborn
<1>4. ClientTypes'
  BY <1>1, <1>3 DEF ClientsInv, ClientTypes
<1>5. ClientsAccounted'
  BY <1>1, <1>2 DEF ClientsInv, ClientsAccounted
<1>6. StartsAlone' /\ TakenApart' /\ GivenUpFailed'
  BY <1>1 DEF StartsAlone, TakenApart, GivenUpFailed
<1>7. NoneUnborn'
  BY <1>1, <1>3 DEF ClientsInv, NoneUnborn
<1> QED
  BY <1>4, <1>5, <1>6, <1>7 DEF ClientsInv

\* Another process starts with a client of its own.
LEMMA CrashKeeps ==
  ASSUME ClientsInv, Crash
  PROVE  ClientsInv'
<1>1. /\ clients' = Crashed /\ current' = {Fresh} /\ service' = "running"
      /\ worker' = [s \in Spaces |-> Starting(s)] /\ session' = [s \in Spaces |-> {}]
      /\ Fresh \in Clients /\ clients[Fresh] = "unborn" /\ service # "stopped"
      /\ clients \in [Clients -> ClientStates]
  BY FreshIsUnborn DEF Crash, ProcessEnds, Unborn, ClientsInv, ClientTypes
<1>2. \A n \in Clients :
        clients'[n] = IF n = Fresh THEN "running"
                      ELSE IF clients[n] = "running" THEN "failed" ELSE clients[n]
  BY <1>1 DEF Crashed
<1>3. clients' \in [Clients -> ClientStates]
  BY <1>1, <1>2 DEF Crashed, ClientStates
<1>4. \A s \in Spaces : /\ worker'[s] \in WorkerRecords /\ worker'[s].client = {}
                         /\ worker'[s].pc \in {"idle", "returned"}
  BY <1>1, RestingIsRecord DEF Starting, WorkerPcs
<1>5. ClientTypes'
  BY <1>1, <1>3, <1>4 DEF ClientTypes
<1>6. ClientsAccounted'
  BY <1>1, <1>2 DEF ClientsInv, ClientsAccounted
<1>7. StartsAlone' /\ TakenApart' /\ GivenUpFailed'
  BY <1>4 DEF StartsAlone, TakenApart, GivenUpFailed
<1>8. NoneUnborn'
  BY <1>1, <1>4 DEF NoneUnborn
<1> QED
  BY <1>5, <1>6, <1>7, <1>8 DEF ClientsInv

-----------------------------------------------------------------------------

LEMMA ClientsStep == ClientsInv /\ [SessionsNext]_vars => ClientsInv'
<1> SUFFICES ASSUME ClientsInv, [SessionsNext]_vars PROVE ClientsInv'
  OBVIOUS
<1>1. ASSUME NEW s \in Spaces, WorkerStep(s) PROVE ClientsInv'
  BY <1>1, WorkerKeeps
<1>2. ASSUME NEW s \in Spaces, AgentStep(s) PROVE ClientsInv'
  BY <1>2, ClientsUntouched DEF AgentStep, AgentAsks, AgentExecutes, AgentEdits, AgentProposes
<1>3. CASE \E s \in Spaces : SessionDropped(s)
  BY <1>3, SessionDroppedKeeps
<1>4. CASE \E c \in Calls : (CallStep(c) \/ CallInterference(c)) /\ UNCHANGED sessionVars
  BY <1>4, ClientsUntouched DEF sessionVars
<1>5. CASE \E n \in Clients : ClientFails(n)
  BY <1>5, ClientFailsKeeps
<1>6. CASE UNCHANGED vars
  BY <1>6, ClientsUntouched DEF vars, sessionVars
<1> QED
  BY <1>1, <1>2, <1>3, <1>4, <1>5, <1>6, StopRequestedKeeps, ServiceEndsKeeps, CrashKeeps
     DEF SessionsNext

\* However many workers create, lose and give up clients, a client that runs is
\* the runtime's only one, and only the end of the service stops it.
THEOREM ClientsAccountedHolds == SessionsSpec => []ClientsAccounted
<1>1. SessionsInit => ClientsInv
  BY ClientsStart
<1>2. ClientsInv /\ [SessionsNext]_vars => ClientsInv'
  BY ClientsStep
<1>3. ClientsInv => ClientsAccounted
  BY DEF ClientsInv
<1> QED
  BY <1>1, <1>2, <1>3, PTL DEF SessionsSpec

-----------------------------------------------------------------------------
(* The records: the invariant *)

AttemptIds == ToSet(Attempts)

\* Where the records of a call are, and all places of records.
QueryPlaces(c) == {ResultFile(c), AuditFile("queries", c)}
ScriptPlaces(c) ==
  {CodeFile(c), RuntimeFile(c), RecordFile(c),
   AuditFile("pythonSubmitted", c), AuditFile("pythonCompleted", c)}
CallPlaces(c) == QueryPlaces(c) \union ScriptPlaces(c)

AttemptPlaces(a) == {FailureFile(a), HandoffFile(a)}

Places ==
  {ProposalFile, OutcomeFile, HistoryFile}
    \union (UNION {AttemptPlaces(a) : a \in AttemptIds}) \union UNION {CallPlaces(c) : c \in Calls}

Absent(files, places) == places \intersect DOMAIN files = {}

\* The files of a cycle are a tree of entries, with locations that are lists.
EntriesSound(files) ==
  \A l \in DOMAIN files :
    /\ l \in Seq(ToSet(l))
    /\ files[l].kind \in {"dir", "file"} /\ files[l].text \in Seq(ToSet(files[l].text))

\* What is in the files the coordinator writes does not depend on when it does.
ControlSound(files) ==
  /\ ProposalFile \in DOMAIN files => files[ProposalFile] = FileEntry(<<"proposal">>)
  /\ OutcomeFile \in DOMAIN files => files[OutcomeFile] = FileEntry(<<"outcome">>)
  /\ \A a \in AttemptIds :
       /\ FailureFile(a) \in DOMAIN files => files[FailureFile(a)] = FileEntry(<<"failed">>)
       /\ HandoffFile(a) \in DOMAIN files => files[HandoffFile(a)] = FileEntry(<<"handoff">>)

LinesOf(files) == IF HistoryFile \in DOMAIN files THEN ToSet(files[HistoryFile].text) ELSE {}

HistorySound(files) ==
  /\ HistoryFile \in DOMAIN files => files[HistoryFile].kind = "file"
  /\ \A line \in LinesOf(files) : line.status = "succeeded" =>
       /\ line.id \in Calls
       /\ ResultFile(line.id) \in DOMAIN files
       /\ files[ResultFile(line.id)] = FileEntry(<<line.content>>)
       /\ AnswerFaithful(line.content)

RuntimeTexts == {<<>>, <<[runtime |-> "python"]>>}

\* What is true of the records of a call whoever looks.
CallRecordsSound(files, c) ==
  /\ AuditFile("queries", c) \in DOMAIN files =>
       ToSet(files[AuditFile("queries", c)].text) \subseteq LinesOf(files)
  /\ RuntimeFile(c) \in DOMAIN files =>
       \E text \in RuntimeTexts : files[RuntimeFile(c)] = FileEntry(text)
  /\ AuditFile("pythonCompleted", c) \in DOMAIN files =>
       /\ AuditFile("pythonSubmitted", c) \in DOMAIN files
       /\ files[AuditFile("pythonSubmitted", c)].kind = "file"
       /\ CodeFile(c) \in DOMAIN files /\ RecordFile(c) \in DOMAIN files
       /\ files[RecordFile(c)].kind = "file"
       /\ files[RecordFile(c)].text[1].submission = [id |-> c, code |-> files[CodeFile(c)].text]

FilesSound(files) ==
  /\ EntriesSound(files) /\ ControlSound(files) /\ HistorySound(files)
  /\ \A c \in Calls : CallRecordsSound(files, c)

QueryRecord(r, pc) == r = [pc |-> pc, space |-> r.space, answer |-> r.answer]
ScriptRecord(r, pc) == r = [pc |-> pc, space |-> r.space, source |-> r.source]

\* An answer, as it was given.
AnswerSound(answer) ==
  \/ answer = Failed
  \/ answer.status = "succeeded" /\ AnswerFaithful(answer)

\* The records a call has left before its next step.
QueryCallSound(files, c, r) ==
  /\ r.pc = "query" =>
       /\ r = [pc |-> "query", space |-> r.space, query |-> r.query, rows |-> r.rows]
       /\ r.query \in Queries /\ r.rows \in RowLimits /\ r.rows \in Nat
       /\ Absent(files, QueryPlaces(c))
  /\ r.pc \in {"save", "history", "audit"} =>
       QueryRecord(r, r.pc) /\ AnswerSound(r.answer) /\ Absent(files, {AuditFile("queries", c)})
  /\ r.pc = "save" => r.answer # Failed /\ Absent(files, {ResultFile(c)})
  /\ r.pc \in {"history", "audit"} /\ r.answer # Failed =>
       /\ ResultFile(c) \in DOMAIN files
       /\ files[ResultFile(c)] = FileEntry(<<r.answer>>)
  /\ r.pc = "audit" => HistoryRecord(c, r.answer) \in LinesOf(files)

ScriptPcs == {"script", "submit", "launch", "running", "runtime", "report", "complete"}

ScriptCallSound(files, c, r) ==
  /\ r.pc \in ScriptPcs =>
       /\ r.source \in Seq(ToSet(r.source))
       /\ Absent(files, {AuditFile("pythonCompleted", c)})
  /\ r.pc \in {"script", "submit", "launch"} => ScriptRecord(r, r.pc)
  /\ r.pc = "script" => Absent(files, {CodeFile(c)})
  /\ r.pc \in ScriptPcs \ {"script"} =>
       CodeFile(c) \in DOMAIN files /\ files[CodeFile(c)] = FileEntry(r.source)
  /\ r.pc \in {"script", "submit"} => Absent(files, {AuditFile("pythonSubmitted", c)})
  /\ r.pc \in ScriptPcs \ {"script", "submit"} =>
       /\ AuditFile("pythonSubmitted", c) \in DOMAIN files
       /\ files[AuditFile("pythonSubmitted", c)].kind = "file"
  /\ r.pc \in ScriptPcs \ {"complete"} => Absent(files, {RecordFile(c)})
  /\ r.pc = "complete" =>
       /\ RecordFile(c) \in DOMAIN files
       /\ files[RecordFile(c)] = FileEntry(<<[submission |-> [id |-> c, code |-> r.source],
                                             report |-> r.report]>>)

\* A capture has what was read, and a pipe that was read to its end gets no more.
CaptureSound(r, stream) ==
  /\ r.wrote[stream] \in Nat /\ r.read[stream] \in 0..r.wrote[stream]
  /\ r.captured[stream] = [bytes |-> r.captured[stream].bytes,
                           truncated |-> r.captured[stream].truncated,
                           complete |-> r.captured[stream].complete]
  /\ r.captured[stream].bytes \in Nat
  /\ r.captured[stream].truncated \in BOOLEAN /\ r.captured[stream].complete \in BOOLEAN
  /\ r.captured[stream].truncated \/ r.captured[stream].bytes = r.read[stream]
  /\ r.captured[stream].complete =>
       r.read[stream] = r.wrote[stream] /\ r.alive = FALSE /\ r.heirs = FALSE

RunFields ==
  {"pc", "space", "source", "alive", "heirs", "outcome", "wrote", "read", "captured"}

OutputSound(r) ==
  /\ r.pc = "running" =>
       /\ DOMAIN r = RunFields
       /\ r.alive \in BOOLEAN /\ r.heirs \in BOOLEAN
       /\ DOMAIN r.wrote = Streams /\ DOMAIN r.read = Streams /\ DOMAIN r.captured = Streams
       /\ \A stream \in Streams : CaptureSound(r, stream)
  /\ r.pc \in {"runtime", "report", "complete"} =>
       /\ r = [pc |-> r.pc, space |-> r.space, source |-> r.source, report |-> r.report,
               wrote |-> r.wrote]
       /\ \A stream \in DOMAIN r.report.captured :
            r.report.captured[stream].truncated
              \/ r.report.captured[stream].bytes = r.wrote[stream]

CallPcs == {"unused", "ended", "query", "save", "history", "audit"} \union ScriptPcs

CallFits(files, c, r) ==
  QueryCallSound(files, c, r) /\ ScriptCallSound(files, c, r) /\ OutputSound(r)

CallSoundIn(disks, c, r) ==
  /\ r.pc \in CallPcs
  /\ r.pc = "unused" => \A s \in Spaces : Absent(disks[s], CallPlaces(c))
  /\ r.pc \notin {"unused", "ended"} =>
       r.space \in Spaces /\ CallFits(disks[r.space], c, r)

CallSound(c) == CallSoundIn(disk, c, call[c])

BudgetRecords ==
  [attempts : [Spaces -> 0..Len(Attempts)], queries : Nat, scripts : Nat, edits : Nat,
   proposals : Nat, failures : Nat, crashes : Nat, stops : Nat, spaces : SUBSET Spaces]

LeaseSound(l) ==
  DOMAIN l = {"attempt", "writable", "signal"} /\ l.attempt \subseteq AttemptIds

\* The records are what the calls in progress take them for.
RecordsInv ==
  /\ budget \in BudgetRecords
  /\ DOMAIN disk = Spaces /\ DOMAIN call = Calls /\ DOMAIN lease = Spaces
  /\ \A s \in Spaces : LeaseSound(lease[s]) /\ FilesSound(disk[s])
  /\ \A c \in Calls : CallSound(c)

-----------------------------------------------------------------------------
(* Paths and locations *)

\* Where a session of an attempt may write.
SessionPlace(a, l) ==
  \/ Inside(l, AttemptDirectory(a)) \/ IsProviderState(l)
  \/ \E note \in NoteFiles : Inside(l, note)

IsList(l) == l \in Seq(ToSet(l))

\* The names of the paths name something.
LEMMA Names ==
  /\ {"workspace", "analysis", "attempts", ".copilot", "handoffs", "findings.md",
      "supersession.md", "checkpoint.md"} \intersect Unnamed = {}
  /\ Gap \in Unnamed
BY Zenon DEF Unnamed, Gap

\* Short lists.
LEMMA ShortLists ==
  ASSUME NEW x, NEW y, NEW z, NEW w
  PROVE  /\ <<x>> \in Seq({x}) /\ <<x, y>> \in Seq({x, y}) /\ <<x, y, z>> \in Seq({x, y, z})
         /\ <<x, y, z, w>> \in Seq({x, y, z, w})
         /\ Len(<<x>>) = 1 /\ Len(<<x, y>>) = 2 /\ Len(<<x, y, z>>) = 3 /\ Len(<<x, y, z, w>>) = 4
         /\ Tail(<<x, y, z>>) = <<y, z>> /\ Tail(<<x, y, z, w>>) = <<y, z, w>>
         /\ IsList(<<x>>) /\ IsList(<<x, y>>) /\ IsList(<<x, y, z>>) /\ IsList(<<x, y, z, w>>)
<1>1. /\ <<x>> \in Seq({x}) /\ <<x, y>> \in Seq({x, y}) /\ <<x, y, z>> \in Seq({x, y, z})
      /\ <<x, y, z, w>> \in Seq({x, y, z, w})
  OBVIOUS
<1>2. IsList(<<x>>) /\ IsList(<<x, y>>) /\ IsList(<<x, y, z>>) /\ IsList(<<x, y, z, w>>)
  BY <1>1, ListOf DEF IsList
<1>3. Tail(<<x, y, z>>) = <<y, z>> /\ Tail(<<x, y, z, w>>) = <<y, z, w>>
  OBVIOUS
<1> QED
  BY <1>1, <1>2, <1>3

\* The lists of two, three and four names, by their elements.
LEMMA TwoNames ==
  ASSUME NEW x, NEW y, NEW l, l = <<x, y>>
  PROVE  IsList(l) /\ Len(l) = 2 /\ l[1] = x /\ l[2] = y
BY ShortLists

LEMMA ThreeNames ==
  ASSUME NEW x, NEW y, NEW z, NEW l, l = <<x, y, z>>
  PROVE  IsList(l) /\ Len(l) = 3 /\ l[1] = x /\ l[2] = y /\ l[3] = z
BY ShortLists

LEMMA FourNames ==
  ASSUME NEW x, NEW y, NEW z, NEW w, NEW l, l = <<x, y, z, w>>
  PROVE  IsList(l) /\ Len(l) = 4 /\ l[1] = x /\ l[2] = y /\ l[3] = z /\ l[4] = w
BY ShortLists

\* The three notes, below the directory of the cycle.
LEMMA TheNotes ==
  NoteFiles = {<<"analysis", "findings.md">>, <<"analysis", "supersession.md">>,
               <<"handoffs", "checkpoint.md">>}
<1>1. ASSUME NEW x, NEW y, x \notin Unnamed, y \notin Unnamed
      PROVE  Below(<<"workspace", x, y>>) = <<x, y>>
  <2> DEFINE path == <<"workspace", x, y>>
             places == {i \in DOMAIN path : path[i] \notin Unnamed}
  <2>1. path \in Seq({"workspace", x, y}) /\ 1..Len(path) \subseteq places
    BY <1>1, Names
  <2> HIDE DEF places
  <2>2. Kept(path, places) = path
    BY <2>1, KeptAll
  <2>3. Tail(path) = <<x, y>>
    OBVIOUS
  <2> QED
    BY <2>2, <2>3 DEF Below, Components, places
<1>2. /\ Below(<<"workspace", "analysis", "findings.md">>) = <<"analysis", "findings.md">>
      /\ Below(<<"workspace", "analysis", "supersession.md">>) = <<"analysis", "supersession.md">>
      /\ Below(<<"workspace", "handoffs", "checkpoint.md">>) = <<"handoffs", "checkpoint.md">>
  BY <1>1, Names
<1> QED
  BY <1>2 DEF NoteFiles, LifecycleNotes

\* What begins with a prefix below its leading separators begins with it when
\* it is resolved.
LEMMA TrimmedPrefix ==
  ASSUME NEW path, IsList(path), NEW U, NEW prefix \in Seq(U), prefix # <<>>,
         \A i \in 1..Len(prefix) : prefix[i] \notin Unnamed,
         IsPrefix(prefix, Trimmed(path))
  PROVE  IsPrefix(prefix, Components(path))
<1> DEFINE names == {i \in DOMAIN path : path[i] # Gap}
           first == CHOOSE i \in names : \A j \in names : i <= j
<1>1. path \in Seq(ToSet(path)) /\ Len(path) \in Nat /\ DOMAIN path = 1..Len(path)
      /\ Len(prefix) \in Nat \ {0}
  BY ListOf DEF IsList
<1>2. names # {}
  <2>1. SUFFICES ASSUME names = {} PROVE FALSE
    OBVIOUS
  <2>2. Trimmed(path) = <<>>
    BY <2>1 DEF Trimmed
  <2>3. Len(Trimmed(path)) = 0
    BY <2>2
  <2> QED
    BY <1>1, <2>3 DEF IsPrefix
<1>3. names \in SUBSET Nat
  BY <1>1
<1> HIDE DEF names
<1>4. first \in names /\ \A j \in names : first <= j
  BY <1>2, <1>3, LeastNatural
<1>5. Trimmed(path) = SubSeq(path, first, Len(path))
  BY <1>2 DEF Trimmed, names
<1> HIDE DEF first
<1>6. first \in 1..Len(path) /\ \A n \in 1..(first - 1) : path[n] = Gap
  BY <1>1, <1>4 DEF names
<1>7. /\ Trimmed(path) \in Seq(ToSet(path)) /\ Len(Trimmed(path)) = Len(path) - first + 1
      /\ \A i \in 1..(Len(path) - first + 1) : Trimmed(path)[i] = path[first + i - 1]
  BY <1>1, <1>5, <1>6
<1>8. Len(prefix) <= Len(Trimmed(path)) /\ \A i \in 1..Len(prefix) : prefix[i] = Trimmed(path)[i]
  BY <1>7, PrefixElements
<1> DEFINE skipped == first - 1
           places == {i \in DOMAIN path : path[i] \notin Unnamed}
<1>9. skipped \in Nat /\ skipped + Len(prefix) <= Len(path)
  BY <1>1, <1>6, <1>7, <1>8
<1>10. \A n \in 1..skipped : n \notin places
  BY <1>1, <1>6, Names
<1>11. ASSUME NEW i \in 1..Len(prefix)
       PROVE  skipped + i \in places /\ path[skipped + i] = prefix[i]
  <2>1. skipped + i \in 1..Len(path) /\ skipped + i = first + i - 1
        /\ i \in 1..(Len(path) - first + 1)
    BY <1>1, <1>6, <1>7, <1>8
  <2>2. path[skipped + i] = prefix[i]
    BY <1>7, <1>8, <2>1
  <2> QED
    BY <1>1, <2>1, <2>2
<1> HIDE DEF skipped, places
<1>12. IsPrefix(prefix, Kept(path, places))
  BY <1>1, <1>9, <1>10, <1>11, KeptPrefix
<1> QED
  BY <1>12 DEF Components, places

\* A location is that of the path without its first name.
LEMMA BelowPrefix ==
  ASSUME NEW path, IsList(path), NEW U, NEW prefix \in Seq(U), prefix # <<>>,
         IsPrefix(prefix, Components(path))
  PROVE  /\ IsList(Below(path))
         /\ IsPrefix(Tail(prefix), Below(path))
<1>1. Components(path) \in Seq(ToSet(path))
  BY KeptFrom DEF Components, IsList
<1>2. Len(prefix) \in Nat \ {0} /\ Len(Components(path)) \in Nat
  BY <1>1
<1>3. Len(prefix) <= Len(Components(path))
      /\ \A i \in 1..Len(prefix) : prefix[i] = Components(path)[i]
  BY <1>1, PrefixElements
<1>4. Components(path) # <<>>
  <2>1. SUFFICES ASSUME Components(path) = <<>> PROVE FALSE
    OBVIOUS
  <2> QED
    BY <1>2, <1>3, <2>1
<1>5. /\ Below(path) \in Seq(ToSet(path)) /\ Len(Below(path)) = Len(Components(path)) - 1
      /\ \A i \in 1..(Len(Components(path)) - 1) : Below(path)[i] = Components(path)[i + 1]
  BY <1>1, <1>4 DEF Below
<1>6. /\ Tail(prefix) \in Seq(U) /\ Len(Tail(prefix)) = Len(prefix) - 1
      /\ \A i \in 1..(Len(prefix) - 1) : Tail(prefix)[i] = prefix[i + 1]
  OBVIOUS
<1>7. Len(Tail(prefix)) <= Len(Below(path))
      /\ \A i \in 1..Len(Tail(prefix)) : Tail(prefix)[i] = Below(path)[i]
  <2>1. Len(Tail(prefix)) <= Len(Below(path))
    BY <1>2, <1>3, <1>5, <1>6
  <2>2. ASSUME NEW i \in 1..Len(Tail(prefix)) PROVE Tail(prefix)[i] = Below(path)[i]
    <3>1. i \in 1..(Len(prefix) - 1) /\ i + 1 \in 1..Len(prefix) /\ i \in 1..(Len(Components(path)) - 1)
      BY <1>2, <1>3, <1>6
    <3> QED
      BY <1>3, <1>5, <1>6, <3>1
  <2> QED
    BY <2>1, <2>2
<1>8. IsPrefix(Tail(prefix), Below(path))
  BY <1>5, <1>6, <1>7, PrefixElements
<1>9. IsList(Below(path))
  BY <1>5, ListOf DEF IsList
<1> QED
  BY <1>8, <1>9

\* A path that a session may write is one of its places.
LEMMA WritablePath ==
  ASSUME NEW a, a \notin Unnamed, NEW path, IsList(path), SessionMayWrite(path, a)
  PROVE  IsList(Below(path)) /\ SessionPlace(a, Below(path))
<1>1. ASSUME NEW U, NEW prefix \in Seq(U), prefix # <<>>, U \intersect Unnamed = {},
             IsPrefix(prefix, Trimmed(path))
      PROVE  IsList(Below(path)) /\ IsPrefix(Tail(prefix), Below(path))
  <2>1. \A i \in 1..Len(prefix) : prefix[i] \notin Unnamed
    <3>1. \A i \in 1..Len(prefix) : prefix[i] \in U
      OBVIOUS
    <3> QED
      BY <1>1, <3>1
  <2> QED
    BY <1>1, <2>1, TrimmedPrefix, BelowPrefix
<1>2. CASE IsPrefix(<<"workspace", "analysis", "attempts", a>>, Trimmed(path))
  <2> DEFINE prefix == <<"workspace", "analysis", "attempts", a>>
             U == {"workspace", "analysis", "attempts", a}
  <2>1. prefix \in Seq(U) /\ Len(prefix) = 4 /\ Tail(prefix) = AttemptDirectory(a)
    BY ShortLists DEF AttemptDirectory
  <2>2. U \intersect Unnamed = {} /\ IsPrefix(prefix, Trimmed(path))
    BY <1>2, Names
  <2> HIDE DEF prefix, U
  <2>3. prefix # <<>>
    BY <2>1
  <2>4. IsList(Below(path)) /\ IsPrefix(Tail(prefix), Below(path))
    BY <1>1, <2>1, <2>2, <2>3
  <2> QED
    BY <2>1, <2>4 DEF SessionPlace, Inside
<1>3. CASE IsPrefix(<<"workspace", "analysis", ".copilot">>, Trimmed(path))
  <2> DEFINE prefix == <<"workspace", "analysis", ".copilot">>
             U == {"workspace", "analysis", ".copilot"}
             state == <<"analysis", ".copilot">>
  <2>1. prefix \in Seq(U) /\ Len(prefix) = 3 /\ Tail(prefix) = state
        /\ state \in Seq({"analysis", ".copilot"}) /\ Len(state) = 2
    BY ShortLists
  <2>2. U \intersect Unnamed = {} /\ IsPrefix(prefix, Trimmed(path))
    BY <1>3, Names
  <2>3. state[1] = "analysis" /\ state[2] = ".copilot"
    OBVIOUS
  <2> HIDE DEF prefix, U, state
  <2>4. prefix # <<>>
    BY <2>1
  <2>5. IsList(Below(path)) /\ IsPrefix(state, Below(path))
    BY <1>1, <2>1, <2>2, <2>4
  <2>6. Len(state) <= Len(Below(path)) /\ \A i \in 1..Len(state) : state[i] = Below(path)[i]
    BY <2>1, <2>5, PrefixElements DEF IsList
  <2>7. Len(Below(path)) >= 2 /\ Below(path)[1] = "analysis" /\ Below(path)[2] = ".copilot"
    BY <2>1, <2>3, <2>6
  <2> QED
    BY <2>5, <2>7 DEF SessionPlace, IsProviderState
<1>4. CASE Trimmed(path) \in LifecycleNotes
  <2>1. PICK x \in {"analysis", "handoffs"},
             y \in {"findings.md", "supersession.md", "checkpoint.md"} :
               Trimmed(path) = <<"workspace", x, y>> /\ <<x, y>> \in NoteFiles
    <3>1. /\ <<"analysis", "findings.md">> \in NoteFiles
          /\ <<"analysis", "supersession.md">> \in NoteFiles
          /\ <<"handoffs", "checkpoint.md">> \in NoteFiles
      BY TheNotes
    <3>2. \/ Trimmed(path) = <<"workspace", "analysis", "findings.md">>
          \/ Trimmed(path) = <<"workspace", "analysis", "supersession.md">>
          \/ Trimmed(path) = <<"workspace", "handoffs", "checkpoint.md">>
      BY <1>4 DEF LifecycleNotes
    <3> QED
      BY <3>1, <3>2, Zenon
  <2> DEFINE prefix == <<"workspace", x, y>>
             U == {"workspace", x, y}
  <2>2. prefix \in Seq(U) /\ Len(prefix) = 3 /\ Tail(prefix) = <<x, y>>
    BY ShortLists
  <2>3. U \intersect Unnamed = {} /\ Trimmed(path) = prefix
    BY <2>1, Names
  <2> HIDE DEF prefix, U
  <2>4. prefix # <<>> /\ IsPrefix(prefix, Trimmed(path))
    BY <2>2, <2>3, PrefixElements
  <2>5. IsList(Below(path)) /\ IsPrefix(Tail(prefix), Below(path))
    BY <1>1, <2>2, <2>3, <2>4
  <2> QED
    BY <2>1, <2>2, <2>5 DEF SessionPlace, Inside
<1> QED
  BY <1>2, <1>3, <1>4 DEF SessionMayWrite

-----------------------------------------------------------------------------
(* The places of the records are apart from those of sessions, and each other *)

\* A list has the places of its elements.
LEMMA ListFacts ==
  ASSUME NEW l, IsList(l)
  PROVE  l \in Seq(ToSet(l)) /\ Len(l) \in Nat /\ DOMAIN l = 1..Len(l)
BY ListOf DEF IsList

\* What a prefix of a list is, by its elements.
LEMMA InsideElements ==
  ASSUME NEW l, IsList(l), NEW k, IsList(k)
  PROVE  Inside(l, k) <=> Len(k) <= Len(l) /\ \A i \in 1..Len(k) : k[i] = l[i]
BY PrefixElements DEF Inside, IsList

\* How the places of sessions begin.
SessionHead(l) ==
  /\ Len(l) >= 2
  /\ \/ l[1] = "analysis" /\ l[2] \in {"attempts", ".copilot", "findings.md", "supersession.md"}
     \/ l[1] = "handoffs" /\ l[2] = "checkpoint.md"

LEMMA SessionHeads ==
  ASSUME NEW a, NEW l, IsList(l), SessionPlace(a, l)
  PROVE  SessionHead(l)
<1>1. ASSUME NEW x, NEW y, Inside(l, <<x, y>>)
      PROVE  Len(l) >= 2 /\ l[1] = x /\ l[2] = y
  <2>1. IsList(<<x, y>>) /\ Len(<<x, y>>) = 2
    BY ShortLists
  <2>2. 2 <= Len(l) /\ \A i \in 1..2 : <<x, y>>[i] = l[i]
    BY <1>1, <2>1, InsideElements
  <2> QED
    BY <2>2, ListFacts
<1>2. CASE Inside(l, AttemptDirectory(a))
  <2> DEFINE d == AttemptDirectory(a)
  <2>1. d = <<"analysis", "attempts", a>>
    BY DEF AttemptDirectory
  <2> HIDE DEF d
  <2>2. IsList(d) /\ Len(d) = 3 /\ d[1] = "analysis" /\ d[2] = "attempts"
    BY <2>1, ThreeNames
  <2>3. Inside(l, d)
    BY <1>2 DEF d
  <2>4. Len(d) <= Len(l) /\ \A i \in 1..Len(d) : d[i] = l[i]
    BY <2>2, <2>3, InsideElements
  <2>5. Len(l) >= 3 /\ l[1] = "analysis" /\ l[2] = "attempts"
    BY <2>2, <2>4, ListFacts
  <2> QED
    BY <2>5 DEF SessionHead
<1>3. CASE IsProviderState(l)
  BY <1>3 DEF IsProviderState, SessionHead
<1>4. CASE \E note \in NoteFiles : Inside(l, note)
  <2>1. \/ Inside(l, <<"analysis", "findings.md">>)
        \/ Inside(l, <<"analysis", "supersession.md">>)
        \/ Inside(l, <<"handoffs", "checkpoint.md">>)
    BY <1>4, TheNotes
  <2> QED
    BY <1>1, <2>1 DEF SessionHead
<1> QED
  BY <1>2, <1>3, <1>4 DEF SessionPlace

\* What is inside a place of a session is one.
LEMMA InsideSession ==
  ASSUME NEW a, NEW l, IsList(l), SessionPlace(a, l), NEW k, IsList(k), Inside(k, l)
  PROVE  SessionPlace(a, k)
<1>1. Len(l) <= Len(k) /\ \A i \in 1..Len(l) : l[i] = k[i]
  BY InsideElements
<1>2. ASSUME NEW d, IsList(d), Inside(l, d) PROVE Inside(k, d)
  <2>1. Len(d) <= Len(l) /\ \A i \in 1..Len(d) : d[i] = l[i]
    BY <1>2, InsideElements
  <2>2. Len(d) \in Nat /\ Len(l) \in Nat /\ Len(k) \in Nat
    BY <1>2, ListFacts
  <2>3. Len(d) <= Len(k) /\ \A i \in 1..Len(d) : d[i] = k[i]
    BY <1>1, <2>1, <2>2
  <2> QED
    BY <1>2, <2>3, InsideElements
<1>3. CASE Inside(l, AttemptDirectory(a))
  <2>1. IsList(AttemptDirectory(a))
    BY ShortLists DEF AttemptDirectory
  <2> QED
    BY <1>2, <1>3, <2>1 DEF SessionPlace
<1>4. CASE IsProviderState(l)
  <2>1. Len(l) \in Nat /\ Len(k) \in Nat
    BY ListFacts
  <2> QED
    BY <1>1, <1>4, <2>1 DEF IsProviderState, SessionPlace
<1>5. CASE \E note \in NoteFiles : Inside(l, note)
  <2>1. PICK note \in NoteFiles : Inside(l, note)
    BY <1>5
  <2>2. IsList(note)
    BY <2>1, TheNotes, TwoNames
  <2> QED
    BY <1>2, <2>1, <2>2 DEF SessionPlace
<1> QED
  BY <1>3, <1>4, <1>5 DEF SessionPlace

\* How the places of records begin, and how long they are.
PlaceHead(p) ==
  \/ Len(p) = 1 /\ p[1] \in {"proposal.json", "outcome.json"}
  \/ Len(p) = 2 /\ p[1] = "attempts"
  \/ Len(p) = 2 /\ p[1] = "handoffs" /\ p[2] # "checkpoint.md"
  \/ Len(p) = 3 /\ p[1] = "audit"
  \/ Len(p) = 3 /\ p[1] = "analysis" /\ p[2] = "queries"
  \/ Len(p) = 4 /\ p[1] = "analysis" /\ p[2] = "executions"

LEMMA PlaceHeads ==
  ASSUME NEW p \in Places
  PROVE  IsList(p) /\ PlaceHead(p)
<1>1. CASE p \in {ProposalFile, OutcomeFile, HistoryFile}
  <2>1. CASE p = HistoryFile
    BY <2>1, ThreeNames DEF HistoryFile, PlaceHead
  <2>2. CASE p # HistoryFile
    <3>1. PICK name \in {"proposal.json", "outcome.json"} : p = <<name>>
      BY <1>1, <2>2 DEF ProposalFile, OutcomeFile
    <3>2. IsList(p) /\ Len(p) = 1 /\ p[1] = name
      BY <3>1, ShortLists
    <3> QED
      BY <3>1, <3>2 DEF PlaceHead
  <2> QED
    BY <2>1, <2>2
<1>2. ASSUME NEW a \in AttemptIds, p \in AttemptPlaces(a) PROVE IsList(p) /\ PlaceHead(p)
  <2>1. a # "checkpoint.md"
    BY <1>2, SessionsAssumption DEF AttemptIds
  <2>2. p = <<"attempts", a>> \/ p = <<"handoffs", a>>
    BY <1>2 DEF AttemptPlaces, FailureFile, HandoffFile
  <2> QED
    BY <2>1, <2>2, TwoNames DEF PlaceHead
<1>3. ASSUME NEW c \in Calls, p \in CallPlaces(c) PROVE IsList(p) /\ PlaceHead(p)
  <2>1. \/ p = <<"analysis", "queries", c>>
        \/ \E category : p = <<"audit", category, c>>
        \/ \E name : p = <<"analysis", "executions", c, name>>
    BY <1>3, Zenon DEF CallPlaces, QueryPlaces, ScriptPlaces, ResultFile, AuditFile, CodeFile,
         RuntimeFile, RecordFile
  <2>2. ASSUME NEW x, NEW y, NEW z, p = <<x, y, z>>,
               x = "audit" \/ (x = "analysis" /\ y = "queries")
        PROVE  IsList(p) /\ PlaceHead(p)
    BY <2>2, ThreeNames DEF PlaceHead
  <2>3. ASSUME NEW name, p = <<"analysis", "executions", c, name>>
        PROVE  IsList(p) /\ PlaceHead(p)
    BY <2>3, FourNames DEF PlaceHead
  <2> QED
    BY <2>1, <2>2, <2>3, Zenon
<1>4. \/ p \in {ProposalFile, OutcomeFile, HistoryFile}
      \/ \E a \in AttemptIds : p \in AttemptPlaces(a)
      \/ \E c \in Calls : p \in CallPlaces(c)
  <2> DEFINE A == {AttemptPlaces(a) : a \in AttemptIds}
             C == {CallPlaces(c) : c \in Calls}
  <2>1. p \in {ProposalFile, OutcomeFile, HistoryFile} \/ p \in UNION A \/ p \in UNION C
    BY DEF Places
  <2>2. p \in UNION A => \E a \in AttemptIds : p \in AttemptPlaces(a)
    OBVIOUS
  <2>3. p \in UNION C => \E c \in Calls : p \in CallPlaces(c)
    OBVIOUS
  <2> QED
    BY <2>1, <2>2, <2>3
<1> QED
  BY <1>1, <1>2, <1>3, <1>4

\* The parents of a location are its proper prefixes.
LEMMA ParentsOf ==
  ASSUME NEW l, IsList(l), NEW p \in Parents(l)
  PROVE  IsList(p) /\ Len(p) \in 1..(Len(l) - 1) /\ \A i \in 1..Len(p) : p[i] = l[i]
<1>1. l \in Seq(ToSet(l)) /\ Len(l) \in Nat
  BY ListFacts
<1>2. PICK n \in 1..(Len(l) - 1) : p = SubSeq(l, 1, n)
  BY DEF Parents
<1>3. p \in Seq(ToSet(l)) /\ Len(p) = n /\ \A i \in 1..n : p[i] = l[i]
  BY <1>1, <1>2
<1>4. IsList(p)
  BY <1>3, ListOf DEF IsList
<1> QED
  BY <1>1, <1>2, <1>3, <1>4

LEMMA ApartFromSessions ==
  ASSUME NEW a, NEW l, IsList(l), SessionPlace(a, l), NEW p \in Places
  PROVE  p # l /\ p \notin Parents(l) /\ ~SessionPlace(a, p)
<1>1. SessionHead(l) /\ IsList(p) /\ PlaceHead(p)
  BY SessionHeads, PlaceHeads
<1>2. ASSUME NEW k, SessionHead(k) PROVE p # k
  BY <1>1, <1>2 DEF SessionHead, PlaceHead
<1>3. ASSUME p \in Parents(l) PROVE FALSE
  <2>1. Len(p) \in 1..(Len(l) - 1) /\ \A i \in 1..Len(p) : p[i] = l[i]
    BY <1>3, ParentsOf
  <2>2. Len(p) \in Nat /\ (Len(p) = 1 \/ Len(p) >= 2)
    <3> DEFINE m == Len(l)
               n == Len(p)
    <3>1. m \in Nat
      BY ListFacts
    <3>2. n \in 1..(m - 1)
      BY <2>1
    <3> HIDE DEF m, n
    <3>3. n \in Nat /\ (n = 1 \/ n >= 2)
      BY <3>1, <3>2
    <3> QED
      BY <3>3 DEF n
  <2>3. p[1] = l[1] /\ (Len(p) >= 2 => p[2] = l[2])
    BY <2>1, <2>2
  <2> QED
    BY <1>1, <2>2, <2>3 DEF SessionHead, PlaceHead
<1> QED
  BY <1>1, <1>2, <1>3, SessionHeads

LEMMA PlacesApart ==
  ASSUME NEW p \in Places, NEW q \in Places
  PROVE  p \notin Parents(q)
<1>1. SUFFICES ASSUME p \in Parents(q) PROVE FALSE
  OBVIOUS
<1>2. IsList(p) /\ IsList(q) /\ PlaceHead(p) /\ PlaceHead(q)
  BY PlaceHeads
<1>3. Len(p) \in 1..(Len(q) - 1) /\ \A i \in 1..Len(p) : p[i] = q[i]
  BY <1>1, <1>2, ParentsOf
<1>4. p[1] = q[1] /\ (Len(p) >= 2 => p[2] = q[2]) /\ Len(p) < Len(q) /\ Len(p) \in Nat /\ Len(q) \in Nat
  BY <1>2, <1>3, ListFacts
<1> QED
  BY <1>2, <1>4 DEF PlaceHead

-----------------------------------------------------------------------------
(* What writes leave as it was *)

SameAt(before, after, places) ==
  \A p \in places :
    /\ p \in DOMAIN after <=> p \in DOMAIN before
    /\ p \in DOMAIN before => after[p] = before[p]

GrowsAt(before, after, l) ==
  /\ l \in DOMAIN after /\ after[l].kind = before[l].kind
  /\ IsPrefix(before[l].text, after[l].text)

KeepsAt(before, after, l) == l \in DOMAIN after /\ after[l] = before[l]

EntrySound(entry) == entry.kind \in {"dir", "file"} /\ IsList(entry.text)

LEMMA SoundEntries ==
  ASSUME NEW files
  PROVE  EntriesSound(files) <=> \A l \in DOMAIN files : IsList(l) /\ EntrySound(files[l])
BY DEF EntriesSound, EntrySound, IsList

\* Lists joined.
LEMMA JoinedLists ==
  ASSUME NEW s, IsList(s), NEW t, IsList(t)
  PROVE  /\ IsList(s \o t) /\ IsPrefix(s, s \o t) /\ ToSet(s \o t) = ToSet(s) \union ToSet(t)
         /\ s = <<>> => s \o t = t
<1> DEFINE S == ToSet(s) \union ToSet(t)
<1>1. s \in Seq(S) /\ t \in Seq(S)
  <2>1. s \in Seq(ToSet(s)) /\ t \in Seq(ToSet(t))
    BY DEF IsList
  <2> QED
    BY <2>1
<1>2. s \o t \in Seq(S) /\ ToSet(s \o t) = S
  BY <1>1, Joins
<1>3. Len(s) <= Len(s \o t) /\ \A i \in 1..Len(s) : s[i] = (s \o t)[i]
  BY <1>1
<1>4. IsPrefix(s, s \o t)
  BY <1>1, <1>2, <1>3, PrefixElements
<1>5. s = <<>> => s \o t = t
  BY <1>1
<1> QED
  BY <1>2, <1>4, <1>5 DEF IsList

LEMMA EmptyList ==
  IsList(<<>>) /\ ToSet(<<>>) = {}
<1>1. <<>> \in Seq({})
  OBVIOUS
<1> QED
  BY <1>1, SequenceIn, ListOf DEF IsList

LEMMA ListHasItself ==
  ASSUME NEW s, IsList(s)
  PROVE  IsPrefix(s, s)
BY PrefixElements, ListFacts

\* What is kept grows.
LEMMA KeptGrows ==
  ASSUME NEW before, EntriesSound(before), NEW after, NEW l \in DOMAIN before,
         KeepsAt(before, after, l)
  PROVE  GrowsAt(before, after, l)
BY SoundEntries, ListHasItself DEF GrowsAt, KeepsAt, EntrySound

\* A disk with an entry at a location.
LEMMA WithEntry ==
  ASSUME NEW files, EntriesSound(files), NEW location, IsList(location),
         NEW entry, EntrySound(entry), NEW after, after = With(files, location, entry)
  PROVE  /\ EntriesSound(after)
         /\ DOMAIN after = {location} \union DOMAIN files \union Parents(location)
         /\ after[location] = entry
         /\ \A l \in DOMAIN files : l # location => KeepsAt(files, after, l)
<1>1. after = [l \in {location} \union (DOMAIN files \union Parents(location)) |->
                 IF l \in {location} THEN entry
                 ELSE IF l \in DOMAIN files THEN files[l] ELSE DirEntry]
  <2> DEFINE made == WithParents(files, location)
  <2>1. /\ DOMAIN made = DOMAIN files \union Parents(location)
        /\ \A l \in DOMAIN made : made[l] = IF l \in DOMAIN files THEN files[l] ELSE DirEntry
    BY DEF WithParents
  <2>2. after = Over([l \in {location} |-> entry], made)
    BY DEF With
  <2> HIDE DEF made
  <2> QED
    BY <2>1, <2>2 DEF Over
<1>2. EntrySound(DirEntry)
  BY EmptyList DEF EntrySound, DirEntry
<1>3. \A l \in Parents(location) : IsList(l)
  BY ParentsOf
<1>4. \A l \in DOMAIN files : IsList(l) /\ EntrySound(files[l])
  BY SoundEntries
<1>5. \A l \in DOMAIN after : IsList(l) /\ EntrySound(after[l])
  BY <1>1, <1>2, <1>3, <1>4
<1>6. EntriesSound(after)
  BY <1>5, SoundEntries
<1> QED
  BY <1>1, <1>6 DEF KeepsAt

\* A record that is written leaves the places of others as they were.
LEMMA WithRecord ==
  ASSUME NEW files, EntriesSound(files), NEW q \in Places, NEW text, IsList(text),
         NEW after, after = With(files, q, FileEntry(text))
  PROVE  /\ EntriesSound(after)
         /\ q \in DOMAIN after /\ after[q] = FileEntry(text)
         /\ SameAt(files, after, Places \ {q})
         /\ \A l \in DOMAIN files : l # q => KeepsAt(files, after, l)
<1> DEFINE entry == FileEntry(text)
<1>1. IsList(q) /\ EntrySound(entry)
  BY PlaceHeads DEF EntrySound, FileEntry
<1> HIDE DEF entry
<1>2. /\ EntriesSound(after)
      /\ DOMAIN after = {q} \union DOMAIN files \union Parents(q)
      /\ after[q] = entry
      /\ \A l \in DOMAIN files : l # q => KeepsAt(files, after, l)
  <2>1. after = With(files, q, entry)
    BY DEF entry
  <2> QED
    BY <1>1, <2>1, WithEntry
<1>3. \A p \in Places : p \notin Parents(q)
  BY PlacesApart
<1>4. SameAt(files, after, Places \ {q})
  BY <1>2, <1>3 DEF SameAt, KeepsAt
<1> QED
  BY <1>2, <1>4 DEF entry

-----------------------------------------------------------------------------
(* What the edits of a session leave as it was *)

Leaves(a, before, after) ==
  /\ EntriesSound(after)
  /\ \A l \in DOMAIN before : SessionPlace(a, l) \/ KeepsAt(before, after, l)
  /\ \A l \in DOMAIN after :
       \/ l \in DOMAIN before \/ SessionPlace(a, l)
       \/ \E k : IsList(k) /\ SessionPlace(a, k) /\ l \in Parents(k)

LEMMA LeavesRecords ==
  ASSUME NEW a, NEW before, NEW after, Leaves(a, before, after)
  PROVE  SameAt(before, after, Places)
<1>1. SUFFICES ASSUME NEW p \in Places
               PROVE  /\ p \in DOMAIN after <=> p \in DOMAIN before
                      /\ p \in DOMAIN before => after[p] = before[p]
  BY DEF SameAt
<1>2. ~SessionPlace(a, p) /\ \A k : IsList(k) /\ SessionPlace(a, k) => p \notin Parents(k)
  <2>1. SessionPlace(a, p) => FALSE
    BY PlaceHeads, ApartFromSessions
  <2> QED
    BY <2>1, ApartFromSessions
<1> QED
  BY <1>2 DEF Leaves, KeepsAt

LEMMA LeavesAfterLeaves ==
  ASSUME NEW a, NEW x, NEW y, NEW z, Leaves(a, x, y), Leaves(a, y, z)
  PROVE  Leaves(a, x, z)
BY DEF Leaves, KeepsAt

LEMMA WithLeaves ==
  ASSUME NEW a, NEW files, EntriesSound(files), NEW location, IsList(location),
         SessionPlace(a, location), NEW entry, EntrySound(entry)
  PROVE  Leaves(a, files, With(files, location, entry))
<1> DEFINE after == With(files, location, entry)
<1>1. /\ EntriesSound(after)
      /\ DOMAIN after = {location} \union DOMAIN files \union Parents(location)
      /\ \A l \in DOMAIN files : l # location => KeepsAt(files, after, l)
  BY WithEntry
<1> HIDE DEF after
<1>2. \A l \in DOMAIN files : SessionPlace(a, l) \/ KeepsAt(files, after, l)
  BY <1>1
<1>3. Leaves(a, files, after)
  BY <1>1, <1>2 DEF Leaves
<1> QED
  BY <1>3 DEF after

LEMMA ParentsLeave ==
  ASSUME NEW a, NEW files, EntriesSound(files), NEW location, IsList(location),
         SessionPlace(a, location)
  PROVE  Leaves(a, files, WithParents(files, location))
<1> DEFINE made == WithParents(files, location)
<1>1. /\ DOMAIN made = DOMAIN files \union Parents(location)
      /\ \A l \in DOMAIN made : made[l] = IF l \in DOMAIN files THEN files[l] ELSE DirEntry
  BY DEF WithParents
<1> HIDE DEF made
<1>2. EntrySound(DirEntry)
  BY EmptyList DEF EntrySound, DirEntry
<1>3. \A l \in Parents(location) : IsList(l)
  BY ParentsOf
<1>4. \A l \in DOMAIN made : IsList(l) /\ EntrySound(made[l])
  BY <1>1, <1>2, <1>3, SoundEntries
<1>5. EntriesSound(made)
  BY <1>4, SoundEntries
<1>6. Leaves(a, files, made)
  BY <1>1, <1>5 DEF Leaves, KeepsAt
<1> QED
  BY <1>6 DEF made

LEMMA WithoutLeaves ==
  ASSUME NEW a, NEW files, EntriesSound(files), NEW location, IsList(location),
         SessionPlace(a, location)
  PROVE  Leaves(a, files, Without(files, location))
<1> DEFINE left == Without(files, location)
<1>1. /\ DOMAIN left = {k \in DOMAIN files : ~Inside(k, location)}
      /\ \A l \in DOMAIN left : left[l] = files[l]
  BY DEF Without
<1> HIDE DEF left
<1>2. EntriesSound(left)
  BY <1>1, SoundEntries
<1>3. ASSUME NEW l \in DOMAIN files PROVE SessionPlace(a, l) \/ KeepsAt(files, left, l)
  <2>1. IsList(l)
    BY SoundEntries
  <2>2. Inside(l, location) => SessionPlace(a, l)
    BY <2>1, InsideSession
  <2> QED
    BY <1>1, <2>2 DEF KeepsAt
<1>4. Leaves(a, files, left)
  BY <1>1, <1>2, <1>3 DEF Leaves
<1> QED
  BY <1>4 DEF left

\* What is moved is below where it is moved to.
LEMMA MovedEntries ==
  ASSUME NEW files, EntriesSound(files), NEW source, NEW target, IsList(source), IsList(target),
         NEW moved, moved = Moved(files, source, target)
  PROVE  /\ \A l \in DOMAIN moved : Inside(l, target)
         /\ \A l \in DOMAIN moved : IsList(l) /\ EntrySound(moved[l])
<1> DEFINE At(l) == target \o SubSeq(l, Len(source) + 1, Len(l))
           from == {l \in DOMAIN files : Inside(l, source)}
<1>1. moved = [to \in {At(l) : l \in from} |-> files[CHOOSE l \in from : At(l) = to]]
  BY DEF Moved
<1>2. ASSUME NEW to \in DOMAIN moved
      PROVE  Inside(to, target) /\ IsList(to) /\ EntrySound(moved[to])
  <2>1. PICK l \in from : to = At(l)
    BY <1>1, <1>2
  <2>2. (CHOOSE k \in from : At(k) = to) \in from
    BY <2>1
  <2>3. EntrySound(moved[to])
    BY <1>1, <1>2, <2>2, SoundEntries
  <2>4. IsList(l) /\ Len(source) \in Nat
    BY SoundEntries, ListFacts
  <2>5. IsList(SubSeq(l, Len(source) + 1, Len(l)))
    <3>1. l \in Seq(ToSet(l)) /\ Len(l) \in Nat
      BY <2>4, ListFacts
    <3>2. SubSeq(l, Len(source) + 1, Len(l)) \in Seq(ToSet(l))
      BY <2>4, <3>1
    <3> QED
      BY <3>2, ListOf DEF IsList
  <2>6. IsList(to) /\ IsPrefix(target, to)
    BY <2>1, <2>5, JoinedLists
  <2> QED
    BY <2>3, <2>6 DEF Inside
<1> QED
  BY <1>2

\* What is moved over the rest.
LEMMA MoveLeaves ==
  ASSUME NEW a, NEW files, EntriesSound(files), NEW source, NEW target, IsList(source), IsList(target),
         SessionPlace(a, source), SessionPlace(a, target)
  PROVE  Leaves(a, files, Over(Moved(files, source, target), Without(files, source)))
<1> DEFINE moved == Moved(files, source, target)
           left == Without(files, source)
           after == Over(moved, left)
<1>1. /\ DOMAIN after = DOMAIN moved \union DOMAIN left
      /\ \A l \in DOMAIN after : after[l] = IF l \in DOMAIN moved THEN moved[l] ELSE left[l]
  BY DEF Over
<1>2. /\ \A l \in DOMAIN moved : Inside(l, target)
      /\ \A l \in DOMAIN moved : IsList(l) /\ EntrySound(moved[l])
  BY MovedEntries
<1>3. Leaves(a, files, left)
  BY WithoutLeaves
<1> HIDE DEF after, moved, left
<1>4. \A l \in DOMAIN moved : SessionPlace(a, l)
  BY <1>2, InsideSession
<1>5. \A l \in DOMAIN left : IsList(l) /\ EntrySound(left[l])
  BY <1>3, SoundEntries DEF Leaves
<1>6. \A l \in DOMAIN after : IsList(l) /\ EntrySound(after[l])
  BY <1>1, <1>2, <1>5
<1>7. EntriesSound(after)
  BY <1>6, SoundEntries
<1>8. Leaves(a, files, after)
  BY <1>1, <1>3, <1>4, <1>7 DEF Leaves, KeepsAt
<1> QED
  BY <1>8 DEF after, moved, left

\* An edit leaves what is not the session's.
LEMMA EditLeaves ==
  ASSUME NEW a \in AttemptIds, NEW files, EntriesSound(files), NEW edit \in Edits, NEW state,
         NEW after, after \in Edited(files, edit, a, state)
  PROVE  Leaves(a, files, after)
<1> DEFINE at == Below(edit.path)
<1>1. a \notin Unnamed
  BY SessionsAssumption DEF AttemptIds
<1>2. Permitted(edit, a, state) /\ after \in Outcome(files, edit)
  BY DEF Edited
<1>3. \A path \in PathsOf(edit) : IsList(Below(path)) /\ SessionPlace(a, Below(path))
  <2>1. \A path \in PathsOf(edit) : IsList(path) /\ SessionMayWrite(path, a)
    BY <1>2, SessionsAssumption DEF Permitted, IsList
  <2> QED
    BY <1>1, <2>1, WritablePath
<1>4. IsList(at) /\ SessionPlace(a, at)
  BY <1>3 DEF PathsOf
<1>5. edit.op \in {"write", "append", "mkdir", "rm", "rename"}
  BY SessionsAssumption
<1>6. IsList(<<edit.item>>)
  BY ShortLists
<1>7. ASSUME NEW text, IsList(text), after \in WriteText(files, at, text)
      PROVE  Leaves(a, files, after)
  <2>1. after = With(files, at, FileEntry(text))
    BY <1>7 DEF WriteText
  <2>2. EntrySound(FileEntry(text))
    BY <1>7 DEF EntrySound, FileEntry
  <2> QED
    BY <1>4, <2>1, <2>2, WithLeaves
<1>8. CASE edit.op = "write"
  <2>1. after \in WriteText(files, at, <<edit.item>>)
    BY <1>2, <1>8 DEF Outcome
  <2> QED
    BY <1>6, <1>7, <2>1
<1>9. CASE edit.op = "append"
  <2> DEFINE before == IF IsRegular(files, at) THEN files[at].text ELSE <<>>
  <2>1. IsList(before)
    BY EmptyList, SoundEntries DEF IsRegular, EntrySound
  <2>2. after \in WriteText(files, at, before \o <<edit.item>>)
    BY <1>2, <1>9 DEF Outcome, AppendText
  <2> HIDE DEF before
  <2>3. IsList(before \o <<edit.item>>)
    BY <1>6, <2>1, JoinedLists
  <2> QED
    BY <1>7, <2>2, <2>3
<1>10. CASE edit.op = "mkdir"
  <2>1. after \in CreateDirectory(files, at, edit.recursive)
    BY <1>2, <1>10 DEF Outcome
  <2>2. after = With(files, at, DirEntry)
    BY <2>1 DEF CreateDirectory
  <2>3. EntrySound(DirEntry)
    BY EmptyList DEF EntrySound, DirEntry
  <2> QED
    BY <1>4, <2>2, <2>3, WithLeaves
<1>11. CASE edit.op = "rm"
  <2>1. after \in RemoveEntry(files, at, edit.recursive, edit.force)
    BY <1>2, <1>11 DEF Outcome
  <2>2. after = files \/ after = Without(files, at)
    BY <2>1 DEF RemoveEntry
  <2>3. Leaves(a, files, files)
    BY DEF Leaves, KeepsAt
  <2> QED
    BY <1>4, <2>2, <2>3, WithoutLeaves
<1>12. CASE edit.op = "rename"
  <2> DEFINE target == Below(edit.target)
             made == WithParents(files, target)
  <2>1. IsList(target) /\ SessionPlace(a, target)
    BY <1>3, <1>12 DEF PathsOf
  <2>2. after \in RenameEntry(files, at, target)
    BY <1>2, <1>12 DEF Outcome
  <2>3. after = made \/ after = Over(Moved(made, at, target), Without(made, at))
    BY <2>2 DEF RenameEntry
  <2>4. Leaves(a, files, made)
    BY <2>1, ParentsLeave
  <2>5. EntriesSound(made)
    BY <2>4 DEF Leaves
  <2> HIDE DEF made, target
  <2>6. Leaves(a, made, Over(Moved(made, at, target), Without(made, at)))
    BY <1>4, <2>1, <2>5, MoveLeaves
  <2> QED
    BY <2>3, <2>4, <2>6, LeavesAfterLeaves
<1> QED
  BY <1>5, <1>8, <1>9, <1>10, <1>11, <1>12

\* A claim makes what is absent, and keeps what is there.
LEMMA ClaimKeeps ==
  ASSUME NEW a, NEW files, EntriesSound(files), NEW after, after = Prepared(files, a)
  PROVE  /\ EntriesSound(after) /\ \A l \in DOMAIN files : KeepsAt(files, after, l)
         /\ Leaves(a, files, after)
<1> DEFINE absent == {note \in NoteFiles : ~Exists(files, note)}
           deep == absent \union {AttemptDirectory(a)}
           needed == {AttemptDirectory(a)} \union UNION {Parents(l) : l \in deep}
           made == Over(files, [l \in needed |-> DirEntry])
<1>1. after = Over([note \in absent |-> FileEntry(<<"template">>)], made)
  BY DEF Prepared
<1>2. /\ DOMAIN made = DOMAIN files \union needed
      /\ \A l \in DOMAIN made : made[l] = IF l \in DOMAIN files THEN files[l] ELSE DirEntry
  BY DEF Over
<1>3. /\ DOMAIN after = absent \union DOMAIN made
      /\ \A l \in DOMAIN after :
           after[l] = IF l \in absent THEN FileEntry(<<"template">>) ELSE made[l]
  <2> HIDE DEF made, absent
  <2> QED
    BY <1>1 DEF Over
<1>4. \A l \in deep : IsList(l) /\ SessionPlace(a, l)
  <2>1. ASSUME NEW l, IsList(l) PROVE Inside(l, l)
    BY <2>1, ListHasItself DEF Inside
  <2>2. IsList(AttemptDirectory(a)) /\ \A note \in NoteFiles : IsList(note)
    <3>1. IsList(AttemptDirectory(a))
      BY ThreeNames DEF AttemptDirectory
    <3> QED
      BY <3>1, TheNotes, TwoNames
  <2> QED
    BY <2>1, <2>2 DEF SessionPlace
<1>5. \A l \in absent : l \notin DOMAIN files
  BY DEF Exists
<1>6. \A l \in needed :
        IsList(l) /\ (l = AttemptDirectory(a) \/ \E k \in deep : l \in Parents(k))
  <2>1. ASSUME NEW l \in UNION {Parents(k) : k \in deep} PROVE \E k \in deep : l \in Parents(k)
    BY <2>1
  <2> HIDE DEF deep
  <2>2. \A l \in needed : l = AttemptDirectory(a) \/ \E k \in deep : l \in Parents(k)
    BY <2>1
  <2>3. IsList(AttemptDirectory(a))
    BY <1>4 DEF deep
  <2> QED
    BY <1>4, <2>2, <2>3, ParentsOf
<1>7. AttemptDirectory(a) \in deep /\ absent \subseteq deep
  OBVIOUS
<1> HIDE DEF made, needed, deep, absent
<1>8. EntrySound(DirEntry) /\ EntrySound(FileEntry(<<"template">>))
  BY EmptyList, ShortLists DEF EntrySound, DirEntry, FileEntry
<1>9. \A l \in DOMAIN after : IsList(l) /\ EntrySound(after[l])
  <2>1. \A l \in DOMAIN made : IsList(l) /\ EntrySound(made[l])
    BY <1>2, <1>6, <1>8, SoundEntries
  <2> QED
    BY <1>3, <1>4, <1>7, <1>8, <2>1
<1>10. EntriesSound(after)
  BY <1>9, SoundEntries
<1>11. \A l \in DOMAIN files : KeepsAt(files, after, l)
  BY <1>2, <1>3, <1>5 DEF KeepsAt
<1>12. \A l \in DOMAIN after :
         \/ l \in DOMAIN files \/ SessionPlace(a, l)
         \/ \E k : IsList(k) /\ SessionPlace(a, k) /\ l \in Parents(k)
  BY <1>2, <1>3, <1>4, <1>6, <1>7
<1> QED
  BY <1>10, <1>11, <1>12 DEF Leaves

-----------------------------------------------------------------------------
(* The answers of queries *)

\* The size of rows is a number.
LEMMA SizeOfRows ==
  ASSUME NEW S, \A row \in S : row.size \in Nat, NEW rows \in Seq(S)
  PROVE  ResultBytes(rows) \in Nat
<1> DEFINE last == Len(rows)
           Summed(s) == [n \in 0..last |-> IF n = 0 THEN 0 ELSE s[n - 1] + rows[n].size]
           bytes == CHOOSE s : s = Summed(s)
<1>1. ResultBytes(rows) = bytes[last]
  BY Zenon DEF ResultBytes
<1>2. last \in Nat /\ \A n \in 1..last : rows[n].size \in Nat
  <2>1. \A n \in 1..last : rows[n] \in S
    OBVIOUS
  <2> QED
    BY <2>1
<1>3. PICK step : step = [p \in (1..last) \X Nat |-> p[2] + rows[p[1]].size]
  OBVIOUS
<1>4. step \in [(1..last) \X Nat -> Nat]
  <2>1. \A p \in (1..last) \X Nat : p[2] + rows[p[1]].size \in Nat
    BY <1>2
  <2> QED
    BY <1>3, <2>1
<1>5. PICK f \in [0..last -> Nat] : Solves(f, last, 0, step)
  BY <1>2, <1>4, RecursionUpTo
<1>6. f[0] = 0 /\ \A n \in 1..last : f[n] = f[n - 1] + rows[n].size
  <2>1. ASSUME NEW n \in 1..last PROVE f[n] = f[n - 1] + rows[n].size
    <3>1. n - 1 \in 0..last
      BY <1>2
    <3>2. <<n, f[n - 1]>> \in (1..last) \X Nat
      BY <1>5, <3>1
    <3> QED
      BY <1>3, <1>5, <3>2 DEF Solves
  <2> QED
    BY <1>5, <2>1 DEF Solves
<1>7. f = Summed(f)
  <2>1. \A n \in 0..last : n # 0 => n \in 1..last
    BY <1>2
  <2>2. f = [n \in 0..last |-> f[n]]
    BY <1>5
  <2> QED
    BY <1>6, <2>1, <2>2
<1>8. bytes = Summed(bytes)
  BY <1>7
<1> HIDE DEF bytes
<1> DEFINE T == {n \in 0..last : bytes[n] \in Nat}
<1>9. 0 \in T
  BY <1>2, <1>8
<1>10. ASSUME NEW n \in 0..(last - 1), n \in T PROVE n + 1 \in T
  <2>1. n + 1 \in 0..last /\ n + 1 # 0 /\ (n + 1) - 1 = n /\ n + 1 \in 1..last
    BY <1>2
  <2>2. bytes[n + 1] = bytes[n] + rows[n + 1].size
    BY <1>8, <2>1
  <2>3. bytes[n] \in Nat /\ rows[n + 1].size \in Nat
    BY <1>2, <1>10, <2>1
  <2> QED
    BY <2>1, <2>2, <2>3
<1> HIDE DEF T
<1>11. 0..last \subseteq T
  BY <1>2, <1>9, <1>10, UpToByInduction
<1>12. bytes[last] \in Nat
  BY <1>2, <1>11 DEF T
<1> QED
  BY <1>1, <1>12

\* What is fetched and kept of the rows of a query is a prefix, and all of
\* them when it is not cut.
LEMMA LimitedRows ==
  ASSUME NEW S, NEW all \in Seq(S), NEW rows \in Nat,
         NEW fetched, fetched = Fetched(all, rows), NEW left, left = Limited(fetched, rows)
  PROVE  /\ left \in Seq(S) /\ Len(left) <= rows /\ IsPrefix(left, all)
         /\ ~(Len(fetched) > rows) => left = all
<1>1. Len(all) \in Nat
  OBVIOUS
<1> DEFINE m == IF Len(all) > rows THEN rows + 1 ELSE Len(all)
<1>2. m \in 0..Len(all)
  BY <1>1
<1>3. fetched = SubSeq(all, 1, m)
  BY DEF Fetched
<1>4. fetched \in Seq(S) /\ Len(fetched) = m /\ \A i \in 1..m : fetched[i] = all[i]
  <2> HIDE DEF m
  <2> QED
    BY <1>1, <1>2, <1>3
<1> DEFINE k == IF m > rows THEN rows ELSE m
<1>5. k \in 0..m /\ k <= rows /\ k <= Len(all)
  BY <1>1
<1>6. left = SubSeq(fetched, 1, k)
  <2> HIDE DEF m
  <2> QED
    BY <1>4 DEF Limited
<1>7. left \in Seq(S) /\ Len(left) = k /\ \A i \in 1..k : left[i] = all[i]
  <2> HIDE DEF k, m
  <2>1. m \in Nat
    BY <1>1, <1>2
  <2>2. left \in Seq(S) /\ Len(left) = k /\ \A i \in 1..k : left[i] = fetched[i]
    BY <1>4, <1>5, <1>6, <2>1
  <2>3. \A i \in 1..k : i \in 1..m
    BY <1>5, <2>1
  <2> QED
    BY <1>4, <2>2, <2>3
<1>8. IsPrefix(left, all)
  <2> HIDE DEF k, m
  <2> QED
    BY <1>5, <1>7, PrefixElements
<1>9. ASSUME ~(m > rows) PROVE left = all
  <2>1. k = Len(all)
    BY <1>1, <1>9
  <2>2. left \in [1..Len(all) -> S] /\ all \in [1..Len(all) -> S]
    BY <1>7, <2>1
  <2> HIDE DEF k, m
  <2> QED
    BY <1>7, <2>1, <2>2
<1> QED
  BY <1>4, <1>5, <1>7, <1>8, <1>9

\* What a query answers is a failure, or is faithful.
LEMMA AnswersFaithful ==
  ASSUME NEW evidence \in Snapshots, NEW query \in Queries, NEW rows \in RowLimits, rows \in Nat,
         NEW answer, answer \in QueryAnswers(query, Scope, [rows |-> rows, bytes |-> MaxBytes], evidence)
  PROVE  AnswerSound(answer) /\ answer.status \in {"failed", "succeeded"}
         /\ (answer.status = "failed" => answer = Failed)
<1> DEFINE S == ToSet(evidence)
           all == Computed(query, View(evidence, Scope))
           fetched == Fetched(all, rows)
           left == Limited(fetched, rows)
<1>1. all \in Seq(S)
  <2>1. evidence \in Seq(S)
    BY ListsAssumption
  <2>2. View(evidence, Scope) \in Seq(S)
    BY <2>1, KeptFrom DEF View
  <2> QED
    BY <2>2, KeptFrom DEF Computed
<1> HIDE DEF all
<1>2. /\ left \in Seq(S) /\ Len(left) <= rows /\ IsPrefix(left, all)
      /\ ~(Len(fetched) > rows) => left = all
  BY <1>1, LimitedRows
<1>3. ResultBytes(left) \in Nat /\ MaxBytes \in Nat
  <2>1. \A row \in S : row.size \in Nat
    BY ListsAssumption
  <2> HIDE DEF left, S
  <2> QED
    BY <1>2, <2>1, SizeOfRows, ToolsAssumption
<1>4. answer = Failed \/
      (/\ answer = [status |-> "succeeded", rows |-> left,
                    ids |-> IF \E i \in DOMAIN query.columns : query.columns[i] = "observation_id"
                            THEN {left[i].observation : i \in DOMAIN left} ELSE {},
                    truncated |-> Len(fetched) > rows]
       /\ ~(ResultBytes(left) > MaxBytes))
  BY Zenon DEF QueryAnswers, QueryResult, all
<1>5. CASE answer = Failed
  BY <1>5 DEF AnswerSound, Failed
<1>6. CASE answer # Failed
  <2> DEFINE cut == Len(fetched) > rows
             ids == IF \E i \in DOMAIN query.columns : query.columns[i] = "observation_id"
                    THEN {left[i].observation : i \in DOMAIN left} ELSE {}
  <2>3. answer = [status |-> "succeeded", rows |-> left, ids |-> ids, truncated |-> cut]
        /\ ~(ResultBytes(left) > MaxBytes)
    BY <1>4, <1>6
  <2>4. (~answer.truncated) => ~cut
    <3> HIDE DEF left, cut, ids
    <3> QED
      BY <2>3, Zenon
  <2>1. answer.status = "succeeded" /\ answer.rows = left /\ ResultBytes(left) <= MaxBytes
        /\ (~answer.truncated => ~(Len(fetched) > rows))
    <3>1. answer.status = "succeeded" /\ answer.rows = left
      <4> HIDE DEF left, cut, ids
      <4> QED
        BY <2>3
    <3>2. ResultBytes(left) <= MaxBytes
      BY <1>3, <2>3
    <3> QED
      BY <2>4, <3>1, <3>2, Zenon
  <2> HIDE DEF left, fetched
  <2>2. AnswerFaithful(answer)
    BY <1>2, <2>1 DEF AnswerFaithful, all
  <2> QED
    BY <2>1, <2>2 DEF AnswerSound
<1> QED
  BY <1>5, <1>6

-----------------------------------------------------------------------------
(* Which places there are *)

LEMMA ThePlaces ==
  /\ ProposalFile \in Places /\ OutcomeFile \in Places /\ HistoryFile \in Places
  /\ \A a \in AttemptIds : FailureFile(a) \in Places /\ HandoffFile(a) \in Places
  /\ \A c \in Calls : CallPlaces(c) \subseteq Places
<1>1. \A a \in AttemptIds : FailureFile(a) \in Places /\ HandoffFile(a) \in Places
  <2>1. SUFFICES ASSUME NEW a \in AttemptIds
                 PROVE  FailureFile(a) \in Places /\ HandoffFile(a) \in Places
    OBVIOUS
  <2>2. FailureFile(a) \in AttemptPlaces(a) /\ HandoffFile(a) \in AttemptPlaces(a)
    BY DEF AttemptPlaces
  <2> QED
    BY <2>2 DEF Places
<1> QED
  BY <1>1 DEF Places

LEMMA PlacesOfCall ==
  ASSUME NEW c \in Calls
  PROVE  /\ ResultFile(c) \in CallPlaces(c) /\ AuditFile("queries", c) \in CallPlaces(c)
         /\ CodeFile(c) \in CallPlaces(c) /\ RuntimeFile(c) \in CallPlaces(c)
         /\ RecordFile(c) \in CallPlaces(c)
         /\ AuditFile("pythonSubmitted", c) \in CallPlaces(c)
         /\ AuditFile("pythonCompleted", c) \in CallPlaces(c)
BY DEF CallPlaces, QueryPlaces, ScriptPlaces

LEMMA PlacesOfCallApart ==
  ASSUME NEW c \in Calls
  PROVE  /\ ResultFile(c) \notin ScriptPlaces(c) \union {AuditFile("queries", c)}
         /\ AuditFile("queries", c) \notin ScriptPlaces(c)
         /\ CodeFile(c) \notin {RuntimeFile(c), RecordFile(c), AuditFile("pythonSubmitted", c),
                                AuditFile("pythonCompleted", c)}
         /\ RuntimeFile(c) \notin {RecordFile(c), AuditFile("pythonSubmitted", c),
                                   AuditFile("pythonCompleted", c)}
         /\ RecordFile(c) \notin {AuditFile("pythonSubmitted", c), AuditFile("pythonCompleted", c)}
         /\ AuditFile("pythonSubmitted", c) # AuditFile("pythonCompleted", c)
<1>1. ASSUME NEW x, NEW y, NEW z, NEW w, NEW u, NEW v, NEW t
      PROVE  <<x, y, z>> # <<t, u, v, w>>
  <2>1. Len(<<x, y, z>>) = 3 /\ Len(<<t, u, v, w>>) = 4
    BY ShortLists
  <2> QED
    BY <2>1
<1>2. ASSUME NEW name1, NEW name2, name1 # name2
      PROVE  <<"analysis", "executions", c, name1>> # <<"analysis", "executions", c, name2>>
  BY <1>2
<1>3. ASSUME NEW x, NEW y, NEW u, NEW v, x # u \/ y # v
      PROVE  <<x, y, c>> # <<u, v, c>>
  BY <1>3
<1>4. ResultFile(c) # AuditFile("queries", c) /\ ResultFile(c) # AuditFile("pythonSubmitted", c)
      /\ ResultFile(c) # AuditFile("pythonCompleted", c)
      /\ AuditFile("queries", c) # AuditFile("pythonSubmitted", c)
      /\ AuditFile("queries", c) # AuditFile("pythonCompleted", c)
      /\ AuditFile("pythonSubmitted", c) # AuditFile("pythonCompleted", c)
  BY <1>3 DEF ResultFile, AuditFile
<1>5. \A p \in {CodeFile(c), RuntimeFile(c), RecordFile(c)} :
        /\ p # ResultFile(c) /\ \A category : p # AuditFile(category, c)
  BY <1>1 DEF CodeFile, RuntimeFile, RecordFile, ResultFile, AuditFile
<1>6. CodeFile(c) # RuntimeFile(c) /\ CodeFile(c) # RecordFile(c) /\ RuntimeFile(c) # RecordFile(c)
  BY <1>2 DEF CodeFile, RuntimeFile, RecordFile
<1> QED
  BY <1>4, <1>5, <1>6 DEF ScriptPlaces

\* The places of a call carry its identity, those of the coordinator do not.
LEMMA CallsApart ==
  ASSUME NEW c \in Calls, NEW p \in CallPlaces(c)
  PROVE  /\ \A d \in Calls : p \in CallPlaces(d) => d = c
         /\ p # HistoryFile /\ p # ProposalFile /\ p # OutcomeFile
         /\ \A a : p # FailureFile(a) /\ p # HandoffFile(a)
<1>1. \A d \in Calls : \A q \in CallPlaces(d) :
        \/ q = <<"analysis", "queries", d>>
        \/ \E category : q = <<"audit", category, d>>
        \/ \E name : q = <<"analysis", "executions", d, name>>
  BY Zenon DEF CallPlaces, QueryPlaces, ScriptPlaces, ResultFile, AuditFile, CodeFile,
       RuntimeFile, RecordFile
<1>2. \A d \in Calls : \A q \in CallPlaces(d) :
        /\ Len(q) \in {3, 4} /\ q[3] = d
        /\ Len(q) = 3 => q[1] = "audit" \/ q[2] = "queries"
  <2>1. SUFFICES ASSUME NEW d \in Calls, NEW q \in CallPlaces(d)
                 PROVE  /\ Len(q) \in {3, 4} /\ q[3] = d
                        /\ Len(q) = 3 => q[1] = "audit" \/ q[2] = "queries"
    OBVIOUS
  <2>2. ASSUME NEW x, NEW y, q = <<x, y, d>>, x = "audit" \/ y = "queries"
        PROVE  Len(q) = 3 /\ q[3] = d /\ (q[1] = "audit" \/ q[2] = "queries")
    BY <2>2, ThreeNames
  <2>3. ASSUME NEW x, NEW y, NEW z, q = <<x, y, d, z>> PROVE Len(q) = 4 /\ q[3] = d
    BY <2>3, FourNames
  <2> QED
    BY <1>1, <2>2, <2>3
<1>3. Len(HistoryFile) = 3 /\ HistoryFile[3] = "history.jsonl"
  BY ThreeNames DEF HistoryFile
<1>4. Len(ProposalFile) = 1 /\ Len(OutcomeFile) = 1
  BY ShortLists DEF ProposalFile, OutcomeFile
<1>5. \A a : Len(FailureFile(a)) = 2 /\ Len(HandoffFile(a)) = 2
  BY TwoNames DEF FailureFile, HandoffFile
<1> QED
  BY <1>2, <1>3, <1>4, <1>5, ToolsAssumption

LEMMA ControlApart ==
  /\ ProposalFile # OutcomeFile /\ ProposalFile # HistoryFile /\ OutcomeFile # HistoryFile
  /\ \A a : /\ FailureFile(a) \notin {ProposalFile, OutcomeFile, HistoryFile}
            /\ HandoffFile(a) \notin {ProposalFile, OutcomeFile, HistoryFile}
            /\ \A b : FailureFile(a) # HandoffFile(b)
            /\ \A b : FailureFile(a) = FailureFile(b) => a = b
            /\ \A b : HandoffFile(a) = HandoffFile(b) => a = b
<1>1. Len(HistoryFile) = 3
  BY ThreeNames DEF HistoryFile
<1>2. /\ Len(ProposalFile) = 1 /\ Len(OutcomeFile) = 1
      /\ ProposalFile[1] = "proposal.json" /\ OutcomeFile[1] = "outcome.json"
  BY ShortLists DEF ProposalFile, OutcomeFile
<1>3. \A a : /\ Len(FailureFile(a)) = 2 /\ FailureFile(a)[1] = "attempts" /\ FailureFile(a)[2] = a
             /\ Len(HandoffFile(a)) = 2 /\ HandoffFile(a)[1] = "handoffs" /\ HandoffFile(a)[2] = a
  BY TwoNames DEF FailureFile, HandoffFile
<1>4. \A a : /\ FailureFile(a) \notin {ProposalFile, OutcomeFile, HistoryFile}
             /\ HandoffFile(a) \notin {ProposalFile, OutcomeFile, HistoryFile}
  BY <1>1, <1>2, <1>3
<1>5. \A a, b : FailureFile(a) # HandoffFile(b)
  <2>1. SUFFICES ASSUME NEW a, NEW b PROVE FailureFile(a)[1] # HandoffFile(b)[1]
    OBVIOUS
  <2> QED
    BY <1>3
<1>6. \A a, b : (FailureFile(a) = FailureFile(b) => a = b) /\ (HandoffFile(a) = HandoffFile(b) => a = b)
  <2>1. SUFFICES ASSUME NEW a, NEW b
                 PROVE  (FailureFile(a) = FailureFile(b) => a = b)
                        /\ (HandoffFile(a) = HandoffFile(b) => a = b)
    OBVIOUS
  <2>2. /\ FailureFile(a)[2] = a /\ FailureFile(b)[2] = b
        /\ HandoffFile(a)[2] = a /\ HandoffFile(b)[2] = b
    BY <1>3
  <2> QED
    BY <2>2
<1> QED
  BY <1>1, <1>2, <1>4, <1>5, <1>6

-----------------------------------------------------------------------------
(* What is sound stays so when the places of its records stay as they were *)

LEMMA SamePart ==
  ASSUME NEW before, NEW after, NEW places, SameAt(before, after, places), NEW part, part \subseteq places
  PROVE  SameAt(before, after, part)
BY DEF SameAt

LEMMA SameLines ==
  ASSUME NEW before, NEW after, SameAt(before, after, {HistoryFile})
  PROVE  LinesOf(after) = LinesOf(before)
BY DEF SameAt, LinesOf

LEMMA AbsentStays ==
  ASSUME NEW before, NEW after, NEW places, SameAt(before, after, places), Absent(before, places)
  PROVE  Absent(after, places)
BY DEF SameAt, Absent

LEMMA CallRecordsStay ==
  ASSUME NEW c \in Calls, NEW before, NEW after, CallRecordsSound(before, c),
         SameAt(before, after, CallPlaces(c) \ {ResultFile(c)}), LinesOf(before) \subseteq LinesOf(after)
  PROVE  CallRecordsSound(after, c)
<1>1. \A p \in {AuditFile("queries", c), RuntimeFile(c), AuditFile("pythonCompleted", c),
                AuditFile("pythonSubmitted", c), CodeFile(c), RecordFile(c)} :
        /\ p \in DOMAIN after <=> p \in DOMAIN before
        /\ p \in DOMAIN before => after[p] = before[p]
  BY PlacesOfCall, PlacesOfCallApart DEF SameAt, ScriptPlaces
<1>2. ASSUME AuditFile("queries", c) \in DOMAIN after
      PROVE  ToSet(after[AuditFile("queries", c)].text) \subseteq LinesOf(after)
  BY <1>1, <1>2 DEF CallRecordsSound
<1>3. ASSUME RuntimeFile(c) \in DOMAIN after
      PROVE  \E text \in RuntimeTexts : after[RuntimeFile(c)] = FileEntry(text)
  BY <1>1, <1>3 DEF CallRecordsSound
<1>4. ASSUME AuditFile("pythonCompleted", c) \in DOMAIN after
      PROVE  /\ AuditFile("pythonSubmitted", c) \in DOMAIN after
             /\ after[AuditFile("pythonSubmitted", c)].kind = "file"
             /\ CodeFile(c) \in DOMAIN after /\ RecordFile(c) \in DOMAIN after
             /\ after[RecordFile(c)].kind = "file"
             /\ after[RecordFile(c)].text[1].submission = [id |-> c, code |-> after[CodeFile(c)].text]
  BY <1>1, <1>4 DEF CallRecordsSound
<1> QED
  BY <1>2, <1>3, <1>4 DEF CallRecordsSound

LEMMA QueryCallStays ==
  ASSUME NEW c \in Calls, NEW before, NEW after, NEW r, QueryCallSound(before, c, r),
         SameAt(before, after, QueryPlaces(c)), LinesOf(before) \subseteq LinesOf(after)
  PROVE  QueryCallSound(after, c, r)
<1>1. \A p \in {ResultFile(c), AuditFile("queries", c)} :
        /\ p \in DOMAIN after <=> p \in DOMAIN before
        /\ p \in DOMAIN before => after[p] = before[p]
  BY DEF SameAt, QueryPlaces
<1>2. \A places : places \subseteq QueryPlaces(c) /\ Absent(before, places) => Absent(after, places)
  BY SamePart, AbsentStays
<1>3. {ResultFile(c)} \subseteq QueryPlaces(c) /\ {AuditFile("queries", c)} \subseteq QueryPlaces(c)
  BY DEF QueryPlaces
<1> QED
  BY <1>1, <1>2, <1>3 DEF QueryCallSound

LEMMA ScriptCallStays ==
  ASSUME NEW c \in Calls, NEW before, NEW after, NEW r, ScriptCallSound(before, c, r),
         SameAt(before, after, ScriptPlaces(c) \ {RuntimeFile(c)})
  PROVE  ScriptCallSound(after, c, r)
<1> DEFINE places == {CodeFile(c), RecordFile(c), AuditFile("pythonSubmitted", c),
                      AuditFile("pythonCompleted", c)}
<1>1. places \subseteq ScriptPlaces(c) \ {RuntimeFile(c)}
  BY PlacesOfCallApart DEF ScriptPlaces
<1>2. \A p \in places :
        /\ p \in DOMAIN after <=> p \in DOMAIN before
        /\ p \in DOMAIN before => after[p] = before[p]
  BY <1>1 DEF SameAt
<1>3. \A p \in places : Absent(before, {p}) <=> Absent(after, {p})
  BY <1>2 DEF Absent
<1>4. /\ CodeFile(c) \in places /\ RecordFile(c) \in places
      /\ AuditFile("pythonSubmitted", c) \in places /\ AuditFile("pythonCompleted", c) \in places
  OBVIOUS
<1> HIDE DEF places
<1> QED
  BY <1>2, <1>3, <1>4 DEF ScriptCallSound

\* A call whose places stay as they were.
LEMMA CallUndisturbed ==
  ASSUME NEW c \in Calls, NEW before, NEW after, NEW r, CallSoundIn(before, c, r),
         \A s \in Spaces : /\ SameAt(before[s], after[s], CallPlaces(c))
                           /\ LinesOf(before[s]) \subseteq LinesOf(after[s])
  PROVE  CallSoundIn(after, c, r)
<1>1. QueryPlaces(c) \subseteq CallPlaces(c) /\ ScriptPlaces(c) \ {RuntimeFile(c)} \subseteq CallPlaces(c)
  BY DEF CallPlaces
<1>2. ASSUME r.pc = "unused" PROVE \A s \in Spaces : Absent(after[s], CallPlaces(c))
  BY <1>2, AbsentStays DEF CallSoundIn
<1>3. ASSUME r.pc \notin {"unused", "ended"}
      PROVE  r.space \in Spaces /\ CallFits(after[r.space], c, r)
  <2> DEFINE s == r.space
  <2>1. s \in Spaces /\ QueryCallSound(before[s], c, r) /\ ScriptCallSound(before[s], c, r)
        /\ OutputSound(r)
    BY <1>3 DEF CallSoundIn, CallFits
  <2> HIDE DEF s
  <2>2. /\ SameAt(before[s], after[s], QueryPlaces(c))
        /\ SameAt(before[s], after[s], ScriptPlaces(c) \ {RuntimeFile(c)})
        /\ LinesOf(before[s]) \subseteq LinesOf(after[s])
    BY <1>1, <2>1, SamePart
  <2>3. QueryCallSound(after[s], c, r) /\ ScriptCallSound(after[s], c, r)
    BY <2>1, <2>2, QueryCallStays, ScriptCallStays
  <2> QED
    BY <2>1, <2>3 DEF s, CallFits
<1> QED
  BY <1>2, <1>3 DEF CallSoundIn

LEMMA HistoryStays ==
  ASSUME NEW before, NEW after, HistorySound(before), SameAt(before, after, {HistoryFile}),
         \A c \in Calls : ResultFile(c) \in DOMAIN before => KeepsAt(before, after, ResultFile(c))
  PROVE  HistorySound(after)
<1>1. LinesOf(after) = LinesOf(before)
  BY SameLines
<1>2. HistoryFile \in DOMAIN after => after[HistoryFile].kind = "file"
  BY DEF SameAt, HistorySound
<1>3. ASSUME NEW line \in LinesOf(after), line.status = "succeeded"
      PROVE  /\ line.id \in Calls
             /\ ResultFile(line.id) \in DOMAIN after
             /\ after[ResultFile(line.id)] = FileEntry(<<line.content>>)
             /\ AnswerFaithful(line.content)
  <2>1. /\ line.id \in Calls
        /\ ResultFile(line.id) \in DOMAIN before
        /\ before[ResultFile(line.id)] = FileEntry(<<line.content>>)
        /\ AnswerFaithful(line.content)
    BY <1>1, <1>3 DEF HistorySound
  <2> QED
    BY <2>1 DEF KeepsAt
<1> QED
  BY <1>2, <1>3 DEF HistorySound

LEMMA ControlStays ==
  ASSUME NEW before, NEW after, ControlSound(before),
         SameAt(before, after, {ProposalFile, OutcomeFile}),
         \A a \in AttemptIds : SameAt(before, after, {FailureFile(a), HandoffFile(a)})
  PROVE  ControlSound(after)
<1>1. /\ ProposalFile \in DOMAIN after => after[ProposalFile] = FileEntry(<<"proposal">>)
      /\ OutcomeFile \in DOMAIN after => after[OutcomeFile] = FileEntry(<<"outcome">>)
  BY DEF SameAt, ControlSound
<1>2. ASSUME NEW a \in AttemptIds
      PROVE  /\ FailureFile(a) \in DOMAIN after => after[FailureFile(a)] = FileEntry(<<"failed">>)
             /\ HandoffFile(a) \in DOMAIN after => after[HandoffFile(a)] = FileEntry(<<"handoff">>)
  BY DEF SameAt, ControlSound
<1> QED
  BY <1>1, <1>2 DEF ControlSound

LEMMA FilesUndisturbed ==
  ASSUME NEW before, NEW after, FilesSound(before), EntriesSound(after), SameAt(before, after, Places)
  PROVE  FilesSound(after) /\ LinesOf(after) = LinesOf(before)
<1>1. LinesOf(after) = LinesOf(before)
  BY ThePlaces, SameLines DEF SameAt
<1>2. SameAt(before, after, {ProposalFile, OutcomeFile}) /\ SameAt(before, after, {HistoryFile})
  BY ThePlaces DEF SameAt
<1>3. \A a \in AttemptIds : SameAt(before, after, {FailureFile(a), HandoffFile(a)})
  BY ThePlaces DEF SameAt
<1>4. \A c \in Calls : SameAt(before, after, CallPlaces(c) \ {ResultFile(c)})
  BY ThePlaces DEF SameAt
<1>5. \A c \in Calls : ResultFile(c) \in DOMAIN before => KeepsAt(before, after, ResultFile(c))
  BY ThePlaces, PlacesOfCall DEF SameAt, KeepsAt
<1>6. ControlSound(after)
  BY <1>2, <1>3, ControlStays DEF FilesSound
<1>7. HistorySound(after)
  BY <1>2, <1>5, HistoryStays DEF FilesSound
<1>8. \A c \in Calls : CallRecordsSound(after, c)
  BY <1>1, <1>4, CallRecordsStay DEF FilesSound
<1> QED
  BY <1>1, <1>6, <1>7, <1>8 DEF FilesSound

-----------------------------------------------------------------------------
(* The writes of a call *)

\* A record of a call is written where there was none.
WritesNew(c, q, text, before, after) ==
  /\ q \in CallPlaces(c) /\ IsList(text) /\ FilesSound(before)
  /\ q \notin DOMAIN before \/ q = RuntimeFile(c)
  /\ after = With(before, q, FileEntry(text))

\* What else is on the disk is left alone.
Written(c, q, text, before, after) ==
  /\ EntriesSound(after) /\ ControlSound(after) /\ HistorySound(after)
  /\ LinesOf(after) = LinesOf(before)
  /\ \A d \in Calls \ {c} : SameAt(before, after, CallPlaces(d)) /\ CallRecordsSound(after, d)
  /\ SameAt(before, after, CallPlaces(c) \ {q})
  /\ q \in DOMAIN after /\ after[q] = FileEntry(text)
  /\ \A l \in DOMAIN before : l # q => KeepsAt(before, after, l)

LEMMA CallWrite ==
  ASSUME NEW c \in Calls, NEW q, NEW text, NEW before, NEW after, WritesNew(c, q, text, before, after)
  PROVE  Written(c, q, text, before, after)
<1>1. q \in CallPlaces(c) /\ q \in Places /\ IsList(text) /\ FilesSound(before)
      /\ EntriesSound(before) /\ after = With(before, q, FileEntry(text))
      /\ (q \notin DOMAIN before \/ q = RuntimeFile(c))
  BY ThePlaces DEF WritesNew, FilesSound
<1>2. /\ EntriesSound(after)
      /\ q \in DOMAIN after /\ after[q] = FileEntry(text)
      /\ SameAt(before, after, Places \ {q})
      /\ \A l \in DOMAIN before : l # q => KeepsAt(before, after, l)
  BY <1>1, WithRecord
<1>3. ASSUME NEW places, places \subseteq Places \ {q} PROVE SameAt(before, after, places)
  BY <1>2, <1>3, SamePart
<1>4. {ProposalFile, OutcomeFile} \subseteq Places \ {q} /\ {HistoryFile} \subseteq Places \ {q}
      /\ \A a \in AttemptIds : {FailureFile(a), HandoffFile(a)} \subseteq Places \ {q}
  BY <1>1, ThePlaces, CallsApart
<1>5. \A d \in Calls \ {c} : CallPlaces(d) \subseteq Places \ {q}
  BY <1>1, ThePlaces, CallsApart
<1>6. CallPlaces(c) \ {q} \subseteq Places \ {q}
  BY ThePlaces
<1>7. ControlSound(before) /\ HistorySound(before) /\ \A d \in Calls : CallRecordsSound(before, d)
  BY <1>1 DEF FilesSound
<1>8. ControlSound(after)
  BY <1>3, <1>4, <1>7, ControlStays
<1>9. SameAt(before, after, {HistoryFile}) /\ LinesOf(after) = LinesOf(before)
  BY <1>3, <1>4, SameLines
<1>10. \A d \in Calls : ResultFile(d) \in DOMAIN before => KeepsAt(before, after, ResultFile(d))
  <2>1. SUFFICES ASSUME NEW d \in Calls, ResultFile(d) \in DOMAIN before, ResultFile(d) = q
                 PROVE  FALSE
    BY <1>2
  <2>2. d = c /\ q = RuntimeFile(c)
    BY <1>1, <2>1, PlacesOfCall, CallsApart
  <2> QED
    BY <2>1, <2>2, PlacesOfCallApart DEF ScriptPlaces
<1>11. HistorySound(after)
  BY <1>7, <1>9, <1>10, HistoryStays
<1>12. \A d \in Calls \ {c} : SameAt(before, after, CallPlaces(d)) /\ CallRecordsSound(after, d)
  <2>1. SUFFICES ASSUME NEW d \in Calls \ {c}
                 PROVE  SameAt(before, after, CallPlaces(d)) /\ CallRecordsSound(after, d)
    OBVIOUS
  <2>2. SameAt(before, after, CallPlaces(d))
    BY <1>3, <1>5
  <2>3. SameAt(before, after, CallPlaces(d) \ {ResultFile(d)})
    BY <2>2, SamePart
  <2> QED
    BY <1>7, <1>9, <2>2, <2>3, CallRecordsStay
<1>13. SameAt(before, after, CallPlaces(c) \ {q})
  BY <1>3, <1>6
<1> QED
  BY <1>2, <1>8, <1>9, <1>11, <1>12, <1>13 DEF Written

\* The result of a query.
LEMMA SavedResult ==
  ASSUME NEW c \in Calls, NEW r, r.pc = "save", NEW before, NEW after,
         QueryCallSound(before, c, r), ScriptCallSound(before, c, r), OutputSound(r),
         r.space \in Spaces, FilesSound(before),
         after = With(before, ResultFile(c), FileEntry(<<r.answer>>)),
         NEW next, next = [r EXCEPT !.pc = "history"]
  PROVE  /\ WritesNew(c, ResultFile(c), <<r.answer>>, before, after)
         /\ FilesSound(after) /\ next.space = r.space /\ next.pc = "history"
         /\ CallFits(after, c, next)
<1>1. /\ r = [pc |-> "save", space |-> r.space, answer |-> r.answer]
      /\ AnswerSound(r.answer) /\ Absent(before, {AuditFile("queries", c)})
      /\ r.answer # Failed /\ Absent(before, {ResultFile(c)})
  BY DEF QueryCallSound, QueryRecord
<1>2. WritesNew(c, ResultFile(c), <<r.answer>>, before, after)
  BY <1>1, PlacesOfCall, ShortLists DEF WritesNew, Absent
<1> DEFINE q == ResultFile(c)
<1>3. /\ EntriesSound(after) /\ ControlSound(after) /\ HistorySound(after)
      /\ LinesOf(after) = LinesOf(before)
      /\ \A d \in Calls \ {c} : CallRecordsSound(after, d)
      /\ SameAt(before, after, CallPlaces(c) \ {q})
      /\ q \in DOMAIN after /\ after[q] = FileEntry(<<r.answer>>)
  <2>1. Written(c, q, <<r.answer>>, before, after)
    BY <1>2, CallWrite
  <2> QED
    BY <2>1 DEF Written
<1>4. CallRecordsSound(after, c)
  BY <1>3, CallRecordsStay DEF FilesSound
<1>5. FilesSound(after)
  BY <1>3, <1>4 DEF FilesSound
<1>6. /\ next = [pc |-> "history", space |-> r.space, answer |-> r.answer]
      /\ next.space = r.space /\ next.pc = "history" /\ next.answer = r.answer
  BY <1>1
<1>7. Absent(after, {AuditFile("queries", c)})
  <2>1. {AuditFile("queries", c)} \subseteq CallPlaces(c) \ {q}
    BY PlacesOfCall, PlacesOfCallApart
  <2> QED
    BY <1>1, <1>3, <2>1, SamePart, AbsentStays
<1>8. QueryCallSound(after, c, next)
  BY <1>1, <1>3, <1>6, <1>7 DEF QueryCallSound, QueryRecord
<1>9. ScriptCallSound(after, c, next) /\ OutputSound(next)
  BY <1>6 DEF ScriptCallSound, ScriptPcs, OutputSound
<1> QED
  BY <1>2, <1>5, <1>6, <1>8, <1>9 DEF CallFits

\* The audit of a query: its line is in the history.
LEMMA SavedAudit ==
  ASSUME NEW c \in Calls, NEW r, r.pc = "audit", NEW before, NEW after,
         QueryCallSound(before, c, r), FilesSound(before),
         after = With(before, AuditFile("queries", c), FileEntry(<<HistoryRecord(c, r.answer)>>))
  PROVE  /\ WritesNew(c, AuditFile("queries", c), <<HistoryRecord(c, r.answer)>>, before, after)
         /\ FilesSound(after)
<1> DEFINE q == AuditFile("queries", c)
           line == HistoryRecord(c, r.answer)
<1>1. Absent(before, {q}) /\ line \in LinesOf(before)
  BY DEF QueryCallSound
<1>2. WritesNew(c, q, <<line>>, before, after)
  BY <1>1, PlacesOfCall, ShortLists DEF WritesNew, Absent
<1> HIDE DEF line
<1>3. /\ EntriesSound(after) /\ ControlSound(after) /\ HistorySound(after)
      /\ LinesOf(after) = LinesOf(before)
      /\ \A d \in Calls \ {c} : CallRecordsSound(after, d)
      /\ SameAt(before, after, CallPlaces(c) \ {q})
      /\ q \in DOMAIN after /\ after[q] = FileEntry(<<line>>)
  <2>1. Written(c, q, <<line>>, before, after)
    BY <1>2, CallWrite
  <2> QED
    BY <2>1 DEF Written
<1>4. \A p \in ScriptPlaces(c) :
        (p \in DOMAIN after <=> p \in DOMAIN before) /\ (p \in DOMAIN before => after[p] = before[p])
  BY <1>3, PlacesOfCallApart DEF SameAt, CallPlaces
<1>5. ToSet(after[q].text) \subseteq LinesOf(after)
  <2>1. after[q].text = <<line>>
    BY <1>3 DEF FileEntry
  <2>2. ToSet(<<line>>) \subseteq {line}
    BY SequenceIn, ShortLists
  <2> QED
    BY <1>1, <1>3, <2>1, <2>2
<1>6. CallRecordsSound(before, c)
  BY DEF FilesSound
<1>7. CallRecordsSound(after, c)
  BY <1>4, <1>5, <1>6 DEF CallRecordsSound, ScriptPlaces
<1> QED
  BY <1>2, <1>3, <1>7 DEF FilesSound, line

\* The line of an answer.
LEMMA HistoryLine ==
  ASSUME NEW c, NEW answer, AnswerSound(answer)
  PROVE  /\ answer = Failed => HistoryRecord(c, answer).status # "succeeded"
         /\ answer # Failed => /\ HistoryRecord(c, answer).status = "succeeded"
                               /\ HistoryRecord(c, answer).id = c
                               /\ HistoryRecord(c, answer).content = answer
                               /\ AnswerFaithful(answer)
<1>1. ASSUME answer = Failed PROVE HistoryRecord(c, answer).status # "succeeded"
  <2>1. answer.status = "failed"
    BY <1>1 DEF Failed
  <2>2. HistoryRecord(c, answer) = [id |-> c, status |-> "failed"]
    BY <2>1 DEF HistoryRecord
  <2> QED
    BY <2>2
<1>2. ASSUME answer # Failed
      PROVE  /\ HistoryRecord(c, answer).status = "succeeded"
             /\ HistoryRecord(c, answer).id = c
             /\ HistoryRecord(c, answer).content = answer
             /\ AnswerFaithful(answer)
  <2>1. answer.status = "succeeded" /\ AnswerFaithful(answer)
    BY <1>2 DEF AnswerSound
  <2> DEFINE total == {n \in {Len(answer.rows)} : ~answer.truncated}
  <2>2. HistoryRecord(c, answer) =
          [id |-> c, status |-> "succeeded", saved |-> Len(answer.rows), total |-> total,
           truncated |-> answer.truncated, content |-> answer]
    BY <2>1, Zenon DEF HistoryRecord
  <2> HIDE DEF total
  <2> QED
    BY <2>1, <2>2
<1> QED
  BY <1>1, <1>2

\* What adding a line to the history does to the rest.
HistoryGrown(before, after) ==
  /\ FilesSound(after)
  /\ SameAt(before, after, Places \ {HistoryFile}) /\ LinesOf(before) \subseteq LinesOf(after)
  /\ \A l \in DOMAIN before : GrowsAt(before, after, l)

\* A line is added to the history.
LEMMA AppendedHistory ==
  ASSUME NEW c \in Calls, NEW r, r.pc = "history", NEW before, NEW after,
         QueryCallSound(before, c, r), FilesSound(before),
         after \in AppendText(before, HistoryFile, <<HistoryRecord(c, r.answer)>>),
         NEW next, next = [r EXCEPT !.pc = "audit"]
  PROVE  /\ HistoryGrown(before, after)
         /\ next.space = r.space /\ next.pc = "audit" /\ CallFits(after, c, next)
<1> DEFINE line == HistoryRecord(c, r.answer)
           old == IF IsRegular(before, HistoryFile) THEN before[HistoryFile].text ELSE <<>>
           text == old \o <<line>>
<1>1. /\ r = [pc |-> "history", space |-> r.space, answer |-> r.answer]
      /\ AnswerSound(r.answer) /\ Absent(before, {AuditFile("queries", c)})
      /\ r.answer # Failed => /\ ResultFile(c) \in DOMAIN before
                              /\ before[ResultFile(c)] = FileEntry(<<r.answer>>)
  BY DEF QueryCallSound, QueryRecord
<1>2. EntriesSound(before) /\ ControlSound(before) /\ HistorySound(before)
      /\ \A d \in Calls : CallRecordsSound(before, d)
  BY DEF FilesSound
<1>3. IsList(old) /\ ToSet(old) = LinesOf(before)
      /\ (HistoryFile \in DOMAIN before => before[HistoryFile].kind = "file"
                                           /\ before[HistoryFile].text = old)
  <2>1. CASE HistoryFile \in DOMAIN before
    <3>1. before[HistoryFile].kind = "file" /\ IsList(before[HistoryFile].text)
      BY <1>2, <2>1, SoundEntries DEF HistorySound, EntrySound
    <3> QED
      BY <2>1, <3>1 DEF IsRegular, LinesOf
  <2>2. CASE HistoryFile \notin DOMAIN before
    BY <2>2, EmptyList DEF IsRegular, LinesOf
  <2> QED
    BY <2>1, <2>2
<1>4. after = With(before, HistoryFile, FileEntry(text))
  BY Zenon DEF AppendText, WriteText
<1> HIDE DEF old, line
<1>5. IsList(<<line>>) /\ ToSet(<<line>>) = {line}
  <2>1. ToSet(<<line>>) \subseteq {line}
    BY SequenceIn, ShortLists
  <2>2. line \in ToSet(<<line>>)
    BY DEF ToSet
  <2> QED
    BY <2>1, <2>2, ShortLists
<1>6. IsList(text) /\ IsPrefix(old, text) /\ ToSet(text) = LinesOf(before) \union {line}
  BY <1>3, <1>5, JoinedLists
<1> HIDE DEF text
<1>7. /\ EntriesSound(after)
      /\ HistoryFile \in DOMAIN after /\ after[HistoryFile] = FileEntry(text)
      /\ SameAt(before, after, Places \ {HistoryFile})
      /\ \A l \in DOMAIN before : l # HistoryFile => KeepsAt(before, after, l)
  <2>1. HistoryFile \in Places /\ EntriesSound(before) /\ IsList(text)
    BY <1>2, <1>6, ThePlaces
  <2> DEFINE q == HistoryFile
  <2>2. q \in Places /\ after = With(before, q, FileEntry(text))
    BY <1>4, <2>1
  <2> HIDE DEF q
  <2>3. /\ EntriesSound(after)
        /\ q \in DOMAIN after /\ after[q] = FileEntry(text)
        /\ SameAt(before, after, Places \ {q})
        /\ \A l \in DOMAIN before : l # q => KeepsAt(before, after, l)
    BY <2>1, <2>2, WithRecord
  <2> QED
    BY <2>3 DEF q
<1>8. LinesOf(after) = LinesOf(before) \union {line}
  BY <1>6, <1>7 DEF LinesOf, FileEntry
<1>9. ASSUME NEW places, places \subseteq Places \ {HistoryFile} PROVE SameAt(before, after, places)
  BY <1>7, <1>9, SamePart
<1>10. \A d \in Calls : CallPlaces(d) \subseteq Places \ {HistoryFile}
  BY ThePlaces, CallsApart
<1>11. ControlSound(after)
  <2>1. {ProposalFile, OutcomeFile} \subseteq Places \ {HistoryFile}
        /\ \A a \in AttemptIds : {FailureFile(a), HandoffFile(a)} \subseteq Places \ {HistoryFile}
    BY ThePlaces, ControlApart
  <2> QED
    BY <1>2, <1>9, <2>1, ControlStays
<1>12. \A d \in Calls : CallRecordsSound(after, d)
  <2>1. SUFFICES ASSUME NEW d \in Calls PROVE CallRecordsSound(after, d)
    OBVIOUS
  <2>2. SameAt(before, after, CallPlaces(d) \ {ResultFile(d)})
    BY <1>9, <1>10
  <2> QED
    BY <1>2, <1>8, <2>2, CallRecordsStay
<1>13. SameAt(before, after, CallPlaces(c))
  BY <1>9, <1>10
<1>14. r.answer # Failed => /\ ResultFile(c) \in DOMAIN after
                            /\ after[ResultFile(c)] = FileEntry(<<r.answer>>)
  BY <1>1, <1>13, PlacesOfCall DEF SameAt
<1>15. HistorySound(after)
  <2>1. HistoryFile \in DOMAIN after => after[HistoryFile].kind = "file"
    BY <1>7 DEF FileEntry
  <2>2. ASSUME NEW x \in LinesOf(before), x.status = "succeeded"
        PROVE  /\ x.id \in Calls
               /\ ResultFile(x.id) \in DOMAIN after
               /\ after[ResultFile(x.id)] = FileEntry(<<x.content>>)
               /\ AnswerFaithful(x.content)
    <3>1. /\ x.id \in Calls
          /\ ResultFile(x.id) \in DOMAIN before
          /\ before[ResultFile(x.id)] = FileEntry(<<x.content>>)
          /\ AnswerFaithful(x.content)
      BY <1>2, <2>2 DEF HistorySound
    <3>2. SameAt(before, after, CallPlaces(x.id)) /\ ResultFile(x.id) \in CallPlaces(x.id)
      BY <1>9, <1>10, <3>1, PlacesOfCall
    <3> QED
      BY <3>1, <3>2 DEF SameAt
  <2>3. ASSUME line.status = "succeeded"
        PROVE  /\ line.id \in Calls
               /\ ResultFile(line.id) \in DOMAIN after
               /\ after[ResultFile(line.id)] = FileEntry(<<line.content>>)
               /\ AnswerFaithful(line.content)
    BY <1>1, <1>14, <2>3, HistoryLine DEF line
  <2> QED
    BY <1>8, <2>1, <2>2, <2>3 DEF HistorySound
<1>16. /\ next = [pc |-> "audit", space |-> r.space, answer |-> r.answer]
       /\ next.space = r.space /\ next.pc = "audit" /\ next.answer = r.answer
  BY <1>1
<1>17. Absent(after, {AuditFile("queries", c)})
  <2>1. {AuditFile("queries", c)} \subseteq CallPlaces(c)
    BY PlacesOfCall
  <2> QED
    BY <1>1, <1>13, <2>1, SamePart, AbsentStays
<1>18. QueryCallSound(after, c, next)
  BY <1>1, <1>8, <1>14, <1>16, <1>17 DEF QueryCallSound, QueryRecord, line
<1>19. ScriptCallSound(after, c, next) /\ OutputSound(next)
  BY <1>16 DEF ScriptCallSound, ScriptPcs, OutputSound
<1>20. ASSUME NEW l \in DOMAIN before PROVE GrowsAt(before, after, l)
  <2>1. CASE l = HistoryFile
    BY <1>3, <1>6, <1>7, <2>1 DEF GrowsAt, FileEntry
  <2>2. CASE l # HistoryFile
    BY <1>2, <1>7, <2>2, KeptGrows
  <2> QED
    BY <2>1, <2>2
<1> QED
  BY <1>7, <1>8, <1>11, <1>12, <1>15, <1>16, <1>18, <1>19, <1>20 DEF FilesSound, CallFits, HistoryGrown

\* A write of an execution that is not complete.
LEMMA ScriptWrite ==
  ASSUME NEW c \in Calls, NEW q, NEW text, NEW before, NEW after, WritesNew(c, q, text, before, after),
         q \in ScriptPlaces(c), q # AuditFile("pythonCompleted", c),
         Absent(before, {AuditFile("pythonCompleted", c)}),
         q = RuntimeFile(c) => text \in RuntimeTexts
  PROVE  FilesSound(after) /\ Written(c, q, text, before, after)
         /\ Absent(after, {AuditFile("pythonCompleted", c)})
<1>1. Written(c, q, text, before, after)
  BY CallWrite
<1>2. /\ EntriesSound(after) /\ ControlSound(after) /\ HistorySound(after)
      /\ LinesOf(after) = LinesOf(before)
      /\ \A d \in Calls \ {c} : CallRecordsSound(after, d)
      /\ SameAt(before, after, CallPlaces(c) \ {q})
      /\ q \in DOMAIN after /\ after[q] = FileEntry(text)
  BY <1>1 DEF Written
<1>3. CallRecordsSound(before, c)
  BY DEF WritesNew, FilesSound
<1>4. Absent(after, {AuditFile("pythonCompleted", c)})
  <2>1. {AuditFile("pythonCompleted", c)} \subseteq CallPlaces(c) \ {q}
    BY PlacesOfCall
  <2> QED
    BY <1>2, <2>1, SamePart, AbsentStays
<1>5. ASSUME AuditFile("queries", c) \in DOMAIN after
      PROVE  ToSet(after[AuditFile("queries", c)].text) \subseteq LinesOf(after)
  <2>1. AuditFile("queries", c) \in CallPlaces(c) \ {q}
    BY PlacesOfCall, PlacesOfCallApart
  <2> QED
    BY <1>2, <1>3, <1>5, <2>1 DEF SameAt, CallRecordsSound
<1>6. ASSUME RuntimeFile(c) \in DOMAIN after
      PROVE  \E t \in RuntimeTexts : after[RuntimeFile(c)] = FileEntry(t)
  <2>1. CASE q = RuntimeFile(c)
    BY <1>2, <2>1
  <2>2. CASE q # RuntimeFile(c)
    <3>1. RuntimeFile(c) \in CallPlaces(c) \ {q}
      BY <2>2, PlacesOfCall
    <3> QED
      BY <1>2, <1>3, <1>6, <3>1 DEF SameAt, CallRecordsSound
  <2> QED
    BY <2>1, <2>2
<1>7. CallRecordsSound(after, c)
  BY <1>4, <1>5, <1>6 DEF CallRecordsSound, Absent
<1>8. FilesSound(after)
  BY <1>2, <1>7 DEF FilesSound
<1> QED
  BY <1>1, <1>4, <1>8

\* The other records of a script stay when one is written.
LEMMA OtherScriptPlaces ==
  ASSUME NEW c \in Calls, NEW q, NEW text, NEW before, NEW after, Written(c, q, text, before, after)
  PROVE  SameAt(before, after, ScriptPlaces(c) \ {q})
BY DEF Written, SameAt, CallPlaces

LEMMA CopiedScript ==
  ASSUME NEW c \in Calls, NEW r, r.pc = "script", NEW before, NEW after,
         ScriptCallSound(before, c, r), FilesSound(before),
         after = With(before, CodeFile(c), FileEntry(r.source)),
         NEW next, next = [r EXCEPT !.pc = "submit"]
  PROVE  /\ WritesNew(c, CodeFile(c), r.source, before, after)
         /\ FilesSound(after) /\ next.space = r.space /\ next.pc = "submit" /\ CallFits(after, c, next)
<1> DEFINE q == CodeFile(c)
<1>1. /\ r = [pc |-> "script", space |-> r.space, source |-> r.source] /\ IsList(r.source)
      /\ Absent(before, {AuditFile("pythonCompleted", c)}) /\ Absent(before, {q})
      /\ Absent(before, {AuditFile("pythonSubmitted", c)}) /\ Absent(before, {RecordFile(c)})
  BY DEF ScriptCallSound, ScriptRecord, ScriptPcs, IsList
<1>2. WritesNew(c, q, r.source, before, after)
  BY <1>1, PlacesOfCall DEF WritesNew, Absent
<1>3. q \in ScriptPlaces(c) /\ q # AuditFile("pythonCompleted", c) /\ q # RuntimeFile(c)
      /\ q # AuditFile("pythonSubmitted", c) /\ q # RecordFile(c)
      /\ AuditFile("pythonSubmitted", c) \in ScriptPlaces(c) /\ RecordFile(c) \in ScriptPlaces(c)
  BY PlacesOfCallApart DEF ScriptPlaces
<1>4. /\ FilesSound(after) /\ Written(c, q, r.source, before, after)
      /\ Absent(after, {AuditFile("pythonCompleted", c)})
  BY <1>1, <1>2, <1>3, ScriptWrite
<1>5. q \in DOMAIN after /\ after[q] = FileEntry(r.source)
  BY <1>4 DEF Written
<1>6. Absent(after, {AuditFile("pythonSubmitted", c)}) /\ Absent(after, {RecordFile(c)})
  <2>1. AuditFile("pythonSubmitted", c) \in ScriptPlaces(c) \ {q} /\ RecordFile(c) \in ScriptPlaces(c) \ {q}
    BY <1>3
  <2>2. SameAt(before, after, ScriptPlaces(c) \ {q})
    <3>1. Written(c, q, r.source, before, after)
      BY <1>4
    <3> HIDE DEF q
    <3> QED
      BY <3>1, OtherScriptPlaces
  <2> QED
    BY <1>1, <2>1, <2>2 DEF SameAt, Absent
<1>7. /\ next = [pc |-> "submit", space |-> r.space, source |-> r.source]
      /\ next.space = r.space /\ next.pc = "submit" /\ next.source = r.source
  BY <1>1
<1>8. ScriptCallSound(after, c, next)
  BY <1>1, <1>4, <1>5, <1>6, <1>7 DEF ScriptCallSound, ScriptRecord, ScriptPcs, IsList
<1>9. QueryCallSound(after, c, next) /\ OutputSound(next)
  BY <1>7 DEF QueryCallSound, OutputSound
<1> QED
  BY <1>2, <1>4, <1>7, <1>8, <1>9 DEF CallFits

LEMMA AuditedSubmission ==
  ASSUME NEW c \in Calls, NEW r, r.pc = "submit", NEW before, NEW after,
         ScriptCallSound(before, c, r), FilesSound(before), NEW submission,
         after = With(before, AuditFile("pythonSubmitted", c), FileEntry(<<submission>>)),
         NEW next, next = [r EXCEPT !.pc = "launch"]
  PROVE  /\ WritesNew(c, AuditFile("pythonSubmitted", c), <<submission>>, before, after)
         /\ FilesSound(after) /\ next.space = r.space /\ next.pc = "launch" /\ CallFits(after, c, next)
<1> DEFINE q == AuditFile("pythonSubmitted", c)
<1>1. /\ r = [pc |-> "submit", space |-> r.space, source |-> r.source] /\ IsList(r.source)
      /\ Absent(before, {AuditFile("pythonCompleted", c)}) /\ Absent(before, {q})
      /\ CodeFile(c) \in DOMAIN before /\ before[CodeFile(c)] = FileEntry(r.source)
      /\ Absent(before, {RecordFile(c)})
  BY DEF ScriptCallSound, ScriptRecord, ScriptPcs, IsList
<1>2. WritesNew(c, q, <<submission>>, before, after)
  BY <1>1, PlacesOfCall, ShortLists DEF WritesNew, Absent
<1>3. q \in ScriptPlaces(c) /\ q # AuditFile("pythonCompleted", c) /\ q # RuntimeFile(c)
      /\ CodeFile(c) \in ScriptPlaces(c) \ {q} /\ RecordFile(c) \in ScriptPlaces(c) \ {q}
  BY PlacesOfCallApart DEF ScriptPlaces
<1>4. /\ FilesSound(after) /\ Written(c, q, <<submission>>, before, after)
      /\ Absent(after, {AuditFile("pythonCompleted", c)})
  BY <1>1, <1>2, <1>3, ScriptWrite
<1>5. q \in DOMAIN after /\ after[q].kind = "file"
  BY <1>4 DEF Written, FileEntry
<1>6. /\ CodeFile(c) \in DOMAIN after /\ after[CodeFile(c)] = FileEntry(r.source)
      /\ Absent(after, {RecordFile(c)})
  <2>1. SameAt(before, after, ScriptPlaces(c) \ {q})
    <3>1. Written(c, q, <<submission>>, before, after)
      BY <1>4
    <3> HIDE DEF q
    <3> QED
      BY <3>1, OtherScriptPlaces
  <2> QED
    BY <1>1, <1>3, <2>1 DEF SameAt, Absent
<1>7. /\ next = [pc |-> "launch", space |-> r.space, source |-> r.source]
      /\ next.space = r.space /\ next.pc = "launch" /\ next.source = r.source
  BY <1>1
<1>8. ScriptCallSound(after, c, next)
  BY <1>1, <1>4, <1>5, <1>6, <1>7 DEF ScriptCallSound, ScriptRecord, ScriptPcs, IsList
<1>9. QueryCallSound(after, c, next) /\ OutputSound(next)
  BY <1>7 DEF QueryCallSound, OutputSound
<1> QED
  BY <1>2, <1>4, <1>7, <1>8, <1>9 DEF CallFits

\* The runtime identity, which the process writes itself, twice.
LEMMA RecordedRuntime ==
  ASSUME NEW c \in Calls, NEW r, r.pc = "running", NEW before, NEW after,
         CallFits(before, c, r), FilesSound(before),
         NEW text \in RuntimeTexts, (text = <<>>) <=> RuntimeFile(c) \notin DOMAIN before,
         after = With(before, RuntimeFile(c), FileEntry(text))
  PROVE  /\ WritesNew(c, RuntimeFile(c), text, before, after)
         /\ FilesSound(after) /\ CallFits(after, c, r)
         /\ \A l \in DOMAIN before : GrowsAt(before, after, l)
<1> DEFINE q == RuntimeFile(c)
<1>1. Absent(before, {AuditFile("pythonCompleted", c)}) /\ ScriptCallSound(before, c, r) /\ OutputSound(r)
  BY DEF CallFits, ScriptCallSound, ScriptPcs
<1>2. IsList(text)
  BY EmptyList, ShortLists DEF RuntimeTexts
<1>3. WritesNew(c, q, text, before, after)
  BY <1>2, PlacesOfCall DEF WritesNew
<1>4. q \in ScriptPlaces(c) /\ q # AuditFile("pythonCompleted", c)
  BY PlacesOfCallApart DEF ScriptPlaces
<1>5. FilesSound(after) /\ Written(c, q, text, before, after)
  BY <1>1, <1>3, <1>4, ScriptWrite
<1>6. SameAt(before, after, ScriptPlaces(c) \ {q})
  <2>1. Written(c, q, text, before, after)
    BY <1>5
  <2> HIDE DEF q
  <2> QED
    BY <2>1, OtherScriptPlaces
<1>7. ScriptCallSound(after, c, r)
  BY <1>1, <1>6, ScriptCallStays
<1>8. QueryCallSound(after, c, r)
  BY DEF QueryCallSound
<1>9. ASSUME NEW l \in DOMAIN before PROVE GrowsAt(before, after, l)
  <2>1. EntriesSound(before)
    BY DEF FilesSound
  <2>2. CASE l # q
    BY <1>5, <2>1, <2>2, KeptGrows DEF Written
  <2>3. CASE l = q
    <3>1. PICK old \in RuntimeTexts : before[q] = FileEntry(old)
      BY <2>3 DEF FilesSound, CallRecordsSound
    <3>2. text = <<[runtime |-> "python"]>>
      BY <2>3 DEF RuntimeTexts
    <3>3. IsPrefix(old, text)
      <4>1. CASE old = text
        BY <1>2, <4>1, ListHasItself
      <4>2. CASE old = <<>>
        <5>1. IsPrefix(<<>>, <<>> \o text) /\ <<>> \o text = text
          BY <1>2, EmptyList, JoinedLists
        <5> QED
          BY <4>2, <5>1
      <4> QED
        BY <3>2, <4>1, <4>2 DEF RuntimeTexts
    <3>4. q \in DOMAIN after /\ after[q] = FileEntry(text)
      BY <1>5 DEF Written
    <3> QED
      BY <2>3, <3>1, <3>3, <3>4 DEF GrowsAt, FileEntry
  <2> QED
    BY <2>2, <2>3
<1> QED
  BY <1>1, <1>3, <1>5, <1>7, <1>8, <1>9 DEF CallFits

LEMMA SavedReport ==
  ASSUME NEW c \in Calls, NEW r, r.pc = "report", NEW before, NEW after,
         CallFits(before, c, r), FilesSound(before),
         after = With(before, RecordFile(c),
                      FileEntry(<<[submission |-> [id |-> c, code |-> r.source], report |-> r.report]>>)),
         NEW next, next = [r EXCEPT !.pc = "complete"]
  PROVE  /\ WritesNew(c, RecordFile(c),
                      <<[submission |-> [id |-> c, code |-> r.source], report |-> r.report]>>,
                      before, after)
         /\ FilesSound(after) /\ next.space = r.space /\ next.pc = "complete" /\ CallFits(after, c, next)
<1> DEFINE q == RecordFile(c)
           record == [submission |-> [id |-> c, code |-> r.source], report |-> r.report]
           submitted == AuditFile("pythonSubmitted", c)
<1>1. /\ IsList(r.source) /\ Absent(before, {AuditFile("pythonCompleted", c)})
      /\ CodeFile(c) \in DOMAIN before /\ before[CodeFile(c)] = FileEntry(r.source)
      /\ submitted \in DOMAIN before /\ before[submitted].kind = "file"
      /\ Absent(before, {q})
  BY DEF CallFits, ScriptCallSound, ScriptPcs, IsList
<1>2. /\ r = [pc |-> "report", space |-> r.space, source |-> r.source, report |-> r.report,
              wrote |-> r.wrote]
      /\ \A stream \in DOMAIN r.report.captured :
           r.report.captured[stream].truncated
             \/ r.report.captured[stream].bytes = r.wrote[stream]
  BY DEF CallFits, OutputSound
<1> HIDE DEF record
<1>3. WritesNew(c, q, <<record>>, before, after)
  BY <1>1, PlacesOfCall, ShortLists DEF WritesNew, Absent, record
<1>4. q \in ScriptPlaces(c) /\ q # AuditFile("pythonCompleted", c) /\ q # RuntimeFile(c)
      /\ CodeFile(c) \in ScriptPlaces(c) \ {q} /\ submitted \in ScriptPlaces(c) \ {q}
  BY PlacesOfCallApart DEF ScriptPlaces
<1>5. /\ FilesSound(after) /\ Written(c, q, <<record>>, before, after)
      /\ Absent(after, {AuditFile("pythonCompleted", c)})
  BY <1>1, <1>3, <1>4, ScriptWrite
<1>6. q \in DOMAIN after /\ after[q] = FileEntry(<<record>>)
  BY <1>5 DEF Written
<1>7. /\ CodeFile(c) \in DOMAIN after /\ after[CodeFile(c)] = FileEntry(r.source)
      /\ submitted \in DOMAIN after /\ after[submitted].kind = "file"
  <2>1. SameAt(before, after, ScriptPlaces(c) \ {q})
    <3>1. Written(c, q, <<record>>, before, after)
      BY <1>5
    <3> HIDE DEF q
    <3> QED
      BY <3>1, OtherScriptPlaces
  <2> QED
    BY <1>1, <1>4, <2>1 DEF SameAt
<1>8. /\ next = [pc |-> "complete", space |-> r.space, source |-> r.source, report |-> r.report,
                 wrote |-> r.wrote]
      /\ next.space = r.space /\ next.pc = "complete" /\ next.source = r.source
      /\ next.report = r.report /\ next.wrote = r.wrote
  BY <1>2
<1>9. ScriptCallSound(after, c, next)
  BY <1>1, <1>5, <1>6, <1>7, <1>8 DEF ScriptCallSound, ScriptPcs, IsList, record
<1>10. QueryCallSound(after, c, next)
  BY <1>8 DEF QueryCallSound
<1>11. OutputSound(next)
  BY <1>2, <1>8 DEF OutputSound
<1> QED
  BY <1>3, <1>5, <1>8, <1>9, <1>10, <1>11 DEF CallFits, record

LEMMA AuditedCompletion ==
  ASSUME NEW c \in Calls, NEW r, r.pc = "complete", NEW before, NEW after,
         CallFits(before, c, r), FilesSound(before), NEW line,
         after = With(before, AuditFile("pythonCompleted", c), FileEntry(<<line>>))
  PROVE  /\ WritesNew(c, AuditFile("pythonCompleted", c), <<line>>, before, after)
         /\ FilesSound(after)
<1> DEFINE q == AuditFile("pythonCompleted", c)
           record == [submission |-> [id |-> c, code |-> r.source], report |-> r.report]
           submitted == AuditFile("pythonSubmitted", c)
<1>1. /\ Absent(before, {q})
      /\ CodeFile(c) \in DOMAIN before /\ before[CodeFile(c)] = FileEntry(r.source)
      /\ submitted \in DOMAIN before /\ before[submitted].kind = "file"
      /\ RecordFile(c) \in DOMAIN before /\ before[RecordFile(c)] = FileEntry(<<record>>)
  BY DEF CallFits, ScriptCallSound, ScriptPcs
<1>2. WritesNew(c, q, <<line>>, before, after)
  BY <1>1, PlacesOfCall, ShortLists DEF WritesNew, Absent
<1>3. Written(c, q, <<line>>, before, after)
  BY <1>2, CallWrite
<1>4. /\ CodeFile(c) \in ScriptPlaces(c) \ {q} /\ submitted \in ScriptPlaces(c) \ {q}
      /\ RecordFile(c) \in ScriptPlaces(c) \ {q} /\ RuntimeFile(c) \in ScriptPlaces(c) \ {q}
  BY PlacesOfCallApart DEF ScriptPlaces
<1>5. /\ CodeFile(c) \in DOMAIN after /\ after[CodeFile(c)] = FileEntry(r.source)
      /\ submitted \in DOMAIN after /\ after[submitted].kind = "file"
      /\ RecordFile(c) \in DOMAIN after /\ after[RecordFile(c)] = FileEntry(<<record>>)
  <2>1. SameAt(before, after, ScriptPlaces(c) \ {q})
    <3>1. Written(c, q, <<line>>, before, after)
      BY <1>3
    <3> HIDE DEF q
    <3> QED
      BY <3>1, OtherScriptPlaces
  <2> QED
    BY <1>1, <1>4, <2>1 DEF SameAt
<1>6. CallRecordsSound(before, c)
  BY DEF FilesSound
<1>7. ASSUME AuditFile("queries", c) \in DOMAIN after
      PROVE  ToSet(after[AuditFile("queries", c)].text) \subseteq LinesOf(after)
  <2>1. AuditFile("queries", c) \in CallPlaces(c) \ {q}
    BY PlacesOfCall, PlacesOfCallApart DEF ScriptPlaces
  <2> QED
    BY <1>3, <1>6, <1>7, <2>1 DEF SameAt, CallRecordsSound, Written
<1>8. ASSUME RuntimeFile(c) \in DOMAIN after
      PROVE  \E t \in RuntimeTexts : after[RuntimeFile(c)] = FileEntry(t)
  <2>1. SameAt(before, after, ScriptPlaces(c) \ {q})
    <3>1. Written(c, q, <<line>>, before, after)
      BY <1>3
    <3> HIDE DEF q
    <3> QED
      BY <3>1, OtherScriptPlaces
  <2> QED
    BY <1>4, <1>6, <1>8, <2>1 DEF SameAt, CallRecordsSound
<1>9. /\ after[RecordFile(c)].kind = "file"
      /\ after[RecordFile(c)].text[1].submission = [id |-> c, code |-> after[CodeFile(c)].text]
  <2>1. after[CodeFile(c)].text = r.source /\ after[RecordFile(c)].text = <<record>>
        /\ after[RecordFile(c)].kind = "file"
    BY <1>5 DEF FileEntry
  <2>2. <<record>>[1] = record
    OBVIOUS
  <2>3. record.submission = [id |-> c, code |-> r.source]
    OBVIOUS
  <2> HIDE DEF record
  <2> QED
    BY <2>1, <2>2, <2>3
<1>10. CallRecordsSound(after, c)
  BY <1>5, <1>7, <1>8, <1>9 DEF CallRecordsSound
<1>11. FilesSound(after)
  BY <1>3, <1>10 DEF FilesSound, Written
<1> QED
  BY <1>2, <1>11

-----------------------------------------------------------------------------
(* The writes of the coordinator *)

ControlEntry(q, text) ==
  /\ q \in Places /\ q # HistoryFile /\ \A c \in Calls : q \notin CallPlaces(c)
  /\ text \in {<<"proposal">>, <<"outcome">>, <<"failed">>, <<"handoff">>}
  /\ q = ProposalFile => text = <<"proposal">>
  /\ q = OutcomeFile => text = <<"outcome">>
  /\ \A a \in AttemptIds :
       (q = FailureFile(a) => text = <<"failed">>) /\ (q = HandoffFile(a) => text = <<"handoff">>)

LEMMA ControlEntries ==
  /\ ControlEntry(ProposalFile, <<"proposal">>) /\ ControlEntry(OutcomeFile, <<"outcome">>)
  /\ \A a \in AttemptIds :
       ControlEntry(FailureFile(a), <<"failed">>) /\ ControlEntry(HandoffFile(a), <<"handoff">>)
<1>1. \A c \in Calls, p \in Places :
        p \in CallPlaces(c) =>
          /\ p # ProposalFile /\ p # OutcomeFile
          /\ \A a : p # FailureFile(a) /\ p # HandoffFile(a)
  BY CallsApart
<1>2. ControlEntry(ProposalFile, <<"proposal">>) /\ ControlEntry(OutcomeFile, <<"outcome">>)
  BY <1>1, ThePlaces, ControlApart DEF ControlEntry
<1>3. ASSUME NEW a \in AttemptIds
      PROVE  ControlEntry(FailureFile(a), <<"failed">>) /\ ControlEntry(HandoffFile(a), <<"handoff">>)
  BY <1>1, ThePlaces, ControlApart DEF ControlEntry
<1> QED
  BY <1>2, <1>3

LEMMA ControlWrite ==
  ASSUME NEW q, NEW text, ControlEntry(q, text), NEW before, FilesSound(before),
         NEW after, after = With(before, q, FileEntry(text))
  PROVE  /\ FilesSound(after) /\ LinesOf(after) = LinesOf(before)
         /\ \A c \in Calls : SameAt(before, after, CallPlaces(c))
         /\ \A l \in DOMAIN before : GrowsAt(before, after, l)
<1>1. q \in Places /\ q # HistoryFile /\ (\A c \in Calls : q \notin CallPlaces(c))
      /\ text \in {<<"proposal">>, <<"outcome">>, <<"failed">>, <<"handoff">>}
  BY DEF ControlEntry
<1>2. IsList(text)
  BY <1>1, ShortLists
<1>3. EntriesSound(before) /\ ControlSound(before) /\ HistorySound(before)
      /\ \A c \in Calls : CallRecordsSound(before, c)
  BY DEF FilesSound
<1>4. /\ EntriesSound(after)
      /\ q \in DOMAIN after /\ after[q] = FileEntry(text)
      /\ SameAt(before, after, Places \ {q})
      /\ \A l \in DOMAIN before : l # q => KeepsAt(before, after, l)
  BY <1>1, <1>2, <1>3, WithRecord
<1>5. \A c \in Calls : SameAt(before, after, CallPlaces(c))
  <2>1. \A c \in Calls : CallPlaces(c) \subseteq Places \ {q}
    BY <1>1, ThePlaces
  <2> QED
    BY <1>4, <2>1, SamePart
<1>6. SameAt(before, after, {HistoryFile})
  <2>1. {HistoryFile} \subseteq Places \ {q}
    BY <1>1, ThePlaces
  <2> QED
    BY <1>4, <2>1, SamePart
<1>7. LinesOf(after) = LinesOf(before)
  BY <1>6, SameLines
<1>8. HistorySound(after)
  <2>1. \A c \in Calls : ResultFile(c) \in DOMAIN before => KeepsAt(before, after, ResultFile(c))
    BY <1>1, <1>4, PlacesOfCall
  <2> QED
    BY <1>3, <1>6, <2>1, HistoryStays
<1>9. \A c \in Calls : CallRecordsSound(after, c)
  <2>1. SUFFICES ASSUME NEW c \in Calls PROVE CallRecordsSound(after, c)
    OBVIOUS
  <2>2. SameAt(before, after, CallPlaces(c) \ {ResultFile(c)})
    BY <1>5, SamePart
  <2> QED
    BY <1>3, <1>7, <2>2, CallRecordsStay
<1>10. \A p \in Places : p # q => (p \in DOMAIN after <=> p \in DOMAIN before)
                                  /\ (p \in DOMAIN before => after[p] = before[p])
  BY <1>4 DEF SameAt
<1>11. ControlSound(after)
  <2>1. ProposalFile \in DOMAIN after => after[ProposalFile] = FileEntry(<<"proposal">>)
    BY <1>3, <1>4, <1>10, ThePlaces DEF ControlEntry, ControlSound
  <2>2. OutcomeFile \in DOMAIN after => after[OutcomeFile] = FileEntry(<<"outcome">>)
    BY <1>3, <1>4, <1>10, ThePlaces DEF ControlEntry, ControlSound
  <2>3. ASSUME NEW a \in AttemptIds
        PROVE  /\ FailureFile(a) \in DOMAIN after => after[FailureFile(a)] = FileEntry(<<"failed">>)
               /\ HandoffFile(a) \in DOMAIN after => after[HandoffFile(a)] = FileEntry(<<"handoff">>)
    BY <1>3, <1>4, <1>10, ThePlaces DEF ControlEntry, ControlSound
  <2> QED
    BY <2>1, <2>2, <2>3 DEF ControlSound
<1>12. ASSUME NEW l \in DOMAIN before PROVE GrowsAt(before, after, l)
  <2>1. CASE l # q
    BY <1>3, <1>4, <2>1, KeptGrows
  <2>2. CASE l = q
    <3>1. before[q] = FileEntry(text)
      <4>1. \/ q = ProposalFile \/ q = OutcomeFile
            \/ \E a \in AttemptIds : q = FailureFile(a) \/ q = HandoffFile(a)
        <5> DEFINE A == {AttemptPlaces(a) : a \in AttemptIds}
                   C == {CallPlaces(c) : c \in Calls}
        <5>1. q \in {ProposalFile, OutcomeFile, HistoryFile} \/ q \in UNION A \/ q \in UNION C
          BY <1>1 DEF Places
        <5>2. q \notin UNION C
          BY <1>1
        <5>3. q \in UNION A => \E a \in AttemptIds : q \in AttemptPlaces(a)
          OBVIOUS
        <5> HIDE DEF A, C
        <5> QED
          BY <1>1, <5>1, <5>2, <5>3 DEF AttemptPlaces
      <4> QED
        BY <1>3, <2>2, <4>1 DEF ControlEntry, ControlSound
    <3>2. after[q] = before[q]
      BY <1>4, <3>1
    <3> QED
      BY <1>3, <1>4, <2>2, <3>2, KeptGrows DEF KeepsAt
  <2> QED
    BY <2>1, <2>2
<1> QED
  BY <1>4, <1>5, <1>7, <1>8, <1>9, <1>11, <1>12 DEF FilesSound

-----------------------------------------------------------------------------
(* Steps *)

Grow ==
  \A s \in Spaces : \A l \in DOMAIN disk[s] : Owned(s, l) \/ GrowsAt(disk[s], disk'[s], l)

LEMMA NothingWritten ==
  ASSUME RecordsInv, disk' = disk
  PROVE  Grow
<1>1. \A s \in Spaces : EntriesSound(disk[s])
  BY DEF RecordsInv, FilesSound
<1>2. \A s \in Spaces : \A l \in DOMAIN disk[s] : KeepsAt(disk[s], disk'[s], l)
  BY DEF KeepsAt
<1> QED
  BY <1>1, <1>2, KeptGrows DEF Grow

\* A step that writes nothing.
LEMMA StepOffDisk ==
  ASSUME RecordsInv, disk' = disk, budget' \in BudgetRecords,
         DOMAIN lease' = Spaces, \A s \in Spaces : LeaseSound(lease'[s]),
         DOMAIN call' = Calls,
         \A c \in Calls : call'[c] = call[c] \/ CallSoundIn(disk, c, call'[c])
  PROVE  RecordsInv' /\ Grow
<1>1. \A c \in Calls : CallSoundIn(disk', c, call'[c])
  BY DEF RecordsInv, CallSound
<1>2. RecordsInv'
  BY <1>1 DEF RecordsInv, CallSound
<1> QED
  BY <1>2, NothingWritten

\* A step that writes to one disk.
LEMMA StepOnDisk ==
  ASSUME RecordsInv, NEW s \in Spaces, NEW after, disk' = [disk EXCEPT ![s] = after],
         budget' \in BudgetRecords,
         DOMAIN lease' = Spaces, \A t \in Spaces : LeaseSound(lease'[t]),
         FilesSound(after), LinesOf(disk[s]) \subseteq LinesOf(after),
         DOMAIN call' = Calls,
         \A c \in Calls : \/ call'[c] = call[c] /\ SameAt(disk[s], after, CallPlaces(c))
                          \/ CallSoundIn(disk', c, call'[c]),
         \A l \in DOMAIN disk[s] : Owned(s, l) \/ GrowsAt(disk[s], after, l)
  PROVE  RecordsInv' /\ Grow
<1>1. DOMAIN disk = Spaces /\ DOMAIN disk' = Spaces /\ disk'[s] = after
      /\ \A t \in Spaces : t # s => disk'[t] = disk[t]
  BY DEF RecordsInv
<1>2. \A c \in Calls : CallSoundIn(disk', c, call'[c])
  <2>1. SUFFICES ASSUME NEW c \in Calls, call'[c] = call[c], SameAt(disk[s], after, CallPlaces(c))
                 PROVE  CallSoundIn(disk', c, call[c])
    BY <2>1
  <2>2. \A t \in Spaces : /\ SameAt(disk[t], disk'[t], CallPlaces(c))
                          /\ LinesOf(disk[t]) \subseteq LinesOf(disk'[t])
    BY <1>1, <2>1 DEF SameAt
  <2>3. CallSoundIn(disk, c, call[c])
    BY DEF RecordsInv, CallSound
  <2> QED
    BY <2>2, <2>3, CallUndisturbed
<1>3. \A t \in Spaces : FilesSound(disk'[t])
  BY <1>1 DEF RecordsInv
<1>4. RecordsInv'
  BY <1>1, <1>2, <1>3 DEF RecordsInv, CallSound
<1>5. Grow
  <2>1. SUFFICES ASSUME NEW t \in Spaces, NEW l \in DOMAIN disk[t]
                 PROVE  Owned(t, l) \/ GrowsAt(disk[t], disk'[t], l)
    BY DEF Grow
  <2>2. CASE t = s
    BY <1>1, <2>2
  <2>3. CASE t # s
    <3>1. EntriesSound(disk[t]) /\ KeepsAt(disk[t], disk'[t], l)
      BY <1>1, <2>3 DEF RecordsInv, FilesSound, KeepsAt
    <3> QED
      BY <3>1, KeptGrows
  <2> QED
    BY <2>2, <2>3
<1> QED
  BY <1>4, <1>5

-----------------------------------------------------------------------------
(* The steps of a call *)

LEMMA CallContext ==
  ASSUME RecordsInv, NEW c \in Calls, InFlight(c), NEW s, s = call[c].space
  PROVE  /\ s \in Spaces /\ FilesSound(disk[s]) /\ CallFits(disk[s], c, call[c])
         /\ call[c].pc \in CallPcs \ {"unused", "ended"}
BY DEF RecordsInv, CallSound, CallSoundIn, InFlight

LEMMA EndedFits ==
  ASSUME NEW disks, NEW c
  PROVE  CallSoundIn(disks, c, Ended)
BY DEF CallSoundIn, Ended, CallPcs

LEMMA CallMoves ==
  ASSUME RecordsInv, NEW c \in Calls, NEW r, call' = [call EXCEPT ![c] = r], disk' = disk,
         lease' = lease, budget' \in BudgetRecords, CallSoundIn(disk, c, r)
  PROVE  RecordsInv' /\ Grow
<1>1. DOMAIN call = Calls /\ DOMAIN lease = Spaces /\ \A s \in Spaces : LeaseSound(lease[s])
  BY DEF RecordsInv
<1>2. DOMAIN call' = Calls /\ \A d \in Calls : call'[d] = call[d] \/ CallSoundIn(disk, d, call'[d])
  BY <1>1
<1> QED
  BY <1>1, <1>2, StepOffDisk

LEMMA CallEnds ==
  ASSUME RecordsInv, NEW c \in Calls, Step(c, "ended"), disk' = disk, lease' = lease, budget' = budget
  PROVE  RecordsInv' /\ Grow
<1>1. call' = [call EXCEPT ![c] = Ended]
  BY DEF Step
<1>2. budget' \in BudgetRecords
  BY DEF RecordsInv
<1> QED
  BY <1>1, <1>2, EndedFits, CallMoves

LEMMA CallWrites ==
  ASSUME RecordsInv, NEW c \in Calls, NEW r, NEW s \in Spaces, NEW after, NEW q, NEW text,
         WritesNew(c, q, text, disk[s], after), q # RuntimeFile(c), FilesSound(after),
         disk' = [disk EXCEPT ![s] = after], call' = [call EXCEPT ![c] = r],
         lease' = lease, budget' = budget,
         \/ r = Ended
         \/ r.pc \in CallPcs \ {"unused", "ended"} /\ r.space = s /\ CallFits(after, c, r)
  PROVE  RecordsInv' /\ Grow
<1>1. DOMAIN call = Calls /\ DOMAIN lease = Spaces /\ DOMAIN disk = Spaces
      /\ (\A t \in Spaces : LeaseSound(lease[t])) /\ budget' \in BudgetRecords
  BY DEF RecordsInv
<1>2. Written(c, q, text, disk[s], after)
  BY CallWrite
<1>3. LinesOf(disk[s]) \subseteq LinesOf(after) /\ EntriesSound(disk[s]) /\ q \notin DOMAIN disk[s]
      /\ \A d \in Calls : d # c => SameAt(disk[s], after, CallPlaces(d))
  BY <1>2 DEF Written, WritesNew, FilesSound
<1>4. CallSoundIn(disk', c, r)
  <2>1. CASE r = Ended
    BY <2>1, EndedFits
  <2>2. CASE r # Ended
    <3>1. disk'[s] = after
      BY <1>1
    <3> QED
      BY <2>2, <3>1 DEF CallSoundIn
  <2> QED
    BY <2>1, <2>2
<1>5. \A d \in Calls : \/ call'[d] = call[d] /\ SameAt(disk[s], after, CallPlaces(d))
                       \/ CallSoundIn(disk', d, call'[d])
  BY <1>1, <1>3, <1>4
<1>6. \A l \in DOMAIN disk[s] : GrowsAt(disk[s], after, l)
  BY <1>2, <1>3, KeptGrows DEF Written
<1>7. DOMAIN call' = Calls
  BY <1>1
<1> QED
  BY <1>1, <1>3, <1>5, <1>6, <1>7, StepOnDisk

\* A write through the gate is made, or ends the call.
LEMMA WritesCases ==
  ASSUME NEW c, NEW written, NEW next, Writes(c, written, next)
  PROVE  /\ lease' = lease
         /\ \/ /\ \E d \in written : disk' = [disk EXCEPT ![call[c].space] = d]
               /\ Step(c, next)
            \/ disk' = disk /\ Step(c, "ended")
BY Zenon DEF Writes

LEMMA StepTo ==
  ASSUME NEW c, NEW next, next # "ended", Step(c, next)
  PROVE  call' = [call EXCEPT ![c] = [call[c] EXCEPT !.pc = next]]
BY DEF Step

LEMMA SavesResultStep ==
  ASSUME RecordsInv, NEW c \in Calls, SavesResult(c), budget' = budget
  PROVE  RecordsInv' /\ Grow
<1> DEFINE s == call[c].space
           r == call[c]
           next == [r EXCEPT !.pc = "history"]
<1>1. r.pc = "save" /\ Writes(c, WriteText(disk[s], ResultFile(c), <<r.answer>>), "history")
  BY DEF SavesResult, DiskOf
<1>2. s \in Spaces /\ FilesSound(disk[s]) /\ CallFits(disk[s], c, r)
  BY <1>1, CallContext DEF InFlight
<1>3. CASE disk' = disk /\ Step(c, "ended")
  BY <1>1, <1>3, WritesCases, CallEnds
<1>4. ASSUME NEW d \in WriteText(disk[s], ResultFile(c), <<r.answer>>),
             disk' = [disk EXCEPT ![s] = d], Step(c, "history")
      PROVE  RecordsInv' /\ Grow
  <2>1. d = With(disk[s], ResultFile(c), FileEntry(<<r.answer>>))
    BY <1>4 DEF WriteText
  <2>2. call' = [call EXCEPT ![c] = next] /\ lease' = lease
    BY <1>1, <1>4, StepTo, WritesCases
  <2>3. /\ WritesNew(c, ResultFile(c), <<r.answer>>, disk[s], d)
        /\ FilesSound(d) /\ next.space = s /\ next.pc = "history" /\ CallFits(d, c, next)
    BY <1>1, <1>2, <2>1, SavedResult DEF CallFits
  <2>4. ResultFile(c) # RuntimeFile(c)
    BY PlacesOfCallApart DEF ScriptPlaces
  <2> HIDE DEF next, s, r
  <2> QED
    BY <1>2, <1>4, <2>2, <2>3, <2>4, CallWrites DEF CallPcs
<1> QED
  BY <1>1, <1>3, <1>4, WritesCases

LEMMA AppendsHistoryStep ==
  ASSUME RecordsInv, NEW c \in Calls, AppendsHistory(c), budget' = budget
  PROVE  RecordsInv' /\ Grow
<1> DEFINE s == call[c].space
           r == call[c]
           next == [r EXCEPT !.pc = "audit"]
           line == HistoryRecord(c, r.answer)
<1>1. r.pc = "history" /\ Writes(c, AppendText(disk[s], HistoryFile, <<line>>), "audit")
  BY DEF AppendsHistory, DiskOf
<1>2. s \in Spaces /\ FilesSound(disk[s]) /\ CallFits(disk[s], c, r)
  BY <1>1, CallContext DEF InFlight
<1>3. CASE disk' = disk /\ Step(c, "ended")
  BY <1>1, <1>3, WritesCases, CallEnds
<1>4. ASSUME NEW d \in AppendText(disk[s], HistoryFile, <<line>>),
             disk' = [disk EXCEPT ![s] = d], Step(c, "audit")
      PROVE  RecordsInv' /\ Grow
  <2>1. call' = [call EXCEPT ![c] = next] /\ lease' = lease
    BY <1>1, <1>4, StepTo, WritesCases
  <2>2. /\ FilesSound(d) /\ next.space = s /\ next.pc = "audit" /\ CallFits(d, c, next)
        /\ SameAt(disk[s], d, Places \ {HistoryFile}) /\ LinesOf(disk[s]) \subseteq LinesOf(d)
        /\ \A l \in DOMAIN disk[s] : GrowsAt(disk[s], d, l)
    <3> DEFINE before == disk[s]
    <3>1. /\ r.pc = "history" /\ QueryCallSound(before, c, r) /\ FilesSound(before)
          /\ d \in AppendText(before, HistoryFile, <<HistoryRecord(c, r.answer)>>)
      BY <1>1, <1>2, <1>4 DEF CallFits
    <3>2. next = [r EXCEPT !.pc = "audit"] /\ r.space = s
      OBVIOUS
    <3> HIDE DEF before, next, r, s, line
    <3>3. HistoryGrown(before, d) /\ next.space = r.space /\ next.pc = "audit" /\ CallFits(d, c, next)
      BY <3>1, <3>2, AppendedHistory
    <3> QED
      BY <3>2, <3>3 DEF before, HistoryGrown
  <2> HIDE DEF next, s, r, line
  <2>3. /\ DOMAIN call = Calls /\ DOMAIN lease = Spaces /\ DOMAIN disk = Spaces
        /\ (\A t \in Spaces : LeaseSound(lease[t])) /\ budget' \in BudgetRecords
    BY DEF RecordsInv
  <2>4. CallSoundIn(disk', c, next)
    <3>1. disk'[s] = d
      BY <1>2, <1>4, <2>3
    <3> QED
      BY <1>2, <2>2, <3>1 DEF CallSoundIn, CallPcs
  <2>5. \A e \in Calls : SameAt(disk[s], d, CallPlaces(e))
    <3>1. \A e \in Calls : CallPlaces(e) \subseteq Places \ {HistoryFile}
      BY ThePlaces, CallsApart
    <3> QED
      BY <2>2, <3>1, SamePart
  <2>6. DOMAIN call' = Calls
        /\ \A e \in Calls : \/ call'[e] = call[e] /\ SameAt(disk[s], d, CallPlaces(e))
                            \/ CallSoundIn(disk', e, call'[e])
    BY <2>1, <2>3, <2>4, <2>5
  <2> QED
    BY <1>2, <1>4, <2>1, <2>2, <2>3, <2>6, StepOnDisk
<1> QED
  BY <1>1, <1>3, <1>4, WritesCases

LEMMA AppendsAuditStep ==
  ASSUME RecordsInv, NEW c \in Calls, AppendsAudit(c), budget' = budget
  PROVE  RecordsInv' /\ Grow
<1> DEFINE s == call[c].space
           r == call[c]
           q == AuditFile("queries", c)
           text == <<HistoryRecord(c, r.answer)>>
<1>1. r.pc = "audit" /\ Writes(c, WriteText(disk[s], q, text), "ended")
  BY DEF AppendsAudit, DiskOf
<1>2. s \in Spaces /\ FilesSound(disk[s]) /\ CallFits(disk[s], c, r)
  BY <1>1, CallContext DEF InFlight
<1>3. CASE disk' = disk /\ Step(c, "ended")
  BY <1>1, <1>3, WritesCases, CallEnds
<1>4. ASSUME NEW d \in WriteText(disk[s], q, text), disk' = [disk EXCEPT ![s] = d], Step(c, "ended")
      PROVE  RecordsInv' /\ Grow
  <2>1. d = With(disk[s], q, FileEntry(text))
    BY <1>4 DEF WriteText
  <2>2. call' = [call EXCEPT ![c] = Ended] /\ lease' = lease
    BY <1>1, <1>4, WritesCases DEF Step
  <2>3. WritesNew(c, q, text, disk[s], d) /\ FilesSound(d)
    BY <1>1, <1>2, <2>1, SavedAudit DEF CallFits
  <2>4. q # RuntimeFile(c)
    BY PlacesOfCallApart DEF ScriptPlaces
  <2> HIDE DEF s, r, q, text
  <2> QED
    BY <1>2, <1>4, <2>2, <2>3, <2>4, CallWrites
<1> QED
  BY <1>1, <1>3, <1>4, WritesCases

LEMMA CopiesScriptStep ==
  ASSUME RecordsInv, NEW c \in Calls, CopiesScript(c), budget' = budget
  PROVE  RecordsInv' /\ Grow
<1> DEFINE s == call[c].space
           r == call[c]
           next == [r EXCEPT !.pc = "submit"]
<1>1. r.pc = "script" /\ Writes(c, WriteText(disk[s], CodeFile(c), r.source), "submit")
  BY DEF CopiesScript, DiskOf
<1>2. s \in Spaces /\ FilesSound(disk[s]) /\ CallFits(disk[s], c, r)
  BY <1>1, CallContext DEF InFlight
<1>3. CASE disk' = disk /\ Step(c, "ended")
  BY <1>1, <1>3, WritesCases, CallEnds
<1>4. ASSUME NEW d \in WriteText(disk[s], CodeFile(c), r.source),
             disk' = [disk EXCEPT ![s] = d], Step(c, "submit")
      PROVE  RecordsInv' /\ Grow
  <2>1. d = With(disk[s], CodeFile(c), FileEntry(r.source))
    BY <1>4 DEF WriteText
  <2>2. call' = [call EXCEPT ![c] = next] /\ lease' = lease
    BY <1>1, <1>4, StepTo, WritesCases
  <2>3. /\ WritesNew(c, CodeFile(c), r.source, disk[s], d)
        /\ FilesSound(d) /\ next.space = s /\ next.pc = "submit" /\ CallFits(d, c, next)
    BY <1>1, <1>2, <2>1, CopiedScript DEF CallFits
  <2>4. CodeFile(c) # RuntimeFile(c)
    BY PlacesOfCallApart
  <2> HIDE DEF next, s, r
  <2> QED
    BY <1>2, <1>4, <2>2, <2>3, <2>4, CallWrites DEF CallPcs, ScriptPcs
<1> QED
  BY <1>1, <1>3, <1>4, WritesCases

LEMMA AuditsSubmissionStep ==
  ASSUME RecordsInv, NEW c \in Calls, AuditsSubmission(c), budget' = budget
  PROVE  RecordsInv' /\ Grow
<1> DEFINE s == call[c].space
           r == call[c]
           q == AuditFile("pythonSubmitted", c)
           text == <<Submitted(c)>>
           next == [r EXCEPT !.pc = "launch"]
<1>1. r.pc = "submit" /\ Writes(c, WriteText(disk[s], q, text), "launch")
  BY DEF AuditsSubmission, DiskOf
<1>2. s \in Spaces /\ FilesSound(disk[s]) /\ CallFits(disk[s], c, r)
  BY <1>1, CallContext DEF InFlight
<1>3. CASE disk' = disk /\ Step(c, "ended")
  BY <1>1, <1>3, WritesCases, CallEnds
<1>4. ASSUME NEW d \in WriteText(disk[s], q, text), disk' = [disk EXCEPT ![s] = d], Step(c, "launch")
      PROVE  RecordsInv' /\ Grow
  <2>1. d = With(disk[s], q, FileEntry(text))
    BY <1>4 DEF WriteText
  <2>2. call' = [call EXCEPT ![c] = next] /\ lease' = lease
    BY <1>1, <1>4, StepTo, WritesCases
  <2>3. /\ WritesNew(c, q, text, disk[s], d)
        /\ FilesSound(d) /\ next.space = s /\ next.pc = "launch" /\ CallFits(d, c, next)
    BY <1>1, <1>2, <2>1, AuditedSubmission DEF CallFits
  <2>4. q # RuntimeFile(c)
    BY PlacesOfCallApart
  <2> HIDE DEF next, s, r, q, text
  <2> QED
    BY <1>2, <1>4, <2>2, <2>3, <2>4, CallWrites DEF CallPcs, ScriptPcs
<1> QED
  BY <1>1, <1>3, <1>4, WritesCases

LEMMA SavesReportStep ==
  ASSUME RecordsInv, NEW c \in Calls, SavesReport(c), budget' = budget
  PROVE  RecordsInv' /\ Grow
<1> DEFINE s == call[c].space
           r == call[c]
           q == RecordFile(c)
           text == <<[submission |-> [id |-> c, code |-> r.source], report |-> r.report]>>
           next == [r EXCEPT !.pc = "complete"]
<1>1. r.pc = "report" /\ Writes(c, WriteText(disk[s], q, text), "complete")
  BY DEF SavesReport, DiskOf, Submitted
<1>2. s \in Spaces /\ FilesSound(disk[s]) /\ CallFits(disk[s], c, r)
  BY <1>1, CallContext DEF InFlight
<1>3. CASE disk' = disk /\ Step(c, "ended")
  BY <1>1, <1>3, WritesCases, CallEnds
<1>4. ASSUME NEW d \in WriteText(disk[s], q, text), disk' = [disk EXCEPT ![s] = d], Step(c, "complete")
      PROVE  RecordsInv' /\ Grow
  <2>1. d = With(disk[s], q, FileEntry(text))
    BY <1>4 DEF WriteText
  <2>2. call' = [call EXCEPT ![c] = next] /\ lease' = lease
    BY <1>1, <1>4, StepTo, WritesCases
  <2>3. /\ WritesNew(c, q, text, disk[s], d)
        /\ FilesSound(d) /\ next.space = s /\ next.pc = "complete" /\ CallFits(d, c, next)
    BY <1>1, <1>2, <2>1, SavedReport
  <2>4. q # RuntimeFile(c)
    BY PlacesOfCallApart
  <2> HIDE DEF next, s, r, q, text
  <2> QED
    BY <1>2, <1>4, <2>2, <2>3, <2>4, CallWrites DEF CallPcs, ScriptPcs
<1> QED
  BY <1>1, <1>3, <1>4, WritesCases

LEMMA AuditsCompletionStep ==
  ASSUME RecordsInv, NEW c \in Calls, AuditsCompletion(c), budget' = budget
  PROVE  RecordsInv' /\ Grow
<1> DEFINE s == call[c].space
           r == call[c]
           q == AuditFile("pythonCompleted", c)
           text == <<[id |-> c, status |-> r.report.status]>>
<1>1. r.pc = "complete" /\ Writes(c, WriteText(disk[s], q, text), "ended")
  BY DEF AuditsCompletion, DiskOf
<1>2. s \in Spaces /\ FilesSound(disk[s]) /\ CallFits(disk[s], c, r)
  BY <1>1, CallContext DEF InFlight
<1>3. CASE disk' = disk /\ Step(c, "ended")
  BY <1>1, <1>3, WritesCases, CallEnds
<1>4. ASSUME NEW d \in WriteText(disk[s], q, text), disk' = [disk EXCEPT ![s] = d], Step(c, "ended")
      PROVE  RecordsInv' /\ Grow
  <2>1. d = With(disk[s], q, FileEntry(text))
    BY <1>4 DEF WriteText
  <2>2. call' = [call EXCEPT ![c] = Ended] /\ lease' = lease
    BY <1>1, <1>4, WritesCases DEF Step
  <2>3. WritesNew(c, q, text, disk[s], d) /\ FilesSound(d)
    BY <1>1, <1>2, <2>1, AuditedCompletion
  <2>4. q # RuntimeFile(c)
    BY PlacesOfCallApart
  <2> HIDE DEF s, r, q, text
  <2> QED
    BY <1>2, <1>4, <2>2, <2>3, <2>4, CallWrites
<1> QED
  BY <1>1, <1>3, <1>4, WritesCases

\* The process writes its runtime identity.
LEMMA RecordsRuntimeStep ==
  ASSUME RecordsInv, NEW c \in Calls, RecordsRuntime(c), budget' = budget
  PROVE  RecordsInv' /\ Grow
<1> DEFINE s == call[c].space
           r == call[c]
           q == RuntimeFile(c)
<1>1. r.pc = "running" /\ lease' = lease /\ call' = call
  BY DEF RecordsRuntime, Running
<1>2. s \in Spaces /\ FilesSound(disk[s]) /\ CallFits(disk[s], c, r)
  BY <1>1, CallContext DEF InFlight
<1>3. PICK text \in RuntimeTexts :
        /\ (text = <<>>) <=> ~Exists(disk[s], q)
        /\ \E d \in WriteText(disk[s], q, text) : disk' = [disk EXCEPT ![s] = d]
  BY DEF RecordsRuntime, RuntimeTexts, DiskOf
<1>4. PICK d \in WriteText(disk[s], q, text) : disk' = [disk EXCEPT ![s] = d]
  BY <1>3
<1>5. d = With(disk[s], q, FileEntry(text))
  BY <1>4 DEF WriteText
<1>6. (text = <<>>) <=> q \notin DOMAIN disk[s]
  <2>1. q # <<>>
    BY FourNames DEF RuntimeFile
  <2> QED
    BY <1>3, <2>1 DEF Exists
<1>7. /\ WritesNew(c, q, text, disk[s], d) /\ FilesSound(d) /\ CallFits(d, c, r)
      /\ \A l \in DOMAIN disk[s] : GrowsAt(disk[s], d, l)
  <2> DEFINE before == disk[s]
  <2>1. /\ r.pc = "running" /\ CallFits(before, c, r) /\ FilesSound(before)
        /\ (text = <<>>) <=> RuntimeFile(c) \notin DOMAIN before
        /\ d = With(before, RuntimeFile(c), FileEntry(text))
    BY <1>1, <1>2, <1>5, <1>6
  <2> HIDE DEF before, r, s
  <2>2. /\ WritesNew(c, RuntimeFile(c), text, before, d) /\ FilesSound(d) /\ CallFits(d, c, r)
        /\ \A l \in DOMAIN before : GrowsAt(before, d, l)
    BY <2>1, RecordedRuntime
  <2> QED
    BY <2>2 DEF before
<1>8. Written(c, q, text, disk[s], d)
  BY <1>7, CallWrite
<1> HIDE DEF s, r, q
<1>9. /\ DOMAIN call = Calls /\ DOMAIN lease = Spaces /\ DOMAIN disk = Spaces
      /\ (\A t \in Spaces : LeaseSound(lease[t])) /\ budget' \in BudgetRecords
  BY DEF RecordsInv
<1>10. CallSoundIn(disk', c, r)
  <2>1. disk'[s] = d
    BY <1>2, <1>4, <1>9
  <2>2. r.space = s
    BY DEF s, r
  <2> QED
    BY <1>1, <1>2, <1>7, <2>1, <2>2 DEF CallSoundIn, CallPcs, ScriptPcs
<1>11. \A e \in Calls : \/ call'[e] = call[e] /\ SameAt(disk[s], d, CallPlaces(e))
                        \/ CallSoundIn(disk', e, call'[e])
  BY <1>1, <1>8, <1>10 DEF Written, r
<1>12. LinesOf(disk[s]) \subseteq LinesOf(d)
  BY <1>8 DEF Written
<1> QED
  BY <1>1, <1>2, <1>4, <1>7, <1>9, <1>11, <1>12, StepOnDisk

-----------------------------------------------------------------------------
(* The steps of calls that write nothing *)

LEMMA SpendsRecords ==
  ASSUME budget \in BudgetRecords,
         NEW what \in {"queries", "scripts", "edits", "proposals", "failures", "crashes", "stops"},
         Spends(what)
  PROVE  budget' \in BudgetRecords
BY DEF Spends, BudgetRecords

LEMMA RunSqlStep ==
  ASSUME RecordsInv, NEW s \in Spaces, NEW c \in Calls, NEW query \in Queries,
         NEW rows \in RowLimits, RunSql(s, c, query, rows), budget' \in BudgetRecords
  PROVE  RecordsInv' /\ Grow
<1> DEFINE r == [pc |-> "query", space |-> s, query |-> query, rows |-> rows]
<1>1. call[c].pc = "unused" /\ call' = [call EXCEPT ![c] = r] /\ disk' = disk /\ lease' = lease
  BY DEF RunSql, Unused
<1>2. rows \in Nat
  BY ToolsAssumption DEF RunSql
<1>3. Absent(disk[s], CallPlaces(c))
  BY <1>1 DEF RecordsInv, CallSound, CallSoundIn
<1>4. Absent(disk[s], QueryPlaces(c))
  BY <1>3 DEF Absent, CallPlaces
<1>5. QueryCallSound(disk[s], c, r)
  BY <1>2, <1>4 DEF QueryCallSound
<1>6. ScriptCallSound(disk[s], c, r) /\ OutputSound(r)
  BY DEF ScriptCallSound, OutputSound, ScriptPcs
<1>7. r.pc = "query" /\ r.space = s
  OBVIOUS
<1> HIDE DEF r
<1>8. CallSoundIn(disk, c, r)
  BY <1>5, <1>6, <1>7 DEF CallSoundIn, CallFits, CallPcs
<1> QED
  BY <1>1, <1>8, CallMoves

\* The source of an execution is a list, inline or of a file.
LEMMA SourceIsList ==
  ASSUME RecordsInv, NEW s \in Spaces, NEW script \in Scripts, NEW source, source \in SourceOf(s, script)
  PROVE  source \in Seq(ToSet(source))
<1>1. CASE script.inline # {}
  <2>1. source \in script.inline
    BY <1>1 DEF SourceOf
  <2> QED
    BY <2>1, ListsAssumption
<1>2. CASE script.inline = {}
  <2>1. \E location : source \in ReadText(disk[s], location)
    <3> DEFINE places == {q \in {script.path} : q # <<>> /\ ToSet(q) \intersect
                            (Unnamed \union {Backslashed, ".."}) = {}}
               texts == {ReadText(disk[s], <<"analysis">> \o p) : p \in places}
    <3>1. source \in UNION texts
      BY <1>2, Zenon DEF SourceOf
    <3>2. PICK text \in texts : source \in text
      BY <3>1
    <3>3. PICK p \in places : text = ReadText(disk[s], <<"analysis">> \o p)
      BY <3>2
    <3> QED
      BY <3>2, <3>3
  <2>2. PICK location : source \in ReadText(disk[s], location)
    BY <2>1
  <2>3. location \in DOMAIN disk[s] /\ source = disk[s][location].text
    BY <2>2 DEF ReadText, IsRegular
  <2>4. EntriesSound(disk[s])
    BY DEF RecordsInv, FilesSound
  <2> QED
    BY <2>3, <2>4 DEF EntriesSound
<1> QED
  BY <1>1, <1>2

LEMMA CodeInterpreterStep ==
  ASSUME RecordsInv, NEW s \in Spaces, NEW c \in Calls, NEW script \in Scripts,
         CodeInterpreter(s, c, script), budget' \in BudgetRecords
  PROVE  RecordsInv' /\ Grow
<1>1. call[c].pc = "unused" /\ disk' = disk /\ lease' = lease
  BY DEF CodeInterpreter, Unused
<1>2. PICK source \in SourceOf(s, script) :
        call' = [call EXCEPT ![c] = [pc |-> "script", space |-> s, source |-> source]]
  BY DEF CodeInterpreter
<1> DEFINE r == [pc |-> "script", space |-> s, source |-> source]
<1>3. source \in Seq(ToSet(source))
  BY SourceIsList
<1>4. Absent(disk[s], CallPlaces(c))
  BY <1>1 DEF RecordsInv, CallSound, CallSoundIn
<1>5. Absent(disk[s], {AuditFile("pythonCompleted", c)}) /\ Absent(disk[s], {CodeFile(c)})
      /\ Absent(disk[s], {AuditFile("pythonSubmitted", c)}) /\ Absent(disk[s], {RecordFile(c)})
  BY <1>4 DEF Absent, CallPlaces, ScriptPlaces
<1>6. ScriptCallSound(disk[s], c, r)
  BY <1>3, <1>5 DEF ScriptCallSound, ScriptPcs, ScriptRecord
<1>7. QueryCallSound(disk[s], c, r) /\ OutputSound(r)
  BY DEF QueryCallSound, OutputSound
<1>8. r.pc = "script" /\ r.space = s /\ call' = [call EXCEPT ![c] = r]
  BY <1>2
<1> HIDE DEF r
<1>9. CallSoundIn(disk, c, r)
  BY <1>6, <1>7, <1>8 DEF CallSoundIn, CallFits, CallPcs, ScriptPcs
<1> QED
  BY <1>1, <1>8, <1>9, CallMoves

LEMMA AnswersStep ==
  ASSUME RecordsInv, NEW c \in Calls, Answers(c), budget' = budget
  PROVE  RecordsInv' /\ Grow
<1> DEFINE s == call[c].space
           r == call[c]
<1>1. r.pc = "query" /\ disk' = disk /\ lease' = lease /\ budget' \in BudgetRecords
  BY DEF Answers, RecordsInv
<1>2. s \in Spaces /\ CallFits(disk[s], c, r)
  BY <1>1, CallContext DEF InFlight
<1>3. /\ r.query \in Queries /\ r.rows \in RowLimits /\ r.rows \in Nat
      /\ Absent(disk[s], QueryPlaces(c))
  BY <1>1, <1>2 DEF CallFits, QueryCallSound
<1>4. PICK evidence \in Snapshots :
        \E answer \in QueryAnswers(r.query, Scope, [rows |-> r.rows, bytes |-> MaxBytes], evidence) :
          call' = [call EXCEPT ![c] =
                     IF answer.status # "failed" /\ Yielding(@.space) THEN Ended
                     ELSE [pc |-> IF answer.status = "failed" THEN "history" ELSE "save",
                           space |-> @.space, answer |-> answer]]
  BY DEF Answers
<1>5. PICK answer \in QueryAnswers(r.query, Scope, [rows |-> r.rows, bytes |-> MaxBytes], evidence) :
          call' = [call EXCEPT ![c] =
                     IF answer.status # "failed" /\ Yielding(@.space) THEN Ended
                     ELSE [pc |-> IF answer.status = "failed" THEN "history" ELSE "save",
                           space |-> @.space, answer |-> answer]]
  BY <1>4
<1>6. /\ AnswerSound(answer) /\ answer.status \in {"failed", "succeeded"}
      /\ answer.status = "failed" => answer = Failed
  BY <1>3, AnswersFaithful
<1>7. answer # Failed <=> answer.status # "failed"
  BY <1>6 DEF Failed
<1>8. CASE answer.status # "failed" /\ Yielding(s)
  <2>1. call' = [call EXCEPT ![c] = Ended]
    BY <1>5, <1>8
  <2> QED
    BY <1>1, <2>1, EndedFits, CallMoves
<1>9. CASE ~(answer.status # "failed" /\ Yielding(s))
  <2> DEFINE pc == IF answer.status = "failed" THEN "history" ELSE "save"
             next == [pc |-> pc, space |-> s, answer |-> answer]
  <2>1. call' = [call EXCEPT ![c] = next]
    BY <1>5, <1>9
  <2>2. Absent(disk[s], {AuditFile("queries", c)}) /\ Absent(disk[s], {ResultFile(c)})
    BY <1>3 DEF Absent, QueryPlaces
  <2>3. next.pc = pc /\ next.space = s /\ next.answer = answer /\ QueryRecord(next, pc)
        /\ pc \in {"history", "save"} /\ (pc = "history" <=> answer = Failed)
    BY <1>6, <1>7 DEF QueryRecord
  <2> HIDE DEF next, pc
  <2>4. QueryCallSound(disk[s], c, next)
    BY <1>6, <2>2, <2>3 DEF QueryCallSound
  <2>5. ScriptCallSound(disk[s], c, next) /\ OutputSound(next)
    BY <2>3 DEF ScriptCallSound, OutputSound, ScriptPcs
  <2> HIDE DEF s, r
  <2>6. CallSoundIn(disk, c, next)
    BY <1>2, <2>3, <2>4, <2>5 DEF CallSoundIn, CallFits, CallPcs
  <2> QED
    BY <1>1, <2>1, <2>6, CallMoves
<1> QED
  BY <1>8, <1>9

\* What a script's call may go on to, when its source stays.
LEMMA ScriptGoesOn ==
  ASSUME NEW files, NEW c, NEW r, CallFits(files, c, r), NEW next,
         r.pc \in {"launch", "running", "runtime", "report"},
         next.pc \in {"running", "runtime", "report"}, next.source = r.source, OutputSound(next)
  PROVE  CallFits(files, c, next)
BY DEF CallFits, QueryCallSound, ScriptCallSound, ScriptPcs

\* A script's call goes on without a write.
GoesOn(r, next) ==
  /\ r.pc \in {"launch", "running", "runtime", "report"}
  /\ next.pc \in {"running", "runtime", "report"}
  /\ next.source = r.source /\ next.space = r.space

LEMMA ScriptMoves ==
  ASSUME RecordsInv, NEW c \in Calls, NEW next,
         GoesOn(call[c], next), OutputSound(next),
         call' = [call EXCEPT ![c] = next], disk' = disk, lease' = lease, budget' = budget
  PROVE  RecordsInv' /\ Grow
<1> DEFINE s == call[c].space
           r == call[c]
<1>1. s \in Spaces /\ CallFits(disk[s], c, r) /\ next.space = s
  BY CallContext DEF InFlight, GoesOn
<1>2. budget' \in BudgetRecords
  BY DEF RecordsInv
<1> HIDE DEF s
<1>3. CallFits(disk[s], c, next)
  BY <1>1, ScriptGoesOn DEF GoesOn
<1>4. CallSoundIn(disk, c, next)
  BY <1>1, <1>3 DEF CallSoundIn, CallPcs, ScriptPcs, GoesOn
<1> QED
  BY <1>2, <1>4, CallMoves

Reporting(r, report, pc, wrote) ==
  [pc |-> pc, space |-> r.space, source |-> r.source, report |-> report, wrote |-> wrote]

\* Output that is called whole is all that was written.
TellsOf(report, wrote) ==
  \A stream \in DOMAIN report.captured :
    report.captured[stream].truncated \/ report.captured[stream].bytes = wrote[stream]

LEMMA ReportSound ==
  ASSUME NEW r, NEW report, NEW pc \in {"runtime", "report"}, NEW wrote,
         TellsOf(report, wrote)
  PROVE  /\ OutputSound(Reporting(r, report, pc, wrote))
         /\ Reporting(r, report, pc, wrote).pc = pc
         /\ Reporting(r, report, pc, wrote).source = r.source
         /\ Reporting(r, report, pc, wrote).space = r.space
BY DEF OutputSound, Reporting, TellsOf

LEMMA ReportsCases ==
  ASSUME NEW c, NEW r, r = call[c], c \in DOMAIN call, NEW report, NEW pc, Reports(c, report, pc)
  PROVE  \E wrote : /\ r.pc = "running" => wrote = r.wrote
                    /\ r.pc # "running" => wrote = [stream \in Streams |-> 0]
                    /\ call' = [call EXCEPT ![c] = Reporting(r, report, pc, wrote)]
<1>1. CASE r.pc = "running"
  <2>1. call' = [call EXCEPT ![c] = Reporting(r, report, pc, r.wrote)]
    BY <1>1 DEF Reports, Reporting
  <2> QED
    BY <1>1, <2>1
<1>2. CASE r.pc # "running"
  <2>1. call' = [call EXCEPT ![c] = Reporting(r, report, pc, [stream \in Streams |-> 0])]
    BY <1>2 DEF Reports, Reporting
  <2> QED
    BY <1>2, <2>1
<1> QED
  BY <1>1, <1>2

\* A report that claims no output, of an execution without a process or a loop.
LEMMA RunnerFails ==
  ASSUME RecordsInv, NEW c \in Calls, call[c].pc \in {"launch", "running"},
         Reports(c, RunnerFailed, "report"), disk' = disk, lease' = lease, budget' = budget
  PROVE  RecordsInv' /\ Grow
<1> DEFINE r == call[c]
<1>1. PICK wrote : call' = [call EXCEPT ![c] = Reporting(r, RunnerFailed, "report", wrote)]
  BY ReportsCases DEF RecordsInv
<1> DEFINE next == Reporting(r, RunnerFailed, "report", wrote)
<1>2. DOMAIN RunnerFailed.captured = {}
  BY DEF RunnerFailed
<1>3. OutputSound(next) /\ next.pc = "report" /\ next.source = r.source /\ next.space = r.space
  <2>1. TellsOf(RunnerFailed, wrote)
    BY <1>2 DEF TellsOf
  <2>2. "report" \in {"runtime", "report"}
    OBVIOUS
  <2> QED
    BY <2>1, <2>2, ReportSound
<1>4. call' = [call EXCEPT ![c] = next] /\ GoesOn(call[c], next)
  BY <1>1, <1>3 DEF GoesOn
<1> HIDE DEF next
<1> QED
  BY <1>3, <1>4, ScriptMoves

LEMMA NotStartedReport ==
  ASSUME NEW stream \in Streams
  PROVE  NotStarted.captured[stream].bytes = 0
BY DEF NotStarted, Report, Reported, Accept, NoCapture

LEMMA LaunchesStep ==
  ASSUME RecordsInv, NEW c \in Calls, Launches(c), budget' = budget
  PROVE  RecordsInv' /\ Grow
<1> DEFINE r == call[c]
<1>1. r.pc = "launch" /\ disk' = disk /\ lease' = lease
  BY DEF Launches
<1>2. \/ Reports(c, RunnerFailed, "report") \/ Reports(c, NotStarted, "report")
      \/ call' = [call EXCEPT ![c] = Started(c)]
  BY DEF Launches
<1>3. CASE Reports(c, RunnerFailed, "report")
  BY <1>1, <1>3, RunnerFails
<1>4. CASE Reports(c, NotStarted, "report")
  <2>1. PICK wrote : /\ wrote = [stream \in Streams |-> 0]
                     /\ call' = [call EXCEPT ![c] = Reporting(r, NotStarted, "report", wrote)]
    BY <1>1, <1>4, ReportsCases DEF RecordsInv
  <2> DEFINE next == Reporting(r, NotStarted, "report", wrote)
  <2>2. DOMAIN NotStarted.captured = Streams
    BY DEF NotStarted, Report
  <2>3. \A stream \in Streams : NotStarted.captured[stream].bytes = wrote[stream]
    BY <2>1, NotStartedReport
  <2>4. TellsOf(NotStarted, wrote)
    BY <2>2, <2>3 DEF TellsOf
  <2>5. OutputSound(next) /\ next.pc = "report" /\ next.source = r.source /\ next.space = r.space
    BY <2>4, ReportSound
  <2>6. call' = [call EXCEPT ![c] = next] /\ GoesOn(call[c], next)
    BY <1>1, <2>1, <2>5 DEF GoesOn
  <2> HIDE DEF next
  <2> QED
    BY <1>1, <2>5, <2>6, ScriptMoves
<1>5. CASE call' = [call EXCEPT ![c] = Started(c)]
  <2> DEFINE next == Started(c)
  <2>1. next.pc = "running" /\ next.source = r.source /\ next.space = r.space
        /\ next.wrote = [stream \in Streams |-> 0] /\ next.read = [stream \in Streams |-> 0]
        /\ next.captured = [stream \in Streams |-> NoCapture]
        /\ next.alive = TRUE /\ next.heirs = FALSE
        /\ DOMAIN next = RunFields
    BY DEF Started, RunFields
  <2> HIDE DEF next
  <2>2. ASSUME NEW stream \in Streams PROVE CaptureSound(next, stream)
    <3>1. next.wrote[stream] = 0 /\ next.read[stream] = 0 /\ next.captured[stream] = NoCapture
      BY <2>1
    <3>2. NoCapture.bytes = 0 /\ NoCapture.truncated = FALSE /\ NoCapture.complete = FALSE
          /\ NoCapture = [bytes |-> NoCapture.bytes, truncated |-> NoCapture.truncated,
                          complete |-> NoCapture.complete]
      BY Zenon DEF NoCapture
    <3>3. NoCapture.bytes \in Nat /\ 0 \in 0..0
      BY <3>2
    <3>4. /\ NoCapture.truncated \in BOOLEAN /\ NoCapture.complete \in BOOLEAN
          /\ ~NoCapture.complete
      BY <3>2, Zenon
    <3> QED
      BY <3>1, <3>2, <3>3, <3>4, Zenon DEF CaptureSound
  <2>3. OutputSound(next)
    BY <2>1, <2>2 DEF OutputSound
  <2>4. call' = [call EXCEPT ![c] = next]
    BY <1>5 DEF next
  <2>5. GoesOn(call[c], next)
    BY <1>1, <2>1 DEF GoesOn
  <2> QED
    BY <1>1, <2>3, <2>4, <2>5, ScriptMoves
<1> QED
  BY <1>2, <1>3, <1>4, <1>5

-----------------------------------------------------------------------------
(* The steps of a running execution *)

\* A running execution changes what the process does, not what it runs.
LEMMA RunGoesOn ==
  ASSUME RecordsInv, NEW c \in Calls, Running(c), NEW next, OutputSound(next),
         next.pc = "running", next.source = call[c].source, next.space = call[c].space,
         call' = [call EXCEPT ![c] = next], disk' = disk, lease' = lease, budget' = budget
  PROVE  RecordsInv' /\ Grow
<1>1. GoesOn(call[c], next)
  BY DEF Running, GoesOn
<1> QED
  BY <1>1, ScriptMoves

\* What changes of a running execution's record changes nothing else of it.
SameRun(r, next) ==
  /\ DOMAIN next = DOMAIN r /\ next.pc = r.pc /\ next.space = r.space /\ next.source = r.source
  /\ next.wrote = r.wrote /\ next.read = r.read /\ next.captured = r.captured

LEMMA HeirsChange ==
  ASSUME NEW r, DOMAIN r = RunFields, NEW x, NEW next, next = [r EXCEPT !.heirs = x]
  PROVE  SameRun(r, next) /\ next.heirs = x /\ next.alive = r.alive
BY DEF RunFields, SameRun

\* What a running execution's record is.
LEMMA RunRecord ==
  ASSUME RecordsInv, NEW c \in Calls, Running(c), NEW r, r = call[c]
  PROVE  /\ OutputSound(r) /\ r.pc = "running"
         /\ DOMAIN r = RunFields
         /\ r.alive \in BOOLEAN /\ r.heirs \in BOOLEAN
         /\ DOMAIN r.wrote = Streams /\ DOMAIN r.read = Streams /\ DOMAIN r.captured = Streams
         /\ \A stream \in Streams : CaptureSound(r, stream)
         /\ c \in DOMAIN call
<1>1. call[c].pc = "running"
  BY DEF Running
<1>2. CallFits(disk[call[c].space], c, call[c])
  BY <1>1, CallContext DEF InFlight
<1>3. OutputSound(r) /\ r.pc = "running" /\ c \in DOMAIN call
  BY <1>1, <1>2 DEF CallFits, RecordsInv
<1> QED
  BY <1>3, Zenon DEF OutputSound

\* A process that ends, forks or loses its heirs writes and reads nothing.
LEMMA ProcessChanges ==
  ASSUME RecordsInv, NEW c \in Calls, Running(c), NEW r, r = call[c], NEW next, SameRun(r, next),
         next.alive \in BOOLEAN, next.heirs \in BOOLEAN,
         next.alive => r.alive, next.heirs => r.heirs \/ r.alive,
         call' = [call EXCEPT ![c] = next], disk' = disk, lease' = lease, budget' = budget
  PROVE  RecordsInv' /\ Grow
<1>1. /\ DOMAIN r.wrote = Streams /\ DOMAIN r.read = Streams /\ DOMAIN r.captured = Streams
      /\ r.alive \in BOOLEAN /\ r.heirs \in BOOLEAN /\ r.pc = "running" /\ DOMAIN r = RunFields
      /\ \A stream \in Streams : CaptureSound(r, stream)
  BY RunRecord
<1>2. /\ DOMAIN next = DOMAIN r /\ next.pc = r.pc /\ next.space = r.space /\ next.source = r.source
      /\ next.wrote = r.wrote /\ next.read = r.read /\ next.captured = r.captured
  BY DEF SameRun
<1>3. r.alive = FALSE /\ r.heirs = FALSE => next.alive = FALSE /\ next.heirs = FALSE
  BY Zenon
<1>4. ASSUME NEW stream \in Streams PROVE CaptureSound(next, stream)
  <2>1. CaptureSound(r, stream)
    BY <1>1
  <2> QED
    BY <1>2, <1>3, <2>1, Zenon DEF CaptureSound
<1>5. OutputSound(next)
  <2>1. next.pc \notin {"runtime", "report", "complete"}
    BY <1>1, <1>2
  <2> QED
    BY <1>1, <1>2, <1>4, <2>1, Zenon DEF OutputSound
<1>6. next.source = call[c].source /\ next.space = call[c].space /\ next.pc = "running"
  BY <1>1, <1>2
<1> QED
  BY <1>5, <1>6, RunGoesOn

LEMMA ProcessForksStep ==
  ASSUME RecordsInv, NEW c \in Calls, ProcessForks(c), budget' = budget
  PROVE  RecordsInv' /\ Grow
<1> DEFINE r == call[c]
           next == [r EXCEPT !.heirs = TRUE]
<1>1. Running(c) /\ r.alive /\ disk' = disk /\ lease' = lease
      /\ call' = [call EXCEPT ![c] = next]
  BY DEF ProcessForks
<1>2. DOMAIN r = RunFields /\ r.alive \in BOOLEAN
  BY <1>1, RunRecord
<1> HIDE DEF next
<1>3. SameRun(r, next) /\ next.heirs = TRUE /\ next.alive = r.alive
  <2>1. PICK x : x = TRUE /\ next = [r EXCEPT !.heirs = x]
    BY Zenon DEF next
  <2>2. SameRun(r, next) /\ next.heirs = x /\ next.alive = r.alive
    BY <1>2, <2>1, HeirsChange
  <2> QED
    BY <2>1, <2>2, Zenon
<1> QED
  BY <1>1, <1>2, <1>3, ProcessChanges, Zenon

LEMMA HeirsEndStep ==
  ASSUME RecordsInv, NEW c \in Calls, HeirsEnd(c), budget' = budget
  PROVE  RecordsInv' /\ Grow
<1> DEFINE r == call[c]
           next == [r EXCEPT !.heirs = FALSE]
<1>1. Running(c) /\ disk' = disk /\ lease' = lease /\ call' = [call EXCEPT ![c] = next]
  BY DEF HeirsEnd
<1>2. DOMAIN r = RunFields /\ r.alive \in BOOLEAN
  BY <1>1, RunRecord
<1> HIDE DEF next
<1>3. SameRun(r, next) /\ next.heirs = FALSE /\ next.alive = r.alive
  <2>1. PICK x : x = FALSE /\ next = [r EXCEPT !.heirs = x]
    BY Zenon DEF next
  <2>2. SameRun(r, next) /\ next.heirs = x /\ next.alive = r.alive
    BY <1>2, <2>1, HeirsChange
  <2> QED
    BY <2>1, <2>2, Zenon
<1> QED
  BY <1>1, <1>2, <1>3, ProcessChanges, Zenon

\* The process ends by itself or is killed.
LEMMA ProcessEnded ==
  ASSUME RecordsInv, NEW c \in Calls, Running(c), NEW outcome,
         call' = [call EXCEPT ![c].alive = FALSE, ![c].outcome = outcome],
         disk' = disk, lease' = lease, budget' = budget
  PROVE  RecordsInv' /\ Grow
<1> DEFINE r == call[c]
           next == [r EXCEPT !.alive = FALSE, !.outcome = outcome]
<1>1. DOMAIN r = RunFields /\ r.heirs \in BOOLEAN /\ c \in DOMAIN call
  BY RunRecord
<1>2. call' = [call EXCEPT ![c] = next]
  BY <1>1
<1> HIDE DEF next
<1>3. SameRun(r, next) /\ next.heirs = r.heirs /\ next.alive = FALSE
  <2>1. PICK x : x = FALSE /\ next = [r EXCEPT !.alive = x, !.outcome = outcome]
    BY Zenon DEF next
  <2>2. SameRun(r, next) /\ next.heirs = r.heirs /\ next.alive = x
    BY <1>1, <2>1 DEF RunFields, SameRun
  <2> QED
    BY <2>1, <2>2, Zenon
<1> QED
  BY <1>1, <1>2, <1>3, ProcessChanges, Zenon

LEMMA ProcessExitsStep ==
  ASSUME RecordsInv, NEW c \in Calls, ProcessExits(c), budget' = budget
  PROVE  RecordsInv' /\ Grow
<1>1. Running(c) /\ disk' = disk /\ lease' = lease
  BY DEF ProcessExits
<1>2. PICK status \in {"succeeded", "failed"} :
        call' = [call EXCEPT ![c].alive = FALSE, ![c].outcome = status]
  BY DEF ProcessExits
<1> QED
  BY <1>1, <1>2, ProcessEnded

LEMMA KillsStep ==
  ASSUME RecordsInv, NEW c \in Calls, TimesOut(c) \/ Cancels(c), budget' = budget
  PROVE  RecordsInv' /\ Grow
<1>1. PICK outcome : Kills(c, outcome)
  BY DEF TimesOut, Cancels
<1> QED
  BY <1>1, ProcessEnded DEF Kills

LEMMA ProcessWritesStep ==
  ASSUME RecordsInv, NEW c \in Calls, ProcessWrites(c), budget' = budget
  PROVE  RecordsInv' /\ Grow
<1> DEFINE r == call[c]
<1>1. Running(c) /\ PipesOpen(c) /\ disk' = disk /\ lease' = lease
  BY DEF ProcessWrites
<1>2. PICK pipe \in Streams : call' = [call EXCEPT ![c].wrote[pipe] = @ + 1]
  BY DEF ProcessWrites
<1> DEFINE next == [r EXCEPT !.wrote = [r.wrote EXCEPT ![pipe] = r.wrote[pipe] + 1]]
<1>3. /\ DOMAIN r = RunFields /\ r.pc = "running" /\ c \in DOMAIN call
      /\ r.alive \in BOOLEAN /\ r.heirs \in BOOLEAN
      /\ DOMAIN r.wrote = Streams /\ DOMAIN r.read = Streams /\ DOMAIN r.captured = Streams
      /\ \A stream \in Streams : CaptureSound(r, stream)
  BY <1>1, RunRecord
<1>4. call' = [call EXCEPT ![c] = next]
  BY <1>2, <1>3
<1>5. /\ DOMAIN next = RunFields /\ next.pc = "running" /\ next.source = r.source
      /\ next.space = r.space /\ next.alive = r.alive /\ next.heirs = r.heirs
      /\ next.read = r.read /\ next.captured = r.captured
      /\ next.wrote = [r.wrote EXCEPT ![pipe] = r.wrote[pipe] + 1]
  BY <1>3 DEF RunFields
<1> HIDE DEF next
<1>6. ASSUME NEW stream \in Streams PROVE CaptureSound(next, stream)
  <2>1. CaptureSound(r, stream)
    BY <1>3
  <2>2. r.captured[stream].complete => r.alive = FALSE /\ r.heirs = FALSE
    BY <2>1, Zenon DEF CaptureSound
  <2>3. ~r.captured[stream].complete
    BY <1>1, <2>2, Zenon DEF PipesOpen
  <2>4. /\ r.wrote[stream] \in Nat /\ r.read[stream] \in 0..r.wrote[stream]
    BY <2>1, Zenon DEF CaptureSound
  <2>5. next.wrote[stream] \in Nat /\ next.read[stream] \in 0..next.wrote[stream]
    BY <1>3, <1>5, <2>4
  <2> QED
    BY <1>5, <2>1, <2>3, <2>5, Zenon DEF CaptureSound
<1>7. OutputSound(next)
  <2>1. next.pc \notin {"runtime", "report", "complete"}
    BY <1>5
  <2>2. DOMAIN next.wrote = Streams
    BY <1>3, <1>5
  <2> QED
    BY <1>3, <1>5, <1>6, <2>1, <2>2, Zenon DEF OutputSound
<1> QED
  BY <1>1, <1>4, <1>5, <1>7, RunGoesOn

LEMMA CaptureFields ==
  ASSUME NEW bytes, NEW truncated, NEW complete, NEW capture,
         capture = [bytes |-> bytes, truncated |-> truncated, complete |-> complete]
  PROVE  capture.bytes = bytes /\ capture.truncated = truncated /\ capture.complete = complete
OBVIOUS

\* What arrives of a pipe's output, or its end.
LEMMA AcceptedCapture ==
  ASSUME NEW capture, capture = [bytes |-> capture.bytes, truncated |-> capture.truncated,
                                 complete |-> capture.complete],
         capture.bytes \in Nat, capture.truncated \in BOOLEAN, capture.complete \in BOOLEAN,
         NEW read \in Nat, capture.truncated \/ capture.bytes = read, ~capture.complete,
         NEW count \in Nat, NEW after, after = Accept(capture, count)
  PROVE  /\ after = [bytes |-> after.bytes, truncated |-> after.truncated,
                     complete |-> after.complete]
         /\ after.bytes \in Nat /\ after.truncated \in BOOLEAN /\ after.complete \in BOOLEAN
         /\ after.truncated \/ after.bytes = read + count
         /\ after.complete => count = 0
<1>1. CASE count = 0
  <2>1. after = [capture EXCEPT !.complete = TRUE]
    BY <1>1, Zenon DEF Accept
  <2> DEFINE b == capture.bytes  t == capture.truncated
  <2>2. capture = [bytes |-> b, truncated |-> t, complete |-> capture.complete]
    BY Zenon
  <2>3. after = [bytes |-> b, truncated |-> t, complete |-> TRUE]
    BY <2>1, <2>2
  <2> HIDE DEF b, t
  <2>4. after.bytes = b /\ after.truncated = t /\ after.complete = TRUE
    BY <2>3, CaptureFields
  <2>5. read + count = read
    BY <1>1
  <2> QED
    BY <1>1, <2>3, <2>4, <2>5, Zenon DEF b, t
<1>2. CASE count # 0
  <2> DEFINE remaining == MaxCaptured - capture.bytes
             b == capture.bytes + (IF count <= remaining THEN count ELSE remaining)
             t == capture.truncated \/ count > remaining
  <2>1. after = [capture EXCEPT !.bytes = b, !.truncated = t]
    BY <1>2, Zenon DEF Accept
  <2>2. b \in Nat /\ (~(count > remaining) => b = capture.bytes + count)
    BY ToolsAssumption
  <2>3. t \in BOOLEAN /\ (t \/ b = read + count)
    <3>1. CASE count > remaining
      BY <3>1, Zenon
    <3>2. CASE ~(count > remaining)
      <4>1. capture.truncated \/ b = read + count
        <5>1. CASE capture.truncated
          BY <5>1, Zenon
        <5>2. CASE capture.bytes = read
          BY <2>2, <3>2, <5>2
        <5> QED
          BY <5>1, <5>2, Zenon
      <4> QED
        BY <3>2, <4>1, Zenon
    <3> QED
      BY <3>1, <3>2
  <2> HIDE DEF b, t
  <2>4. after = [bytes |-> b, truncated |-> t, complete |-> capture.complete]
    BY <2>1
  <2>5. after.bytes = b /\ after.truncated = t /\ after.complete = capture.complete
    BY <2>4, CaptureFields
  <2>6. after = [bytes |-> after.bytes, truncated |-> after.truncated, complete |-> after.complete]
    BY <2>4, <2>5, Zenon
  <2>7. after.bytes \in Nat /\ after.truncated \in BOOLEAN /\ after.complete \in BOOLEAN
    BY <2>2, <2>3, <2>5, Zenon
  <2>8. after.truncated \/ after.bytes = read + count
    BY <2>3, <2>5, Zenon
  <2>9. ~after.complete
    BY <2>5, Zenon
  <2> QED
    BY <2>6, <2>7, <2>8, <2>9, Zenon
<1> QED
  BY <1>1, <1>2

LEMMA ReadsPipeStep ==
  ASSUME RecordsInv, NEW c \in Calls, NEW pipe \in Streams, ReadsPipe(c, pipe), budget' = budget
  PROVE  RecordsInv' /\ Grow
<1> DEFINE r == call[c]
           unread == r.wrote[pipe] - r.read[pipe]
<1>1. Running(c) /\ ~r.captured[pipe].complete /\ disk' = disk /\ lease' = lease
  BY DEF ReadsPipe
<1>2. PICK count \in 0..unread :
        /\ count = 0 => unread = 0 /\ ~PipesOpen(c)
        /\ call' = [call EXCEPT ![c].read[pipe] = @ + count, ![c].captured[pipe] = Accept(@, count)]
  BY DEF ReadsPipe
<1> DEFINE after == Accept(r.captured[pipe], count)
           next == [r EXCEPT !.read = [r.read EXCEPT ![pipe] = r.read[pipe] + count],
                             !.captured = [r.captured EXCEPT ![pipe] = after]]
<1>3. /\ DOMAIN r = RunFields /\ r.pc = "running" /\ c \in DOMAIN call
      /\ r.alive \in BOOLEAN /\ r.heirs \in BOOLEAN
      /\ DOMAIN r.wrote = Streams /\ DOMAIN r.read = Streams /\ DOMAIN r.captured = Streams
      /\ \A stream \in Streams : CaptureSound(r, stream)
  BY <1>1, RunRecord
<1>4. /\ call' = [call EXCEPT ![c] = next]
      /\ DOMAIN next = RunFields /\ next.pc = "running" /\ next.source = r.source
      /\ next.space = r.space /\ next.alive = r.alive /\ next.heirs = r.heirs
      /\ next.wrote = r.wrote
      /\ next.read = [r.read EXCEPT ![pipe] = r.read[pipe] + count]
      /\ next.captured = [r.captured EXCEPT ![pipe] = after]
  <2>1. PICK got : got = after
    OBVIOUS
  <2>2. call' = [call EXCEPT ![c].read[pipe] = @ + count, ![c].captured[pipe] = got]
    BY <1>2, <1>3, <2>1
  <2> HIDE DEF after
  <2>3. call' = [call EXCEPT ![c] = next]
    BY <1>3, <2>1, <2>2 DEF RunFields
  <2>4. /\ DOMAIN next = RunFields /\ next.pc = "running" /\ next.source = r.source
        /\ next.space = r.space /\ next.alive = r.alive /\ next.heirs = r.heirs
        /\ next.wrote = r.wrote
        /\ next.read = [r.read EXCEPT ![pipe] = r.read[pipe] + count]
        /\ next.captured = [r.captured EXCEPT ![pipe] = after]
    BY <1>3 DEF RunFields
  <2> QED
    BY <2>3, <2>4
<1> HIDE DEF next
<1>5. ASSUME NEW stream \in Streams, stream # pipe PROVE CaptureSound(next, stream)
  <2>1. CaptureSound(r, stream)
    BY <1>3
  <2>2. next.read[stream] = r.read[stream] /\ next.captured[stream] = r.captured[stream]
    BY <1>3, <1>4, <1>5
  <2> QED
    BY <1>4, <2>1, <2>2, Zenon DEF CaptureSound
<1>6. CaptureSound(next, pipe)
  <2> DEFINE capture == r.captured[pipe]
             read == r.read[pipe]
             wrote == r.wrote[pipe]
  <2>1. CaptureSound(r, pipe)
    BY <1>3
  <2>2. /\ wrote \in Nat /\ read \in 0..wrote
        /\ capture = [bytes |-> capture.bytes, truncated |-> capture.truncated,
                      complete |-> capture.complete]
        /\ capture.bytes \in Nat /\ capture.truncated \in BOOLEAN /\ capture.complete \in BOOLEAN
        /\ capture.truncated \/ capture.bytes = read
    BY <2>1, Zenon DEF CaptureSound
  <2>3. /\ next.read[pipe] = read + count /\ next.captured[pipe] = after /\ next.wrote[pipe] = wrote
    BY <1>3, <1>4
  <2>4. read \in Nat /\ count \in Nat /\ read + count \in 0..wrote
        /\ (unread = 0 => read + count = wrote)
    BY <2>2
  <2>5. after = Accept(capture, count) /\ ~capture.complete
    BY <1>1
  <2>6. count = 0 => unread = 0 /\ ~PipesOpen(c)
    BY <1>2
  <2>7. ~PipesOpen(c) => next.alive = FALSE /\ next.heirs = FALSE
    BY <1>3, <1>4, Zenon DEF PipesOpen
  <2> HIDE DEF capture, read, wrote, after, r
  <2>8. /\ after = [bytes |-> after.bytes, truncated |-> after.truncated,
                    complete |-> after.complete]
        /\ after.bytes \in Nat /\ after.truncated \in BOOLEAN /\ after.complete \in BOOLEAN
        /\ after.truncated \/ after.bytes = read + count
        /\ after.complete => count = 0
    BY <2>2, <2>4, <2>5, AcceptedCapture
  <2>9. after.complete => read + count = wrote /\ next.alive = FALSE /\ next.heirs = FALSE
    BY <2>4, <2>6, <2>7, <2>8, Zenon
  <2> QED
    BY <2>2, <2>3, <2>4, <2>8, <2>9, Zenon DEF CaptureSound
<1>7. OutputSound(next)
  <2>1. next.pc \notin {"runtime", "report", "complete"}
    BY <1>4
  <2>2. DOMAIN next.wrote = Streams /\ DOMAIN next.read = Streams /\ DOMAIN next.captured = Streams
    BY <1>3, <1>4
  <2>3. \A stream \in Streams : CaptureSound(next, stream)
    BY <1>5, <1>6
  <2> QED
    BY <1>3, <1>4, <2>1, <2>2, <2>3, Zenon DEF OutputSound
<1> QED
  BY <1>1, <1>4, <1>7, RunGoesOn

LEMMA LoopEndsStep ==
  ASSUME RecordsInv, NEW c \in Calls, LoopEnds(c), budget' = budget
  PROVE  RecordsInv' /\ Grow
<1> DEFINE r == call[c]
           report == Report(r.outcome, r.captured)
<1>1. Running(c) /\ r.pc = "running" /\ Reports(c, report, "runtime") /\ disk' = disk /\ lease' = lease
  BY DEF LoopEnds, Running
<1>2. \A stream \in Streams : CaptureSound(r, stream)
  BY <1>1, RunRecord
<1>3. call' = [call EXCEPT ![c] = Reporting(r, report, "runtime", r.wrote)]
  BY <1>1, ReportsCases DEF RecordsInv
<1>4. report.captured = [stream \in Streams |-> Reported(r.captured[stream])]
  BY Zenon DEF Report
<1>5. ASSUME NEW stream \in DOMAIN report.captured
      PROVE  report.captured[stream].truncated \/ report.captured[stream].bytes = r.wrote[stream]
  <2> DEFINE capture == r.captured[stream]
             reported == Reported(capture)
  <2>1. stream \in Streams /\ report.captured[stream] = reported
    BY <1>4
  <2>2. CaptureSound(r, stream)
    BY <1>2, <2>1
  <2>3. /\ capture.truncated \/ capture.bytes = r.read[stream]
        /\ capture.complete => r.read[stream] = r.wrote[stream]
    BY <2>2, Zenon DEF CaptureSound
  <2>4. PICK cut : cut = (capture.truncated \/ ~capture.complete)
    OBVIOUS
  <2>5. reported = [bytes |-> capture.bytes, truncated |-> cut, complete |-> capture.complete]
    BY <2>4, Zenon DEF Reported
  <2> HIDE DEF capture, reported
  <2>6. reported.bytes = capture.bytes /\ reported.truncated = cut
    BY <2>5, CaptureFields
  <2> QED
    BY <2>1, <2>3, <2>4, <2>6, Zenon
<1> DEFINE next == Reporting(r, report, "runtime", r.wrote)
<1>6. OutputSound(next) /\ next.pc = "runtime" /\ next.source = r.source /\ next.space = r.space
  <2>1. "runtime" \in {"runtime", "report"}
    OBVIOUS
  <2>2. \A stream \in DOMAIN report.captured :
          report.captured[stream].truncated \/ report.captured[stream].bytes = r.wrote[stream]
    BY <1>5, Zenon
  <2>3. TellsOf(report, r.wrote)
    BY <2>2, Zenon DEF TellsOf
  <2> HIDE DEF report
  <2> QED
    BY <2>1, <2>3, ReportSound
<1>7. GoesOn(call[c], next)
  BY <1>1, <1>6 DEF GoesOn
<1> HIDE DEF next
<1> QED
  BY <1>1, <1>3, <1>6, <1>7, ScriptMoves DEF next

LEMMA LoopFailsStep ==
  ASSUME RecordsInv, NEW c \in Calls, LoopFails(c), budget' = budget
  PROVE  RecordsInv' /\ Grow
BY RunnerFails DEF LoopFails, Running

LEMMA ReadsRuntimeStep ==
  ASSUME RecordsInv, NEW c \in Calls, ReadsRuntime(c), budget' = budget
  PROVE  RecordsInv' /\ Grow
<1> DEFINE r == call[c]
           next == [r EXCEPT !.pc = "report"]
<1>1. r.pc = "runtime" /\ disk' = disk /\ lease' = lease
      /\ (Step(c, "ended") \/ Step(c, "report"))
  BY DEF ReadsRuntime
<1>2. CASE Step(c, "ended")
  BY <1>1, <1>2, CallEnds
<1>3. CASE Step(c, "report")
  <2>1. call' = [call EXCEPT ![c] = next]
    BY <1>3, StepTo
  <2>2. CallFits(disk[call[c].space], c, r)
    BY <1>1, CallContext DEF InFlight
  <2>3. OutputSound(r)
    BY <2>2 DEF CallFits
  <2>4. OutputSound(next) /\ next.pc = "report" /\ next.source = r.source /\ next.space = r.space
    BY <1>1, <2>3 DEF OutputSound
  <2>5. GoesOn(call[c], next)
    BY <1>1, <2>4 DEF GoesOn
  <2> HIDE DEF next
  <2> QED
    BY <1>1, <2>1, <2>4, <2>5, ScriptMoves
<1> QED
  BY <1>1, <1>2, <1>3

LEMMA WriteFailsStep ==
  ASSUME RecordsInv, NEW c \in Calls, WriteFails(c), budget' = budget
  PROVE  RecordsInv' /\ Grow
BY CallEnds DEF WriteFails

LEMMA CallSteps ==
  ASSUME RecordsInv, NEW c \in Calls, CallStep(c) \/ CallInterference(c), budget' = budget
  PROVE  RecordsInv' /\ Grow
<1>1. CASE CallStep(c)
  BY <1>1, AnswersStep, SavesResultStep, AppendsHistoryStep, AppendsAuditStep, CopiesScriptStep,
     AuditsSubmissionStep, LaunchesStep, KillsStep, LoopEndsStep, ReadsRuntimeStep,
     SavesReportStep, AuditsCompletionStep DEF CallStep
<1>2. CASE CallInterference(c)
  BY <1>2, WriteFailsStep, LoopFailsStep, KillsStep, RecordsRuntimeStep, ProcessWritesStep,
     ProcessForksStep, HeirsEndStep, ProcessExitsStep, ReadsPipeStep DEF CallInterference
<1> QED
  BY <1>1, <1>2

-----------------------------------------------------------------------------
(* The steps of the workers and of the agent *)

LEMMA LeasesStay ==
  ASSUME RecordsInv, lease' = lease
  PROVE  DOMAIN lease' = Spaces /\ \A t \in Spaces : LeaseSound(lease'[t])
BY DEF RecordsInv

LEMMA BudgetStays ==
  ASSUME RecordsInv, budget' = budget
  PROVE  budget' \in BudgetRecords
BY DEF RecordsInv

LEMMA YieldKeeps ==
  ASSUME RecordsInv, NEW s \in Spaces, NEW signal, RequestYield(s, signal)
  PROVE  DOMAIN lease' = Spaces /\ \A t \in Spaces : LeaseSound(lease'[t])
<1>1. DOMAIN lease = Spaces /\ \A t \in Spaces : LeaseSound(lease[t])
  BY DEF RecordsInv
<1>2. PICK x : lease' = [lease EXCEPT ![s] = [lease[s] EXCEPT !.signal = x]]
  BY DEF RequestYield
<1>3. LeaseSound([lease[s] EXCEPT !.signal = x])
  BY <1>1 DEF LeaseSound
<1> QED
  BY <1>1, <1>2, <1>3

LEMMA NoAttemptSound == LeaseSound(NoAttempt)
BY DEF LeaseSound, NoAttempt

\* A step of a worker or the agent that writes nothing.
LEMMA WorkerOffDisk ==
  ASSUME RecordsInv, disk' = disk, call' = call, budget' \in BudgetRecords,
         DOMAIN lease' = Spaces, \A t \in Spaces : LeaseSound(lease'[t])
  PROVE  RecordsInv' /\ Grow
<1>1. DOMAIN call' = Calls
  BY DEF RecordsInv
<1> QED
  BY <1>1, StepOffDisk

\* One that writes a record of the cycle.
LEMMA ControlStep ==
  ASSUME RecordsInv, NEW s \in Spaces, NEW q, NEW text, ControlEntry(q, text),
         Records(s, q, text), call' = call, budget' \in BudgetRecords,
         DOMAIN lease' = Spaces, \A t \in Spaces : LeaseSound(lease'[t])
  PROVE  RecordsInv' /\ Grow
<1> DEFINE before == disk[s]
           after == With(before, q, FileEntry(text))
<1>1. FilesSound(before) /\ disk' = [disk EXCEPT ![s] = after] /\ DOMAIN call' = Calls
  BY DEF Records, RecordsInv
<1> HIDE DEF before
<1>2. /\ FilesSound(after) /\ LinesOf(after) = LinesOf(before)
      /\ \A c \in Calls : SameAt(before, after, CallPlaces(c))
      /\ \A l \in DOMAIN before : GrowsAt(before, after, l)
  BY <1>1, ControlWrite
<1> HIDE DEF after
<1>3. /\ FilesSound(after) /\ LinesOf(disk[s]) \subseteq LinesOf(after)
      /\ \A c \in Calls : call'[c] = call[c] /\ SameAt(disk[s], after, CallPlaces(c))
      /\ \A l \in DOMAIN disk[s] : GrowsAt(disk[s], after, l)
  BY <1>2 DEF before
<1> QED
  BY <1>1, <1>3, StepOnDisk

LEMMA FailureStep ==
  ASSUME RecordsInv, NEW s \in Spaces, RecordsFailure(s), call' = call, budget' = budget,
         lease' = lease
  PROVE  RecordsInv' /\ Grow
<1>1. PICK a \in lease[s].attempt : Records(s, FailureFile(a), <<"failed">>)
  BY DEF RecordsFailure
<1>2. a \in AttemptIds
  BY <1>1 DEF RecordsInv, LeaseSound
<1>3. ControlEntry(FailureFile(a), <<"failed">>)
  BY <1>2, ControlEntries
<1> QED
  BY <1>1, <1>3, LeasesStay, BudgetStays, ControlStep

LEMMA RunEndsStep ==
  ASSUME RecordsInv, NEW s \in Spaces, RunEnds(s)
  PROVE  RecordsInv' /\ Grow
<1>1. lease' = lease /\ call' = call /\ budget' = budget
  BY DEF RunEnds
<1>2. CASE disk' = disk
  BY <1>1, <1>2, LeasesStay, BudgetStays, WorkerOffDisk
<1>3. CASE RecordsFailure(s)
  BY <1>1, <1>3, FailureStep
<1>4. ASSUME NEW a \in lease[s].attempt, Records(s, HandoffFile(a), <<"handoff">>)
      PROVE  RecordsInv' /\ Grow
  <2>1. a \in AttemptIds
    BY <1>4 DEF RecordsInv, LeaseSound
  <2>2. ControlEntry(HandoffFile(a), <<"handoff">>)
    BY <2>1, ControlEntries
  <2> QED
    BY <1>1, <1>4, <2>2, LeasesStay, BudgetStays, ControlStep
<1>5. \/ disk' = disk \/ RecordsFailure(s)
      \/ \E a \in lease[s].attempt : Records(s, HandoffFile(a), <<"handoff">>)
  BY Zenon DEF RunEnds
<1> QED
  BY <1>2, <1>3, <1>4, <1>5

LEMMA ClosesStep ==
  ASSUME RecordsInv, NEW s \in Spaces, worker[s].next \in {"none", "record", "complete"}, Closes(s)
  PROVE  RecordsInv' /\ Grow
<1>1. call' = call /\ budget' = budget
  BY DEF Closes
<1>2. CASE disk' = disk /\ lease' = lease
  BY <1>1, <1>2, LeasesStay, BudgetStays, WorkerOffDisk
<1>3. CASE RecordsFailure(s) /\ lease' = lease
  BY <1>1, <1>3, FailureStep
<1>4. CASE Records(s, OutcomeFile, <<"outcome">>) /\ lease' = [lease EXCEPT ![s] = NoAttempt]
  <2>1. DOMAIN lease' = Spaces /\ \A t \in Spaces : LeaseSound(lease'[t])
    BY <1>4, NoAttemptSound DEF RecordsInv
  <2> QED
    BY <1>1, <1>4, <2>1, ControlEntries, BudgetStays, ControlStep
<1>5. \/ disk' = disk /\ lease' = lease
      \/ RecordsFailure(s) /\ lease' = lease
      \/ Records(s, OutcomeFile, <<"outcome">>) /\ lease' = [lease EXCEPT ![s] = NoAttempt]
  BY DEF Closes
<1> QED
  BY <1>2, <1>3, <1>4, <1>5

\* What a session edits, or a claim prepares, is apart from the records.
LEMMA SessionWrites ==
  ASSUME RecordsInv, NEW s \in Spaces, NEW a, NEW after, Leaves(a, disk[s], after),
         disk' = [disk EXCEPT ![s] = after], call' = call, budget' \in BudgetRecords,
         DOMAIN lease' = Spaces, \A t \in Spaces : LeaseSound(lease'[t]),
         \A l \in DOMAIN disk[s] : Owned(s, l) \/ KeepsAt(disk[s], after, l)
  PROVE  RecordsInv' /\ Grow
<1> DEFINE before == disk[s]
<1>1. FilesSound(before) /\ EntriesSound(before) /\ DOMAIN call' = Calls
  BY DEF RecordsInv, FilesSound
<1>2. Leaves(a, before, after) /\ EntriesSound(after)
  BY DEF Leaves
<1>3. \A l \in DOMAIN before : Owned(s, l) \/ KeepsAt(before, after, l)
  OBVIOUS
<1> HIDE DEF before
<1>4. SameAt(before, after, Places)
  BY <1>2, LeavesRecords
<1>5. FilesSound(after) /\ LinesOf(after) = LinesOf(before)
  BY <1>1, <1>2, <1>4, FilesUndisturbed
<1>6. \A c \in Calls : SameAt(before, after, CallPlaces(c))
  BY <1>4, ThePlaces, SamePart
<1>7. \A l \in DOMAIN before : Owned(s, l) \/ GrowsAt(before, after, l)
  BY <1>1, <1>3, KeptGrows
<1>8. /\ FilesSound(after) /\ LinesOf(disk[s]) \subseteq LinesOf(after)
      /\ \A c \in Calls : call'[c] = call[c] /\ SameAt(disk[s], after, CallPlaces(c))
      /\ \A l \in DOMAIN disk[s] : Owned(s, l) \/ GrowsAt(disk[s], after, l)
  BY <1>5, <1>6, <1>7 DEF before
<1> QED
  BY <1>1, <1>8, StepOnDisk

LEMMA ClaimsStep ==
  ASSUME RecordsInv, NEW s \in Spaces, Claims(s)
  PROVE  RecordsInv' /\ Grow
<1> DEFINE a == Attempts[budget.attempts[s]]
           after == Prepared(disk[s], a)
           files == disk[s]
<1>1. /\ budget.attempts[s] > 0 /\ call' = call
      /\ disk' = [disk EXCEPT ![s] = after]
      /\ lease' = [lease EXCEPT ![s] = [attempt |-> {a}, writable |-> TRUE, signal |-> "active"]]
      /\ budget' = [budget EXCEPT !.attempts[s] = @ - 1]
  BY DEF Claims
<1>2. budget \in BudgetRecords /\ EntriesSound(files) /\ DOMAIN lease = Spaces
      /\ \A t \in Spaces : LeaseSound(lease[t])
  BY DEF RecordsInv, FilesSound
<1>3. budget.attempts[s] \in 1..Len(Attempts) /\ budget' \in BudgetRecords
  <2>1. budget.attempts \in [Spaces -> 0..Len(Attempts)]
    BY <1>2 DEF BudgetRecords
  <2>2. budget.attempts[s] \in 1..Len(Attempts) /\ budget.attempts[s] - 1 \in 0..Len(Attempts)
    BY <1>1, <2>1
  <2>3. [budget.attempts EXCEPT ![s] = @ - 1] \in [Spaces -> 0..Len(Attempts)]
    BY <2>1, <2>2
  <2> DEFINE left == [budget.attempts EXCEPT ![s] = @ - 1]
  <2>4. budget' = [budget EXCEPT !.attempts = left]
    BY <1>1
  <2> HIDE DEF left
  <2>5. left \in [Spaces -> 0..Len(Attempts)]
    BY <2>3 DEF left
  <2> QED
    BY <1>2, <2>2, <2>4, <2>5 DEF BudgetRecords
<1>4. a \in AttemptIds
  <2>1. Attempts \in Seq(ToSet(Attempts))
    BY SessionsAssumption
  <2> QED
    BY <1>3, <2>1 DEF AttemptIds
<1>5. DOMAIN lease' = Spaces /\ \A t \in Spaces : LeaseSound(lease'[t])
  <2>1. LeaseSound([attempt |-> {a}, writable |-> TRUE, signal |-> "active"])
    BY <1>4 DEF LeaseSound
  <2> QED
    BY <1>1, <1>2, <2>1
<1> HIDE DEF a
<1>6. (\A l \in DOMAIN files : KeepsAt(files, after, l)) /\ Leaves(a, files, after)
  <2> HIDE DEF files
  <2> DEFINE made == Prepared(files, a)
  <2>1. made = Prepared(files, a)
    OBVIOUS
  <2> HIDE DEF made
  <2>2. (\A l \in DOMAIN files : KeepsAt(files, made, l)) /\ Leaves(a, files, made)
    BY <1>2, <2>1, ClaimKeeps
  <2> QED
    BY <2>2 DEF made, files
<1> HIDE DEF after
<1>7. \A l \in DOMAIN disk[s] : Owned(s, l) \/ KeepsAt(disk[s], after, l)
  BY <1>6
<1> QED
  BY <1>1, <1>3, <1>5, <1>6, <1>7, SessionWrites

LEMMA AgentEditsStep ==
  ASSUME RecordsInv, NEW s \in Spaces, AgentEdits(s)
  PROVE  RecordsInv' /\ Grow
<1>1. PICK edit \in Edits, a \in lease[s].attempt :
        \E files \in Edited(disk[s], edit, a, lease[s]) : disk' = [disk EXCEPT ![s] = files]
  BY DEF AgentEdits
<1>2. PICK after \in Edited(disk[s], edit, a, lease[s]) : disk' = [disk EXCEPT ![s] = after]
  BY <1>1
<1>3. /\ lease' = lease /\ call' = call /\ budget' \in BudgetRecords
  BY SpendsRecords DEF AgentEdits, RecordsInv
<1>4. a \in AttemptIds /\ EntriesSound(disk[s])
  BY <1>1 DEF RecordsInv, LeaseSound, FilesSound
<1>5. Leaves(a, disk[s], after)
  <2> DEFINE files == disk[s]
             state == lease[s]
  <2>1. EntriesSound(files) /\ after \in Edited(files, edit, a, state)
    BY <1>2, <1>4
  <2> HIDE DEF files, state
  <2>2. Leaves(a, files, after)
    BY <1>4, <2>1, EditLeaves
  <2> QED
    BY <2>2 DEF files
<1>6. \A l : SessionPlace(a, l) => Owned(s, l)
  BY <1>1 DEF SessionPlace, Owned
<1>7. \A l \in DOMAIN disk[s] : Owned(s, l) \/ KeepsAt(disk[s], after, l)
  BY <1>5, <1>6 DEF Leaves
<1> QED
  BY <1>2, <1>3, <1>5, <1>7, LeasesStay, SessionWrites

LEMMA AgentProposesStep ==
  ASSUME RecordsInv, NEW s \in Spaces, AgentProposes(s)
  PROVE  RecordsInv' /\ Grow
<1>1. /\ Records(s, ProposalFile, <<"proposal">>) /\ call' = call
      /\ lease' = [lease EXCEPT ![s].writable = FALSE]
  BY DEF AgentProposes
<1>2. budget' \in BudgetRecords
  BY SpendsRecords DEF AgentProposes, RecordsInv
<1>3. DOMAIN lease' = Spaces /\ \A t \in Spaces : LeaseSound(lease'[t])
  BY <1>1 DEF RecordsInv, LeaseSound
<1> QED
  BY <1>1, <1>2, <1>3, ControlEntries, ControlStep

LEMMA AgentSteps ==
  ASSUME RecordsInv, NEW s \in Spaces, AgentStep(s)
  PROVE  RecordsInv' /\ Grow
<1>1. ASSUME AgentAsks(s) PROVE RecordsInv' /\ Grow
  <2>1. budget' \in BudgetRecords
    BY <1>1, SpendsRecords DEF AgentAsks, RecordsInv
  <2>2. PICK c \in NewCalls, query \in Queries, rows \in RowLimits : RunSql(s, c, query, rows)
    BY <1>1 DEF AgentAsks
  <2>3. c \in Calls
    BY DEF NewCalls
  <2> QED
    BY <2>1, <2>2, <2>3, RunSqlStep
<1>2. ASSUME AgentExecutes(s) PROVE RecordsInv' /\ Grow
  <2>1. budget' \in BudgetRecords
    BY <1>2, SpendsRecords DEF AgentExecutes, RecordsInv
  <2>2. PICK c \in NewCalls, script \in Scripts : CodeInterpreter(s, c, script)
    BY <1>2 DEF AgentExecutes
  <2>3. c \in Calls
    BY DEF NewCalls
  <2> QED
    BY <2>1, <2>2, <2>3, CodeInterpreterStep
<1> QED
  BY <1>1, <1>2, AgentEditsStep, AgentProposesStep DEF AgentStep

\* The end of the process takes the calls and the leases with it.
LEMMA ProcessEndsStep ==
  ASSUME RecordsInv, ProcessEnds, budget' \in BudgetRecords
  PROVE  RecordsInv' /\ Grow
<1>1. /\ disk' = disk /\ lease' = [s \in Spaces |-> NoAttempt]
      /\ call' = [c \in Calls |-> IF InFlight(c) THEN Ended ELSE call[c]]
  BY DEF ProcessEnds
<1>2. DOMAIN lease' = Spaces /\ \A t \in Spaces : LeaseSound(lease'[t])
  BY <1>1, NoAttemptSound
<1>3. DOMAIN call' = Calls
      /\ \A c \in Calls : call'[c] = call[c] \/ CallSoundIn(disk, c, call'[c])
  BY <1>1, EndedFits
<1> QED
  BY <1>1, <1>2, <1>3, StepOffDisk

LEMMA WorkerStepRecords ==
  ASSUME RecordsInv, NEW s \in Spaces, worker[s].next \in {"none", "record", "complete"},
         WorkerStep(s)
  PROVE  RecordsInv' /\ Grow
<1>1. ASSUME disk' = disk, lease' = lease, call' = call, budget' = budget
      PROVE  RecordsInv' /\ Grow
  BY <1>1, LeasesStay, BudgetStays, WorkerOffDisk
<1>2. ASSUME NEW signal, RequestYield(s, signal), disk' = disk, call' = call, budget' = budget
      PROVE  RecordsInv' /\ Grow
  BY <1>2, YieldKeeps, BudgetStays, WorkerOffDisk
<1>3. \/ Polls(s) \/ FindsNothing(s) \/ TakesClient(s) \/ StartsClient(s) \/ ClientStarts(s)
      \/ SessionStarts(s) \/ CreationBreaks(s) \/ Invalidates(s) \/ StopsClient(s)
      \/ RunBreaks(s) \/ HandoffRefused(s) \/ CloseFails(s)
      => RecordsInv' /\ Grow
  BY <1>1 DEF toolVars, Polls, FindsNothing, TakesClient, StartsClient, ClientStarts,
     SessionStarts, CreationBreaks, Invalidates, StopsClient, RunBreaks, HandoffRefused, CloseFails
<1>4. Interrupted(s) => RecordsInv' /\ Grow
  BY <1>1, <1>2 DEF Interrupted
<1>5. Superseded(s) \/ ShutsDown(s) => RecordsInv' /\ Grow
  BY <1>2 DEF Superseded, ShutsDown
<1>6. AcquisitionEnds(s) \/ GraceElapses(s) => RecordsInv' /\ Grow
  BY FailureStep DEF AcquisitionEnds, GraceElapses
<1>7. SupersessionEnds(s) => RecordsInv' /\ Grow
  BY <1>1, FailureStep DEF SupersessionEnds
<1> QED
  BY <1>3, <1>4, <1>5, <1>6, <1>7, ClaimsStep, RunEndsStep, ClosesStep DEF WorkerStep

-----------------------------------------------------------------------------
(* The invariant of the records *)

LEMMA RecordsStart == SessionsInit => RecordsInv
<1> SUFFICES ASSUME SessionsInit PROVE RecordsInv
  OBVIOUS
<1>1. budget \in BudgetRecords
  BY SessionsAssumption DEF SessionsInit, BudgetRecords
<1>2. /\ DOMAIN disk = Spaces /\ DOMAIN call = Calls /\ DOMAIN lease = Spaces
      /\ \A s \in Spaces : disk[s] = <<>> /\ lease[s] = NoAttempt
      /\ \A c \in Calls : call[c].pc = "unused"
  BY DEF SessionsInit, Unused
<1>3. ASSUME NEW files, DOMAIN files = {} PROVE FilesSound(files) /\ \A p : Absent(files, p)
  <2>1. EntriesSound(files) /\ ControlSound(files) /\ \A p : Absent(files, p)
    BY <1>3 DEF EntriesSound, ControlSound, Absent
  <2>2. HistorySound(files) /\ \A c \in Calls : CallRecordsSound(files, c)
    BY <1>3 DEF HistorySound, CallRecordsSound, LinesOf
  <2> QED
    BY <2>1, <2>2 DEF FilesSound
<1>4. \A s \in Spaces : FilesSound(disk[s]) /\ \A p : Absent(disk[s], p)
  <2>1. \A s \in Spaces : DOMAIN disk[s] = {}
    BY <1>2
  <2> QED
    BY <1>3, <2>1
<1>5. \A c \in Calls : CallSound(c)
  BY <1>2, <1>4 DEF CallSound, CallSoundIn, CallPcs
<1> QED
  BY <1>1, <1>2, <1>4, <1>5, NoAttemptSound DEF RecordsInv

LEMMA RecordsStep ==
  ASSUME RecordsInv, ClientsInv, [SessionsNext]_vars
  PROVE  RecordsInv' /\ Grow
<1>1. ASSUME NEW s \in Spaces, WorkerStep(s) PROVE RecordsInv' /\ Grow
  <2>1. worker[s].next \in {"none", "record", "complete"}
    BY DEF ClientsInv, ClientTypes, WorkerRecords
  <2> QED
    BY <1>1, <2>1, WorkerStepRecords
<1>2. ASSUME NEW s \in Spaces, AgentStep(s) PROVE RecordsInv' /\ Grow
  BY <1>2, AgentSteps
<1>3. ASSUME UNCHANGED toolVars, budget' \in BudgetRecords PROVE RecordsInv' /\ Grow
  BY <1>3, LeasesStay, WorkerOffDisk DEF toolVars
<1>4. CASE \E s \in Spaces : SessionDropped(s)
  BY <1>3, <1>4, BudgetStays DEF SessionDropped
<1>5. CASE \E c \in Calls : (CallStep(c) \/ CallInterference(c)) /\ UNCHANGED sessionVars
  BY <1>5, CallSteps DEF sessionVars
<1>6. CASE \E n \in Clients : ClientFails(n)
  BY <1>3, <1>6, SpendsRecords DEF ClientFails, RecordsInv
<1>7. CASE StopRequested
  BY <1>3, <1>7, SpendsRecords DEF StopRequested, RecordsInv
<1>8. CASE ServiceEnds
  BY <1>8, BudgetStays, ProcessEndsStep DEF ServiceEnds
<1>9. CASE Crash
  BY <1>9, SpendsRecords, ProcessEndsStep DEF Crash, RecordsInv
<1>10. CASE UNCHANGED vars
  BY <1>3, <1>10, BudgetStays DEF vars, sessionVars
<1> QED
  BY <1>1, <1>2, <1>4, <1>5, <1>6, <1>7, <1>8, <1>9, <1>10 DEF SessionsNext

\* What a text that was read is.
LEMMA TextRead ==
  ASSUME NEW files, NEW location, NEW text, text \in ReadText(files, location)
  PROVE  location \in DOMAIN files /\ text = files[location].text
BY DEF ReadText, IsRegular

LEMMA RecordsAreFaithful ==
  ASSUME RecordsInv
  PROVE  RecordsFaithful
<1>1. ASSUME NEW s \in Spaces, NEW line \in HistoryOf(s)
      PROVE  line \in LinesOf(disk[s])
  <2> DEFINE texts == {ToSet(text) : text \in ReadText(disk[s], HistoryFile)}
  <2>1. PICK lines \in texts : line \in lines
    BY DEF HistoryOf
  <2>2. PICK text \in ReadText(disk[s], HistoryFile) : lines = ToSet(text)
    BY <2>1
  <2>3. HistoryFile \in DOMAIN disk[s] /\ text = disk[s][HistoryFile].text
    BY TextRead
  <2> QED
    BY <2>1, <2>2, <2>3 DEF LinesOf
<1>2. ASSUME NEW s \in Spaces, NEW line \in LinesOf(disk[s]) PROVE line \in HistoryOf(s)
  <2> DEFINE files == disk[s]
             texts == {ToSet(text) : text \in ReadText(disk[s], HistoryFile)}
  <2>1. HistoryFile \in DOMAIN files /\ line \in ToSet(files[HistoryFile].text)
    BY <1>2 DEF LinesOf
  <2>2. files[HistoryFile].kind = "file"
    BY <2>1 DEF RecordsInv, FilesSound, HistorySound
  <2>3. files[HistoryFile].text \in ReadText(files, HistoryFile)
    BY <2>1, <2>2 DEF ReadText, IsRegular
  <2>4. ToSet(files[HistoryFile].text) \in texts
    BY <2>3
  <2> QED
    BY <2>1, <2>4 DEF HistoryOf
<1>3. ASSUME NEW s \in Spaces, NEW line \in HistoryOf(s), line.status = "succeeded"
      PROVE  /\ ReadText(disk[s], ResultFile(line.id)) = {<<line.content>>}
             /\ AnswerFaithful(line.content)
  <2> DEFINE files == disk[s]
             place == ResultFile(line.id)
  <2>1. /\ place \in DOMAIN files /\ files[place] = FileEntry(<<line.content>>)
        /\ AnswerFaithful(line.content)
    BY <1>1, <1>3 DEF RecordsInv, FilesSound, HistorySound
  <2> HIDE DEF files, place
  <2>2. files[place].kind = "file" /\ files[place].text = <<line.content>>
    BY <2>1 DEF FileEntry
  <2>3. ReadText(files, place) = {<<line.content>>}
    BY <2>1, <2>2 DEF ReadText, IsRegular
  <2> QED
    BY <2>1, <2>3 DEF files, place
<1>4. ASSUME NEW s \in Spaces, NEW c \in Calls, NEW audit \in ReadText(disk[s], AuditFile("queries", c))
      PROVE  ToSet(audit) \subseteq HistoryOf(s)
  <2>1. CallRecordsSound(disk[s], c)
    BY DEF RecordsInv, FilesSound
  <2>2. AuditFile("queries", c) \in DOMAIN disk[s] /\ audit = disk[s][AuditFile("queries", c)].text
    BY TextRead
  <2>3. ToSet(audit) \subseteq LinesOf(disk[s])
    BY <2>1, <2>2 DEF CallRecordsSound
  <2> QED
    BY <1>2, <2>3
<1>5. ASSUME NEW s \in Spaces, NEW c \in Calls, Exists(disk[s], AuditFile("pythonCompleted", c))
      PROVE  /\ IsRegular(disk[s], AuditFile("pythonSubmitted", c))
             /\ IsRegular(disk[s], RecordFile(c))
             /\ \A code \in ReadText(disk[s], CodeFile(c)), record \in ReadText(disk[s], RecordFile(c)) :
                  record[1].submission = [id |-> c, code |-> code]
  <2>1. AuditFile("pythonCompleted", c) # <<>>
    BY ThreeNames DEF AuditFile
  <2>2. AuditFile("pythonCompleted", c) \in DOMAIN disk[s] /\ CallRecordsSound(disk[s], c)
    BY <1>5, <2>1 DEF Exists, RecordsInv, FilesSound
  <2>3. /\ IsRegular(disk[s], AuditFile("pythonSubmitted", c)) /\ IsRegular(disk[s], RecordFile(c))
        /\ disk[s][RecordFile(c)].text[1].submission = [id |-> c, code |-> disk[s][CodeFile(c)].text]
    BY <2>2 DEF CallRecordsSound, IsRegular
  <2> QED
    BY <2>3, TextRead
<1>6. ASSUME NEW c \in Calls, call[c].pc \in {"runtime", "report", "complete"},
             NEW stream \in DOMAIN call[c].report.captured,
             ~call[c].report.captured[stream].truncated
      PROVE  call[c].report.captured[stream].bytes = call[c].wrote[stream]
  <2>1. CallFits(disk[call[c].space], c, call[c])
    BY <1>6, CallContext DEF InFlight
  <2>2. OutputSound(call[c])
    BY <2>1 DEF CallFits
  <2> QED
    BY <1>6, <2>2, Zenon DEF OutputSound
<1> QED
  BY <1>3, <1>4, <1>5, <1>6, Zenon DEF RecordsFaithful

LEMMA RecordsInvHolds == SessionsSpec => [](RecordsInv /\ ClientsInv)
<1>1. SessionsInit => RecordsInv /\ ClientsInv
  BY RecordsStart, ClientsStart
<1>2. RecordsInv /\ ClientsInv /\ [SessionsNext]_vars => RecordsInv' /\ ClientsInv'
  BY RecordsStep, ClientsStep
<1> QED
  BY <1>1, <1>2, PTL DEF SessionsSpec

\* At every step, with calls ending anywhere, clients failing and the process
\* crashing: the history tells no more than what was saved, the audits no more
\* than the history, a completed execution has its records, and the output a
\* report calls whole is all the process wrote.
THEOREM RecordsFaithfulHolds == SessionsSpec => []RecordsFaithful
<1>1. RecordsInv /\ ClientsInv => RecordsFaithful
  BY RecordsAreFaithful
<1> QED
  BY <1>1, RecordsInvHolds, PTL

\* Nothing takes away or changes a record a session does not own; a record is
\* at most added to.
THEOREM RecordsOnlyGrowHolds == SessionsSpec => RecordsOnlyGrow
<1> DEFINE Grown ==
      \A s \in Spaces : \A location \in DOMAIN disk[s] :
        \/ Owned(s, location)
        \/ /\ location \in DOMAIN disk'[s]
           /\ disk'[s][location].kind = disk[s][location].kind
           /\ IsPrefix(disk[s][location].text, disk'[s][location].text)
<1>1. RecordsInv /\ ClientsInv /\ [SessionsNext]_vars => [Grown]_vars
  BY RecordsStep DEF Grow, GrowsAt
<1>2. SessionsSpec => [][Grown]_vars
  BY <1>1, RecordsInvHolds, PTL DEF SessionsSpec
<1> QED
  BY <1>2, PTL DEF RecordsOnlyGrow
=============================================================================
