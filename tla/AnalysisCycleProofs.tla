------------------------ MODULE AnalysisCycleProofs ------------------------
(***************************************************************************)
(* Proofs about Async Analysis on one contract name, for every number of   *)
(* workers, cycles, attempts, faults and deployments.                      *)
(*                                                                         *)
(* First the directory: what every operation of the analysis workspace     *)
(* leaves behind, after each of its file writes.  An operation is a        *)
(* sequence of disks, and a crash may leave any of them.  What is proved   *)
(* of an operation is therefore a Journal: all the disks it goes through   *)
(* are sound, and none takes back what an earlier one holds (Later).       *)
(*                                                                         *)
(* Then the workers and their calls.  None of the safety properties is     *)
(* inductive.  What makes them so is who may still write: a writable lease *)
(* is on the open current cycle, which has no manifest and no sealed       *)
(* proposal; a call that outlived its attempt can only repeat what the     *)
(* journal of its cycle holds, since the draft it was given is still the   *)
(* committed one; and every request on the wire, whoever sent it, is the   *)
(* sealed one.                                                             *)
(***************************************************************************)
EXTENDS AnalysisCycle, TLAPS

\* What a cycle can end with.
Outcomes == Terminal \union {"superseded"}

\* Workspace directories.
Disks ==
  [pointer : Cycles \union {None},
   schedule : [digest : Digests, next : Nat] \union {None},
   cycles : [Cycles -> FilesOfCycle \union {None}]]

\* What the Contract Service is sent for a cycle.
Sealed(c, f) ==
  [cycle |-> c, digest |-> f.digest, attempt |-> f.pending.attempt,
   rules |-> f.pending.rules, manifest |-> f.pending.manifest]

\* The files of a cycle fit each other and what the Contract Service knows.
CycleSound(c, f) ==
  /\ f.manifest # None => f.manifest.work = f.work
  /\ f.reservation # None => f.reservation.time <= f.charged
  /\ f.handoff.drafter <= f.attempts
  /\ f.pending # None =>
       /\ f.handoff.state = "draftReady"
       /\ f.pending.rules = f.handoff.rules
       /\ f.pending.attempt > f.handoff.drafter
  /\ f.proposal # None =>
       f.pending # None /\ f.proposal = f.pending /\ f.manifest = f.pending.manifest
  /\ f.candidate # None => f.proposal # None /\ admitted[c] # None
  /\ f.outcome # None /\ f.outcome.kind = "candidate" => f.candidate # None
  /\ admitted[c] # None => f.pending # None /\ admitted[c] = Sealed(c, f)
  /\ \A m \in wire : m.cycle = c => f.pending # None /\ m = Sealed(c, f)

\* The outcome of a cycle, and when it was journaled.
Outcome(D, c) == D.cycles[c] # None /\ D.cycles[c].outcome # None
EndedAt(D, c) == D.cycles[c].outcome.at

\* The latest cycle to end is the interrupted one; the others that ended did so
\* an interval before the next is due.
Spaced(D) ==
  /\ \A c \in Cycles : Outcome(D, c) => EndedAt(D, c) <= now
  /\ \A c \in Cycles : Outcome(D, c) /\ D.pointer # None /\ Outcome(D, D.pointer)
       => EndedAt(D, c) <= EndedAt(D, D.pointer)
  /\ deploys = 0 =>
       /\ \A c \in Cycles : D.cycles[c] # None => D.cycles[c].digest = current
       /\ D.schedule # None => D.schedule.digest = current
       /\ \A c \in Cycles : Outcome(D, c) /\ c # D.pointer =>
            D.schedule # None /\ EndedAt(D, c) + Interval <= D.schedule.next

\* A directory the operations may find or leave, at any of their writes.
DiskSound(D) ==
  /\ D \in Disks
  /\ \A c \in Cycles :
       IF D.cycles[c] = None THEN admitted[c] = None /\ \A m \in wire : m.cycle # c
       ELSE /\ CycleSound(c, D.cycles[c])
            /\ D.cycles[c].attempts > 0 => D.pointer = c \/ D.cycles[c].outcome # None
  /\ D.pointer # None => D.cycles[D.pointer] # None
  /\ Spaced(D)

-----------------------------------------------------------------------------
(* The disks of an operation. *)

\* What no write of a cycle takes back: the original proposal, its journal, and
\* everything once the cycle ended; nor the handoff while a call is out.
Kept(f, g) ==
  /\ g.digest = f.digest
  /\ tool # None \/ f.outcome # None => g.handoff = f.handoff
  /\ f.pending # None => g.pending = f.pending
  /\ f.proposal # None => g.proposal = f.proposal
  /\ f.outcome # None =>
       /\ g.outcome = f.outcome /\ g.work = f.work /\ g.manifest = f.manifest
       /\ g.pending = f.pending /\ g.candidate = f.candidate

\* When a cycle may start.
Due(D) ==
  deploys = 0 => \A c \in Cycles : Outcome(D, c) => now >= EndedAt(D, c) + Interval

\* E is what D may become: no cycle is lost, what is kept is kept, and the
\* pointer goes to another cycle only when one may start.
Later(D, E) ==
  /\ \A c \in Cycles : D.cycles[c] # None =>
       E.cycles[c] # None /\ Kept(D.cycles[c], E.cycles[c])
  /\ E.pointer \in {D.pointer, None} \/ Due(D)

\* What the files of a cycle and the schedule hold.
LEMMA TimesTyped ==
  ASSUME NEW D \in Disks, NEW c \in Cycles, D.cycles[c] # None
  PROVE  /\ D.cycles[c] \in FilesOfCycle
         /\ D.cycles[c].outcome # None => EndedAt(D, c) \in Nat
         /\ D.schedule # None => D.schedule.next \in Nat /\ D.schedule.digest \in Digests
  BY DEF Disks, FilesOfCycle, EndedAt, Times

\* A write of one cycle that gives it no outcome it had not, or ends the current
\* cycle now.
LEMMA CycleWrite ==
  ASSUME NEW D, DiskSound(D), NEW c \in Cycles, NEW g \in FilesOfCycle, now \in Nat,
         D.cycles[c] # None => Kept(D.cycles[c], g),
         D.cycles[c] = None => g.outcome = None /\ (deploys = 0 => g.digest = current),
         CycleSound(c, g),
         g.attempts > 0 => D.pointer = c \/ g.outcome # None,
         g.outcome # None => \/ g.outcome = D.cycles[c].outcome
                             \/ D.pointer = c /\ g.outcome.at = now
  PROVE  /\ DiskSound(SetCycle(D, c, g))
         /\ Later(D, SetCycle(D, c, g))
<1> DEFINE E == SetCycle(D, c, g)
<1>1. /\ E \in Disks
      /\ E.cycles = [D.cycles EXCEPT ![c] = g]
      /\ E.pointer = D.pointer
      /\ E.schedule = D.schedule
  BY DEF DiskSound, Disks, SetCycle
<1>2. g # None
  BY NoneAssumption
<1> HIDE DEF E
<1>3. ASSUME NEW b \in Cycles, b # c
      PROVE  E.cycles[b] = D.cycles[b]
  BY <1>1, <1>3 DEF DiskSound, Disks
<1>4. E.cycles[c] = g
  BY <1>1 DEF DiskSound, Disks
<1>5. E.pointer # None => E.cycles[E.pointer] # None
  BY <1>1, <1>2, <1>3, <1>4 DEF DiskSound, Disks
<1>6. /\ \A b \in Cycles : Outcome(E, b) =>
           \/ Outcome(D, b) /\ EndedAt(E, b) = EndedAt(D, b)
           \/ b = D.pointer /\ EndedAt(E, b) = now
      /\ \A b \in Cycles : Outcome(D, b) => Outcome(E, b) /\ EndedAt(E, b) = EndedAt(D, b)
  BY <1>2, <1>3, <1>4 DEF Outcome, EndedAt, Kept
<1>7. Spaced(E)
  <2>1. Spaced(D) /\ (D.pointer # None => D.pointer \in Cycles)
    BY DEF DiskSound, Disks
  <2>2. \A b \in Cycles : Outcome(E, b) => EndedAt(E, b) <= now
    BY <1>6, <2>1 DEF Spaced
  <2>3. \A b \in Cycles : Outcome(E, b) /\ E.pointer # None /\ Outcome(E, E.pointer)
          => EndedAt(E, b) <= EndedAt(E, E.pointer)
    BY <1>1, <1>6, <2>1, <2>2 DEF Spaced
  <2>4. ASSUME deploys = 0
        PROVE  /\ \A b \in Cycles : E.cycles[b] # None => E.cycles[b].digest = current
               /\ E.schedule # None => E.schedule.digest = current
               /\ \A b \in Cycles : Outcome(E, b) /\ b # E.pointer =>
                    E.schedule # None /\ EndedAt(E, b) + Interval <= E.schedule.next
    BY <1>1, <1>3, <1>4, <1>6, <2>1, <2>4 DEF Spaced, Kept
  <2> QED
    BY <2>2, <2>3, <2>4 DEF Spaced
<1>8. DiskSound(E)
  BY <1>1, <1>2, <1>3, <1>4, <1>5, <1>7 DEF DiskSound
<1>9. Later(D, E)
  BY <1>1, <1>2, <1>3, <1>4 DEF Later, Kept
<1> QED
  BY <1>8, <1>9 DEF E

\* Later is a preorder.
LEMMA LaterReflexive ==
  ASSUME NEW D
  PROVE  Later(D, D)
  BY DEF Later, Kept

\* Later is transitive: what a write kept, later writes keep.
LEMMA LaterTransitive ==
  ASSUME NEW D, NEW E, NEW F, Later(D, E), Later(E, F)
  PROVE  Later(D, F)
<1>1. ASSUME NEW c \in Cycles, D.cycles[c] # None
      PROVE  F.cycles[c] # None /\ Kept(D.cycles[c], F.cycles[c])
  <2>1. E.cycles[c] # None /\ Kept(D.cycles[c], E.cycles[c])
    BY <1>1 DEF Later
  <2>2. F.cycles[c] # None /\ Kept(E.cycles[c], F.cycles[c])
    BY <2>1 DEF Later
  <2> QED
    BY <2>1, <2>2 DEF Kept
<1>2. Due(E) => Due(D)
  BY DEF Due, Outcome, EndedAt, Later, Kept
<1> QED
  BY <1>1, <1>2 DEF Later

\* The pointer is removed from a cycle that ended, once the next is scheduled.
LEMMA PointerCleared ==
  ASSUME NEW D, DiskSound(D),
         D.pointer # None =>
           /\ Outcome(D, D.pointer)
           /\ deploys = 0 => D.schedule # None /\ EndedAt(D, D.pointer) + Interval <= D.schedule.next
  PROVE  /\ DiskSound(SetPointer(D, None))
         /\ Later(D, SetPointer(D, None))
         /\ SetPointer(D, None).cycles = D.cycles
         /\ SetPointer(D, None).schedule = D.schedule
         /\ SetPointer(D, None).pointer = None
<1> DEFINE E == SetPointer(D, None)
<1>1. E \in Disks /\ E.cycles = D.cycles /\ E.pointer = None /\ E.schedule = D.schedule
  BY DEF DiskSound, Disks, SetPointer
<1> HIDE DEF E
<1>2. Spaced(E)
  BY <1>1 DEF DiskSound, Spaced, Outcome, EndedAt
<1>3. DiskSound(E)
  BY <1>1, <1>2 DEF DiskSound, Outcome
<1>4. Later(D, E)
  BY <1>1 DEF Later, Kept
<1> QED
  BY <1>1, <1>3, <1>4 DEF E

\* The pointer is set to a cycle that exists and is open, when one is due.
LEMMA PointerSet ==
  ASSUME NEW D, DiskSound(D), D.pointer = None, Due(D),
         NEW c \in Cycles, D.cycles[c] # None, D.cycles[c].outcome = None
  PROVE  /\ DiskSound(SetPointer(D, c))
         /\ Later(D, SetPointer(D, c))
         /\ SetPointer(D, c).cycles = D.cycles
         /\ SetPointer(D, c).pointer = c
<1> DEFINE E == SetPointer(D, c)
<1>1. E \in Disks /\ E.cycles = D.cycles /\ E.pointer = c /\ E.schedule = D.schedule
  BY DEF DiskSound, Disks, SetPointer
<1> HIDE DEF E
<1>2. Spaced(E)
  BY <1>1, WorkspaceAssumption DEF DiskSound, Disks, Spaced, Outcome, EndedAt, WorkspaceAssumption
<1>3. DiskSound(E)
  BY <1>1, <1>2, WorkspaceAssumption DEF DiskSound, WorkspaceAssumption
<1>4. Later(D, E)
  BY <1>1 DEF Later, Kept
<1> QED
  BY <1>1, <1>3, <1>4 DEF E

\* The schedule is written, no earlier than what ended asks for.
LEMMA ScheduleWritten ==
  ASSUME NEW D, DiskSound(D), NEW d \in Digests, NEW anchor \in Nat,
         deploys = 0 =>
           /\ d = current
           /\ \A c \in Cycles : Outcome(D, c) /\ c # D.pointer => EndedAt(D, c) <= anchor
  PROVE  /\ DiskSound(SetSchedule(D, d, anchor))
         /\ Later(D, SetSchedule(D, d, anchor))
         /\ SetSchedule(D, d, anchor).cycles = D.cycles
         /\ SetSchedule(D, d, anchor).pointer = D.pointer
         /\ SetSchedule(D, d, anchor).schedule = [digest |-> d, next |-> anchor + Interval]
<1> DEFINE E == SetSchedule(D, d, anchor)
<1>1. /\ E \in Disks /\ E.cycles = D.cycles /\ E.pointer = D.pointer
      /\ E.schedule = [digest |-> d, next |-> anchor + Interval]
  BY WorkspaceAssumption DEF DiskSound, Disks, SetSchedule, WorkspaceAssumption
<1>2. [digest |-> d, next |-> anchor + Interval] # None
  BY NoneAssumption, WorkspaceAssumption DEF WorkspaceAssumption
<1>3. \A c \in Cycles : Outcome(D, c) => EndedAt(D, c) \in Nat
  BY TimesTyped DEF DiskSound, Outcome
<1> HIDE DEF E
<1>4. Spaced(E)
  <2>1. \A c \in Cycles : /\ Outcome(E, c) <=> Outcome(D, c)
                          /\ EndedAt(E, c) = EndedAt(D, c)
    BY <1>1 DEF Outcome, EndedAt
  <2>2. D.pointer # None => D.pointer \in Cycles
    BY DEF DiskSound, Disks
  <2>3. Spaced(D)
    BY DEF DiskSound
  <2>4. Interval \in Nat
    BY WorkspaceAssumption DEF WorkspaceAssumption
  <2> QED
    BY <1>1, <1>2, <1>3, <2>1, <2>2, <2>3, <2>4 DEF Spaced
<1>5. DiskSound(E)
  BY <1>1, <1>4 DEF DiskSound
<1>6. Later(D, E)
  BY <1>1 DEF Later, Kept
<1> QED
  BY <1>1, <1>5, <1>6 DEF E

\* A temporary more in some cycles.
LEMMA TemporaryLeft ==
  ASSUME NEW D, DiskSound(D), NEW N,
         \A c \in Cycles : D.cycles[c] # None =>
           LeaveTemporary(D, N).cycles[c].strays <= MaxStrays
  PROVE  /\ DiskSound(LeaveTemporary(D, N))
         /\ Later(D, LeaveTemporary(D, N))
<1> DEFINE E == LeaveTemporary(D, N)
           fs == [c \in Cycles |->
                   IF D.cycles[c] \in {None, N.cycles[c]} THEN D.cycles[c]
                   ELSE [D.cycles[c] EXCEPT !.strays = @ + 1]]
<1>1. E = [D EXCEPT !.cycles = fs]
  BY DEF LeaveTemporary
<1>2. /\ E.pointer = D.pointer
      /\ E.schedule = D.schedule
      /\ E.cycles = fs
      /\ fs \in [Cycles -> FilesOfCycle \union {None}] => E \in Disks
  <2> HIDE DEF fs, E
  <2> QED
    BY <1>1 DEF DiskSound, Disks
<1>3. \A c \in Cycles : D.cycles[c] # None => fs[c].strays <= MaxStrays
  BY <1>2
<1>4. ASSUME NEW c \in Cycles
      PROVE  \/ fs[c] = D.cycles[c]
             \/ D.cycles[c] # None /\ fs[c] = [D.cycles[c] EXCEPT !.strays = @ + 1]
  OBVIOUS
<1>5. ASSUME NEW c \in Cycles
      PROVE  /\ fs[c] \in FilesOfCycle \union {None}
             /\ fs[c] = None <=> D.cycles[c] = None
             /\ fs[c] # None =>
                  /\ Kept(D.cycles[c], fs[c])
                  /\ CycleSound(c, fs[c])
                  /\ fs[c].attempts = D.cycles[c].attempts
                  /\ fs[c].outcome = D.cycles[c].outcome
                  /\ fs[c].digest = D.cycles[c].digest
  <2>1. CASE fs[c] = D.cycles[c]
    BY <2>1 DEF DiskSound, Disks, Kept
  <2>2. CASE D.cycles[c] # None /\ fs[c] = [D.cycles[c] EXCEPT !.strays = @ + 1]
    <3> DEFINE f == D.cycles[c]  g == fs[c]
    <3>1. f \in FilesOfCycle /\ CycleSound(c, f)
      BY <2>2 DEF DiskSound, Disks
    <3>2. g = [f EXCEPT !.strays = @ + 1] /\ g.strays <= MaxStrays
      BY <2>2, <1>3
    <3> SUFFICES /\ g \in FilesOfCycle
                 /\ Kept(f, g) /\ CycleSound(c, g)
                 /\ g.attempts = f.attempts /\ g.outcome = f.outcome
                 /\ g.digest = f.digest
      BY <2>2, NoneAssumption
    <3> HIDE DEF f, g
    <3>3. g \in FilesOfCycle
      BY <3>1, <3>2, CycleAssumption DEF FilesOfCycle, CycleAssumption
    <3>4. /\ Kept(f, g) /\ g.attempts = f.attempts /\ g.outcome = f.outcome
          /\ g.digest = f.digest
      BY <3>1, <3>2 DEF FilesOfCycle, Kept
    <3>5. CycleSound(c, g)
      BY <3>1, <3>2 DEF FilesOfCycle, CycleSound, Sealed
    <3> QED
      BY <3>3, <3>4, <3>5
  <2> QED
    BY <2>1, <2>2, <1>4
<1> HIDE DEF fs, E
<1>6. E \in Disks
  <2>1. DOMAIN fs = Cycles /\ fs \in [Cycles -> FilesOfCycle \union {None}]
    BY <1>5 DEF fs
  <2> QED
    BY <2>1, <1>2
<1>7. Spaced(E)
  <2>1. \A c \in Cycles : /\ Outcome(E, c) <=> Outcome(D, c)
                          /\ Outcome(D, c) => EndedAt(E, c) = EndedAt(D, c)
                          /\ E.cycles[c] # None =>
                               D.cycles[c] # None /\ E.cycles[c].digest = D.cycles[c].digest
    BY <1>2, <1>5 DEF Outcome, EndedAt
  <2>2. D.pointer # None => D.pointer \in Cycles
    BY DEF DiskSound, Disks
  <2>3. Spaced(D)
    BY DEF DiskSound
  <2> HIDE DEF Outcome, EndedAt
  <2> QED
    BY <1>2, <2>1, <2>2, <2>3 DEF Spaced
<1>8. DiskSound(E)
  BY <1>2, <1>5, <1>6, <1>7 DEF DiskSound, Disks
<1>9. Later(D, E)
  BY <1>2, <1>5 DEF Later
<1> QED
  BY <1>8, <1>9 DEF E

-----------------------------------------------------------------------------
(* The operations of the workspace. *)

\* Disks an operation goes through after D, perhaps none.
Writes(D, ws) ==
  /\ ws \in Seq(Disks)
  /\ \A k \in 1..Len(ws) : DiskSound(ws[k]) /\ Later(D, ws[k])

Journal(D, ws) == Writes(D, ws) /\ Len(ws) > 0

\* The disk after writes ws to D.
After(D, ws) == IF ws = <<>> THEN D ELSE Last(ws)

\* The sequences of disks an operation is put together from: none, one, and
\* one after the other.
LEMMA NoWrites ==
  ASSUME NEW D
  PROVE  Writes(D, <<>>) /\ After(D, <<>>) = D
  BY DEF Writes, After

\* One write.
LEMMA OneWrite ==
  ASSUME NEW D, NEW E, DiskSound(E), Later(D, E)
  PROVE  Journal(D, <<E>>) /\ Last(<<E>>) = E /\ After(D, <<E>>) = E
  BY DEF Journal, Writes, After, Last, DiskSound

\* Where the writes of an operation end.
LEMMA LastWrite ==
  ASSUME NEW D, NEW ws, Journal(D, ws)
  PROVE  /\ Last(ws) \in Disks /\ DiskSound(Last(ws)) /\ Later(D, Last(ws))
         /\ After(D, ws) = Last(ws)
  BY DEF Journal, Writes, After, Last

\* Writes that go on from where others ended.
LEMMA ThenWrites ==
  ASSUME NEW D, NEW s, Journal(D, s), NEW t, Writes(Last(s), t)
  PROVE  Journal(D, s \o t) /\ Last(s \o t) = After(Last(s), t)
<1>1. s \in Seq(Disks) /\ t \in Seq(Disks) /\ Len(s) > 0
  BY DEF Journal, Writes
<1>2. /\ s \o t \in Seq(Disks)
      /\ Len(s \o t) = Len(s) + Len(t)
      /\ \A k \in 1..Len(s \o t) : (s \o t)[k] = IF k <= Len(s) THEN s[k] ELSE t[k - Len(s)]
  BY <1>1
<1>3. Later(D, Last(s))
  BY LastWrite
<1>4. ASSUME NEW k \in 1..Len(s \o t)
      PROVE  DiskSound((s \o t)[k]) /\ Later(D, (s \o t)[k])
  <2>1. CASE k <= Len(s)
    BY <1>1, <1>2, <2>1 DEF Journal, Writes
  <2>2. CASE ~(k <= Len(s))
    <3>1. k - Len(s) \in 1..Len(t) /\ (s \o t)[k] = t[k - Len(s)]
      BY <1>1, <1>2, <2>2
    <3>2. DiskSound(t[k - Len(s)]) /\ Later(Last(s), t[k - Len(s)])
      BY <3>1 DEF Writes
    <3> QED
      BY <3>1, <3>2, <1>3, LaterTransitive
  <2> QED
    BY <2>1, <2>2
<1>5. Last(s \o t) = After(Last(s), t)
  <2>1. CASE t = <<>>
    BY <1>1, <1>2, <2>1 DEF Last, After
  <2>2. CASE t # <<>>
    <3>1. Len(t) > 0
      BY <1>1, <2>2
    <3> QED
      BY <1>1, <1>2, <2>2, <3>1 DEF Last, After
  <2> QED
    BY <2>1, <2>2
<1> QED
  BY <1>1, <1>2, <1>4, <1>5 DEF Journal, Writes

\* Two journals of which the second goes on from the first.
LEMMA ThenWrite ==
  ASSUME NEW D, NEW s, Journal(D, s), NEW E, DiskSound(E), Later(Last(s), E)
  PROVE  Journal(D, s \o <<E>>) /\ Last(s \o <<E>>) = E
<1>1. Writes(Last(s), <<E>>) /\ After(Last(s), <<E>>) = E
  BY OneWrite DEF Journal
<1> QED
  BY <1>1, ThenWrites

\* What an operation starts from is a journal of its own.
LEMMA StartOf ==
  ASSUME NEW D, DiskSound(D)
  PROVE  Journal(D, <<D>>) /\ Last(<<D>>) = D
  BY OneWrite, LaterReflexive

\* Nothing but the cycle changed.
Others(D, E, c) == \A b \in Cycles : b # c => E.cycles[b] = D.cycles[b]

\* The manifest of a cycle is written if it has none.
LEMMA Sealing ==
  ASSUME NEW D, DiskSound(D), NEW c \in Cycles, D.cycles[c] # None, now \in Nat,
         D.pointer = c, D.cycles[c].outcome = None
  PROVE  LET s == EnsureManifest(D, c)
             g == After(D, s).cycles[c]
             f == D.cycles[c]
         IN /\ Writes(D, s)
            /\ DiskSound(After(D, s)) /\ Later(D, After(D, s))
            /\ g = [f EXCEPT !.manifest = g.manifest]
            /\ g # None /\ g.manifest # None
            /\ f.manifest # None => g.manifest = f.manifest
            /\ After(D, s).pointer = c
            /\ After(D, s).schedule = D.schedule
            /\ Others(D, After(D, s), c)
<1> DEFINE f == D.cycles[c]
           m == BuildManifest(f)
           h == [f EXCEPT !.manifest = m]
           E == SetCycle(D, c, h)
<1>0. f \in FilesOfCycle /\ D \in Disks /\ CycleSound(c, f)
  BY DEF DiskSound, Disks
<1>1. CASE f.manifest # None
  <2>1. EnsureManifest(D, c) = <<>>
    BY <1>1 DEF EnsureManifest
  <2>2. f = [f EXCEPT !.manifest = f.manifest]
    BY <1>0 DEF FilesOfCycle
  <2> QED
    BY <1>1, <2>1, <2>2, NoWrites, LaterReflexive DEF Others
<1>2. CASE f.manifest = None
  <2>1. EnsureManifest(D, c) = <<E>>
    BY <1>0, <1>2 DEF EnsureManifest, SetCycle, DiskSound, Disks
  <2>2. m \in Manifests /\ m # None /\ m.work = f.work
    BY <1>0, NoneAssumption DEF FilesOfCycle, BuildManifest, Manifests
  <2> HIDE DEF m
  <2>3. h \in FilesOfCycle /\ h.manifest = m
    BY <1>0, <2>2 DEF FilesOfCycle
  <2>4. CycleSound(c, h)
    <3>1. f.proposal = None
      BY <1>0, <1>2, NoneAssumption DEF FilesOfCycle, CycleSound, Proposal
    <3> QED
      BY <1>0, <1>2, <2>2, <3>1 DEF FilesOfCycle, CycleSound, Sealed
  <2>5. Kept(f, h) /\ h.attempts = f.attempts /\ h.outcome = f.outcome
    BY <1>0 DEF FilesOfCycle, Kept
  <2>6. /\ E.cycles = [D.cycles EXCEPT ![c] = h]
        /\ E.pointer = D.pointer /\ E.schedule = D.schedule
    BY <1>0 DEF SetCycle, Disks
  <2>61. D.cycles \in [Cycles -> FilesOfCycle \union {None}]
    BY <1>0 DEF Disks
  <2> HIDE DEF h, E
  <2>7. DiskSound(E) /\ Later(D, E)
    BY <1>2, <2>3, <2>4, <2>5, CycleWrite DEF E
  <2>8. Writes(D, <<E>>) /\ After(D, <<E>>) = E
    BY <2>7, OneWrite DEF Journal
  <2>9. E.cycles[c] = h /\ Others(D, E, c)
    BY <2>6, <2>61 DEF Others
  <2>10. h = [f EXCEPT !.manifest = h.manifest] /\ h # None
    BY <2>3, NoneAssumption DEF h
  <2> QED
    BY <1>2, <2>1, <2>2, <2>3, <2>6, <2>7, <2>8, <2>9, <2>10
<1> QED
  BY <1>1, <1>2

\* The outcome of the current cycle is written.
Journaled(D, c, kind) == [D EXCEPT !.cycles[c].outcome = [kind |-> kind, at |-> now]]

\* The outcome of the open current cycle, with its manifest, becomes durable.
LEMMA Journaling ==
  ASSUME NEW D, DiskSound(D), NEW c \in Cycles, D.cycles[c] # None, now \in Times,
         D.pointer = c, D.cycles[c].outcome = None, NEW kind \in Outcomes,
         kind = "candidate" => D.cycles[c].candidate # None
  PROVE  LET E == Journaled(D, c, kind)
         IN /\ DiskSound(E) /\ Later(D, E)
            /\ E.pointer = c /\ E.schedule = D.schedule /\ Others(D, E, c)
            /\ Outcome(E, c) /\ EndedAt(E, c) = now
<1> DEFINE f == D.cycles[c]
           o == [kind |-> kind, at |-> now]
           h == [f EXCEPT !.outcome = o]
           E == SetCycle(D, c, h)
<1>1. f \in FilesOfCycle /\ D \in Disks /\ CycleSound(c, f)
  BY DEF DiskSound, Disks
<1>2. E = Journaled(D, c, kind)
  BY <1>1 DEF SetCycle, Disks, Journaled
<1>3. o \in [kind : Terminal \union {"superseded"}, at : Times] /\ o # None
  BY NoneAssumption DEF Outcomes
<1>31. o.kind = kind /\ o.at = now /\ now \in Nat
  BY DEF Times
<1> HIDE DEF o
<1>4. h \in FilesOfCycle /\ h.outcome = o
  BY <1>1, <1>3 DEF FilesOfCycle
<1>5. CycleSound(c, h)
  BY <1>1, <1>31, <1>4 DEF FilesOfCycle, CycleSound, Sealed
<1>6. Kept(f, h)
  BY <1>1 DEF FilesOfCycle, Kept
<1>7. /\ E.cycles = [D.cycles EXCEPT ![c] = h]
      /\ E.pointer = D.pointer /\ E.schedule = D.schedule
      /\ D.cycles \in [Cycles -> FilesOfCycle \union {None}]
  BY <1>1 DEF SetCycle, Disks
<1>8. h # None /\ h = [D.cycles[c] EXCEPT !.outcome = o]
  BY <1>4, NoneAssumption
<1> HIDE DEF h, E
<1>9. DiskSound(E) /\ Later(D, E)
  BY <1>3, <1>31, <1>4, <1>5, <1>6, CycleWrite DEF E
<1>10. E.cycles[c] = h /\ Others(D, E, c)
  BY <1>7 DEF Others
<1> QED
  BY <1>2, <1>3, <1>31, <1>4, <1>7, <1>8, <1>9, <1>10 DEF Outcome, EndedAt, o

\* cycle.json of a cycle is written with another status.
Marked(D, c, status) == [D EXCEPT !.cycles[c].status = status]

\* The status tells nothing that another file relies on.
LEMMA Marking ==
  ASSUME NEW D, DiskSound(D), NEW c \in Cycles, D.cycles[c] # None, now \in Nat,
         D.pointer = c, NEW status \in {"active", "superseding", "terminal"}
  PROVE  LET E == Marked(D, c, status)
         IN /\ DiskSound(E) /\ Later(D, E)
            /\ E.pointer = c /\ E.schedule = D.schedule /\ Others(D, E, c)
            /\ E.cycles[c].digest = D.cycles[c].digest
            /\ E.cycles[c].outcome = D.cycles[c].outcome
            /\ E.cycles[c].manifest = D.cycles[c].manifest
            /\ E.cycles[c].candidate = D.cycles[c].candidate
            /\ E.cycles[c].handoff = D.cycles[c].handoff
            /\ E.cycles[c].pending = D.cycles[c].pending
            /\ E.cycles[c].attempts = D.cycles[c].attempts
            /\ E.cycles[c].reservation = D.cycles[c].reservation
            /\ BuildManifest(E.cycles[c]) = BuildManifest(D.cycles[c])
            /\ Outcome(E, c) <=> Outcome(D, c)
            /\ EndedAt(E, c) = EndedAt(D, c)
            /\ E.cycles[c] # None
<1> DEFINE f == D.cycles[c]
           h == [f EXCEPT !.status = status]
           E == SetCycle(D, c, h)
<1>1. f \in FilesOfCycle /\ D \in Disks /\ CycleSound(c, f)
  BY DEF DiskSound, Disks
<1>2. E = Marked(D, c, status)
  BY <1>1 DEF SetCycle, Disks, Marked
<1>3. h \in FilesOfCycle
  BY <1>1 DEF FilesOfCycle
<1>4. CycleSound(c, h)
  BY <1>1, <1>3 DEF FilesOfCycle, CycleSound, Sealed
<1>5. Kept(f, h) /\ h.attempts = f.attempts /\ h.outcome = f.outcome
  BY <1>1 DEF FilesOfCycle, Kept
<1>6. /\ E.cycles = [D.cycles EXCEPT ![c] = h]
      /\ E.pointer = D.pointer /\ E.schedule = D.schedule
      /\ D.cycles \in [Cycles -> FilesOfCycle \union {None}]
  BY <1>1 DEF SetCycle, Disks
<1>7. /\ h # None /\ h.manifest = f.manifest /\ h.candidate = f.candidate /\ h.digest = f.digest
      /\ h.handoff = f.handoff /\ h.pending = f.pending /\ h.reservation = f.reservation
      /\ BuildManifest(h) = BuildManifest(f)
  BY <1>1, <1>3, NoneAssumption DEF FilesOfCycle, BuildManifest
<1> HIDE DEF h, E
<1>8. DiskSound(E) /\ Later(D, E)
  BY <1>3, <1>4, <1>5, CycleWrite DEF E
<1>9. E.cycles[c] = h /\ Others(D, E, c)
  BY <1>6 DEF Others
<1> QED
  BY <1>2, <1>3, <1>5, <1>6, <1>7, <1>8, <1>9 DEF Outcome, EndedAt

\* An outcome under the pointer is carried to its end.
LEMMA Reconciling ==
  ASSUME NEW D, DiskSound(D), NEW c \in Cycles, now \in Nat,
         D.pointer = c, Outcome(D, c)
  PROVE  LET ws == ReconcileTerminalCycle(D, c)
         IN /\ Journal(D, ws)
            /\ Last(ws).pointer = None
            /\ Others(D, Last(ws), c)
            /\ Outcome(Last(ws), c) /\ EndedAt(Last(ws), c) = EndedAt(D, c)
            /\ deploys = 0 => Last(ws).schedule = [digest |-> D.cycles[c].digest,
                                                   next |-> EndedAt(D, c) + Interval]
<1> DEFINE ended == [D EXCEPT !.cycles[c].status = "terminal"]
           scheduled == SetSchedule(ended, D.cycles[c].digest, D.cycles[c].outcome.at)
           cleared == SetPointer(scheduled, None)
           ws == ReconcileTerminalCycle(D, c)
<1>1. ws = <<ended>> \o <<scheduled>> \o <<cleared>>
  BY DEF ReconcileTerminalCycle
<1>2. D.cycles[c] # None
  BY DEF Outcome
<1>3. /\ DiskSound(ended) /\ Later(D, ended)
      /\ ended.pointer = c /\ ended.schedule = D.schedule /\ Others(D, ended, c)
      /\ ended.cycles[c].digest = D.cycles[c].digest
      /\ Outcome(ended, c) /\ EndedAt(ended, c) = EndedAt(D, c)
  <2>1. ended = Marked(D, c, "terminal")
    BY DEF Marked
  <2> HIDE DEF ended
  <2> QED
    BY <1>2, <2>1, Marking
<1> HIDE DEF ended
<1>4. /\ EndedAt(D, c) = D.cycles[c].outcome.at
      /\ EndedAt(D, c) \in Nat
      /\ D.cycles[c].digest \in Digests
  BY <1>2, TimesTyped DEF EndedAt, DiskSound, Outcome, FilesOfCycle
<1>5. deploys = 0 =>
        /\ D.cycles[c].digest = current
        /\ \A b \in Cycles : Outcome(ended, b) /\ b # ended.pointer => EndedAt(ended, b) <= EndedAt(D, c)
  <2>1. Spaced(D) /\ Spaced(ended) /\ c # None
    BY <1>3, WorkspaceAssumption DEF DiskSound, WorkspaceAssumption
  <2> QED
    BY <1>2, <1>3, <2>1 DEF Spaced
<1>6. /\ DiskSound(scheduled) /\ Later(ended, scheduled)
      /\ scheduled.cycles = ended.cycles /\ scheduled.pointer = c
      /\ scheduled.schedule = [digest |-> D.cycles[c].digest, next |-> EndedAt(D, c) + Interval]
  BY <1>3, <1>4, <1>5, ScheduleWritten
<1> HIDE DEF scheduled
<1>7. /\ Outcome(scheduled, c) /\ EndedAt(scheduled, c) = EndedAt(D, c)
      /\ Others(D, scheduled, c)
      /\ scheduled.schedule # None
      /\ scheduled.schedule.next = EndedAt(D, c) + Interval
  <2>1. EndedAt(D, c) + Interval \in Nat
    BY <1>4, WorkspaceAssumption DEF WorkspaceAssumption
  <2>2. scheduled.schedule # None
    BY <1>4, <1>6, <2>1, NoneAssumption
  <2> QED
    BY <1>3, <1>6, <2>2 DEF Outcome, EndedAt, Others
<1>8. /\ DiskSound(cleared) /\ Later(scheduled, cleared)
      /\ cleared.cycles = scheduled.cycles /\ cleared.pointer = None
      /\ cleared.schedule = scheduled.schedule
  <2>1. EndedAt(D, c) + Interval <= scheduled.schedule.next
    BY <1>4, <1>7, WorkspaceAssumption DEF WorkspaceAssumption
  <2> QED
    BY <1>6, <1>7, <2>1, PointerCleared
<1> HIDE DEF cleared, ws
<1>9. Journal(D, <<ended>>) /\ Last(<<ended>>) = ended
  BY <1>3, OneWrite
<1>10. Journal(D, <<ended>> \o <<scheduled>>) /\ Last(<<ended>> \o <<scheduled>>) = scheduled
  BY <1>6, <1>9, ThenWrite
<1>11. Journal(D, ws) /\ Last(ws) = cleared
  BY <1>1, <1>8, <1>10, ThenWrite
<1> QED
  BY <1>6, <1>7, <1>8, <1>11 DEF Outcome, EndedAt, Others, ws

\* complete_cycle on the current cycle.
LEMMA Completing ==
  ASSUME NEW D, DiskSound(D), NEW c \in Cycles, D.cycles[c] # None, now \in Times,
         D.pointer = c, D.cycles[c].outcome = None, NEW kind \in Outcomes,
         CanComplete(D, c, kind)
  PROVE  LET ws == CompleteCycle(D, c, kind, now)
         IN /\ Journal(D, ws)
            /\ Last(ws).pointer = None
            /\ Others(D, Last(ws), c)
            /\ Outcome(Last(ws), c)
<1> DEFINE s == EnsureManifest(D, c)
           sealed == <<D>> \o s
           E == After(D, s)
           journaled == [E EXCEPT !.cycles[c].outcome = [kind |-> kind, at |-> now]]
           t == ReconcileTerminalCycle(journaled, c)
           ws == CompleteCycle(D, c, kind, now)
<1>0. now \in Nat
  BY DEF Times
<1>1. /\ Writes(D, s) /\ DiskSound(E) /\ Later(D, E)
      /\ E.cycles[c] = [D.cycles[c] EXCEPT !.manifest = E.cycles[c].manifest]
      /\ E.cycles[c] # None /\ E.pointer = c /\ Others(D, E, c)
  BY <1>0, Sealing
<1>2. E.cycles[c].outcome = None /\ E.cycles[c].candidate = D.cycles[c].candidate
  <2>1. D.cycles[c] \in FilesOfCycle
    BY DEF DiskSound, Disks
  <2> HIDE DEF E
  <2> QED
    BY <1>1, <2>1 DEF FilesOfCycle
<1>3. Journal(D, sealed) /\ Last(sealed) = E
  <2> HIDE DEF s, E
  <2>1. Journal(D, <<D>>) /\ Last(<<D>>) = D
    BY StartOf
  <2>2. Journal(D, <<D>> \o s) /\ Last(<<D>> \o s) = After(D, s)
    BY <1>1, <2>1, ThenWrites
  <2> QED
    BY <2>2 DEF E
<1>4. ws = (sealed \o <<journaled>>) \o t
  BY <1>3 DEF CompleteCycle
<1> HIDE DEF s, E, sealed, ws
<1>41. journaled = Journaled(E, c, kind)
  BY DEF Journaled
<1> HIDE DEF journaled
<1>5. /\ DiskSound(journaled) /\ Later(E, journaled)
      /\ journaled.pointer = c /\ Others(E, journaled, c) /\ Outcome(journaled, c)
  BY <1>1, <1>2, <1>41, Journaling DEF CanComplete
<1>6. /\ Journal(D, sealed \o <<journaled>>)
      /\ Last(sealed \o <<journaled>>) = journaled
  BY <1>3, <1>5, ThenWrite
<1>7. /\ Journal(journaled, t) /\ Last(t).pointer = None
      /\ Others(journaled, Last(t), c) /\ Outcome(Last(t), c)
  BY <1>0, <1>5, Reconciling
<1> HIDE DEF t
<1>8. Journal(D, ws) /\ Last(ws) = Last(t)
  BY <1>4, <1>6, <1>7, ThenWrites, LastWrite DEF Journal
<1> QED
  BY <1>1, <1>5, <1>7, <1>8 DEF Others, ws

\* finish_superseded_cycle on the open current cycle, which a deployment left
\* behind.
LEMMA Superseding ==
  ASSUME NEW D, DiskSound(D), NEW c \in Cycles, D.cycles[c] # None, now \in Times,
         D.pointer = c, D.cycles[c].outcome = None, deploys # 0
  PROVE  LET ws == FinishSupersededCycle(D, c, now)
         IN Journal(D, ws) /\ Last(ws).pointer = None /\ Last(ws).schedule = D.schedule
<1> DEFINE s == EnsureManifest(D, c)
           E == After(D, s)
           journaled == [E EXCEPT !.cycles[c].outcome = [kind |-> "superseded", at |-> now]]
           ended == [journaled EXCEPT !.cycles[c].status = "terminal"]
           cleared == SetPointer(ended, None)
           ws == FinishSupersededCycle(D, c, now)
<1>0. now \in Nat
  BY DEF Times
<1>1. /\ Writes(D, s) /\ DiskSound(E) /\ Later(D, E)
      /\ E.cycles[c] = [D.cycles[c] EXCEPT !.manifest = E.cycles[c].manifest]
      /\ E.cycles[c] # None /\ E.pointer = c /\ E.schedule = D.schedule
  BY <1>0, Sealing
<1>2. E.cycles[c].outcome = None
  <2>1. D.cycles[c] \in FilesOfCycle
    BY DEF DiskSound, Disks
  <2> HIDE DEF E
  <2> QED
    BY <1>1, <2>1 DEF FilesOfCycle
<1>3. Last(<<D>> \o s) = E /\ Tail(<<D>> \o s) = s
  <2> HIDE DEF s
  <2>1. s \in Seq(Disks) /\ D \in Disks
    BY <1>1 DEF Writes, DiskSound
  <2>2. Last(<<D>> \o s) = After(D, s)
    BY <1>1, StartOf, ThenWrites
  <2>3. Tail(<<D>> \o s) = s
    BY <2>1
  <2> QED
    BY <2>2, <2>3
<1>4. ws = s \o <<journaled, ended, cleared>>
  BY <1>3 DEF FinishSupersededCycle
<1> HIDE DEF s, E, ws
<1>41. journaled = Journaled(E, c, "superseded") /\ ended = Marked(journaled, c, "terminal")
  BY DEF Journaled, Marked
<1> HIDE DEF journaled, ended
<1>5. /\ DiskSound(journaled) /\ Later(E, journaled) /\ journaled.schedule = E.schedule
      /\ journaled.pointer = c /\ Outcome(journaled, c)
  <2>1. "superseded" \in Outcomes /\ "superseded" # "candidate"
    BY DEF Outcomes
  <2> QED
    BY <1>1, <1>2, <1>41, <2>1, Journaling
<1>6. /\ DiskSound(ended) /\ Later(journaled, ended)
      /\ ended.pointer = c /\ Outcome(ended, c) /\ ended.schedule = E.schedule
  BY <1>0, <1>41, <1>5, Marking DEF Outcome
<1>7. /\ DiskSound(cleared) /\ Later(ended, cleared) /\ cleared.pointer = None
      /\ cleared.schedule = E.schedule
  BY <1>6, PointerCleared
<1> HIDE DEF cleared
<1>8. Later(D, journaled) /\ Later(D, ended) /\ Later(D, cleared)
  BY <1>1, <1>5, <1>6, <1>7, LaterTransitive
<1>9. Journal(D, ws) /\ Last(ws) = cleared
  <2>1. ws \in Seq(Disks) /\ Len(ws) = Len(s) + 3 /\ Len(s) \in Nat
    BY <1>1, <1>4, <1>5, <1>6, <1>7 DEF Writes, DiskSound
  <2>2. \A k \in 1..Len(ws) :
          \/ k <= Len(s) /\ ws[k] = s[k]
          \/ k > Len(s) /\ ws[k] \in {journaled, ended, cleared}
    BY <1>1, <1>4, <2>1 DEF Writes
  <2>3. ws[Len(ws)] = cleared
    BY <1>1, <1>4, <2>1 DEF Writes
  <2>4. ASSUME NEW k \in 1..Len(ws)
        PROVE  DiskSound(ws[k]) /\ Later(D, ws[k])
    BY <1>1, <1>5, <1>6, <1>7, <1>8, <2>1, <2>2 DEF Writes
  <2> QED
    BY <2>1, <2>3, <2>4 DEF Journal, Writes, Last
<1> QED
  BY <1>1, <1>7, <1>9 DEF ws

\* No outcome is under the pointer.
Settled(D) == D.pointer # None => D.cycles[D.pointer].outcome = None
\* The current cycle, if there is one, is open and of contract d.
Serves(D, d) ==
  D.pointer # None =>
    /\ D.pointer \in Cycles
    /\ D.cycles[D.pointer] # None
    /\ D.cycles[D.pointer].outcome = None
    /\ D.cycles[D.pointer].digest = d

\* The stages of prepare_cycle, one after the other: the interrupted completion
\* is carried to its end,
LEMMA ReconcileStage ==
  ASSUME NEW D, DiskSound(D), now \in Nat
  PROVE  Journal(D, Reconcile(D)) /\ Settled(Last(Reconcile(D)))
<1>1. Journal(D, <<D>>) /\ Last(<<D>>) = D
  BY StartOf
<1>2. CASE ~Interrupted(D)
  <2>1. Reconcile(D) = <<D>>
    BY <1>1, <1>2 DEF Reconcile, Journal, Writes
  <2> QED
    BY <1>1, <1>2, <2>1 DEF Interrupted, Settled
<1>3. CASE Interrupted(D)
  <2>1. D.pointer \in Cycles /\ Outcome(D, D.pointer)
    BY <1>3 DEF Interrupted, Outcome, DiskSound, Disks
  <2> DEFINE t == ReconcileTerminalCycle(D, D.pointer)
  <2>2. Reconcile(D) = <<D>> \o t
    BY <1>3 DEF Reconcile
  <2>3. Journal(D, t) /\ Last(t).pointer = None
    BY <2>1, Reconciling
  <2> HIDE DEF t
  <2>4. Journal(D, <<D>> \o t) /\ Last(<<D>> \o t) = Last(t)
    BY <1>1, <2>3, ThenWrites, LastWrite DEF Journal
  <2> QED
    BY <2>2, <2>3, <2>4 DEF Settled
<1> QED
  BY <1>2, <1>3

\* the schedule is created if there is none,
LEMMA ScheduleStage ==
  ASSUME NEW D, DiskSound(D), NEW d \in Digests, deploys = 0 => d = current
  PROVE  LET t == LoadOrCreateSchedule(D, d)
         IN /\ Writes(D, t) /\ DiskSound(After(D, t))
            /\ After(D, t).cycles = D.cycles /\ After(D, t).pointer = D.pointer
            /\ After(D, t).schedule # None
<1> DEFINE t == LoadOrCreateSchedule(D, d)
<1>1. CASE D.schedule # None
  <2>1. t = <<>>
    BY <1>1 DEF LoadOrCreateSchedule
  <2> QED
    BY <1>1, <2>1, NoWrites
<1>2. CASE D.schedule = None
  <2> DEFINE E == SetSchedule(D, d, Accepted[d])
  <2>1. t = <<E>>
    BY <1>2 DEF LoadOrCreateSchedule
  <2>2. Accepted[d] \in Nat /\ Interval \in Nat
    BY WorkspaceAssumption DEF WorkspaceAssumption
  <2>3. deploys = 0 => \A c \in Cycles : Outcome(D, c) /\ c # D.pointer => EndedAt(D, c) <= Accepted[d]
    BY <1>2 DEF DiskSound, Spaced
  <2>4. /\ DiskSound(E) /\ Later(D, E) /\ E.cycles = D.cycles /\ E.pointer = D.pointer
        /\ E.schedule = [digest |-> d, next |-> Accepted[d] + Interval]
    BY <2>2, <2>3, ScheduleWritten
  <2>5. E.schedule # None
    BY <2>2, <2>4, NoneAssumption
  <2> HIDE DEF E, t
  <2> QED
    BY <2>1, <2>4, <2>5, OneWrite DEF Journal, t
<1> QED
  BY <1>1, <1>2

\* the open cycle of another contract ends as superseded,
LEMMA SupersedeStage ==
  ASSUME NEW D, DiskSound(D), Settled(D), now \in Times,
         NEW d \in Digests, deploys = 0 => d = current
  PROVE  LET t == Supersede(D, d, now)
         IN /\ Writes(D, t) /\ DiskSound(After(D, t)) /\ Serves(After(D, t), d)
            /\ After(D, t).schedule = D.schedule
<1> DEFINE t == Supersede(D, d, now)
<1>1. D.pointer # None =>
        /\ D.pointer \in Cycles /\ D.cycles[D.pointer] # None
        /\ D.cycles[D.pointer].outcome = None
  BY DEF DiskSound, Disks, Settled
<1>2. CASE D.pointer # None /\ D.cycles[D.pointer].digest # d
  <2>1. t = FinishSupersededCycle(D, D.pointer, now)
    BY <1>2 DEF Supersede
  <2>2. deploys # 0
    BY <1>1, <1>2 DEF DiskSound, Spaced
  <2>3. /\ Journal(D, FinishSupersededCycle(D, D.pointer, now))
        /\ Last(FinishSupersededCycle(D, D.pointer, now)).pointer = None
        /\ Last(FinishSupersededCycle(D, D.pointer, now)).schedule = D.schedule
    BY <1>1, <1>2, <2>2, Superseding
  <2> HIDE DEF t
  <2> QED
    BY <2>1, <2>3, LastWrite DEF Journal, Serves, t
<1>3. CASE ~(D.pointer # None /\ D.cycles[D.pointer].digest # d)
  <2>1. t = <<>>
    BY <1>3 DEF Supersede
  <2> QED
    BY <1>1, <1>3, <2>1, NoWrites DEF Serves
<1> QED
  BY <1>2, <1>3

\* the schedule of another contract is replaced,
LEMMA RescheduleStage ==
  ASSUME NEW D, DiskSound(D), D.schedule # None,
         NEW d \in Digests, deploys = 0 => d = current
  PROVE  LET t == Reschedule(D, d)
         IN /\ Writes(D, t) /\ DiskSound(After(D, t))
            /\ After(D, t).cycles = D.cycles /\ After(D, t).pointer = D.pointer
            /\ After(D, t).schedule # None
<1> DEFINE t == Reschedule(D, d)
<1>1. CASE ~(D.pointer = None /\ D.schedule.digest # d)
  <2>1. t = <<>>
    BY <1>1 DEF Reschedule
  <2> QED
    BY <1>1, <2>1, NoWrites
<1>2. CASE D.pointer = None /\ D.schedule.digest # d
  <2> DEFINE E == SetSchedule(D, d, Accepted[d])
  <2>1. t = <<E>>
    BY <1>2 DEF Reschedule
  <2>2. Accepted[d] \in Nat /\ Interval \in Nat
    BY WorkspaceAssumption DEF WorkspaceAssumption
  <2>3. deploys # 0
    BY <1>2 DEF DiskSound, Spaced
  <2>4. /\ DiskSound(E) /\ Later(D, E) /\ E.cycles = D.cycles /\ E.pointer = D.pointer
        /\ E.schedule = [digest |-> d, next |-> Accepted[d] + Interval]
    BY <2>2, <2>3, ScheduleWritten
  <2>5. E.schedule # None
    BY <2>2, <2>4, NoneAssumption
  <2> HIDE DEF E, t
  <2> QED
    BY <2>1, <2>4, <2>5, OneWrite DEF Journal, t
<1> QED
  BY <1>1, <1>2

\* A cycle as it is created.
LEMMA NewCycleSound ==
  ASSUME NEW D, DiskSound(D), NEW c \in Cycles, D.cycles[c] = None, NEW d \in Digests
  PROVE  /\ NewCycle(d) \in FilesOfCycle
         /\ CycleSound(c, NewCycle(d))
         /\ NewCycle(d).outcome = None /\ NewCycle(d).digest = d /\ NewCycle(d).attempts = 0
<1>1. InitialHandoff \in Handoff
  BY DEF Handoff
<1>2. NewCycle(d) \in FilesOfCycle
  BY <1>1, WorkspaceAssumption, CycleAssumption
     DEF NewCycle, FilesOfCycle, WorkspaceAssumption, CycleAssumption
<1>3. admitted[c] = None /\ \A m \in wire : m.cycle # c
  BY DEF DiskSound
<1>4. CycleSound(c, NewCycle(d))
  BY <1>3 DEF CycleSound, NewCycle, InitialHandoff
<1> QED
  BY <1>2, <1>4 DEF NewCycle

\* and, when it is due, a new cycle is opened.
LEMMA OpenStage ==
  ASSUME NEW D, DiskSound(D), now \in Times, NEW d \in Digests, deploys = 0 => d = current,
         D.schedule # None, Serves(D, d)
  PROVE  LET t == OpenCycle(D, d, now)
         IN Writes(D, t) /\ Serves(After(D, t), d)
<1> DEFINE t == OpenCycle(D, d, now)
<1>1. CASE ~(D.pointer = None /\ now >= D.schedule.next /\ Fresh(D) # {})
  <2>1. t = <<>>
    BY <1>1 DEF OpenCycle
  <2> QED
    BY <2>1, NoWrites
<1>2. CASE D.pointer = None /\ now >= D.schedule.next /\ Fresh(D) # {}
  <2> DEFINE c == CHOOSE c \in Fresh(D) : TRUE
             created == SetCycle(D, c, NewCycle(d))
             opened == SetPointer(created, c)
  <2>1. t = <<created>> \o <<opened>>
    BY <1>2 DEF OpenCycle
  <2>2. c \in Cycles /\ D.cycles[c] = None
    BY <1>2 DEF Fresh
  <2> HIDE DEF c
  <2>3. /\ NewCycle(d) \in FilesOfCycle
        /\ CycleSound(c, NewCycle(d))
        /\ NewCycle(d).outcome = None /\ NewCycle(d).digest = d /\ NewCycle(d).attempts = 0
    BY <2>2, NewCycleSound
  <2>4. DiskSound(created) /\ Later(D, created)
    <3>1. now \in Nat
      BY DEF Times
    <3> HIDE DEF created
    <3> QED
      BY <2>2, <2>3, <3>1, CycleWrite DEF created
  <2>5. /\ created.cycles = [D.cycles EXCEPT ![c] = NewCycle(d)]
        /\ created.pointer = D.pointer
        /\ D.cycles \in [Cycles -> FilesOfCycle \union {None}]
        /\ \A b \in Cycles : Outcome(D, b) => EndedAt(D, b) \in Nat
    BY TimesTyped DEF DiskSound, Disks, SetCycle, Outcome
  <2> HIDE DEF created
  <2>6. created.cycles[c] = NewCycle(d) /\ NewCycle(d) # None
    BY <2>2, <2>3, <2>5, NoneAssumption
  <2>7. Due(created)
    <3>1. \A b \in Cycles : Outcome(created, b) =>
            Outcome(D, b) /\ EndedAt(created, b) = EndedAt(D, b)
      BY <2>2, <2>3, <2>5 DEF Outcome, EndedAt
    <3>2. deploys = 0 => \A b \in Cycles : Outcome(D, b) => EndedAt(D, b) + Interval <= D.schedule.next
      BY <1>2, WorkspaceAssumption DEF DiskSound, Spaced, WorkspaceAssumption
    <3>3. D.schedule.next \in Nat /\ now \in Nat /\ Interval \in Nat
      BY WorkspaceAssumption DEF DiskSound, Disks, Times, WorkspaceAssumption
    <3> QED
      BY <1>2, <2>5, <3>1, <3>2, <3>3 DEF Due
  <2>8. /\ DiskSound(opened) /\ Later(created, opened)
        /\ opened.cycles = created.cycles /\ opened.pointer = c
    BY <1>2, <2>2, <2>3, <2>4, <2>5, <2>6, <2>7, PointerSet
  <2> HIDE DEF opened, t
  <2>9. Journal(D, <<created>> \o <<opened>>) /\ Last(<<created>> \o <<opened>>) = opened
    BY <2>4, <2>8, OneWrite, ThenWrite
  <2>10. Serves(opened, d)
    BY <2>2, <2>3, <2>6, <2>8 DEF Serves
  <2> QED
    BY <2>1, <2>9, <2>10, LastWrite DEF Journal, t
<1> QED
  BY <1>1, <1>2

\* prepare_cycle: the disks it goes through, and the cycle it leaves current.
LEMMA Preparing ==
  ASSUME NEW D, DiskSound(D), now \in Times, NEW d \in Digests, deploys = 0 => d = current
  PROVE  LET ws == PrepareCycle(D, d, now)
         IN /\ Journal(D, ws) /\ DiskSound(Last(ws)) /\ Later(D, Last(ws))
            /\ Serves(Last(ws), d)
<1> DEFINE s1 == Reconcile(D)
           t2 == LoadOrCreateSchedule(Last(s1), d)
           s2 == s1 \o t2
           t3 == Supersede(Last(s2), d, now)
           s3 == s2 \o t3
           t4 == Reschedule(Last(s3), d)
           s4 == s3 \o t4
           t5 == OpenCycle(Last(s4), d, now)
           ws == PrepareCycle(D, d, now)
<1>0. ws = s4 \o t5 /\ now \in Nat
  BY DEF PrepareCycle, Times
<1> HIDE DEF ws
<1>1. Journal(D, s1) /\ Settled(Last(s1)) /\ DiskSound(Last(s1))
  BY <1>0, ReconcileStage, LastWrite
<1> HIDE DEF s1
<1>2. /\ Writes(Last(s1), t2) /\ After(Last(s1), t2).cycles = Last(s1).cycles
      /\ After(Last(s1), t2).pointer = Last(s1).pointer /\ After(Last(s1), t2).schedule # None
  BY <1>1, ScheduleStage
<1> HIDE DEF t2
<1>3. Journal(D, s2) /\ Last(s2) = After(Last(s1), t2)
  BY <1>1, <1>2, ThenWrites
<1> HIDE DEF s2
<1>4. DiskSound(Last(s2)) /\ Settled(Last(s2)) /\ Last(s2).schedule # None
  BY <1>1, <1>2, <1>3, LastWrite DEF Settled
<1>5. /\ Writes(Last(s2), t3) /\ Serves(After(Last(s2), t3), d)
      /\ After(Last(s2), t3).schedule # None
  BY <1>4, SupersedeStage
<1> HIDE DEF t3
<1>6. Journal(D, s3) /\ Last(s3) = After(Last(s2), t3)
  BY <1>3, <1>5, ThenWrites
<1> HIDE DEF s3
<1>7. DiskSound(Last(s3)) /\ Serves(Last(s3), d) /\ Last(s3).schedule # None
  BY <1>5, <1>6, LastWrite
<1>8. /\ Writes(Last(s3), t4) /\ After(Last(s3), t4).cycles = Last(s3).cycles
      /\ After(Last(s3), t4).pointer = Last(s3).pointer /\ After(Last(s3), t4).schedule # None
  BY <1>7, RescheduleStage
<1> HIDE DEF t4
<1>9. Journal(D, s4) /\ Last(s4) = After(Last(s3), t4)
  BY <1>6, <1>8, ThenWrites
<1> HIDE DEF s4
<1>10. DiskSound(Last(s4)) /\ Serves(Last(s4), d) /\ Last(s4).schedule # None
  BY <1>7, <1>8, <1>9, LastWrite DEF Serves
<1>11. Writes(Last(s4), t5) /\ Serves(After(Last(s4), t5), d)
  BY <1>10, OpenStage
<1> HIDE DEF t5
<1>12. Journal(D, ws) /\ Last(ws) = After(Last(s4), t5)
  BY <1>0, <1>9, <1>11, ThenWrites
<1> QED
  BY <1>11, <1>12, LastWrite DEF ws

\* The journals of an operation of one, two and three writes.
LEMMA TwoDisks ==
  ASSUME NEW D, NEW E, DiskSound(D), DiskSound(E), Later(D, E)
  PROVE  Journal(D, <<D, E>>) /\ Last(<<D, E>>) = E
<1>1. D \in Disks /\ E \in Disks
  BY DEF DiskSound
<1>2. <<D, E>> \in Seq(Disks) /\ Len(<<D, E>>) = 2
  BY <1>1
<1>3. ASSUME NEW k \in 1..2
      PROVE  DiskSound(<<D, E>>[k]) /\ Later(D, <<D, E>>[k])
  <2>1. CASE k = 1
    BY <2>1, LaterReflexive
  <2>2. CASE k = 2
    BY <2>2
  <2> QED
    BY <2>1, <2>2
<1> QED
  BY <1>2, <1>3 DEF Journal, Writes, Last

\* Two writes.
LEMMA ThreeDisks ==
  ASSUME NEW D, NEW E, NEW F, DiskSound(D), DiskSound(E), DiskSound(F),
         Later(D, E), Later(D, F)
  PROVE  Journal(D, <<D, E, F>>) /\ Last(<<D, E, F>>) = F
<1>1. D \in Disks /\ E \in Disks /\ F \in Disks
  BY DEF DiskSound
<1>2. <<D, E, F>> \in Seq(Disks) /\ Len(<<D, E, F>>) = 3
  BY <1>1
<1>3. ASSUME NEW k \in 1..3
      PROVE  DiskSound(<<D, E, F>>[k]) /\ Later(D, <<D, E, F>>[k])
  <2>1. CASE k = 1
    BY <2>1, LaterReflexive
  <2>2. CASE k = 2
    BY <2>2
  <2>3. CASE k = 3
    BY <2>3
  <2> QED
    BY <2>1, <2>2, <2>3
<1> QED
  BY <1>2, <1>3 DEF Journal, Writes, Last

\* Three writes.
LEMMA FourDisks ==
  ASSUME NEW D, NEW E, NEW F, NEW G,
         DiskSound(D), DiskSound(E), DiskSound(F), DiskSound(G),
         Later(D, E), Later(D, F), Later(D, G)
  PROVE  Journal(D, <<D, E, F, G>>) /\ Last(<<D, E, F, G>>) = G
<1>1. D \in Disks /\ E \in Disks /\ F \in Disks /\ G \in Disks
  BY DEF DiskSound
<1>2. <<D, E, F, G>> \in Seq(Disks) /\ Len(<<D, E, F, G>>) = 4
  BY <1>1
<1>3. ASSUME NEW k \in 1..4
      PROVE  DiskSound(<<D, E, F, G>>[k]) /\ Later(D, <<D, E, F, G>>[k])
  <2>1. CASE k = 1
    BY <2>1, LaterReflexive
  <2>2. CASE k = 2
    BY <2>2
  <2>3. CASE k = 3
    BY <2>3
  <2>4. CASE k = 4
    BY <2>4
  <2> QED
    BY <2>1, <2>2, <2>3, <2>4
<1> QED
  BY <1>2, <1>3 DEF Journal, Writes, Last

\* One file of a cycle is written that is not its outcome.
LEMMA FileWrite ==
  ASSUME NEW D, DiskSound(D), NEW c \in Cycles, D.cycles[c] # None, now \in Times,
         NEW g \in FilesOfCycle, CycleSound(c, g), Kept(D.cycles[c], g),
         g.outcome = D.cycles[c].outcome,
         g.attempts > 0 => D.pointer = c \/ g.outcome # None
  PROVE  LET E == SetCycle(D, c, g)
         IN /\ DiskSound(E) /\ Later(D, E)
            /\ Journal(D, <<D, E>>) /\ Last(<<D, E>>) = E
            /\ E.pointer = D.pointer /\ E.cycles[c] = g /\ g # None
            /\ Others(D, E, c)
<1> DEFINE E == SetCycle(D, c, g)
<1>1. /\ E.cycles = [D.cycles EXCEPT ![c] = g]
      /\ E.pointer = D.pointer
      /\ D.cycles \in [Cycles -> FilesOfCycle \union {None}]
  BY DEF DiskSound, Disks, SetCycle
<1> HIDE DEF E
<1>2. DiskSound(E) /\ Later(D, E)
  BY CycleWrite DEF E, Times
<1>3. Journal(D, <<D, E>>) /\ Last(<<D, E>>) = E
  BY <1>2, TwoDisks
<1>5. E.cycles[c] = g /\ Others(D, E, c)
  BY <1>1 DEF Others
<1>6. g # None
  BY NoneAssumption
<1> QED
  BY <1>1, <1>2, <1>3, <1>5, <1>6 DEF E

\* The files of a cycle after a reservation.
LEMMA ReservedTyped ==
  ASSUME NEW f \in FilesOfCycle, NEW a \in 0..MaxAttempts, NEW b \in 0..Total,
         NEW r \in [attempt : 1..MaxAttempts, time : 1..Timeout]
  PROVE  [f EXCEPT !.attempts = a, !.charged = b, !.reservation = r] \in FilesOfCycle
  BY DEF FilesOfCycle

\* An attempt is reserved on the open current cycle, within its limits.
LEMMA Reserving ==
  ASSUME NEW D, DiskSound(D), NEW c \in Cycles, now \in Times,
         D.pointer = c, D.cycles[c] # None, D.cycles[c].outcome = None,
         ~Exhausted(D.cycles[c])
  PROVE  LET ws == ReserveAttempt(D, c)
             E == Last(ws)
             f == D.cycles[c]
             g == E.cycles[c]
         IN /\ Journal(D, ws) /\ DiskSound(E) /\ Later(D, E)
            /\ E.pointer = c /\ g # None
            /\ f.attempts + 1 \in 1..MaxAttempts
            /\ g.attempts = f.attempts + 1
            /\ OwnReservation(g, f.attempts + 1)
            /\ g.manifest = f.manifest /\ g.pending = f.pending /\ g.digest = f.digest
            /\ g.outcome = None /\ g.handoff.drafter <= f.attempts
<1> DEFINE f == D.cycles[c]
           r == [attempt |-> f.attempts + 1, time |-> Allowance(f)]
           g == [f EXCEPT !.attempts = @ + 1, !.charged = @ + Allowance(f), !.reservation = r]
           E == SetCycle(D, c, g)
<1>1. f \in FilesOfCycle /\ CycleSound(c, f)
  BY DEF DiskSound, Disks
<1>2. ReserveAttempt(D, c) = <<D, E>>
  BY DEF ReserveAttempt
<1>3. /\ Total \in Nat /\ Timeout \in Nat \ {0} /\ MaxAttempts \in Nat
      /\ f.attempts \in Nat /\ f.charged \in Nat
  BY <1>1, WorkspaceAssumption DEF WorkspaceAssumption, FilesOfCycle
<1>4. f.attempts < MaxAttempts /\ f.charged < Total
  BY <1>3 DEF Exhausted
<1>5. /\ Allowance(f) \in 1..Timeout
      /\ f.charged + Allowance(f) <= Total
  BY <1>3, <1>4 DEF Allowance, Remaining
<1>6. /\ r \in [attempt : 1..MaxAttempts, time : 1..Timeout]
      /\ r.attempt = f.attempts + 1 /\ r.time = Allowance(f) /\ r # None
  BY <1>3, <1>4, <1>5, NoneAssumption
<1> HIDE DEF r
<1>7. f.handoff.drafter \in Nat /\ f.handoff.drafter <= f.attempts
  BY <1>1 DEF FilesOfCycle, Handoff, InitialHandoff, CycleSound
<1>8. /\ g.attempts = f.attempts + 1 /\ g.charged = f.charged + Allowance(f)
      /\ g.reservation = r /\ g.manifest = f.manifest /\ g.pending = f.pending
      /\ g.digest = f.digest /\ g.outcome = f.outcome /\ g.handoff = f.handoff
      /\ g.work = f.work /\ g.proposal = f.proposal /\ g.candidate = f.candidate
  BY <1>1 DEF FilesOfCycle
<1>9. g \in FilesOfCycle
  <2> DEFINE a == f.attempts + 1
             b == f.charged + Allowance(f)
  <2>1. a \in 0..MaxAttempts /\ b \in 0..Total
    BY <1>3, <1>4, <1>5
  <2>2. g = [f EXCEPT !.attempts = a, !.charged = b, !.reservation = r]
    OBVIOUS
  <2> HIDE DEF a, b, f, g
  <2> QED
    BY <1>1, <1>6, <2>1, <2>2, ReservedTyped
<1> HIDE DEF g
<1>10. CycleSound(c, g)
  <2>1. g.reservation.time <= g.charged
    BY <1>3, <1>5, <1>6, <1>8
  <2>2. g.handoff.drafter <= g.attempts
    BY <1>3, <1>7, <1>8
  <2> HIDE DEF f
  <2> QED
    BY <1>1, <1>8, <2>1, <2>2 DEF CycleSound, Sealed
<1>11. Kept(f, g)
  BY <1>8 DEF Kept
<1> HIDE DEF E
<1>12. /\ DiskSound(E) /\ Later(D, E)
       /\ Journal(D, <<D, E>>) /\ Last(<<D, E>>) = E
       /\ E.pointer = c /\ E.cycles[c] = g /\ g # None
  BY <1>8, <1>9, <1>10, <1>11, FileWrite DEF E
<1>13. OwnReservation(g, f.attempts + 1)
  BY <1>6, <1>8 DEF OwnReservation
<1> QED
  BY <1>2, <1>3, <1>4, <1>7, <1>8, <1>12, <1>13

Refunded(f, g) == g = [f EXCEPT !.charged = g.charged, !.reservation = None]

\* What an attempt reserved is settled.
LEMMA Settling ==
  ASSUME NEW D, DiskSound(D), NEW c \in Cycles, now \in Times, D.cycles[c] # None,
         D.cycles[c].reservation # None, NEW elapsed \in 0..D.cycles[c].reservation.time
  PROVE  LET ws == SettleAttempt(D, c, elapsed)
             E == Last(ws)
         IN /\ Journal(D, ws) /\ DiskSound(E) /\ Later(D, E)
            /\ E.pointer = D.pointer
            /\ Refunded(D.cycles[c], E.cycles[c])
            /\ Others(D, E, c)
<1> DEFINE f == D.cycles[c]
           b == f.charged - (f.reservation.time - elapsed)
           g == [f EXCEPT !.charged = b, !.reservation = None]
           E == SetCycle(D, c, g)
<1>1. f \in FilesOfCycle /\ CycleSound(c, f)
  BY DEF DiskSound, Disks
<1>2. SettleAttempt(D, c, elapsed) = <<D, E>>
  BY DEF SettleAttempt
<1>3. b \in 0..Total
  <2>1. /\ f.charged \in 0..Total /\ f.reservation.time \in 1..Timeout
        /\ f.reservation.time <= f.charged
    BY <1>1 DEF FilesOfCycle, CycleSound
  <2>2. Total \in Nat /\ Timeout \in Nat
    BY WorkspaceAssumption DEF WorkspaceAssumption
  <2>3. elapsed \in Nat /\ elapsed <= f.reservation.time
    BY <2>1, <2>2
  <2> QED
    BY <2>1, <2>2, <2>3
<1> HIDE DEF b
<1>4. g \in FilesOfCycle
  BY <1>1, <1>3 DEF FilesOfCycle
<1>5. CycleSound(c, g)
  BY <1>1 DEF FilesOfCycle, CycleSound, Sealed
<1>6. /\ Kept(f, g) /\ g.outcome = f.outcome /\ g.attempts = f.attempts
      /\ g.charged = b /\ (f.attempts > 0 => D.pointer = c \/ f.outcome # None)
  BY <1>1 DEF FilesOfCycle, Kept, DiskSound
<1>7. Refunded(f, g)
  BY <1>6 DEF Refunded
<1> HIDE DEF g, E
<1>8. /\ DiskSound(E) /\ Later(D, E)
      /\ Journal(D, <<D, E>>) /\ Last(<<D, E>>) = E
      /\ E.pointer = D.pointer /\ E.cycles[c] = g /\ Others(D, E, c)
  BY <1>4, <1>5, <1>6, FileWrite DEF E
<1> QED
  BY <1>2, <1>7, <1>8

\* An artifact is written in the current cycle, which is not sealed.
LEMMA Writing ==
  ASSUME NEW D, DiskSound(D), NEW c \in Cycles, now \in Times,
         D.pointer = c, D.cycles[c] # None, D.cycles[c].outcome = None,
         D.cycles[c].manifest = None
  PROVE  LET E == WriteArtifact(D, c)
             f == D.cycles[c]
             g == E.cycles[c]
         IN /\ DiskSound(E) /\ Later(D, E)
            /\ Journal(D, <<D, E>>) /\ Last(<<D, E>>) = E
            /\ E.pointer = c /\ g # None /\ Others(D, E, c)
            /\ g = [f EXCEPT !.work = g.work]
<1> DEFINE f == D.cycles[c]
           w == 1 - f.work
           g == [f EXCEPT !.work = w]
           E == SetCycle(D, c, g)
<1>1. f \in FilesOfCycle /\ CycleSound(c, f) /\ D \in Disks
  BY DEF DiskSound, Disks
<1>2. E = WriteArtifact(D, c)
  BY <1>1 DEF SetCycle, Disks, WriteArtifact
<1>3. w \in {0, 1}
  BY <1>1 DEF FilesOfCycle
<1> HIDE DEF w
<1>4. g \in FilesOfCycle
  BY <1>1, <1>3 DEF FilesOfCycle
<1>5. /\ g.work = w /\ g.outcome = f.outcome /\ g.manifest = None
      /\ g.attempts = f.attempts /\ g = [f EXCEPT !.work = g.work]
  BY <1>1 DEF FilesOfCycle
<1>6. CycleSound(c, g) /\ Kept(f, g)
  BY <1>1 DEF FilesOfCycle, CycleSound, Sealed, Kept
<1> HIDE DEF g, E
<1>7. /\ DiskSound(E) /\ Later(D, E)
      /\ Journal(D, <<D, E>>) /\ Last(<<D, E>>) = E
      /\ E.pointer = c /\ E.cycles[c] = g /\ g # None /\ Others(D, E, c)
  BY <1>4, <1>5, <1>6, FileWrite DEF E
<1> QED
  BY <1>2, <1>5, <1>7

\* A handoff is recorded in the current cycle, which is not sealed.
HandedOff(f, g, to) == g = [f EXCEPT !.work = g.work, !.handoff = to]

\* The handoff record is written and published.
LEMMA HandingOff ==
  ASSUME NEW D, DiskSound(D), NEW c \in Cycles, now \in Times, tool = None,
         D.pointer = c, D.cycles[c] # None, D.cycles[c].outcome = None,
         D.cycles[c].manifest = None, D.cycles[c].pending = None,
         NEW to \in Handoff, to.drafter <= D.cycles[c].attempts
  PROVE  LET ws == RecordHandoff(D, c, to)
             E == Last(ws)
             f == D.cycles[c]
             g == E.cycles[c]
         IN /\ Journal(D, ws)
            /\ DiskSound(E) /\ Later(D, E)
            /\ E.pointer = c /\ g # None /\ Others(D, E, c)
            /\ HandedOff(f, g, to)
<1> DEFINE R == WriteArtifact(D, c)
           f == D.cycles[c]
           h == R.cycles[c]
           g == [h EXCEPT !.handoff = to]
           E == SetCycle(R, c, g)
           ws == RecordHandoff(D, c, to)
<1>1. /\ DiskSound(R) /\ Later(D, R)
      /\ Journal(D, <<D, R>>) /\ Last(<<D, R>>) = R
      /\ R.pointer = c /\ h # None /\ Others(D, R, c)
      /\ h = [f EXCEPT !.work = h.work]
  BY Writing
<1>2. f \in FilesOfCycle /\ h \in FilesOfCycle /\ CycleSound(c, h) /\ R \in Disks
  BY <1>1 DEF DiskSound, Disks
<1>3. ws = <<D, R, [R EXCEPT !.cycles[c].handoff = to]>>
  BY DEF RecordHandoff
<1>4. E = [R EXCEPT !.cycles[c].handoff = to]
  <2> HIDE DEF R
  <2> QED
    BY <1>2 DEF SetCycle, Disks
<1> HIDE DEF R, f, ws
<1>5. g \in FilesOfCycle
  BY <1>2 DEF FilesOfCycle
<1>6. h.outcome = None /\ h.pending = None /\ h.manifest = None /\ h.attempts = f.attempts
  <2>1. f.outcome = None /\ f.pending = None /\ f.manifest = None
    BY DEF f
  <2> HIDE DEF h
  <2> QED
    BY <1>1, <1>2, <2>1 DEF FilesOfCycle
<1> HIDE DEF h
<1>7. g.outcome = h.outcome /\ g.attempts = h.attempts /\ g.handoff = to
  BY <1>2 DEF FilesOfCycle
<1>8. CycleSound(c, g) /\ Kept(h, g)
  <2>1. to.drafter <= g.attempts
    BY <1>6, <1>7 DEF f
  <2> QED
    BY <1>2, <1>6, <1>7, <2>1 DEF FilesOfCycle, CycleSound, Sealed, Kept
<1>9. HandedOff(f, g, to)
  <2>1. g.work = h.work
    BY <1>2 DEF FilesOfCycle
  <2> HIDE DEF h
  <2>2. g = [[f EXCEPT !.work = h.work] EXCEPT !.handoff = to]
    BY <1>1 DEF h
  <2> HIDE DEF g
  <2> QED
    BY <1>2, <2>1, <2>2 DEF FilesOfCycle, HandedOff
<1> HIDE DEF g, E
<1>10. /\ DiskSound(E) /\ Later(R, E)
       /\ E.pointer = c /\ E.cycles[c] = g /\ g # None /\ Others(R, E, c)
  <2>1. /\ Kept(R.cycles[c], g) /\ g.outcome = R.cycles[c].outcome
        /\ R.cycles[c] # None
    BY <1>1, <1>7, <1>8 DEF h
  <2> HIDE DEF h
  <2>2. DiskSound(R) /\ CycleSound(c, g) /\ R.pointer = c
    BY <1>1, <1>8
  <2> QED
    BY <1>5, <2>1, <2>2, FileWrite DEF E
<1>11. Later(D, E)
  BY <1>1, <1>10, LaterTransitive
<1>12. Journal(D, ws) /\ Last(ws) = E
  BY <1>1, <1>3, <1>4, <1>10, <1>11, ThreeDisks
<1> QED
  BY <1>1, <1>9, <1>10, <1>11, <1>12 DEF Others, ws, f

\* The response is recorded.
Recorded(f, g) == g = [f EXCEPT !.candidate = g.candidate]

\* The candidate of a published proposal that was admitted is recorded.
LEMMA Recording ==
  ASSUME NEW D, DiskSound(D), NEW c \in Cycles, now \in Times,
         D.pointer = c, D.cycles[c] # None, D.cycles[c].outcome = None,
         D.cycles[c].proposal # None, admitted[c] # None
  PROVE  LET ws == RecordCandidate(D, c)
             E == Last(ws)
             f == D.cycles[c]
             g == E.cycles[c]
         IN /\ Journal(D, ws)
            /\ DiskSound(E) /\ Later(D, E)
            /\ E.pointer = c /\ g # None /\ Others(D, E, c)
            /\ Recorded(f, g)
<1> DEFINE f == D.cycles[c]
           m == f.proposal.manifest
           g == [f EXCEPT !.candidate = m]
           E == SetCycle(D, c, g)
<1>1. f \in FilesOfCycle /\ CycleSound(c, f) /\ D \in Disks
  BY DEF DiskSound, Disks
<1>2. RecordCandidate(D, c) = <<D, E>>
  BY DEF RecordCandidate
<1>3. m \in Manifests
  BY <1>1 DEF FilesOfCycle, Proposal
<1> HIDE DEF m
<1>4. g \in FilesOfCycle
  BY <1>1, <1>3 DEF FilesOfCycle
<1>5. /\ g.candidate = m /\ g.outcome = f.outcome
      /\ g.attempts = f.attempts
  BY <1>1 DEF FilesOfCycle
<1>6. CycleSound(c, g) /\ Kept(f, g)
  BY <1>1 DEF FilesOfCycle, CycleSound, Sealed, Kept
<1>61. Recorded(f, g)
  BY <1>5 DEF Recorded
<1> HIDE DEF g, E
<1>7. /\ DiskSound(E) /\ Later(D, E)
      /\ Journal(D, <<D, E>>) /\ Last(<<D, E>>) = E
      /\ E.pointer = c /\ E.cycles[c] = g /\ g # None /\ Others(D, E, c)
  BY <1>4, <1>5, <1>6, FileWrite DEF E
<1> QED
  BY <1>2, <1>61, <1>7

\* What may be sealed: the journal of an earlier call that still matches, or the
\* committed draft of an unsealed cycle.
Sealable(f, number, rules) ==
  IF f.pending # None THEN f.pending.manifest = BuildManifest(f) /\ Verified(f)
  ELSE /\ f.manifest = None
       /\ f.handoff.state = "draftReady"
       /\ rules = f.handoff.rules
       /\ number > f.handoff.drafter

\* The files of a cycle between the writes of a seal.
LEMMA SealTyped ==
  ASSUME NEW f \in FilesOfCycle, NEW j \in Proposal
  PROVE  /\ [f EXCEPT !.pending = j] \in FilesOfCycle
         /\ [f EXCEPT !.pending = j, !.manifest = j.manifest] \in FilesOfCycle
         /\ [f EXCEPT !.pending = j, !.manifest = j.manifest, !.proposal = j] \in FilesOfCycle
<1>1. j.manifest \in Manifests
  BY DEF Proposal
<1> QED
  BY <1>1 DEF FilesOfCycle

\* A write of the seal of journal j.
SealStep(f, g, j) ==
  /\ g.digest = f.digest /\ g.handoff = f.handoff /\ g.work = f.work
  /\ g.reservation = f.reservation /\ g.charged = f.charged /\ g.attempts = f.attempts
  /\ g.candidate = f.candidate /\ g.outcome = f.outcome
  /\ g.pending = j
  /\ g.manifest = f.manifest \/ g.manifest = j.manifest
  /\ g.proposal = f.proposal \/ (g.proposal = j /\ g.manifest = j.manifest)

\* Each of the three writes of a seal.
LEMMA SealSteps ==
  ASSUME NEW f \in FilesOfCycle, NEW j \in Proposal
  PROVE  /\ SealStep(f, [f EXCEPT !.pending = j], j)
         /\ SealStep(f, [f EXCEPT !.pending = j, !.manifest = j.manifest], j)
         /\ SealStep(f, [f EXCEPT !.pending = j, !.manifest = j.manifest, !.proposal = j], j)
<1>1. SealStep(f, [f EXCEPT !.pending = j], j)
  <2> DEFINE g == [f EXCEPT !.pending = j]
  <2>1. /\ g.digest = f.digest /\ g.handoff = f.handoff /\ g.work = f.work
        /\ g.reservation = f.reservation /\ g.charged = f.charged
        /\ g.attempts = f.attempts /\ g.candidate = f.candidate
        /\ g.outcome = f.outcome /\ g.pending = j
        /\ g.manifest = f.manifest /\ g.proposal = f.proposal
    BY DEF FilesOfCycle
  <2> HIDE DEF g
  <2>2. SealStep(f, g, j)
    BY <2>1 DEF SealStep
  <2> QED
    BY <2>2 DEF g
<1>2. SealStep(f, [f EXCEPT !.pending = j, !.manifest = j.manifest], j)
  BY DEF FilesOfCycle, SealStep
<1>3. SealStep(f, [f EXCEPT !.pending = j, !.manifest = j.manifest, !.proposal = j], j)
  BY DEF FilesOfCycle, SealStep
<1> QED
  BY <1>1, <1>2, <1>3

\* A write of the seal of a draft, or of the repeated seal of the journal,
\* leaves sound files.
LEMMA SealSound ==
  ASSUME NEW c \in Cycles, NEW f \in FilesOfCycle, NEW j \in Proposal,
         CycleSound(c, f), f.outcome = None,
         f.pending # None => j = f.pending,
         f.manifest # None => f.manifest = j.manifest,
         f.handoff.state = "draftReady", j.rules = f.handoff.rules,
         j.attempt > f.handoff.drafter, j.manifest.work = f.work,
         NEW g, SealStep(f, g, j)
  PROVE  /\ CycleSound(c, g) /\ Kept(f, g)
         /\ g.outcome = None /\ g.attempts = f.attempts
<1>1. j # None
  BY NoneAssumption
<1>2. /\ g.digest = f.digest /\ g.handoff = f.handoff /\ g.work = f.work
      /\ g.reservation = f.reservation /\ g.charged = f.charged /\ g.attempts = f.attempts
      /\ g.candidate = f.candidate /\ g.outcome = f.outcome
      /\ g.pending = j
      /\ g.manifest = f.manifest \/ g.manifest = j.manifest
      /\ g.proposal = f.proposal \/ (g.proposal = j /\ g.manifest = j.manifest)
  BY DEF SealStep
<1>3. g.manifest # None => g.manifest = j.manifest
  BY <1>2
<1>4. f.proposal # None => f.pending # None /\ f.proposal = j /\ f.manifest = j.manifest /\ f.manifest # None
  <2>1. j.manifest # None
    BY NoneAssumption DEF Proposal
  <2> QED
    BY <2>1 DEF CycleSound
<1>5. CycleSound(c, g)
  <2>1. g.proposal # None => g.proposal = j /\ g.manifest = j.manifest
    BY <1>2, <1>4
  <2>2. f.proposal # None => g.proposal # None
    BY <1>1, <1>2
  <2> QED
    BY <1>1, <1>2, <1>3, <2>1, <2>2 DEF CycleSound, Sealed
<1>6. Kept(f, g)
  BY <1>1, <1>2, <1>4 DEF Kept
<1> QED
  BY <1>2, <1>5, <1>6

Proposed(f, g) ==
  g = [f EXCEPT !.pending = g.pending, !.manifest = g.manifest, !.proposal = g.proposal]

\* A proposal is sealed: proposal.pending.json, analysis-manifest.json and
\* proposal.json, in this order.
LEMMA Proposing ==
  ASSUME NEW D, DiskSound(D), NEW c \in Cycles, now \in Times,
         D.pointer = c, D.cycles[c] # None, D.cycles[c].outcome = None,
         NEW number \in 0..MaxAttempts, NEW rules \in Rules,
         Sealable(D.cycles[c], number, rules)
  PROVE  LET ws == PrepareCandidateProposal(D, c, number, rules)
             E == Last(ws)
             f == D.cycles[c]
             g == E.cycles[c]
         IN /\ Journal(D, ws)
            /\ DiskSound(E) /\ Later(D, E)
            /\ E.pointer = c /\ g # None /\ Others(D, E, c)
            /\ g.pending \in Proposal /\ g.proposal # None /\ g.manifest # None
            /\ Proposed(f, g)
<1> DEFINE f == D.cycles[c]
           j == IF f.pending # None THEN f.pending
                ELSE [attempt |-> number, rules |-> rules, manifest |-> BuildManifest(f)]
           g1 == [f EXCEPT !.pending = j]
           g2 == [f EXCEPT !.pending = j, !.manifest = j.manifest]
           g3 == [f EXCEPT !.pending = j, !.manifest = j.manifest, !.proposal = j]
           E1 == SetCycle(D, c, g1)
           E2 == SetCycle(D, c, g2)
           E3 == SetCycle(D, c, g3)
           ws == PrepareCandidateProposal(D, c, number, rules)
<1>1. f \in FilesOfCycle /\ CycleSound(c, f) /\ D \in Disks
  BY DEF DiskSound, Disks
<1>2. /\ BuildManifest(f) \in Manifests
      /\ BuildManifest(f).work = f.work
  BY <1>1 DEF FilesOfCycle, BuildManifest, Manifests
<1>3. /\ j \in Proposal
      /\ f.pending # None => j = f.pending
      /\ f.manifest # None => f.manifest = j.manifest
      /\ f.handoff.state = "draftReady" /\ j.rules = f.handoff.rules
      /\ j.attempt > f.handoff.drafter /\ j.manifest.work = f.work
  <2>1. CASE f.pending # None
    <3>1. f.pending \in Proposal /\ j = f.pending
      BY <1>1, <2>1 DEF FilesOfCycle
    <3> QED
      BY <1>1, <1>2, <2>1, <3>1 DEF Sealable, Verified, CycleSound
  <2>2. CASE f.pending = None
    <3>1. j = [attempt |-> number, rules |-> rules, manifest |-> BuildManifest(f)]
      BY <2>2
    <3>2. /\ j \in Proposal /\ j.attempt = number /\ j.rules = rules
          /\ j.manifest = BuildManifest(f)
      BY <1>2, <3>1 DEF Proposal
    <3> HIDE DEF j
    <3> QED
      BY <1>2, <2>2, <3>2 DEF Sealable
  <2> QED
    BY <2>1, <2>2
<1>4. E3 = [SetCycle(D, c, [f EXCEPT !.pending = j, !.manifest = j.manifest])
              EXCEPT !.cycles[c].proposal = j]
  <2> HIDE DEF j
  <2>1. [g2 EXCEPT !.proposal = j] = g3
    BY <1>1 DEF FilesOfCycle
  <2> HIDE DEF g2, g3
  <2> QED
    BY <1>1, <2>1 DEF SetCycle, Disks, g2
<1>5. ws = <<D, E1, E2, E3>>
  BY <1>4 DEF PrepareCandidateProposal
<1> HIDE DEF j, ws
<1>6. g1 \in FilesOfCycle /\ g2 \in FilesOfCycle /\ g3 \in FilesOfCycle
  BY <1>1, <1>3, SealTyped
<1>7. ASSUME NEW g \in {g1, g2, g3}
      PROVE  CycleSound(c, g) /\ Kept(f, g) /\ g.outcome = None /\ g.attempts = f.attempts
  <2>1. SealStep(f, g1, j) /\ SealStep(f, g2, j) /\ SealStep(f, g3, j)
    BY <1>1, <1>3, SealSteps
  <2>2. f.outcome = None
    OBVIOUS
  <2> HIDE DEF f, g1, g2, g3
  <2>3. SealStep(f, g, j)
    BY <1>7, <2>1
  <2> QED
    BY <1>1, <1>3, <2>2, <2>3, SealSound
<1>8. g3.pending = j /\ g3.manifest = j.manifest /\ g3.proposal = j
  BY <1>1 DEF FilesOfCycle
<1>9. Proposed(f, g3)
  BY <1>8 DEF Proposed
<1>10. j # None /\ j.manifest # None
  BY <1>3, NoneAssumption DEF Proposal
<1> HIDE DEF g1, g2, g3, E1, E2, E3
<1>11. DiskSound(E1) /\ Later(D, E1)
  <2> HIDE DEF f
  <2> QED
    BY <1>6, <1>7, FileWrite DEF E1, f
<1>12. DiskSound(E2) /\ Later(D, E2)
  BY <1>6, <1>7, FileWrite DEF E2
<1>13. /\ DiskSound(E3) /\ Later(D, E3)
       /\ E3.pointer = c /\ E3.cycles[c] = g3 /\ g3 # None /\ Others(D, E3, c)
  BY <1>6, <1>7, FileWrite DEF E3
<1>14. Journal(D, ws) /\ Last(ws) = E3
  BY <1>5, <1>11, <1>12, <1>13, FourDisks
<1> QED
  BY <1>3, <1>8, <1>9, <1>10, <1>13, <1>14 DEF ws

-----------------------------------------------------------------------------
(* The workers and their calls *)

\* The cycle is the current one, and open.
Open(D, c) == D.pointer = c /\ D.cycles[c].outcome = None

\* A lease is on the open current cycle, and lets write only an unsealed one.
LeaseSound ==
  IF lease.cycle = None THEN ~lease.writable
  ELSE /\ Claimed
       /\ Open(disk, lease.cycle)
       /\ lease.writable => /\ disk.cycles[lease.cycle].manifest = None
                            /\ disk.cycles[lease.cycle].pending = None

\* The attempt is on a cycle of its contract, open until it settles; while it
\* works it is the latest, with its own reservation.
AttemptSound == attempt # Free =>
  /\ Files # None
  /\ Files.digest = attempt.digest
  /\ attempt.pc # "settle" => Open(disk, attempt.cycle)
  /\ attempt.pc \in {"agent", "yielding"} => lease.cycle = attempt.cycle
  /\ attempt.pc = "agent" => Files.handoff.drafter < attempt.number
  /\ attempt.pc \in {"agent", "yielding", "settle"} => attempt.number # 0
  /\ attempt.pc \in {"yielding", "ended", "verdict"} => attempt.outcome \in Outcomes
  /\ attempt.pc \in {"ended", "verdict"} => tool = None
  /\ attempt.pc = "reconcile" => attempt.number = 0
  /\ attempt.pc = "reconcile" => tool # None /\ tool.by = "reconcile"
  /\ attempt.number # 0 /\ attempt.pc # "settle" =>
       /\ Files.attempts = attempt.number
       /\ OwnReservation(Files, attempt.number)

\* A call, also one that outlived its attempt, is about the committed draft, or
\* repeats a sealed proposal; what it got to is in the journal.
ToolSound == tool # None =>
  LET f == disk.cycles[tool.cycle] IN
  /\ f # None
  /\ f.digest = tool.digest
  /\ lease.cycle \in {None, tool.cycle}
  /\ attempt # Free => attempt.cycle = tool.cycle /\ attempt.number = tool.number
  /\ IF tool.by = "reconcile" THEN attempt.pc = "reconcile" /\ f.pending # None
     ELSE /\ attempt.pc # "reconcile"
          /\ f.handoff.state = "draftReady"
          /\ tool.rules = f.handoff.rules
          /\ tool.number > f.handoff.drafter
  /\ tool.step \notin {"check", "seal"} => f.proposal # None
  /\ tool.step = "admitted" => admitted[tool.cycle] # None

\* What a worker has read is current until a deployment.
FetchSound == \A w \in Workers : deploys = 0 => fetched[w] \in {None, current}

\* The inductive invariant.
CycleInvariant ==
  AnalysisTypeOK /\ FetchSound /\ DiskSound(disk) /\ LeaseSound /\ AttemptSound /\ ToolSound

-----------------------------------------------------------------------------
(* The steps. *)

\* The invariant holds of an empty directory.
LEMMA Initially ==
  CycleInit => CycleInvariant
<1> SUFFICES ASSUME CycleInit PROVE CycleInvariant
  OBVIOUS
<1>1. AnalysisTypeOK
  BY WorkspaceAssumption, CycleAssumption
     DEF CycleInit, AnalysisTypeOK, EmptyDisk, Free, NoLease, Times,
         WorkspaceAssumption, CycleAssumption
<1>2. DiskSound(disk)
  BY <1>1 DEF CycleInit, EmptyDisk, DiskSound, Disks, AnalysisTypeOK, Spaced, Outcome
<1>3. LeaseSound /\ AttemptSound /\ ToolSound /\ FetchSound
  BY DEF CycleInit, LeaseSound, AttemptSound, ToolSound, FetchSound, NoLease
<1> QED
  BY <1>1, <1>2, <1>3 DEF CycleInvariant

\* A disk that is sound while the Contract Service and the clock stand still.
LEMMA DiskPrimed ==
  ASSUME DiskSound(disk'), UNCHANGED <<remoteVars, worldVars>>
  PROVE  DiskSound(disk)'
  BY DEF DiskSound, CycleSound, Spaced, Sealed, Outcome, EndedAt, remoteVars, worldVars

\* A step that writes nothing to the directory and tells the Contract Service
\* nothing.
LEMMA DiskSame ==
  ASSUME CycleInvariant, UNCHANGED <<disk, remoteVars, worldVars>>
  PROVE  DiskSound(disk)' /\ disk' \in Disks /\ Later(disk, disk')
<1>1. DiskSound(disk') /\ Later(disk, disk') /\ disk' \in Disks
  BY LaterReflexive DEF CycleInvariant, DiskSound
<1> QED
  BY <1>1, DiskPrimed

\* The process is gone; what it did to the directory is sound.
LEMMA Died ==
  ASSUME CycleInvariant, DiskSound(disk'), Die, UNCHANGED <<remoteVars, worldVars>>
  PROVE  CycleInvariant'
<1>1. DiskSound(disk)'
  BY DiskPrimed
<1>2. disk' \in Disks
  BY DEF DiskSound
<1>3. AnalysisTypeOK'
  BY <1>2, CycleAssumption
     DEF CycleInvariant, AnalysisTypeOK, Die, Disks, NoLease, remoteVars, worldVars, CycleAssumption
<1>4. (LeaseSound /\ AttemptSound /\ ToolSound /\ FetchSound)'
  BY DEF CycleInvariant, Die, LeaseSound, AttemptSound, ToolSound, FetchSound, NoLease
<1> QED
  BY <1>1, <1>3, <1>4 DEF CycleInvariant

\* A crash between two writes of an operation, or inside one.
LEMMA CrashesDurably ==
  ASSUME CycleInvariant, NEW ws, Journal(disk, ws), NEW k \in 1..(Len(ws) - 1),
         disk' \in {ws[k], LeaveTemporary(ws[k], ws[k + 1])},
         \A c \in Cycles : ws[k].cycles[c] # None => disk'.cycles[c].strays <= MaxStrays,
         Die, UNCHANGED <<remoteVars, worldVars>>
  PROVE  CycleInvariant' /\ Later(disk, disk')
<1>1. DiskSound(ws[k]) /\ Later(disk, ws[k])
  BY DEF Journal, Writes
<1>2. DiskSound(disk') /\ Later(disk, disk')
  <2>1. CASE disk' = ws[k]
    BY <1>1, <2>1
  <2>2. CASE disk' = LeaveTemporary(ws[k], ws[k + 1])
    BY <1>1, <2>2, TemporaryLeft, LaterTransitive
  <2> QED
    BY <2>1, <2>2
<1> QED
  BY <1>2, Died

-----------------------------------------------------------------------------

\* A worker reads the current contract, or gives up what it has read.
LEMMA FetchStep ==
  ASSUME CycleInvariant, NEW w \in Workers, Fetch(w) \/ Busy(w) \/ ClaimFails(w)
  PROVE  CycleInvariant' /\ Later(disk, disk')
<1>1. UNCHANGED <<disk, claimVars, remoteVars, worldVars, faults>>
  BY DEF Fetch, Busy, ClaimFails
<1>2. DiskSound(disk)' /\ disk' \in Disks /\ Later(disk, disk')
  BY <1>1, DiskSame
<1>3. fetched' = [fetched EXCEPT ![w] = current] \/ fetched' = [fetched EXCEPT ![w] = None]
  BY DEF Fetch, Busy, ClaimFails, Took
<1>4. AnalysisTypeOK' /\ FetchSound'
  BY <1>1, <1>3 DEF CycleInvariant, AnalysisTypeOK, FetchSound, claimVars, remoteVars, worldVars
<1>5. LeaseSound' /\ AttemptSound' /\ ToolSound'
  BY <1>1 DEF CycleInvariant, LeaseSound, AttemptSound, ToolSound, Claimed, Open, Files,
              OwnReservation, claimVars, remoteVars, worldVars
<1> QED
  BY <1>2, <1>4, <1>5 DEF CycleInvariant

\* The process crashes between two operations.
LEMMA CrashStep ==
  ASSUME CycleInvariant, Crash
  PROVE  CycleInvariant' /\ Later(disk, disk')
<1>1. DiskSound(disk') /\ Later(disk, disk')
  BY LaterReflexive DEF Crash, CycleInvariant
<1> QED
  BY <1>1, Died DEF Crash

\* The clock advances.
LEMMA TickStep ==
  ASSUME CycleInvariant, Tick
  PROVE  CycleInvariant' /\ Later(disk, disk')
<1>1. /\ UNCHANGED <<disk, fetched, claimVars, remoteVars, current, deploys, faults>>
      /\ now' = now + 1 /\ now' \in Times /\ now \in Nat
  BY CycleAssumption DEF Tick, CycleInvariant, AnalysisTypeOK, Times, CycleAssumption
<1>2. DiskSound(disk)'
  <2>1. \A c \in Cycles : Outcome(disk, c) => EndedAt(disk, c) \in Nat
    BY TimesTyped DEF CycleInvariant, DiskSound, Outcome
  <2>2. \A c \in Cycles : /\ Outcome(disk, c)' <=> Outcome(disk, c)
                          /\ EndedAt(disk, c)' = EndedAt(disk, c)
    BY <1>1 DEF Outcome, EndedAt
  <2>3. Spaced(disk)'
    <3>1. Spaced(disk)
      BY DEF CycleInvariant, DiskSound
    <3>2. Outcome(disk, disk.pointer)' <=> Outcome(disk, disk.pointer)
      BY <1>1 DEF Outcome
    <3>3. EndedAt(disk, disk.pointer)' = EndedAt(disk, disk.pointer)
      BY <1>1 DEF EndedAt
    <3> QED
      BY <1>1, <2>1, <2>2, <3>1, <3>2, <3>3 DEF Spaced
  <2> QED
    BY <1>1, <2>3 DEF CycleInvariant, DiskSound, CycleSound, Sealed, remoteVars
<1>3. AnalysisTypeOK'
  BY <1>1 DEF CycleInvariant, AnalysisTypeOK, claimVars, remoteVars
<1>4. LeaseSound' /\ AttemptSound' /\ ToolSound' /\ FetchSound'
  BY <1>1 DEF CycleInvariant, LeaseSound, AttemptSound, ToolSound, FetchSound, Claimed, Open,
              Files, OwnReservation, claimVars, remoteVars
<1> QED
  BY <1>1, <1>2, <1>3, <1>4, LaterReflexive DEF CycleInvariant

\* The current contract is replaced.
LEMMA DeployStep ==
  ASSUME CycleInvariant, NEW d \in Digests, Deploy(d)
  PROVE  CycleInvariant' /\ Later(disk, disk')
<1>1. /\ UNCHANGED <<disk, fetched, claimVars, remoteVars, now, faults>>
      /\ current' \in Digests
      /\ deploys' \in 0..MaxDeploys /\ deploys' # 0
  BY CycleAssumption DEF Deploy, CycleInvariant, AnalysisTypeOK, CycleAssumption
<1>2. DiskSound(disk)'
  BY <1>1 DEF CycleInvariant, DiskSound, CycleSound, Spaced, Sealed, Outcome, EndedAt, remoteVars
<1>3. AnalysisTypeOK'
  BY <1>1 DEF CycleInvariant, AnalysisTypeOK, claimVars, remoteVars
<1>4. LeaseSound' /\ AttemptSound' /\ ToolSound' /\ FetchSound'
  BY <1>1 DEF CycleInvariant, LeaseSound, AttemptSound, ToolSound, FetchSound, Claimed, Open,
              Files, OwnReservation, claimVars, remoteVars
<1> QED
  BY <1>1, <1>2, <1>3, <1>4, LaterReflexive DEF CycleInvariant

\* The Contract Service processes a submission.
LEMMA ServeStep ==
  ASSUME CycleInvariant, NEW m \in wire, Serve(m)
  PROVE  CycleInvariant' /\ Later(disk, disk')
<1>1. /\ UNCHANGED <<disk, fetched, attempt, lease, worldVars, faults>>
      /\ wire' = wire \ {m}
      /\ admitted' = admitted \/ (Answer(m) = "admitted" /\ admitted' = [admitted EXCEPT ![m.cycle] = m])
      /\ \/ tool' = tool
         \/ /\ ToolAt("wait") /\ tool.cycle = m.cycle
            /\ tool' = [tool EXCEPT !.step = Answer(m)]
            /\ Answer(m) = "admitted" => admitted' = [admitted EXCEPT ![m.cycle] = m]
  BY DEF Serve
<1>2. m \in Submissions /\ m.cycle \in Cycles /\ m # None
  BY NoneAssumption DEF CycleInvariant, AnalysisTypeOK, Submissions
<1>3. /\ wire \subseteq Submissions /\ admitted \in [Cycles -> Submissions \union {None}]
      /\ Answer(m) \in {"admitted", "refused", "stale"}
  BY DEF CycleInvariant, AnalysisTypeOK, Answer
<1>4. \A c \in Cycles : admitted'[c] = admitted[c] \/ (c = m.cycle /\ admitted'[c] = m)
  BY <1>1, <1>3
<1>5. \A c \in Cycles : admitted[c] # None => admitted'[c] # None
  BY <1>2, <1>4
<1>6. DiskSound(disk)'
  <2>1. ASSUME NEW c \in Cycles, disk.cycles[c] # None
        PROVE  CycleSound(c, disk.cycles[c])'
    BY <1>1, <1>2, <1>4, <1>5, <2>1 DEF CycleInvariant, DiskSound, CycleSound, Sealed
  <2>2. ASSUME NEW c \in Cycles, disk.cycles[c] = None
        PROVE  admitted'[c] = None /\ \A n \in wire' : n.cycle # c
    BY <1>1, <1>2, <1>4, <2>2 DEF CycleInvariant, DiskSound
  <2>3. Spaced(disk)'
    BY <1>1 DEF CycleInvariant, DiskSound, Spaced, Outcome, EndedAt, worldVars
  <2> QED
    BY <1>1, <2>1, <2>2, <2>3 DEF CycleInvariant, DiskSound
<1>7. tool' # None => tool # None /\ tool' = [tool EXCEPT !.step = tool'.step] /\ tool \in Calls
  BY <1>1 DEF CycleInvariant, AnalysisTypeOK, Calls, ToolAt
<1>8. AnalysisTypeOK'
  <2>1. tool' \in Calls \union {None}
    BY <1>1, <1>3 DEF CycleInvariant, AnalysisTypeOK, Calls, ToolAt
  <2>2. admitted' \in [Cycles -> Submissions \union {None}]
    BY <1>1, <1>2, <1>3
  <2> QED
    BY <1>1, <2>1, <2>2 DEF CycleInvariant, AnalysisTypeOK, worldVars
<1>9. ToolSound'
  <2>1. CASE tool' = tool
    BY <1>1, <1>5, <2>1 DEF CycleInvariant, AnalysisTypeOK, Calls, ToolSound
  <2>2. CASE /\ ToolAt("wait") /\ tool.cycle = m.cycle
             /\ tool' = [tool EXCEPT !.step = Answer(m)]
             /\ Answer(m) = "admitted" => admitted' = [admitted EXCEPT ![m.cycle] = m]
    <3>1. /\ tool'.by = tool.by /\ tool'.digest = tool.digest /\ tool'.cycle = tool.cycle
          /\ tool'.number = tool.number /\ tool'.rules = tool.rules
          /\ tool'.step = Answer(m) /\ tool # None /\ tool.step = "wait"
      BY <2>2 DEF CycleInvariant, AnalysisTypeOK, Calls, ToolAt
    <3>2. tool'.step = "admitted" => admitted'[tool.cycle] # None
      BY <1>2, <1>3, <2>2, <3>1
    <3> QED
      BY <1>1, <3>1, <3>2 DEF CycleInvariant, ToolSound
  <2> QED
    BY <1>1, <2>1, <2>2
<1>10. LeaseSound' /\ AttemptSound' /\ FetchSound'
  <2>1. (tool' = None) = (tool = None)
    <3>1. CASE tool' = tool
      BY <3>1
    <3>2. CASE ToolAt("wait") /\ tool' = [tool EXCEPT !.step = Answer(m)]
      <4>1. tool' \in Calls
        BY <1>3, <3>2 DEF CycleInvariant, AnalysisTypeOK, Calls, ToolAt
      <4> QED
        BY <3>2, <4>1, NoneAssumption DEF ToolAt
    <3> QED
      BY <1>1, <3>1, <3>2
  <2>2. tool # None => tool'.by = tool.by
    BY <1>1 DEF CycleInvariant, AnalysisTypeOK, Calls, ToolAt
  <2> QED
    BY <1>1, <2>1, <2>2 DEF CycleInvariant, LeaseSound, AttemptSound, FetchSound, Claimed, Open,
              Files, OwnReservation, worldVars
<1> QED
  BY <1>1, <1>6, <1>8, <1>9, <1>10, LaterReflexive DEF CycleInvariant

\* What is known of an attempt that has not settled.
LEMMA AttemptTyped ==
  ASSUME CycleInvariant, attempt.pc \in {"reconcile", "agent", "yielding", "ended", "verdict", "settle"}
  PROVE  /\ attempt \in Attempts /\ attempt # Free
         /\ attempt.cycle \in Cycles /\ attempt.digest \in Digests
         /\ attempt.number \in 0..MaxAttempts
         /\ Files # None /\ Files \in FilesOfCycle
         /\ disk \in Disks
         /\ attempt.pc # "settle" => disk.pointer = attempt.cycle /\ Files.outcome = None
<1>1. attempt \in Attempts /\ attempt # Free
  BY DEF CycleInvariant, AnalysisTypeOK, Attempts, Free
<1>2. /\ attempt.cycle \in Cycles /\ attempt.digest \in Digests
      /\ attempt.number \in 0..MaxAttempts
  BY <1>1 DEF Attempts
<1> QED
  BY <1>1, <1>2 DEF CycleInvariant, DiskSound, Disks, AttemptSound, Files, Open

\* What is known of a call in progress.
LEMMA ToolTyped ==
  ASSUME CycleInvariant, tool # None
  PROVE  /\ tool \in Calls
         /\ tool.cycle \in Cycles /\ tool.number \in 0..MaxAttempts /\ tool.rules \in Rules
         /\ disk.cycles[tool.cycle] # None /\ disk.cycles[tool.cycle] \in FilesOfCycle
<1>1. tool \in Calls
  BY DEF CycleInvariant, AnalysisTypeOK
<1> QED
  BY <1>1 DEF CycleInvariant, Calls, ToolSound, DiskSound, Disks

\* A step of the attempt or of the agent that only writes its own locals.
LEMMA GotoTyped ==
  ASSUME NEW a \in Attempts, NEW pc \in {"reconcile", "agent", "yielding", "ended", "verdict", "settle"},
         NEW outcome \in Outcomes \union {None}
  PROVE  /\ [a EXCEPT !.pc = pc, !.outcome = outcome] \in Attempts
         /\ [a EXCEPT !.pc = pc] \in Attempts
         /\ [a EXCEPT !.pc = pc].pc = pc
         /\ [a EXCEPT !.pc = pc].outcome = a.outcome
         /\ [a EXCEPT !.pc = pc, !.outcome = outcome].pc = pc
         /\ [a EXCEPT !.pc = pc, !.outcome = outcome].outcome = outcome
         /\ [a EXCEPT !.pc = pc].cycle = a.cycle
         /\ [a EXCEPT !.pc = pc].number = a.number
         /\ [a EXCEPT !.pc = pc].digest = a.digest
         /\ [a EXCEPT !.pc = pc, !.outcome = outcome].cycle = a.cycle
         /\ [a EXCEPT !.pc = pc, !.outcome = outcome].number = a.number
         /\ [a EXCEPT !.pc = pc, !.outcome = outcome].digest = a.digest
  BY DEF Attempts, Outcomes

\* The agent's own writes, and a rejection.
LEMMA AgentWritesStep ==
  ASSUME CycleInvariant, AgentWrites \/ AgentRejects
  PROVE  CycleInvariant' /\ Later(disk, disk')
<1> DEFINE c == attempt.cycle
           f == disk.cycles[c]
           g == disk'.cycles[c]
<1>1. /\ attempt.pc \in {"agent", "yielding"} /\ lease.writable
      /\ disk' = WriteArtifact(disk, c)
      /\ UNCHANGED <<fetched, lease, tool, remoteVars, worldVars, faults>>
      /\ \/ attempt' = attempt
         \/ /\ attempt' = [attempt EXCEPT !.pc = "ended", !.outcome = "noCandidate"]
            /\ attempt.pc = "agent" /\ tool = None
  BY DEF AgentWrites, AgentRejects, claimVars
<1>2. /\ attempt \in Attempts /\ attempt # Free /\ c \in Cycles
      /\ f # None /\ f \in FilesOfCycle /\ disk.pointer = c /\ f.outcome = None
  BY <1>1, AttemptTyped DEF Files
<1>3. lease.cycle = c /\ f.manifest = None /\ c # None
  <2>1. lease.cycle = c
    BY <1>1, <1>2 DEF CycleInvariant, AttemptSound
  <2>2. c # None
    BY <1>2, WorkspaceAssumption DEF WorkspaceAssumption
  <2> QED
    BY <1>1, <2>1, <2>2 DEF CycleInvariant, LeaseSound
<1>4. /\ DiskSound(disk') /\ Later(disk, disk')
      /\ disk'.pointer = c /\ g # None /\ Others(disk, disk', c)
      /\ g = [f EXCEPT !.work = g.work]
  <2>1. now \in Times /\ DiskSound(disk)
    BY DEF CycleInvariant, AnalysisTypeOK
  <2> DEFINE R == WriteArtifact(disk, c)
             h == R.cycles[c]
  <2>2. /\ DiskSound(R) /\ Later(disk, R)
        /\ R.pointer = c /\ h # None /\ Others(disk, R, c)
        /\ h = [f EXCEPT !.work = h.work]
    BY <1>2, <1>3, <2>1, Writing
  <2>3. disk' = R
    BY <1>1
  <2> HIDE DEF R
  <2> QED
    BY <2>2, <2>3
<1>5. /\ g.digest = f.digest /\ g.handoff = f.handoff /\ g.manifest = f.manifest
      /\ g.pending = f.pending /\ g.proposal = f.proposal /\ g.outcome = f.outcome
      /\ g.attempts = f.attempts /\ g.reservation = f.reservation
  <2> HIDE DEF f, g
  <2> QED
    BY <1>2, <1>4 DEF FilesOfCycle
<1>6. DiskSound(disk)'
  BY <1>1, <1>4, DiskPrimed
<1>7. /\ attempt' \in Attempts /\ attempt' # Free
      /\ attempt'.cycle = c /\ attempt'.digest = attempt.digest /\ attempt'.number = attempt.number
      /\ \/ attempt' = attempt
         \/ attempt'.pc = "ended" /\ attempt'.outcome = "noCandidate" /\ attempt.pc = "agent" /\ tool = None
  <2>1. CASE attempt' = attempt
    BY <1>2, <2>1
  <2>2. CASE attempt' = [attempt EXCEPT !.pc = "ended", !.outcome = "noCandidate"] /\ attempt.pc = "agent" /\ tool = None
    BY <1>2, <2>2 DEF Attempts, Free, Terminal
  <2> QED
    BY <1>1, <2>1, <2>2
<1>8. AnalysisTypeOK'
  BY <1>1, <1>4, <1>7 DEF CycleInvariant, AnalysisTypeOK, DiskSound, Disks, remoteVars, worldVars
<1>9. LeaseSound'
  BY <1>1, <1>2, <1>3, <1>4, <1>5, <1>7 DEF CycleInvariant, LeaseSound, Claimed, Open
<1>10. AttemptSound'
  <2>1. Files' = g
    BY <1>7 DEF Files
  <2>2. Open(disk, attempt.cycle)'
    BY <1>2, <1>4, <1>5, <1>7 DEF Open
  <2>3. Files = f
    BY DEF Files
  <2>4. attempt'.pc \in {"yielding", "ended", "verdict"} => attempt'.outcome \in Outcomes
    BY <1>1, <1>2, <1>7 DEF CycleInvariant, AttemptSound, Outcomes, Terminal
  <2>5. OwnReservation(g, attempt.number) <=> OwnReservation(f, attempt.number)
    BY <1>5 DEF OwnReservation
  <2> HIDE DEF f, g
  <2>6. CASE attempt' = attempt
    BY <1>1, <1>2, <1>4, <1>5, <2>1, <2>2, <2>3, <2>5, <2>6 DEF CycleInvariant, AttemptSound
  <2>7. CASE attempt'.pc = "ended" /\ tool = None
    BY <1>1, <1>2, <1>4, <1>5, <1>7, <2>1, <2>2, <2>3, <2>4, <2>5, <2>7 DEF CycleInvariant, AttemptSound
  <2> QED
    BY <1>7, <2>6, <2>7
<1>11. ToolSound'
  <2>1. tool # None => tool.cycle = c /\ tool' = tool
    BY <1>1, <1>2 DEF CycleInvariant, ToolSound
  <2>2. admitted' = admitted
    BY <1>1 DEF remoteVars
  <2>3. tool # None => attempt' = attempt
    BY <1>1
  <2> HIDE DEF g
  <2> QED
    BY <1>1, <1>2, <1>4, <1>5, <2>1, <2>2, <2>3 DEF CycleInvariant, ToolSound, g
<1>12. FetchSound'
  BY <1>1 DEF CycleInvariant, FetchSound, worldVars
<1> QED
  BY <1>4, <1>6, <1>8, <1>9, <1>10, <1>11, <1>12 DEF CycleInvariant

\* The agent calls the submission tool with the committed draft.
LEMMA AgentProposesStep ==
  ASSUME CycleInvariant, AgentProposes
  PROVE  CycleInvariant' /\ Later(disk, disk')
<1> DEFINE t == Call("agent", attempt.digest, attempt.cycle, attempt.number, Files.handoff.rules)
<1>1. /\ attempt.pc = "agent" /\ tool = None /\ Files.handoff.state = "draftReady"
      /\ tool' = t
      /\ UNCHANGED <<disk, fetched, attempt, lease, remoteVars, worldVars, faults>>
  BY DEF AgentProposes
<1>2. /\ attempt \in Attempts /\ attempt # Free
      /\ attempt.cycle \in Cycles /\ attempt.digest \in Digests
      /\ attempt.number \in 0..MaxAttempts
      /\ Files # None /\ Files \in FilesOfCycle
  BY <1>1, AttemptTyped
<1>3. Files.handoff.rules \in Rules
  BY <1>1, <1>2 DEF FilesOfCycle, Handoff, InitialHandoff
<1>4. /\ t \in Calls /\ t # None /\ t.by = "agent" /\ t.step = "check"
      /\ t.digest = attempt.digest /\ t.cycle = attempt.cycle /\ t.number = attempt.number
      /\ t.rules = Files.handoff.rules
  BY <1>2, <1>3, NoneAssumption DEF Call, Calls
<1> HIDE DEF t
<1>5. DiskSound(disk)' /\ disk' \in Disks /\ Later(disk, disk')
  BY <1>1, DiskSame
<1>6. AnalysisTypeOK'
  BY <1>1, <1>4 DEF CycleInvariant, AnalysisTypeOK, remoteVars, worldVars
<1>7. LeaseSound' /\ FetchSound'
  BY <1>1, <1>2 DEF CycleInvariant, LeaseSound, FetchSound, Claimed, Open, worldVars
<1>8. AttemptSound'
  BY <1>1, <1>2, <1>4 DEF CycleInvariant, AttemptSound, Open, Files, OwnReservation
<1>9. ToolSound'
  <2>1. /\ lease.cycle = attempt.cycle /\ Files.digest = attempt.digest
        /\ Files.handoff.drafter < attempt.number
    BY <1>1, <1>2 DEF CycleInvariant, AttemptSound
  <2>2. Files.handoff.drafter \in Nat /\ attempt.number \in Nat
    BY <1>2 DEF FilesOfCycle, Handoff, InitialHandoff
  <2>3. disk'.cycles[t.cycle] = Files
    BY <1>1, <1>4 DEF Files
  <2> QED
    BY <1>1, <1>2, <1>4, <2>1, <2>2, <2>3 DEF ToolSound
<1> QED
  BY <1>5, <1>6, <1>7, <1>8, <1>9 DEF CycleInvariant

\* The session ends, or fails; the contract is read again.
LEMMA AttemptMovesStep ==
  ASSUME CycleInvariant,
         \/ \E kind \in Terminal : AgentFinishes(kind)
         \/ AttemptFails
         \/ Reread
  PROVE  CycleInvariant' /\ Later(disk, disk')
<1>1. /\ UNCHANGED <<disk, fetched, lease, tool, remoteVars, worldVars, faults>>
      /\ attempt.pc \in {"agent", "ended"}
  BY DEF AgentFinishes, AttemptFails, Reread
<1>2. /\ attempt \in Attempts /\ attempt # Free
      /\ attempt.cycle \in Cycles /\ attempt.digest \in Digests
      /\ attempt.number \in 0..MaxAttempts
      /\ Files # None /\ Files \in FilesOfCycle
      /\ disk.pointer = attempt.cycle /\ Files.outcome = None
  BY <1>1, AttemptTyped
<1> DEFINE Moved ==
      /\ attempt' \in Attempts
      /\ attempt'.cycle = attempt.cycle /\ attempt'.digest = attempt.digest
      /\ attempt'.number = attempt.number
      /\ \/ attempt'.pc = "settle" /\ attempt.pc = "agent"
         \/ /\ attempt'.pc = "ended" /\ attempt.pc = "agent" /\ tool = None
            /\ attempt'.outcome \in Outcomes
         \/ /\ attempt'.pc = "verdict" /\ attempt.pc = "ended"
            /\ attempt'.outcome \in {attempt.outcome, "superseded"}
<1>3. Moved
  <2>1. ASSUME NEW kind \in Terminal, AgentFinishes(kind)
        PROVE  Moved
    <3>1. /\ attempt' = [attempt EXCEPT !.pc = "ended", !.outcome = kind]
          /\ attempt.pc = "agent" /\ tool = None
      BY <2>1 DEF AgentFinishes
    <3>2. kind \in Outcomes
      BY DEF Outcomes
    <3> QED
      BY <1>2, <3>1, <3>2 DEF Attempts, Outcomes
  <2>2. CASE AttemptFails
    <3>1. attempt' = [attempt EXCEPT !.pc = "settle"] /\ attempt.pc = "agent"
      BY <2>2 DEF AttemptFails, Goto
    <3> QED
      BY <1>2, <3>1 DEF Attempts
  <2>3. CASE Reread
    <3> DEFINE o == IF current = attempt.digest THEN attempt.outcome ELSE "superseded"
    <3>1. o \in Outcomes \union {None}
      BY <1>2 DEF Attempts, Outcomes
    <3>2. attempt' = [attempt EXCEPT !.pc = "verdict", !.outcome = o] /\ attempt.pc = "ended"
      BY <2>3 DEF Reread
    <3>3. o \in {attempt.outcome, "superseded"}
      OBVIOUS
    <3> HIDE DEF o
    <3> QED
      BY <1>2, <3>1, <3>2, <3>3 DEF Attempts, Outcomes
  <2> QED
    BY <2>1, <2>2, <2>3
<1>4. DiskSound(disk)' /\ disk' \in Disks /\ Later(disk, disk')
  BY <1>1, DiskSame
<1>5. AnalysisTypeOK'
  BY <1>1, <1>3 DEF CycleInvariant, AnalysisTypeOK, remoteVars, worldVars
<1>6. attempt' # Free
  BY <1>3 DEF Attempts, Free
<1>7. LeaseSound' /\ FetchSound'
  BY <1>1, <1>6 DEF CycleInvariant, LeaseSound, FetchSound, Claimed, Open, worldVars
<1>8. AttemptSound'
  <2>1. Files' = Files
    BY <1>1, <1>3 DEF Files
  <2>2. Open(disk, attempt.cycle)'
    BY <1>1, <1>2, <1>3 DEF Open, Files
  <2>3. "superseded" \in Outcomes
    BY DEF Outcomes
  <2> HIDE DEF Files
  <2> QED
    BY <1>1, <1>2, <1>3, <2>1, <2>2, <2>3 DEF CycleInvariant, AttemptSound
<1>9. ToolSound'
  BY <1>1, <1>2, <1>3, <1>6 DEF CycleInvariant, ToolSound, AttemptSound, remoteVars
<1> QED
  BY <1>4, <1>5, <1>7, <1>8, <1>9 DEF CycleInvariant

\* Nothing of the attempt is left but what a call that outlives it holds.
LEMMA Relinquished ==
  ASSUME CycleInvariant, attempt # Free,
         DiskSound(disk)', Later(disk, disk'), Relinquish(tool),
         attempt.pc # "reconcile",
         tool # None /\ lease.cycle # None => Open(disk', lease.cycle) /\
            disk'.cycles[lease.cycle].manifest = disk.cycles[lease.cycle].manifest /\
            disk'.cycles[lease.cycle].pending = disk.cycles[lease.cycle].pending,
         UNCHANGED <<fetched, tool, remoteVars, worldVars>>,
         faults' \in 0..MaxFaults
  PROVE  CycleInvariant'
<1>1. attempt' = Free /\ lease' = (IF tool = None THEN NoLease ELSE lease)
  BY DEF Relinquish
<1>2. AnalysisTypeOK'
  <2>1. disk' \in Disks
    BY DEF DiskSound
  <2> QED
    BY <1>1, <2>1 DEF CycleInvariant, AnalysisTypeOK, Disks, NoLease, remoteVars, worldVars
<1>3. LeaseSound'
  <2>1. CASE tool = None
    BY <1>1, <2>1 DEF LeaseSound, NoLease
  <2>2. CASE tool # None
    BY <1>1, <2>2 DEF CycleInvariant, LeaseSound, Claimed, Open
  <2> QED
    BY <2>1, <2>2
<1>4. AttemptSound' /\ FetchSound'
  BY <1>1 DEF CycleInvariant, AttemptSound, FetchSound, worldVars
<1>5. ToolSound'
  <2>1. SUFFICES ASSUME tool # None PROVE ToolSound'
    BY DEF ToolSound
  <2>2. tool \in Calls /\ tool.cycle \in Cycles /\ disk.cycles[tool.cycle] # None
    BY <2>1, ToolTyped
  <2>3. /\ disk'.cycles[tool.cycle] # None
        /\ Kept(disk.cycles[tool.cycle], disk'.cycles[tool.cycle])
    BY <2>2 DEF Later
  <2>4. disk.cycles[tool.cycle].proposal # None => disk'.cycles[tool.cycle].proposal # None
    BY <2>3 DEF Kept
  <2>5. tool.by = "agent"
    BY <2>1, <2>2 DEF CycleInvariant, ToolSound, Calls
  <2>6. disk'.cycles[tool.cycle].handoff = disk.cycles[tool.cycle].handoff
    BY <2>1, <2>3 DEF Kept
  <2>7. lease' = lease
    BY <1>1, <2>1
  <2> QED
    BY <1>1, <2>1, <2>2, <2>3, <2>4, <2>5, <2>6, <2>7 DEF CycleInvariant, ToolSound, Kept, remoteVars, Free
<1> QED
  BY <1>2, <1>3, <1>4, <1>5 DEF CycleInvariant

\* The attempt goes on to settle what it reserved.
LEMMA GoneToSettle ==
  ASSUME CycleInvariant, attempt # Free, attempt.number # 0,
         DiskSound(disk)', Later(disk, disk'), Goto("settle"),
         lease' \in {lease, NoLease},
         lease'.cycle # None =>
            /\ Open(disk', lease.cycle)
            /\ disk'.cycles[lease.cycle].manifest = disk.cycles[lease.cycle].manifest
            /\ disk'.cycles[lease.cycle].pending = disk.cycles[lease.cycle].pending,
         UNCHANGED <<fetched, tool, remoteVars, worldVars>>,
         faults' \in 0..MaxFaults
  PROVE  CycleInvariant'
<1>1. /\ attempt \in Attempts /\ attempt.cycle \in Cycles
      /\ attempt' = [attempt EXCEPT !.pc = "settle"]
      /\ attempt' \in Attempts /\ attempt'.cycle = attempt.cycle
      /\ attempt'.digest = attempt.digest /\ attempt'.number = attempt.number
      /\ attempt'.pc = "settle"
      /\ Files # None
  <2>1. attempt \in Attempts
    BY DEF CycleInvariant, AnalysisTypeOK
  <2>2. attempt' = [attempt EXCEPT !.pc = "settle"]
    BY DEF Goto
  <2>3. attempt.cycle \in Cycles /\ Files # None
    BY <2>1 DEF Attempts, CycleInvariant, AttemptSound
  <2> QED
    BY <2>1, <2>2, <2>3, GotoTyped
<1>2. attempt' # Free
  BY <1>1 DEF Attempts, Free
<1>3. disk' \in Disks
  BY DEF DiskSound
<1>4. AnalysisTypeOK'
  <2>1. lease' \in [cycle : Cycles \union {None}, writable : BOOLEAN]
    <3>1. NoLease \in [cycle : Cycles \union {None}, writable : BOOLEAN]
      BY DEF NoLease
    <3>2. lease \in [cycle : Cycles \union {None}, writable : BOOLEAN]
      BY DEF CycleInvariant, AnalysisTypeOK
    <3> QED
      BY <3>1, <3>2
  <2> QED
    BY <1>1, <1>3, <2>1 DEF CycleInvariant, AnalysisTypeOK, Disks, remoteVars, worldVars
<1>5. LeaseSound'
  <2>1. CASE lease' = NoLease
    BY <2>1 DEF LeaseSound, NoLease
  <2>2. CASE lease' = lease
    BY <1>2, <2>2 DEF CycleInvariant, LeaseSound, Claimed, Open
  <2> QED
    BY <2>1, <2>2
<1>6. FetchSound'
  BY DEF CycleInvariant, FetchSound, worldVars
<1>7. AttemptSound'
  <2>1. Files' # None /\ Files'.digest = Files.digest
    BY <1>1 DEF Later, Kept, Files
  <2>2. Files.digest = attempt.digest
    BY DEF CycleInvariant, AttemptSound
  <2> HIDE DEF Files
  <2> QED
    BY <1>1, <2>1, <2>2 DEF AttemptSound
<1>8. ToolSound'
  <2>1. SUFFICES ASSUME tool # None PROVE ToolSound'
    BY DEF ToolSound
  <2>2. tool \in Calls /\ tool.cycle \in Cycles /\ disk.cycles[tool.cycle] # None
    BY <2>1, ToolTyped
  <2>3. /\ disk'.cycles[tool.cycle] # None
        /\ Kept(disk.cycles[tool.cycle], disk'.cycles[tool.cycle])
    BY <2>2 DEF Later
  <2>4. disk.cycles[tool.cycle].proposal # None => disk'.cycles[tool.cycle].proposal # None
    BY <2>3 DEF Kept
  <2>5. attempt.cycle = tool.cycle /\ attempt.number = tool.number
    BY <2>1 DEF CycleInvariant, ToolSound
  <2>6. tool.by # "reconcile"
    BY <2>1 DEF CycleInvariant, ToolSound, AttemptSound
  <2>7. disk'.cycles[tool.cycle].handoff = disk.cycles[tool.cycle].handoff
    BY <2>1, <2>3 DEF Kept
  <2>8. lease'.cycle \in {None, tool.cycle}
    BY <2>1 DEF CycleInvariant, ToolSound, NoLease
  <2> QED
    BY <1>1, <2>1, <2>2, <2>3, <2>4, <2>5, <2>6, <2>7, <2>8 DEF CycleInvariant, ToolSound, Kept, remoteVars
<1> QED
  BY <1>4, <1>5, <1>6, <1>7, <1>8 DEF CycleInvariant

\* The verdict cannot be reached.
LEMMA ConcludeFailsStep ==
  ASSUME CycleInvariant, ConcludeFails
  PROVE  CycleInvariant' /\ Later(disk, disk')
<1>1. /\ attempt.pc \in {"ended", "verdict", "yielding"}
      /\ UNCHANGED <<disk, fetched, tool, remoteVars, worldVars>>
      /\ faults' \in 0..MaxFaults
      /\ \/ attempt.number = 0 /\ Relinquish(tool)
         \/ attempt.number # 0 /\ Goto("settle") /\ lease' = lease
  BY CycleAssumption
     DEF ConcludeFails, Return, Fault, CycleInvariant, AnalysisTypeOK, CycleAssumption
<1>2. attempt # Free
  BY <1>1 DEF Free
<1>3. DiskSound(disk)' /\ Later(disk, disk')
  BY <1>1, DiskSame
<1>4. lease.cycle # None =>
        /\ Open(disk', lease.cycle)
        /\ disk'.cycles[lease.cycle].manifest = disk.cycles[lease.cycle].manifest
        /\ disk'.cycles[lease.cycle].pending = disk.cycles[lease.cycle].pending
  BY <1>1 DEF CycleInvariant, LeaseSound
<1>5. CASE attempt.number = 0 /\ Relinquish(tool)
  BY <1>1, <1>2, <1>3, <1>4, <1>5, Relinquished
<1>6. CASE attempt.number # 0 /\ Goto("settle") /\ lease' = lease
  BY <1>1, <1>2, <1>3, <1>4, <1>6, GoneToSettle
<1> QED
  BY <1>1, <1>3, <1>5, <1>6

\* The workflow hands the cycle over to the next attempt.
LEMMA HandsOffStep ==
  ASSUME CycleInvariant, NEW to \in Handoff, AgentHandsOff(to)
  PROVE  CycleInvariant' /\ Later(disk, disk')
<1> DEFINE c == attempt.cycle
           f == disk.cycles[c]
           ws == RecordHandoff(disk, c, to)
           E == Last(ws)
           g == E.cycles[c]
<1>1. /\ attempt.pc = "agent" /\ tool = None /\ lease.writable
      /\ Transition(Files.handoff, to)
      /\ UNCHANGED worldVars
      /\ \/ /\ disk' = E /\ Goto("settle")
            /\ UNCHANGED <<fetched, lease, tool, remoteVars, faults>>
         \/ \E k \in 1..(Len(ws) - 1) :
              /\ disk' \in {ws[k], LeaveTemporary(ws[k], ws[k + 1])}
              /\ \A b \in Cycles : ws[k].cycles[b] # None => disk'.cycles[b].strays <= MaxStrays
              /\ Die /\ UNCHANGED remoteVars
  BY DEF AgentHandsOff, Durably
<1>2. /\ attempt \in Attempts /\ attempt # Free /\ c \in Cycles
      /\ f # None /\ f \in FilesOfCycle /\ disk.pointer = c /\ f.outcome = None
      /\ Files = f /\ attempt.number \in Nat
  BY <1>1, AttemptTyped DEF Files
<1>3. lease.cycle = c /\ c # None /\ f.manifest = None /\ f.pending = None
  <2>1. lease.cycle = c
    BY <1>1, <1>2 DEF CycleInvariant, AttemptSound
  <2>2. c # None
    BY <1>2, WorkspaceAssumption DEF WorkspaceAssumption
  <2> QED
    BY <1>1, <2>1, <2>2 DEF CycleInvariant, LeaseSound
<1>4. to.drafter <= f.attempts
  <2>1. f.attempts = attempt.number /\ attempt.number # 0
    BY <1>1, <1>2 DEF CycleInvariant, AttemptSound
  <2>2. f.handoff.drafter <= f.attempts
    BY <1>2 DEF CycleInvariant, DiskSound, CycleSound
  <2>3. to.drafter \in {f.handoff.drafter, attempt.number}
    <3>1. f.handoff \in Handoff
      BY <1>2 DEF FilesOfCycle
    <3> HIDE DEF f
    <3> QED
      BY <1>1, <1>2, <3>1 DEF Transition, Handoff, InitialHandoff
  <2> QED
    BY <1>2, <2>1, <2>2, <2>3
<1>5. /\ Journal(disk, ws) /\ DiskSound(E) /\ Later(disk, E)
      /\ E.pointer = c /\ g # None
      /\ HandedOff(f, g, to)
  <2>1. DiskSound(disk) /\ now \in Times
    BY DEF CycleInvariant, AnalysisTypeOK
  <2> QED
    BY <1>1, <1>2, <1>3, <1>4, <2>1, HandingOff
<1>6. g.manifest = f.manifest /\ g.pending = f.pending /\ g.outcome = f.outcome
  <2> HIDE DEF f, g
  <2> QED
    BY <1>2, <1>5 DEF FilesOfCycle, HandedOff
<1>7. CASE disk' = E /\ Goto("settle") /\ UNCHANGED <<fetched, lease, tool, remoteVars, faults>>
  <2>1. DiskSound(disk)'
    BY <1>1, <1>5, <1>7, DiskPrimed
  <2>2. attempt.number # 0 /\ faults' \in 0..MaxFaults /\ lease' = lease
    BY <1>1, <1>2, <1>7 DEF CycleInvariant, AttemptSound, AnalysisTypeOK
  <2>3. /\ Open(disk', lease.cycle)
        /\ disk'.cycles[lease.cycle].manifest = disk.cycles[lease.cycle].manifest
        /\ disk'.cycles[lease.cycle].pending = disk.cycles[lease.cycle].pending
    BY <1>2, <1>3, <1>5, <1>6, <1>7 DEF Open
  <2> HIDE DEF E, ws, f, g, c
  <2>4. Later(disk, disk') /\ UNCHANGED <<fetched, tool, remoteVars, worldVars>>
    BY <1>1, <1>5, <1>7
  <2> QED
    BY <1>2, <1>7, <2>1, <2>2, <2>3, <2>4, GoneToSettle
<1>8. ASSUME NEW k \in 1..(Len(ws) - 1),
             disk' \in {ws[k], LeaveTemporary(ws[k], ws[k + 1])},
             \A b \in Cycles : ws[k].cycles[b] # None => disk'.cycles[b].strays <= MaxStrays,
             Die, UNCHANGED remoteVars
      PROVE  CycleInvariant' /\ Later(disk, disk')
  <2> HIDE DEF E, ws, f, g, c
  <2> QED
    BY <1>1, <1>5, <1>8, CrashesDurably
<1> QED
  BY <1>1, <1>7, <1>8

\* Another contract is found while the agent works.
LEMMA PollStep ==
  ASSUME CycleInvariant, Poll
  PROVE  CycleInvariant' /\ Later(disk, disk')
<1> DEFINE c == attempt.cycle
           f == disk.cycles[c]
           E == MarkSuperseding(disk, c)
           g == E.cycles[c]
           ws == <<disk, E>>
<1>1. /\ attempt.pc = "agent" /\ UNCHANGED worldVars
      /\ \/ /\ disk' = Last(ws)
            /\ attempt' = [attempt EXCEPT !.pc = "yielding", !.outcome = "superseded"]
            /\ UNCHANGED <<fetched, lease, tool, remoteVars, faults>>
         \/ \E k \in 1..(Len(ws) - 1) :
              /\ disk' \in {ws[k], LeaveTemporary(ws[k], ws[k + 1])}
              /\ \A b \in Cycles : ws[k].cycles[b] # None => disk'.cycles[b].strays <= MaxStrays
              /\ Die /\ UNCHANGED remoteVars
  BY DEF Poll, Durably
<1>2. /\ attempt \in Attempts /\ attempt # Free /\ c \in Cycles
      /\ f # None /\ f \in FilesOfCycle /\ disk.pointer = c /\ f.outcome = None
      /\ Files = f
  BY <1>1, AttemptTyped DEF Files
<1>3. E = Marked(disk, c, "superseding")
  BY DEF MarkSuperseding, Marked
<1>4. DiskSound(disk) /\ now \in Nat
  BY DEF CycleInvariant, AnalysisTypeOK, Times
<1> HIDE DEF E
<1>5. /\ DiskSound(E) /\ Later(disk, E)
      /\ E.pointer = c /\ g # None /\ Others(disk, E, c)
      /\ g.digest = f.digest /\ g.outcome = f.outcome /\ g.manifest = f.manifest
      /\ g.handoff = f.handoff /\ g.pending = f.pending
      /\ g.attempts = f.attempts /\ g.reservation = f.reservation
  BY <1>2, <1>3, <1>4, Marking
<1>6. Journal(disk, ws) /\ Last(ws) = E
  BY <1>4, <1>5, TwoDisks
<1> HIDE DEF ws
<1>7. CASE /\ disk' = E
           /\ attempt' = [attempt EXCEPT !.pc = "yielding", !.outcome = "superseded"]
           /\ UNCHANGED <<fetched, lease, tool, remoteVars, faults>>
  <2>1. DiskSound(disk)'
    BY <1>1, <1>5, <1>7, DiskPrimed
  <2>2. /\ attempt' \in Attempts /\ attempt'.pc = "yielding" /\ attempt'.outcome = "superseded"
        /\ attempt'.cycle = c /\ attempt'.number = attempt.number
        /\ attempt'.digest = attempt.digest /\ attempt' # Free
    BY <1>2, <1>7 DEF Attempts, Free
  <2>3. AnalysisTypeOK'
    BY <1>1, <1>5, <1>7, <2>2 DEF CycleInvariant, AnalysisTypeOK, DiskSound, Disks, remoteVars, worldVars
  <2>4. lease.cycle = c
    BY <1>1, <1>2 DEF CycleInvariant, AttemptSound
  <2>5. LeaseSound'
    BY <1>2, <1>5, <1>7, <2>2, <2>4 DEF CycleInvariant, LeaseSound, Claimed, Open
  <2>6. FetchSound'
    BY <1>1, <1>7 DEF CycleInvariant, FetchSound, worldVars
  <2>7. Files' = g /\ Open(disk, attempt.cycle)'
    BY <1>2, <1>5, <1>7, <2>2 DEF Files, Open
  <2>8. OwnReservation(g, attempt.number) <=> OwnReservation(f, attempt.number)
    BY <1>5 DEF OwnReservation
  <2>9. tool # None => tool.cycle = c
    BY <1>2 DEF CycleInvariant, ToolSound
  <2>10. /\ tool # None => g.proposal # None \/ f.proposal = None
         /\ attempt.number # 0
    BY <1>1, <1>2, <1>5 DEF Later, Kept, CycleInvariant, AttemptSound
  <2>11. "superseded" \in Outcomes
    BY DEF Outcomes
  <2>12. ToolSound'
    BY <1>1, <1>2, <1>5, <1>7, <2>2, <2>9, <2>10 DEF CycleInvariant, ToolSound, remoteVars
  <2> HIDE DEF f, g
  <2>13. AttemptSound'
    BY <1>1, <1>2, <1>5, <1>7, <2>2, <2>4, <2>7, <2>8, <2>10, <2>11 DEF CycleInvariant, AttemptSound
  <2> QED
    BY <1>5, <1>7, <2>1, <2>3, <2>5, <2>6, <2>12, <2>13 DEF CycleInvariant
<1>8. ASSUME NEW k \in 1..(Len(ws) - 1),
             disk' \in {ws[k], LeaveTemporary(ws[k], ws[k + 1])},
             \A b \in Cycles : ws[k].cycles[b] # None => disk'.cycles[b].strays <= MaxStrays,
             Die, UNCHANGED remoteVars
      PROVE  CycleInvariant' /\ Later(disk, disk')
  BY <1>1, <1>6, <1>8, CrashesDurably
<1> QED
  BY <1>1, <1>6, <1>7, <1>8 DEF ws

\* What went on from a later disk goes on from the earlier one.
LEMMA JournalFrom ==
  ASSUME NEW D, NEW E, Later(D, E), NEW ws, Journal(E, ws)
  PROVE  Journal(D, ws) /\ Later(D, Last(ws))
<1>1. \A k \in 1..Len(ws) : Later(D, ws[k])
  BY LaterTransitive DEF Journal, Writes
<1>2. Later(D, Last(ws))
  BY LastWrite, LaterTransitive
<1> QED
  BY <1>1, <1>2 DEF Journal, Writes

\* The end of an attempt: the outcome is journaled, or refused.
LEMMA Concluding ==
  ASSUME NEW D, DiskSound(D), NEW E, DiskSound(E), Later(D, E), now \in Times,
         NEW c \in Cycles, E.pointer = c, E.cycles[c] # None, E.cycles[c].outcome = None,
         NEW kind \in Outcomes
  PROVE  LET ws == <<D>> \o Completion(E, c, kind)
         IN /\ Journal(D, ws) /\ DiskSound(Last(ws)) /\ Later(D, Last(ws))
            /\ IF CanComplete(E, c, kind) THEN Last(ws).pointer = None ELSE Last(ws) = E
<1> DEFINE t == Completion(E, c, kind)
           ws == <<D>> \o t
<1>1. Journal(D, <<D>>) /\ Last(<<D>>) = D
  BY StartOf
<1>2. CASE CanComplete(E, c, kind)
  <2>1. t = CompleteCycle(E, c, kind, now)
    BY <1>2 DEF Completion
  <2>2. Journal(E, t) /\ Last(t).pointer = None
    BY <1>2, <2>1, Completing
  <2> HIDE DEF t
  <2>3. Journal(D, t) /\ Writes(Last(<<D>>), t) /\ After(Last(<<D>>), t) = Last(t)
    BY <1>1, <2>2, JournalFrom, LastWrite DEF Journal
  <2>4. Journal(D, ws) /\ Last(ws) = Last(t)
    BY <1>1, <2>3, ThenWrites
  <2> QED
    BY <1>2, <2>2, <2>4, LastWrite DEF t
<1>3. CASE ~CanComplete(E, c, kind)
  <2>1. t = <<E>>
    BY <1>3 DEF Completion
  <2> HIDE DEF t
  <2>2. Journal(D, ws) /\ Last(ws) = E
    BY <1>1, <2>1, ThenWrite
  <2> QED
    BY <1>3, <2>2 DEF t
<1> QED
  BY <1>2, <1>3

\* The outcome is journaled, and the lease of a completed cycle cleared.
LEMMA ConcludeStep ==
  ASSUME CycleInvariant, Conclude
  PROVE  CycleInvariant' /\ Later(disk, disk')
<1> DEFINE c == attempt.cycle
           f == disk.cycles[c]
           E == IF attempt.outcome = "superseded" THEN MarkSuperseding(disk, c) ELSE disk
           ws == <<disk>> \o Completion(E, c, attempt.outcome)
<1>1. /\ attempt.pc \in {"verdict", "yielding"} /\ UNCHANGED worldVars
      /\ \/ /\ disk' = Last(ws)
            /\ IF attempt.number = 0 THEN Relinquish(tool)
               ELSE Goto("settle") /\ lease' = ClearActiveState(c, attempt.outcome)
            /\ UNCHANGED <<fetched, tool, remoteVars, faults>>
         \/ \E k \in 1..(Len(ws) - 1) :
              /\ disk' \in {ws[k], LeaveTemporary(ws[k], ws[k + 1])}
              /\ \A b \in Cycles : ws[k].cycles[b] # None => disk'.cycles[b].strays <= MaxStrays
              /\ Die /\ UNCHANGED remoteVars
  BY DEF Conclude, Durably
<1>2. /\ attempt \in Attempts /\ attempt # Free /\ c \in Cycles
      /\ f # None /\ f \in FilesOfCycle /\ disk.pointer = c /\ f.outcome = None
  BY <1>1, AttemptTyped DEF Files
<1>3. attempt.outcome \in Outcomes
  BY <1>1, <1>2 DEF CycleInvariant, AttemptSound
<1>4. DiskSound(disk) /\ now \in Times /\ now \in Nat
  BY DEF CycleInvariant, AnalysisTypeOK, Times
<1>5. /\ DiskSound(E) /\ Later(disk, E)
      /\ E.pointer = c /\ E.cycles[c] # None
      /\ E.cycles[c].outcome = None /\ E.cycles[c].manifest = f.manifest
      /\ E.cycles[c].pending = f.pending
      /\ E.cycles[c].candidate = f.candidate
      /\ BuildManifest(E.cycles[c]) = BuildManifest(f)
  <2>1. CASE attempt.outcome = "superseded"
    <3>1. E = Marked(disk, c, "superseding")
      BY <2>1 DEF MarkSuperseding, Marked
    <3> HIDE DEF E
    <3> QED
      BY <1>2, <1>4, <3>1, Marking
  <2>2. CASE attempt.outcome # "superseded"
    BY <1>2, <1>4, <2>2, LaterReflexive
  <2> QED
    BY <2>1, <2>2
<1>6. CanComplete(E, c, attempt.outcome) <=> CanComplete(disk, c, attempt.outcome)
  BY <1>5 DEF CanComplete, Verified
<1> HIDE DEF E
<1>7. /\ Journal(disk, ws) /\ DiskSound(Last(ws)) /\ Later(disk, Last(ws))
      /\ IF CanComplete(E, c, attempt.outcome) THEN Last(ws).pointer = None ELSE Last(ws) = E
  BY <1>2, <1>3, <1>4, <1>5, Concluding
<1> HIDE DEF ws
<1>8. CASE /\ disk' = Last(ws)
           /\ IF attempt.number = 0 THEN Relinquish(tool)
              ELSE Goto("settle") /\ lease' = ClearActiveState(c, attempt.outcome)
           /\ UNCHANGED <<fetched, tool, remoteVars, faults>>
  <2>1. DiskSound(disk)' /\ Later(disk, disk')
    BY <1>1, <1>7, <1>8, DiskPrimed
  <2>2. faults' \in 0..MaxFaults
    BY <1>8 DEF CycleInvariant, AnalysisTypeOK
  <2>3. CASE attempt.number = 0
    <3>1. tool = None /\ Relinquish(tool) /\ attempt.pc # "reconcile"
      BY <1>1, <1>2, <1>8, <2>3 DEF CycleInvariant, AttemptSound
    <3> QED
      BY <1>1, <1>2, <1>8, <2>1, <2>2, <3>1, Relinquished
  <2>4. CASE attempt.number # 0
    <3>1. lease' \in {lease, NoLease} /\ Goto("settle")
      BY <1>8, <2>4 DEF ClearActiveState
    <3>2. ASSUME lease'.cycle # None
          PROVE  /\ Open(disk', lease.cycle)
                 /\ disk'.cycles[lease.cycle].manifest = disk.cycles[lease.cycle].manifest
                 /\ disk'.cycles[lease.cycle].pending = disk.cycles[lease.cycle].pending
      <4>1. lease' = lease /\ ~CanComplete(disk, c, attempt.outcome)
        BY <1>8, <2>4, <3>2 DEF ClearActiveState, NoLease
      <4>2. disk' = E /\ lease.cycle = c
        BY <1>2, <1>6, <1>7, <1>8, <3>2, <4>1 DEF CycleInvariant, LeaseSound, Open
      <4> QED
        BY <1>5, <4>2 DEF Open
    <3> QED
      BY <1>1, <1>2, <1>8, <2>1, <2>2, <2>4, <3>1, <3>2, GoneToSettle
  <2> QED
    BY <2>1, <2>3, <2>4
<1>9. ASSUME NEW k \in 1..(Len(ws) - 1),
             disk' \in {ws[k], LeaveTemporary(ws[k], ws[k + 1])},
             \A b \in Cycles : ws[k].cycles[b] # None => disk'.cycles[b].strays <= MaxStrays,
             Die, UNCHANGED remoteVars
      PROVE  CycleInvariant' /\ Later(disk, disk')
  BY <1>1, <1>7, <1>9, CrashesDurably
<1> QED
  BY <1>1, <1>8, <1>9

\* The attempt settles its reservation and gives up the workspace.
LEMMA SettleStep ==
  ASSUME CycleInvariant, Settle
  PROVE  CycleInvariant' /\ Later(disk, disk')
<1> DEFINE c == attempt.cycle
           f == disk.cycles[c]
<1>1. attempt.pc = "settle" /\ UNCHANGED worldVars
  BY DEF Settle
<1>2. /\ attempt \in Attempts /\ attempt # Free /\ c \in Cycles /\ attempt.pc # "reconcile"
      /\ f # None /\ f \in FilesOfCycle /\ Files = f
  BY <1>1, AttemptTyped DEF Files
<1>3. DiskSound(disk) /\ now \in Times /\ faults \in 0..MaxFaults
  BY DEF CycleInvariant, AnalysisTypeOK
<1>4. lease.cycle # None => Open(disk, lease.cycle)
  BY DEF CycleInvariant, LeaseSound
<1>5. CASE ~OwnReservation(Files, attempt.number)
  <2>1. Relinquish(tool) /\ UNCHANGED <<disk, fetched, tool, remoteVars, faults>>
    BY <1>5 DEF Settle
  <2>2. DiskSound(disk)' /\ Later(disk, disk')
    BY <1>1, <2>1, DiskSame
  <2> QED
    BY <1>1, <1>2, <1>3, <1>4, <2>1, <2>2, Relinquished
<1>6. CASE OwnReservation(Files, attempt.number)
  <2>1. PICK elapsed \in 0..f.reservation.time :
          Durably(SettleAttempt(disk, c, elapsed),
                  Relinquish(tool) /\ UNCHANGED <<fetched, tool, remoteVars, faults>>)
    BY <1>2, <1>6 DEF Settle
  <2> DEFINE ws == SettleAttempt(disk, c, elapsed)
             E == Last(ws)
             g == E.cycles[c]
  <2>2. \/ disk' = E /\ Relinquish(tool) /\ UNCHANGED <<fetched, tool, remoteVars, faults>>
        \/ \E k \in 1..(Len(ws) - 1) :
             /\ disk' \in {ws[k], LeaveTemporary(ws[k], ws[k + 1])}
             /\ \A b \in Cycles : ws[k].cycles[b] # None => disk'.cycles[b].strays <= MaxStrays
             /\ Die /\ UNCHANGED remoteVars
    BY <2>1 DEF Durably
  <2>3. f.reservation # None
    BY <1>2, <1>6 DEF OwnReservation
  <2>4. /\ Journal(disk, ws) /\ DiskSound(E) /\ Later(disk, E)
        /\ E.pointer = disk.pointer /\ Refunded(f, g) /\ Others(disk, E, c)
    BY <1>2, <1>3, <2>3, Settling
  <2> HIDE DEF ws, E
  <2>5. /\ g.outcome = f.outcome /\ g.manifest = f.manifest /\ g.pending = f.pending
    <3> HIDE DEF f, g
    <3> QED
      BY <1>2, <2>4 DEF FilesOfCycle, Refunded
  <2>6. CASE disk' = E /\ Relinquish(tool) /\ UNCHANGED <<fetched, tool, remoteVars, faults>>
    <3>1. DiskSound(disk)' /\ Later(disk, disk')
      BY <1>1, <2>4, <2>6, DiskPrimed
    <3>2. ASSUME lease.cycle # None
          PROVE  /\ Open(disk', lease.cycle)
                 /\ disk'.cycles[lease.cycle].manifest = disk.cycles[lease.cycle].manifest
                 /\ disk'.cycles[lease.cycle].pending = disk.cycles[lease.cycle].pending
      <4>1. lease.cycle \in Cycles
        BY <3>2 DEF CycleInvariant, AnalysisTypeOK
      <4> QED
        BY <1>4, <2>4, <2>5, <2>6, <3>2, <4>1 DEF Open, Others
    <3> QED
      BY <1>1, <1>2, <1>3, <2>6, <3>1, <3>2, Relinquished
  <2>7. ASSUME NEW k \in 1..(Len(ws) - 1),
               disk' \in {ws[k], LeaveTemporary(ws[k], ws[k + 1])},
               \A b \in Cycles : ws[k].cycles[b] # None => disk'.cycles[b].strays <= MaxStrays,
               Die, UNCHANGED remoteVars
        PROVE  CycleInvariant' /\ Later(disk, disk')
    BY <1>1, <2>4, <2>7, CrashesDurably
  <2> QED
    BY <2>2, <2>6, <2>7
<1> QED
  BY <1>5, <1>6

\* A completion that goes through, or writes nothing.
LEMMA CompletionWrites ==
  ASSUME NEW D, DiskSound(D), now \in Times,
         NEW c \in Cycles, D.pointer = c, D.cycles[c] # None, D.cycles[c].outcome = None,
         NEW kind \in Outcomes
  PROVE  Writes(D, Completion(D, c, kind))
<1>1. CASE CanComplete(D, c, kind)
  BY <1>1, Completing DEF Completion, Journal
<1>2. CASE ~CanComplete(D, c, kind)
  BY <1>2, StartOf DEF Completion, Journal
<1> QED
  BY <1>1, <1>2

\* The claim is free, and the contract that was read is current unless another
\* was deployed.
LEMMA ClaimFree ==
  ASSUME CycleInvariant, NEW w \in Workers, Claim(w)
  PROVE  /\ attempt = Free /\ tool = None /\ lease.cycle = None /\ ~lease.writable
         /\ fetched[w] \in Digests /\ (deploys = 0 => fetched[w] = current)
         /\ now \in Times /\ DiskSound(disk)
         /\ UNCHANGED worldVars
         /\ LET ws == PrepareCycle(disk, fetched[w], now)
            IN /\ Journal(disk, ws) /\ DiskSound(Last(ws)) /\ Later(disk, Last(ws))
               /\ Serves(Last(ws), fetched[w])
<1>1. /\ fetched[w] # None /\ attempt = Free /\ tool = None /\ UNCHANGED worldVars
  BY DEF Claim, Claimed
<1>2. lease.cycle = None /\ ~lease.writable
  BY <1>1 DEF CycleInvariant, LeaseSound, Claimed
<1>3. fetched[w] \in Digests /\ (deploys = 0 => fetched[w] = current)
  BY <1>1 DEF CycleInvariant, AnalysisTypeOK, FetchSound
<1>4. now \in Times /\ DiskSound(disk)
  BY DEF CycleInvariant, AnalysisTypeOK
<1>5. LET ws == PrepareCycle(disk, fetched[w], now)
      IN /\ Journal(disk, ws) /\ DiskSound(Last(ws)) /\ Later(disk, Last(ws))
         /\ Serves(Last(ws), fetched[w])
  BY <1>3, <1>4, Preparing
<1> QED
  BY <1>1, <1>2, <1>3, <1>4, <1>5

\* The worker goes on with what it has read.
LEMMA FetchTaken ==
  ASSUME CycleInvariant, NEW w \in Workers, Took(w), UNCHANGED worldVars
  PROVE  FetchSound' /\ fetched' \in [Workers -> Digests \union {None}]
  BY DEF CycleInvariant, AnalysisTypeOK, FetchSound, Took, worldVars

\* A claim that leaves the workspace free.
LEMMA ClaimGivenUp ==
  ASSUME CycleInvariant, NEW w \in Workers, Claim(w), DiskSound(disk'),
         Took(w), UNCHANGED <<claimVars, remoteVars, faults>>
  PROVE  CycleInvariant'
<1>1. /\ attempt = Free /\ tool = None /\ lease.cycle = None /\ ~lease.writable
      /\ UNCHANGED worldVars
  BY ClaimFree
<1>2. DiskSound(disk)' /\ FetchSound' /\ fetched' \in [Workers -> Digests \union {None}]
  BY <1>1, DiskPrimed, FetchTaken
<1>3. AnalysisTypeOK'
  BY <1>1, <1>2 DEF CycleInvariant, AnalysisTypeOK, DiskSound, Disks, claimVars, remoteVars, worldVars
<1>4. LeaseSound' /\ AttemptSound' /\ ToolSound'
  BY <1>1 DEF LeaseSound, AttemptSound, ToolSound, claimVars
<1> QED
  BY <1>2, <1>3, <1>4 DEF CycleInvariant

\* The four ends of a claim: no cycle is due,
LEMMA NotEligibleStep ==
  ASSUME CycleInvariant, NEW w \in Workers, Claim(w),
         NotEligible(w, PrepareCycle(disk, fetched[w], now))
  PROVE  CycleInvariant' /\ Later(disk, disk')
<1> DEFINE ws == PrepareCycle(disk, fetched[w], now)
<1>1. /\ Journal(disk, ws) /\ DiskSound(Last(ws)) /\ Later(disk, Last(ws))
      /\ UNCHANGED worldVars
  BY ClaimFree
<1> HIDE DEF ws
<1>2. \/ disk' = Last(ws) /\ Took(w) /\ UNCHANGED <<claimVars, remoteVars, faults>>
      \/ \E k \in 1..(Len(ws) - 1) :
           /\ disk' \in {ws[k], LeaveTemporary(ws[k], ws[k + 1])}
           /\ \A b \in Cycles : ws[k].cycles[b] # None => disk'.cycles[b].strays <= MaxStrays
           /\ Die /\ UNCHANGED remoteVars
  BY DEF NotEligible, Durably, ws
<1>3. CASE disk' = Last(ws) /\ Took(w) /\ UNCHANGED <<claimVars, remoteVars, faults>>
  BY <1>1, <1>3, ClaimGivenUp
<1>4. ASSUME NEW k \in 1..(Len(ws) - 1),
             disk' \in {ws[k], LeaveTemporary(ws[k], ws[k + 1])},
             \A b \in Cycles : ws[k].cycles[b] # None => disk'.cycles[b].strays <= MaxStrays,
             Die, UNCHANGED remoteVars
      PROVE  CycleInvariant' /\ Later(disk, disk')
  BY <1>1, <1>4, CrashesDurably
<1> QED
  BY <1>2, <1>3, <1>4

\* the limits of the cycle are used up,
LEMMA LimitExceededStep ==
  ASSUME CycleInvariant, NEW w \in Workers, Claim(w),
         LimitExceeded(w, PrepareCycle(disk, fetched[w], now))
  PROVE  CycleInvariant' /\ Later(disk, disk')
<1> DEFINE ps == PrepareCycle(disk, fetched[w], now)
           c == Last(ps).pointer
           t == Completion(Last(ps), c, "failure")
           ws == ps \o t
<1>1. /\ Journal(disk, ps) /\ DiskSound(Last(ps)) /\ Serves(Last(ps), fetched[w])
      /\ UNCHANGED worldVars /\ now \in Times
  BY ClaimFree
<1>2. c # None
  BY DEF LimitExceeded
<1>3. \/ disk' = Last(ws) /\ Took(w) /\ UNCHANGED <<claimVars, remoteVars, faults>>
      \/ \E k \in 1..(Len(ws) - 1) :
           /\ disk' \in {ws[k], LeaveTemporary(ws[k], ws[k + 1])}
           /\ \A b \in Cycles : ws[k].cycles[b] # None => disk'.cycles[b].strays <= MaxStrays
           /\ Die /\ UNCHANGED remoteVars
  BY DEF LimitExceeded, Durably
<1> HIDE DEF ps
<1>4. Writes(Last(ps), t)
  <2>1. "failure" \in Outcomes
    BY DEF Outcomes, Terminal
  <2>2. /\ c \in Cycles /\ Last(ps).cycles[c] # None /\ Last(ps).cycles[c].outcome = None
    BY <1>1, <1>2 DEF Serves
  <2> QED
    BY <1>1, <2>1, <2>2, CompletionWrites
<1> HIDE DEF t
<1>5. Journal(disk, ws)
  BY <1>1, <1>4, ThenWrites
<1> HIDE DEF ws
<1>6. DiskSound(Last(ws)) /\ Later(disk, Last(ws))
  BY <1>5, LastWrite
<1>7. CASE disk' = Last(ws) /\ Took(w) /\ UNCHANGED <<claimVars, remoteVars, faults>>
  BY <1>6, <1>7, ClaimGivenUp
<1>8. ASSUME NEW k \in 1..(Len(ws) - 1),
             disk' \in {ws[k], LeaveTemporary(ws[k], ws[k + 1])},
             \A b \in Cycles : ws[k].cycles[b] # None => disk'.cycles[b].strays <= MaxStrays,
             Die, UNCHANGED remoteVars
      PROVE  CycleInvariant' /\ Later(disk, disk')
  BY <1>1, <1>5, <1>8, CrashesDurably
<1> QED
  BY <1>3, <1>7, <1>8

\* a sealed proposal is submitted again,
LEMMA ReconcilesStep ==
  ASSUME CycleInvariant, NEW w \in Workers, Claim(w),
         Reconciles(w, PrepareCycle(disk, fetched[w], now))
  PROVE  CycleInvariant' /\ Later(disk, disk')
<1> DEFINE ws == PrepareCycle(disk, fetched[w], now)
           E == Last(ws)
           c == E.pointer
           d == fetched[w]
           f == E.cycles[c]
<1>1. /\ Journal(disk, ws) /\ DiskSound(E) /\ Later(disk, E) /\ Serves(E, d)
      /\ UNCHANGED worldVars /\ d \in Digests
  BY ClaimFree
<1>2. /\ c # None /\ f.pending # None
      /\ \/ /\ disk' = E /\ Took(w)
            /\ Begin("reconcile", d, c, 0)
            /\ lease' = [cycle |-> c, writable |-> FALSE]
            /\ tool' = Call("reconcile", d, c, 0, f.pending.rules)
            /\ UNCHANGED <<remoteVars, faults>>
         \/ \E k \in 1..(Len(ws) - 1) :
              /\ disk' \in {ws[k], LeaveTemporary(ws[k], ws[k + 1])}
              /\ \A b \in Cycles : ws[k].cycles[b] # None => disk'.cycles[b].strays <= MaxStrays
              /\ Die /\ UNCHANGED remoteVars
  BY DEF Reconciles, Durably
<1> HIDE DEF ws, d
<1>3. CASE /\ disk' = E /\ Took(w)
           /\ Begin("reconcile", d, c, 0)
           /\ lease' = [cycle |-> c, writable |-> FALSE]
           /\ tool' = Call("reconcile", d, c, 0, f.pending.rules)
           /\ UNCHANGED <<remoteVars, faults>>
  <2>1. /\ c \in Cycles /\ f # None /\ f.outcome = None /\ f.digest = d /\ f \in FilesOfCycle
    BY <1>1, <1>2 DEF Serves, DiskSound, Disks
  <2>2. f.pending.rules \in Rules
    BY <1>2, <2>1 DEF FilesOfCycle, Proposal
  <2> HIDE DEF E, c, f
  <2>3. DiskSound(disk)' /\ FetchSound' /\ fetched' \in [Workers -> Digests \union {None}]
    BY <1>1, <1>3, DiskPrimed, FetchTaken
  <2>4. /\ attempt' \in Attempts /\ attempt' # Free
        /\ attempt'.pc = "reconcile" /\ attempt'.cycle = c /\ attempt'.number = 0
        /\ attempt'.digest = d
    BY <1>1, <1>3, <2>1, WorkspaceAssumption DEF Begin, Attempts, Free, WorkspaceAssumption
  <2>5. /\ tool' \in Calls /\ tool' # None /\ tool'.by = "reconcile" /\ tool'.step = "check"
        /\ tool'.cycle = c /\ tool'.number = 0 /\ tool'.digest = d
    BY <1>1, <1>3, <2>1, <2>2, WorkspaceAssumption, NoneAssumption DEF Call, Calls, WorkspaceAssumption
  <2>6. AnalysisTypeOK'
    BY <1>1, <1>3, <2>1, <2>3, <2>4, <2>5
       DEF CycleInvariant, AnalysisTypeOK, DiskSound, Disks, remoteVars, worldVars
  <2>7. Open(disk', c) /\ disk'.cycles[c] = f
    BY <1>3, <2>1 DEF Open, c, f
  <2>8. LeaseSound'
    BY <1>2, <1>3, <2>4, <2>7 DEF LeaseSound, Claimed, Open
  <2>9. AttemptSound'
    <3>1. Files' = f
      BY <2>4, <2>7 DEF Files
    <3> QED
      BY <2>1, <2>4, <2>5, <2>7, <3>1 DEF AttemptSound, Open
  <2>10. ToolSound'
    BY <1>2, <1>3, <2>1, <2>4, <2>5, <2>7 DEF ToolSound
  <2> QED
    BY <1>1, <1>3, <2>3, <2>6, <2>8, <2>9, <2>10 DEF CycleInvariant
<1>4. ASSUME NEW k \in 1..(Len(ws) - 1),
             disk' \in {ws[k], LeaveTemporary(ws[k], ws[k + 1])},
             \A b \in Cycles : ws[k].cycles[b] # None => disk'.cycles[b].strays <= MaxStrays,
             Die, UNCHANGED remoteVars
      PROVE  CycleInvariant' /\ Later(disk, disk')
  <2> HIDE DEF E, c, f
  <2> QED
    BY <1>1, <1>4, CrashesDurably
<1> QED
  BY <1>2, <1>3, <1>4

\* or an attempt starts.
LEMMA StartAttemptStep ==
  ASSUME CycleInvariant, NEW w \in Workers, Claim(w),
         StartAttempt(w, PrepareCycle(disk, fetched[w], now))
  PROVE  CycleInvariant' /\ Later(disk, disk')
<1> DEFINE ps == PrepareCycle(disk, fetched[w], now)
           P == Last(ps)
           c == P.pointer
           d == fetched[w]
           f == P.cycles[c]
           t == ReserveAttempt(P, c)
           ws == ps \o t
           E == Last(t)
           g == E.cycles[c]
           pc == IF WritableOnResume(f) THEN "agent" ELSE "settle"
<1>1. /\ Journal(disk, ps) /\ DiskSound(P) /\ Later(disk, P) /\ Serves(P, d)
      /\ UNCHANGED worldVars /\ now \in Times /\ d \in Digests /\ tool = None
  BY ClaimFree
<1>2. /\ c # None /\ f.pending = None /\ ~Exhausted(f)
      /\ \/ /\ disk' = Last(ws) /\ Took(w)
            /\ Begin(pc, d, c, f.attempts + 1)
            /\ lease' = [cycle |-> c, writable |-> WritableOnResume(f)]
            /\ UNCHANGED <<tool, remoteVars, faults>>
         \/ \E k \in 1..(Len(ws) - 1) :
              /\ disk' \in {ws[k], LeaveTemporary(ws[k], ws[k + 1])}
              /\ \A b \in Cycles : ws[k].cycles[b] # None => disk'.cycles[b].strays <= MaxStrays
              /\ Die /\ UNCHANGED remoteVars
  BY DEF StartAttempt, Durably
<1> HIDE DEF ps, d
<1>3. c \in Cycles /\ f # None /\ f.outcome = None /\ f.digest = d /\ f \in FilesOfCycle
  BY <1>1, <1>2 DEF Serves, DiskSound, Disks
<1> HIDE DEF P
<1>4. /\ Journal(P, t) /\ DiskSound(E) /\ Later(P, E)
      /\ E.pointer = c /\ g # None
      /\ f.attempts + 1 \in 1..MaxAttempts
      /\ g.attempts = f.attempts + 1
      /\ OwnReservation(g, f.attempts + 1)
      /\ g.manifest = f.manifest /\ g.pending = f.pending /\ g.digest = f.digest
      /\ g.outcome = None /\ g.handoff.drafter <= f.attempts
  BY <1>1, <1>2, <1>3, Reserving
<1> HIDE DEF t
<1>5. Journal(disk, ws) /\ Last(ws) = E
  BY <1>1, <1>4, ThenWrites, LastWrite DEF Journal, P
<1> HIDE DEF ws, E
<1>6. Later(disk, E)
  BY <1>1, <1>4, LaterTransitive
<1>7. CASE /\ disk' = Last(ws) /\ Took(w)
           /\ Begin(pc, d, c, f.attempts + 1)
           /\ lease' = [cycle |-> c, writable |-> WritableOnResume(f)]
           /\ UNCHANGED <<tool, remoteVars, faults>>
  <2> DEFINE n == f.attempts + 1
             v == WritableOnResume(f)
  <2>1. /\ pc = (IF v THEN "agent" ELSE "settle") /\ v \in BOOLEAN
        /\ n \in 1..MaxAttempts /\ g.handoff.drafter < n /\ n # 0
        /\ v => f.manifest = None /\ f.pending = None
    <3>1. f.attempts \in Nat /\ g.handoff.drafter \in Nat
      <4>1. g \in FilesOfCycle
        BY <1>3, <1>4 DEF DiskSound, Disks
      <4> QED
        BY <1>3, <4>1 DEF FilesOfCycle, Handoff, InitialHandoff
    <3> QED
      BY <1>4, <3>1 DEF WritableOnResume
  <2>2. OwnReservation(g, n) /\ g.attempts = n
    BY <1>4
  <2> HIDE DEF c, f, g, n, v
  <2>3. DiskSound(disk)' /\ FetchSound' /\ fetched' \in [Workers -> Digests \union {None}]
    BY <1>1, <1>4, <1>5, <1>7, DiskPrimed, FetchTaken
  <2>4. attempt' = [pc |-> pc, digest |-> d, cycle |-> c, number |-> n, outcome |-> None]
        /\ lease' = [cycle |-> c, writable |-> v]
    BY <1>7 DEF Begin, n, v
  <2> HIDE DEF pc
  <2>5. /\ attempt' \in Attempts /\ attempt' # Free
        /\ attempt'.pc = pc /\ attempt'.cycle = c /\ attempt'.number = n
        /\ attempt'.digest = d
    BY <1>1, <1>3, <2>1, <2>4, WorkspaceAssumption DEF Attempts, Free, WorkspaceAssumption
  <2>6. AnalysisTypeOK'
    BY <1>1, <1>3, <1>7, <2>1, <2>3, <2>4, <2>5
       DEF CycleInvariant, AnalysisTypeOK, DiskSound, Disks, remoteVars, worldVars
  <2>7. Open(disk', c) /\ disk'.cycles[c] = g
    BY <1>4, <1>5, <1>7 DEF Open, c, g
  <2>8. LeaseSound'
    BY <1>2, <1>4, <2>1, <2>4, <2>5, <2>7 DEF LeaseSound, Claimed
  <2>9. AttemptSound'
    <3>1. Files' = g
      BY <2>5, <2>7 DEF Files
    <3>2. pc \in {"agent", "settle"}
      BY <2>1
    <3>3. lease'.cycle = c /\ g.digest = d
      BY <1>3, <1>4, <2>4
    <3> QED
      BY <1>4, <2>1, <2>2, <2>5, <2>7, <3>1, <3>2, <3>3 DEF AttemptSound
  <2>10. ToolSound'
    BY <1>1, <1>7 DEF ToolSound
  <2> QED
    BY <1>5, <1>6, <1>7, <2>3, <2>6, <2>8, <2>9, <2>10 DEF CycleInvariant
<1>8. ASSUME NEW k \in 1..(Len(ws) - 1),
             disk' \in {ws[k], LeaveTemporary(ws[k], ws[k + 1])},
             \A b \in Cycles : ws[k].cycles[b] # None => disk'.cycles[b].strays <= MaxStrays,
             Die, UNCHANGED remoteVars
      PROVE  CycleInvariant' /\ Later(disk, disk')
  <2> HIDE DEF c, f, g, pc
  <2> QED
    BY <1>1, <1>5, <1>8, CrashesDurably
<1> QED
  BY <1>2, <1>7, <1>8

\* A worker claims the workspace.
LEMMA ClaimStep ==
  ASSUME CycleInvariant, NEW w \in Workers, Claim(w)
  PROVE  CycleInvariant' /\ Later(disk, disk')
<1> DEFINE ps == PrepareCycle(disk, fetched[w], now)
<1>1. \/ NotEligible(w, ps)
      \/ Reconciles(w, ps)
      \/ LimitExceeded(w, ps)
      \/ StartAttempt(w, ps)
  BY DEF Claim
<1> QED
  BY <1>1, NotEligibleStep, ReconcilesStep, LimitExceededStep, StartAttemptStep

\* What a call leaves alone in the directory: everything an attempt or a lease
\* relies on.
Undisturbed(D, E) ==
  /\ E.pointer = D.pointer
  /\ \A c \in Cycles : D.cycles[c] # None =>
       LET f == D.cycles[c]  g == E.cycles[c] IN
       /\ g.outcome = f.outcome /\ g.handoff = f.handoff
       /\ g.attempts = f.attempts /\ g.reservation = f.reservation
       /\ lease.writable => g.manifest = f.manifest /\ g.pending = f.pending

\* A recorded candidate, and a seal under a lease that may not write, disturb
\* nothing.
LEMMA UndisturbedBy ==
  ASSUME NEW D, NEW E, NEW c \in Cycles, Others(D, E, c), E.pointer = D.pointer,
         NEW f \in FilesOfCycle, NEW g, f = D.cycles[c], g = E.cycles[c],
         Recorded(f, g) \/ (Proposed(f, g) /\ ~lease.writable)
  PROVE  Undisturbed(D, E)
<1>1. /\ g.outcome = f.outcome /\ g.handoff = f.handoff
      /\ g.attempts = f.attempts /\ g.reservation = f.reservation
      /\ lease.writable => g.manifest = f.manifest /\ g.pending = f.pending
  <2>1. CASE Recorded(f, g)
    BY <2>1 DEF Recorded, FilesOfCycle
  <2>2. CASE Proposed(f, g) /\ ~lease.writable
    BY <2>2 DEF Proposed, FilesOfCycle
  <2> QED
    BY <2>1, <2>2
<1> QED
  BY <1>1 DEF Undisturbed, Others

\* A call that answers, or is cut off.
LEMMA Returned ==
  ASSUME CycleInvariant, tool # None, NEW result \in {"error", "candidate", "superseded"},
         ToolReturns(result),
         DiskSound(disk)', Later(disk, disk'), Undisturbed(disk, disk'),
         UNCHANGED <<fetched, remoteVars, worldVars>>,
         faults' \in 0..MaxFaults
  PROVE  CycleInvariant'
<1>1. /\ tool' = None
      /\ \/ /\ tool.by = "agent" /\ attempt' = attempt
            /\ lease' = IF attempt = Free THEN NoLease ELSE lease
         \/ attempt' = Free /\ lease' = NoLease
         \/ /\ tool.by # "agent" /\ result \in Outcomes /\ lease' = lease
            /\ attempt' = [attempt EXCEPT !.pc = "ended", !.outcome = result]
  BY DEF ToolReturns, Relinquish, Outcomes, Terminal
<1>2. tool \in Calls /\ disk' \in Disks
  BY ToolTyped DEF DiskSound
<1>3. FetchSound'
  BY DEF CycleInvariant, FetchSound, worldVars
<1>4. ToolSound'
  BY <1>1 DEF ToolSound
<1>5. /\ NoLease \in [cycle : Cycles \union {None}, writable : BOOLEAN]
      /\ lease \in [cycle : Cycles \union {None}, writable : BOOLEAN]
      /\ attempt \in Attempts \union {Free}
  BY DEF CycleInvariant, AnalysisTypeOK, NoLease
<1>6. lease.cycle # None =>
        /\ Open(disk', lease.cycle)
        /\ lease.writable => /\ disk'.cycles[lease.cycle].manifest = None
                             /\ disk'.cycles[lease.cycle].pending = None
  <2>1. ASSUME lease.cycle # None
        PROVE  lease.cycle \in Cycles /\ disk.cycles[lease.cycle] # None
    BY <1>5, <2>1 DEF CycleInvariant, LeaseSound, Open, DiskSound
  <2> QED
    BY <2>1 DEF CycleInvariant, LeaseSound, Open, Undisturbed
<1>7. attempt # Free =>
        LET f == Files  g == disk'.cycles[attempt.cycle] IN
        /\ g # None /\ g.digest = f.digest
        /\ g.outcome = f.outcome /\ g.handoff = f.handoff
        /\ g.attempts = f.attempts /\ g.reservation = f.reservation
        /\ attempt.pc # "settle" => Open(disk', attempt.cycle)
  <2>1. ASSUME attempt # Free
        PROVE  attempt.cycle \in Cycles /\ Files # None
    BY <1>5, <2>1 DEF Attempts, CycleInvariant, AttemptSound
  <2> QED
    BY <2>1 DEF CycleInvariant, AttemptSound, Undisturbed, Files, Later, Kept, Open
<1>8. CASE tool.by = "agent" /\ attempt' = attempt /\ lease' = IF attempt = Free THEN NoLease ELSE lease
  <2>1. AnalysisTypeOK'
    BY <1>1, <1>2, <1>5, <1>8 DEF CycleInvariant, AnalysisTypeOK, Disks, remoteVars, worldVars
  <2>2. LeaseSound'
    BY <1>6, <1>8 DEF CycleInvariant, LeaseSound, Claimed, NoLease, Open
  <2>3. attempt.pc # "reconcile"
    BY <1>8 DEF CycleInvariant, ToolSound
  <2>4. AttemptSound'
    <3>1. SUFFICES ASSUME attempt # Free PROVE AttemptSound'
      BY <1>8 DEF AttemptSound
    <3> DEFINE f == Files
               g == disk'.cycles[attempt.cycle]
    <3>2. Files' = g /\ lease' = lease
      BY <1>8, <3>1 DEF Files
    <3>3. Open(disk, attempt.cycle)' <=> Open(disk', attempt.cycle)
      BY <1>8 DEF Open
    <3>4. OwnReservation(g, attempt.number) <=> OwnReservation(f, attempt.number)
      BY <1>7, <3>1 DEF OwnReservation
    <3>5. /\ g # None /\ g.digest = f.digest
          /\ g.handoff = f.handoff
          /\ g.attempts = f.attempts
          /\ attempt.pc # "settle" => Open(disk', attempt.cycle)
      BY <1>7, <3>1
    <3> HIDE DEF f, g
    <3> QED
      BY <1>1, <1>8, <2>3, <3>1, <3>2, <3>3, <3>4, <3>5 DEF CycleInvariant, AttemptSound, f
  <2> QED
    BY <1>3, <1>4, <2>1, <2>2, <2>4 DEF CycleInvariant
<1>9. CASE attempt' = Free /\ lease' = NoLease
  <2>1. AnalysisTypeOK'
    BY <1>1, <1>2, <1>5, <1>9 DEF CycleInvariant, AnalysisTypeOK, Disks, remoteVars, worldVars
  <2>2. LeaseSound' /\ AttemptSound'
    BY <1>9 DEF LeaseSound, AttemptSound, NoLease
  <2> QED
    BY <1>3, <1>4, <2>1, <2>2 DEF CycleInvariant
<1>10. CASE /\ tool.by # "agent" /\ result \in Outcomes /\ lease' = lease
            /\ attempt' = [attempt EXCEPT !.pc = "ended", !.outcome = result]
  <2>1. attempt.pc = "reconcile" /\ attempt # Free /\ attempt \in Attempts
    BY <1>2, <1>5, <1>10 DEF CycleInvariant, ToolSound, Calls, Free
  <2>2. /\ attempt' \in Attempts /\ attempt'.pc = "ended" /\ attempt'.outcome = result
        /\ attempt'.cycle = attempt.cycle /\ attempt'.number = attempt.number
        /\ attempt'.digest = attempt.digest /\ attempt' # Free
    BY <1>10, <2>1 DEF Attempts, Free, Outcomes
  <2>3. attempt.number = 0
    BY <2>1 DEF CycleInvariant, AttemptSound
  <2>4. AnalysisTypeOK'
    BY <1>1, <1>2, <1>10, <2>2 DEF CycleInvariant, AnalysisTypeOK, Disks, remoteVars, worldVars
  <2>5. LeaseSound'
    BY <1>6, <1>10, <2>2 DEF CycleInvariant, LeaseSound, Claimed, Open
  <2>6. AttemptSound'
    <3>1. Files' = disk'.cycles[attempt.cycle]
      BY <2>2 DEF Files
    <3>2. Open(disk, attempt.cycle)'
      BY <1>7, <2>1, <2>2 DEF Open
    <3>3. Files'.digest = attempt.digest /\ Files' # None
      BY <1>7, <2>1, <3>1 DEF CycleInvariant, AttemptSound
    <3> HIDE DEF Files
    <3> QED
      BY <1>1, <1>10, <2>2, <2>3, <3>2, <3>3 DEF AttemptSound
  <2> QED
    BY <1>3, <1>4, <2>4, <2>5, <2>6 DEF CycleInvariant
<1> QED
  BY <1>1, <1>8, <1>9, <1>10

\* Nor does a call that writes nothing.
LEMMA UndisturbedSame ==
  disk' = disk => Undisturbed(disk, disk')
  BY DEF Undisturbed

\* A call is refused, finds another contract, fails or is cut off.
LEMMA ToolAnswersStep ==
  ASSUME CycleInvariant, ToolRefused \/ ToolStale \/ ToolFails \/ ToolCut
  PROVE  CycleInvariant' /\ Later(disk, disk')
<1>1. /\ UNCHANGED <<disk, fetched, remoteVars, worldVars>>
      /\ faults' \in 0..MaxFaults
      /\ tool # None
      /\ ToolReturns("error") \/ ToolReturns("superseded")
  BY CycleAssumption
     DEF ToolRefused, ToolStale, ToolFails, ToolCut, ToolAt, ToolReturns, Fault,
         CycleInvariant, AnalysisTypeOK, CycleAssumption
<1>2. DiskSound(disk)' /\ Later(disk, disk') /\ Undisturbed(disk, disk')
  BY <1>1, DiskSame, UndisturbedSame
<1> QED
  BY <1>1, <1>2, Returned

\* A call checks that its contract is current.
LEMMA ToolChecksStep ==
  ASSUME CycleInvariant, ToolChecks
  PROVE  CycleInvariant' /\ Later(disk, disk')
<1>1. /\ UNCHANGED <<disk, fetched, remoteVars, worldVars, faults>>
      /\ tool # None
      /\ \/ tool' = [tool EXCEPT !.step = "seal"] /\ UNCHANGED <<attempt, lease>>
         \/ ToolReturns("superseded")
  BY DEF ToolChecks, ToolAt
<1>2. DiskSound(disk)' /\ disk' \in Disks /\ Later(disk, disk') /\ Undisturbed(disk, disk')
  BY <1>1, DiskSame, UndisturbedSame
<1>3. CASE ToolReturns("superseded")
  <2>1. faults' \in 0..MaxFaults
    BY <1>1 DEF CycleInvariant, AnalysisTypeOK
  <2> QED
    BY <1>1, <1>2, <1>3, <2>1, Returned
<1>4. CASE tool' = [tool EXCEPT !.step = "seal"] /\ UNCHANGED <<attempt, lease>>
  <2>1. /\ tool' \in Calls /\ tool' # None /\ tool'.by = tool.by /\ tool'.digest = tool.digest
        /\ tool'.cycle = tool.cycle /\ tool'.number = tool.number /\ tool'.rules = tool.rules
        /\ tool'.step = "seal"
    <3>1. tool \in Calls
      BY <1>1, ToolTyped
    <3>2. tool' \in Calls
      BY <1>4, <3>1 DEF Calls
    <3> QED
      BY <1>4, <3>1, <3>2, NoneAssumption DEF Calls
  <2>2. AnalysisTypeOK'
    BY <1>1, <1>4, <2>1 DEF CycleInvariant, AnalysisTypeOK, remoteVars, worldVars
  <2>3. LeaseSound' /\ FetchSound'
    BY <1>1, <1>4, <2>1 DEF CycleInvariant, LeaseSound, FetchSound, Claimed, Open, worldVars
  <2>4. AttemptSound'
    BY <1>1, <1>4, <2>1 DEF CycleInvariant, AttemptSound, Open, Files, OwnReservation
  <2>5. ToolSound'
    BY <1>1, <1>4, <2>1 DEF CycleInvariant, ToolSound
  <2> QED
    BY <1>2, <2>2, <2>3, <2>4, <2>5 DEF CycleInvariant
<1> QED
  BY <1>1, <1>3, <1>4

\* A response is recorded.
LEMMA ToolRecordsStep ==
  ASSUME CycleInvariant, ToolRecords
  PROVE  CycleInvariant' /\ Later(disk, disk')
<1> DEFINE c == tool.cycle
           f == disk.cycles[c]
           ws == RecordCandidate(disk, c)
           E == Last(ws)
           g == E.cycles[c]
<1>1. /\ tool # None /\ tool.step = "admitted" /\ lease.cycle = c
      /\ UNCHANGED worldVars
      /\ \/ disk' = E /\ ToolReturns("candidate") /\ UNCHANGED <<fetched, remoteVars, faults>>
         \/ \E k \in 1..(Len(ws) - 1) :
              /\ disk' \in {ws[k], LeaveTemporary(ws[k], ws[k + 1])}
              /\ \A b \in Cycles : ws[k].cycles[b] # None => disk'.cycles[b].strays <= MaxStrays
              /\ Die /\ UNCHANGED remoteVars
  BY DEF ToolRecords, ToolAt, Durably
<1>2. c \in Cycles /\ f # None /\ f \in FilesOfCycle
  BY <1>1, ToolTyped
<1>3. disk.pointer = c /\ f.outcome = None
  <2>1. c # None
    BY <1>2, WorkspaceAssumption DEF WorkspaceAssumption
  <2> QED
    BY <1>1, <2>1 DEF CycleInvariant, LeaseSound, Open
<1>4. f.proposal # None /\ admitted[c] # None
  BY <1>1 DEF CycleInvariant, ToolSound
<1>5. DiskSound(disk) /\ now \in Times /\ faults \in 0..MaxFaults
  BY DEF CycleInvariant, AnalysisTypeOK
<1>6. /\ Journal(disk, ws) /\ DiskSound(E) /\ Later(disk, E)
      /\ E.pointer = c /\ g # None /\ Others(disk, E, c)
      /\ Recorded(f, g)
  BY <1>2, <1>3, <1>4, <1>5, Recording
<1> HIDE DEF ws, E
<1>7. CASE disk' = E /\ ToolReturns("candidate") /\ UNCHANGED <<fetched, remoteVars, faults>>
  <2>1. DiskSound(disk)' /\ Later(disk, disk')
    BY <1>1, <1>6, <1>7, DiskPrimed
  <2>2. Undisturbed(disk, E)
    <3> HIDE DEF f, g
    <3> QED
      BY <1>2, <1>3, <1>6, UndisturbedBy DEF f, g
  <2> HIDE DEF f, g, c
  <2> QED
    BY <1>1, <1>5, <1>7, <2>1, <2>2, Returned
<1>8. ASSUME NEW k \in 1..(Len(ws) - 1),
             disk' \in {ws[k], LeaveTemporary(ws[k], ws[k + 1])},
             \A b \in Cycles : ws[k].cycles[b] # None => disk'.cycles[b].strays <= MaxStrays,
             Die, UNCHANGED remoteVars
      PROVE  CycleInvariant' /\ Later(disk, disk')
  BY <1>1, <1>6, <1>8, CrashesDurably
<1> QED
  BY <1>1, <1>7, <1>8

\* The request a call sends is what the journal of its cycle holds.
LEMMA SentAsSealed ==
  ASSUME NEW D, DiskSound(D), tool # None, tool \in Calls,
         D.cycles[tool.cycle] # None,
         D.cycles[tool.cycle].pending \in Proposal,
         D.cycles[tool.cycle].digest = tool.digest
  PROVE  LET f == D.cycles[tool.cycle]
             m == Submission(f.pending)
         IN /\ m \in Submissions
            /\ m = Sealed(tool.cycle, f)
            /\ \A b \in Cycles :
                 /\ D.cycles[b] # None =>
                      \A n \in wire \union {m} : n.cycle = b =>
                        D.cycles[b].pending # None /\ n = Sealed(b, D.cycles[b])
                 /\ D.cycles[b] = None => \A n \in wire \union {m} : n.cycle # b
<1> DEFINE f == D.cycles[tool.cycle]
           m == Submission(f.pending)
<1>1. /\ m = Sealed(tool.cycle, f) /\ m.cycle = tool.cycle
  BY DEF Submission, Sealed
<1>2. m \in Submissions
  BY DEF Submission, Submissions, Proposal, Calls
<1>3. f.pending # None
  BY NoneAssumption
<1> HIDE DEF m
<1> QED
  BY <1>1, <1>2, <1>3 DEF DiskSound, CycleSound, m

\* A call seals its proposal, and sends it or answers.
LEMMA ToolSealsStep ==
  ASSUME CycleInvariant, ToolSeals
  PROVE  CycleInvariant' /\ Later(disk, disk')
<1> DEFINE c == tool.cycle
           f == disk.cycles[c]
           ws == PrepareCandidateProposal(disk, c, tool.number, tool.rules)
           E == Last(ws)
           g == E.cycles[c]
           Answered ==
             /\ f.candidate # None
             /\ ToolReturns("candidate") /\ UNCHANGED wire
           Sent ==
             /\ wire' = wire \union {Submission(g.pending)}
             /\ tool' = [tool EXCEPT !.step = "wait"]
             /\ lease' = [lease EXCEPT !.writable = FALSE]
             /\ UNCHANGED attempt
<1>1. /\ tool # None /\ lease.cycle = c
      /\ CanPrepareProposal(disk, c, tool.rules, lease.writable)
      /\ UNCHANGED worldVars
      /\ \/ /\ disk' = E /\ UNCHANGED <<fetched, admitted, faults>>
            /\ Answered \/ Sent
         \/ \E k \in 1..(Len(ws) - 1) :
              /\ disk' \in {ws[k], LeaveTemporary(ws[k], ws[k + 1])}
              /\ \A b \in Cycles : ws[k].cycles[b] # None => disk'.cycles[b].strays <= MaxStrays
              /\ Die /\ UNCHANGED remoteVars
  BY DEF ToolSeals, ToolAt, Durably, CanSeal
<1>2. /\ c \in Cycles /\ f # None /\ f \in FilesOfCycle /\ tool \in Calls
      /\ tool.number \in 0..MaxAttempts /\ tool.rules \in Rules
  BY <1>1, ToolTyped
<1>3. c # None /\ disk.pointer = c /\ f.outcome = None
  <2>1. c # None
    BY <1>2, WorkspaceAssumption DEF WorkspaceAssumption
  <2> QED
    BY <1>1, <2>1 DEF CycleInvariant, LeaseSound, Open
<1>4. lease.writable => f.manifest = None /\ f.pending = None
  BY <1>1, <1>3 DEF CycleInvariant, LeaseSound
<1>5. Sealable(f, tool.number, tool.rules)
  <2>1. CASE f.pending # None
    BY <1>1, <2>1 DEF CanPrepareProposal, Sealable
  <2>2. CASE f.pending = None
    <3>1. lease.writable
      BY <1>1, <2>2 DEF CanPrepareProposal
    <3>2. tool.by # "reconcile"
      BY <1>1, <2>2 DEF CycleInvariant, ToolSound
    <3> QED
      BY <1>1, <1>4, <2>2, <3>1, <3>2 DEF CycleInvariant, ToolSound, Sealable
  <2> QED
    BY <2>1, <2>2
<1>6. DiskSound(disk) /\ now \in Times /\ faults \in 0..MaxFaults
  BY DEF CycleInvariant, AnalysisTypeOK
<1>7. /\ Journal(disk, ws) /\ DiskSound(E) /\ Later(disk, E)
      /\ E.pointer = c /\ g # None /\ Others(disk, E, c)
      /\ g.pending \in Proposal /\ g.proposal # None /\ g.manifest # None
      /\ Proposed(f, g)
  BY <1>2, <1>3, <1>5, <1>6, Proposing
<1> HIDE DEF ws, E
<1>8. /\ g.digest = f.digest /\ g.handoff = f.handoff /\ g.outcome = f.outcome
      /\ g.attempts = f.attempts /\ g.reservation = f.reservation /\ g.pending # None
  <2>1. g.pending # None
    BY <1>7, NoneAssumption
  <2> HIDE DEF f, g
  <2> QED
    BY <1>2, <1>7, <2>1 DEF FilesOfCycle, Proposed
<1>9. CASE disk' = E /\ UNCHANGED <<fetched, admitted, faults>> /\ Answered
  <2>1. DiskSound(disk)' /\ Later(disk, disk')
    BY <1>1, <1>7, <1>9, DiskPrimed DEF remoteVars
  <2>2. ~lease.writable
    BY <1>2, <1>4, <1>6, <1>9 DEF DiskSound, CycleSound
  <2>3. Undisturbed(disk, E)
    <3> HIDE DEF f, g
    <3> QED
      BY <1>2, <1>3, <1>7, <2>2, UndisturbedBy DEF f, g
  <2>4. UNCHANGED <<fetched, remoteVars, worldVars>> /\ ToolReturns("candidate")
    BY <1>1, <1>9 DEF remoteVars
  <2> HIDE DEF f, g, c
  <2> QED
    BY <1>1, <1>6, <1>9, <2>1, <2>3, <2>4, Returned
<1>10. CASE disk' = E /\ UNCHANGED <<fetched, admitted, faults>> /\ Sent
  <2> DEFINE m == Submission(g.pending)
  <2>1. f.digest = tool.digest
    BY <1>1 DEF CycleInvariant, ToolSound
  <2>2. /\ m \in Submissions
        /\ \A b \in Cycles :
             /\ E.cycles[b] # None =>
                  \A n \in wire \union {m} : n.cycle = b =>
                    E.cycles[b].pending # None /\ n = Sealed(b, E.cycles[b])
             /\ E.cycles[b] = None => \A n \in wire \union {m} : n.cycle # b
    BY <1>1, <1>2, <1>7, <1>8, <2>1, SentAsSealed
  <2> HIDE DEF m
  <2>3. wire' = wire \union {m}
    BY <1>10 DEF m
  <2>4. DiskSound(disk)'
    <3> DEFINE h(b) == disk.cycles[b]
    <3>1. ASSUME NEW b \in Cycles, h(b)' # None
          PROVE  CycleSound(b, h(b))'
      <4>1. h(b)' = E.cycles[b] /\ E.cycles[b] # None
        BY <1>10, <3>1
      <4>2. CycleSound(b, E.cycles[b])
        BY <1>7, <4>1 DEF DiskSound
      <4>3. \A n \in wire' : n.cycle = b =>
              E.cycles[b].pending # None /\ n = Sealed(b, E.cycles[b])
        BY <2>2, <2>3, <4>1
      <4> HIDE DEF h
      <4> QED
        BY <1>10, <4>1, <4>2, <4>3 DEF CycleSound, Sealed
    <3>3. \A b \in Cycles : h(b)' = None => admitted'[b] = None /\ \A n \in wire' : n.cycle # b
      BY <1>7, <1>10, <2>2, <2>3 DEF DiskSound
    <3>4. /\ disk' \in Disks
          /\ \A b \in Cycles : h(b)' # None =>
               ((h(b)').attempts > 0 => disk'.pointer = b \/ (h(b)').outcome # None)
          /\ disk'.pointer # None => disk'.cycles[disk'.pointer] # None
      BY <1>7, <1>10 DEF DiskSound
    <3>2. Spaced(disk)'
      BY <1>1, <1>7, <1>10 DEF DiskSound, Spaced, Outcome, EndedAt, worldVars
    <3> QED
      BY <3>1, <3>2, <3>3, <3>4 DEF DiskSound
  <2>5. /\ tool' \in Calls /\ tool' # None /\ tool'.by = tool.by /\ tool'.digest = tool.digest
        /\ tool'.cycle = c /\ tool'.number = tool.number /\ tool'.rules = tool.rules
        /\ tool'.step = "wait"
    <3>1. tool' \in Calls
      BY <1>2, <1>10 DEF Calls
    <3> QED
      BY <1>2, <1>10, <3>1, NoneAssumption DEF Calls
  <2>6. lease' = [cycle |-> c, writable |-> FALSE]
    BY <1>1, <1>10 DEF CycleInvariant, AnalysisTypeOK
  <2>7. AnalysisTypeOK'
    <3>1. disk' \in Disks
      BY <1>7, <1>10 DEF DiskSound
    <3> QED
      BY <1>1, <1>2, <1>10, <2>2, <2>3, <2>5, <2>6, <3>1
         DEF CycleInvariant, AnalysisTypeOK, Disks, worldVars
  <2>8. LeaseSound' /\ FetchSound'
    BY <1>1, <1>3, <1>7, <1>8, <1>10, <2>5, <2>6
       DEF CycleInvariant, LeaseSound, FetchSound, Claimed, Open, worldVars
  <2>9. attempt # Free => attempt.cycle = c
    BY <1>1 DEF CycleInvariant, ToolSound
  <2>10. AttemptSound'
    <3>1. SUFFICES ASSUME attempt # Free PROVE AttemptSound'
      BY <1>10 DEF AttemptSound
    <3>2. Files' = g /\ Files = f
      BY <1>10, <2>9, <3>1 DEF Files
    <3>3. Open(disk, attempt.cycle)'
      BY <1>3, <1>7, <1>8, <1>10, <2>9, <3>1 DEF Open
    <3>4. OwnReservation(g, attempt.number) <=> OwnReservation(f, attempt.number)
      BY <1>8 DEF OwnReservation
    <3>5. attempt' = attempt
      BY <1>10
    <3> HIDE DEF f, g
    <3> QED
      BY <1>1, <1>7, <1>8, <2>5, <2>6, <2>9, <3>1, <3>2, <3>3, <3>4, <3>5
         DEF CycleInvariant, AttemptSound
  <2>11. ToolSound'
    <3>1. disk'.cycles[tool'.cycle] = g /\ attempt' = attempt /\ lease'.cycle = c
      BY <1>10, <2>5, <2>6
    <3> HIDE DEF g
    <3> QED
      BY <1>1, <1>7, <1>8, <2>5, <3>1 DEF CycleInvariant, ToolSound
  <2> QED
    BY <1>7, <1>10, <2>4, <2>7, <2>8, <2>10, <2>11 DEF CycleInvariant
<1>11. ASSUME NEW k \in 1..(Len(ws) - 1),
              disk' \in {ws[k], LeaveTemporary(ws[k], ws[k + 1])},
              \A b \in Cycles : ws[k].cycles[b] # None => disk'.cycles[b].strays <= MaxStrays,
              Die, UNCHANGED remoteVars
       PROVE  CycleInvariant' /\ Later(disk, disk')
  BY <1>1, <1>7, <1>11, CrashesDurably
<1> QED
  BY <1>1, <1>9, <1>10, <1>11

-----------------------------------------------------------------------------
(* The theorems. *)

\* Every step keeps the invariant, and leaves a directory later than the one
\* it found.
LEMMA CycleStep ==
  ASSUME CycleInvariant, [CycleNext]_vars
  PROVE  CycleInvariant' /\ Later(disk, disk')
<1>1. CASE UNCHANGED vars
  <2>1. DiskSound(disk)' /\ disk' \in Disks /\ Later(disk, disk')
    BY <1>1, DiskSame DEF vars
  <2>2. AnalysisTypeOK'
    BY <1>1 DEF CycleInvariant, AnalysisTypeOK, vars, claimVars, remoteVars, worldVars
  <2>3. LeaseSound' /\ AttemptSound' /\ ToolSound' /\ FetchSound'
    BY <1>1 DEF CycleInvariant, LeaseSound, AttemptSound, ToolSound, FetchSound, Claimed, Open,
                Files, OwnReservation, vars, claimVars, remoteVars, worldVars
  <2> QED
    BY <2>1, <2>2, <2>3 DEF CycleInvariant
<1>2. ASSUME NEW w \in Workers, Discovery(w)
      PROVE  CycleInvariant' /\ Later(disk, disk')
  BY <1>2, FetchStep, ClaimStep DEF Discovery
<1>3. CASE AgentWrites \/ AgentRejects
  BY <1>3, AgentWritesStep
<1>4. CASE AgentProposes
  BY <1>4, AgentProposesStep
<1>5. CASE \/ \E kind \in Terminal : AgentFinishes(kind)
           \/ AttemptFails \/ Reread
  BY <1>5, AttemptMovesStep
<1>6. ASSUME NEW to \in Handoff, AgentHandsOff(to)
      PROVE  CycleInvariant' /\ Later(disk, disk')
  BY <1>6, HandsOffStep
<1>7. CASE Conclude \/ Settle
  BY <1>7, ConcludeStep, SettleStep
<1>8. CASE Poll \/ ConcludeFails
  BY <1>8, PollStep, ConcludeFailsStep
<1>9. CASE ToolStep
  BY <1>9, ToolChecksStep, ToolSealsStep, ToolRecordsStep, ToolAnswersStep DEF ToolStep
<1>10. CASE ToolFails \/ ToolCut
  BY <1>10, ToolAnswersStep
<1>11. ASSUME NEW m \in wire, Serve(m)
       PROVE  CycleInvariant' /\ Later(disk, disk')
  BY <1>11, ServeStep
<1>12. ASSUME NEW d \in Digests, Deploy(d)
       PROVE  CycleInvariant' /\ Later(disk, disk')
  BY <1>12, DeployStep
<1>13. CASE Tick \/ Crash
  BY <1>13, TickStep, CrashStep
<1> QED
  BY <1>1, <1>2, <1>3, <1>4, <1>5, <1>6, <1>7, <1>8, <1>9, <1>10, <1>11, <1>12, <1>13
     DEF CycleNext, AttemptStep

\* The invariant holds in every reachable state.
THEOREM CycleInvariantHolds ==
  CycleSpec => []CycleInvariant
<1>1. CycleInvariant /\ [CycleNext]_vars => CycleInvariant'
  BY CycleStep
<1> QED
  BY Initially, <1>1, PTL DEF CycleSpec

\* Every variable keeps its type; in particular a cycle never has more attempts,
\* nor more time charged, than its limits (reserve_attempt, settle_attempt).
THEOREM CycleTypes ==
  CycleSpec => []AnalysisTypeOK
<1>1. CycleInvariant => AnalysisTypeOK
  BY DEF CycleInvariant
<1> QED
  BY CycleInvariantHolds, <1>1, PTL

\* What the journal of a cycle that was created says.
LEMMA JournalSound ==
  ASSUME CycleInvariant, NEW c \in Created
  PROVE  /\ c \in Cycles /\ disk.cycles[c] # None /\ disk.cycles[c] \in FilesOfCycle
         /\ CycleSound(c, disk.cycles[c])
         /\ disk.cycles[c].attempts > 0 => disk.pointer = c \/ disk.cycles[c].outcome # None
  BY DEF CycleInvariant, DiskSound, Disks, Created

\* No artifact is written in a sealed workspace, through crashes between the
\* files of a seal and by whichever lease, session or call outlives another.
THEOREM SealsStayIntact ==
  CycleSpec => []SealIntact
<1>1. CycleInvariant => SealIntact
  BY JournalSound DEF SealIntact, CycleSound
<1> QED
  BY CycleInvariantHolds, <1>1, PTL

\* What the Contract Service admitted for a cycle is the proposal sealed in its
\* journal, with its original attempt, however often, by whatever attempt or
\* call, and across whatever crash it was submitted (propose_executable).
THEOREM AdmissionsMatchJournals ==
  CycleSpec => []AdmissionMatchesJournal
<1>1. CycleInvariant => AdmissionMatchesJournal
  BY DEF CycleInvariant, DiskSound, CycleSound, Sealed, AdmissionMatchesJournal, Created
<1> QED
  BY CycleInvariantHolds, <1>1, PTL

\* A cycle that ends with a Candidate has one at the Contract Service, of the
\* sealed analysis (complete_cycle).
THEOREM CandidatesAreAdmitted ==
  CycleSpec => []CandidateIsAdmitted
<1>1. ASSUME CycleInvariant, NEW c \in Ended, disk.cycles[c].outcome.kind = "candidate"
      PROVE  admitted[c] # None /\ admitted[c].manifest = disk.cycles[c].manifest
  <2>1. c \in Created /\ disk.cycles[c].outcome # None
    BY DEF Ended
  <2>2. c \in Cycles /\ CycleSound(c, disk.cycles[c])
    BY <1>1, <2>1, JournalSound
  <2> QED
    BY <1>1, <2>1, <2>2 DEF CycleSound, Sealed
<1>2. CycleInvariant => CandidateIsAdmitted
  BY <1>1 DEF CandidateIsAdmitted
<1> QED
  BY CycleInvariantHolds, <1>2, PTL

\* The attempt that runs is the latest of the open current cycle and is covered
\* by its own reservation (reserve_attempt), whatever stopped its predecessor.
THEOREM AttemptsAreCharged ==
  CycleSpec => []AttemptCharged
<1>1. CycleInvariant => AttemptCharged
  <2> SUFFICES ASSUME CycleInvariant, attempt.pc \in {"agent", "yielding", "ended", "verdict"}
               PROVE  /\ disk.pointer = attempt.cycle /\ attempt.cycle \notin Ended
                      /\ attempt.number # 0 =>
                           /\ Files.attempts = attempt.number
                           /\ OwnReservation(Files, attempt.number)
                           /\ Files.reservation.time <= Files.charged
    BY DEF AttemptCharged
  <2>1. /\ attempt # Free /\ attempt.cycle \in Cycles /\ Files # None
        /\ disk.pointer = attempt.cycle /\ Files.outcome = None
        /\ attempt.pc # "settle"
    BY AttemptTyped
  <2>2. CycleSound(attempt.cycle, Files)
    BY <2>1 DEF CycleInvariant, DiskSound, Files
  <2>3. attempt.number # 0 =>
          Files.attempts = attempt.number /\ OwnReservation(Files, attempt.number)
    BY <2>1 DEF CycleInvariant, AttemptSound
  <2> QED
    BY <2>1, <2>2, <2>3 DEF CycleSound, OwnReservation, Ended, Files
<1> QED
  BY CycleInvariantHolds, <1>1, PTL

\* No cycle on which an attempt was spent is lost: it stays the current one
\* until it has an outcome (prepare_cycle, complete_cycle).
THEOREM NoCycleIsAbandoned ==
  CycleSpec => []NothingAbandoned
<1>1. CycleInvariant => NothingAbandoned
  BY JournalSound DEF NothingAbandoned, Ended
<1> QED
  BY CycleInvariantHolds, <1>1, PTL

\* Sealed rules are the committed draft, drafted in another attempt than the one
\* that seals them (the restricted submission tool).
THEOREM SubmissionsAreReviewed ==
  CycleSpec => []ReviewedBeforeSubmitted
<1>1. CycleInvariant => ReviewedBeforeSubmitted
  BY JournalSound DEF ReviewedBeforeSubmitted, CycleSound
<1> QED
  BY CycleInvariantHolds, <1>1, PTL

\* Once an outcome is journaled, neither it nor the analysis it concludes ever
\* changes, even by calls that outlive the attempt.
THEOREM OutcomesAreFinal ==
  CycleSpec => OutcomeFinal
<1> DEFINE Final ==
      \A c \in Ended :
        LET was == disk.cycles[c]  is == disk'.cycles[c] IN
        /\ is.outcome = was.outcome /\ is.work = was.work /\ is.manifest = was.manifest
        /\ is.handoff = was.handoff /\ is.pending = was.pending
        /\ is.candidate = was.candidate
<1>1. CycleInvariant /\ [CycleNext]_vars => Final
  BY CycleStep DEF Later, Kept, Ended, Created
<1>2. CycleInvariant /\ [CycleNext]_vars => [Final]_vars
  BY <1>1
<1> HIDE DEF Final
<1>3. CycleSpec => [][Final]_vars
  BY CycleInvariantHolds, <1>2, PTL DEF CycleSpec
<1> QED
  BY <1>3 DEF OutcomeFinal, Final

\* While the contract stays, a new cycle starts no earlier than an interval after
\* the last one ended, also when a crash interrupted the completion.
THEOREM CyclesAreSpaced ==
  CycleSpec => CyclesSpaced
<1> DEFINE Apart ==
      \A c \in Ended, n \in Cycles :
         deploys = 0 /\ disk'.pointer = n /\ disk.pointer # n
           => now >= disk.cycles[c].outcome.at + Interval
<1>1. ASSUME CycleInvariant, [CycleNext]_vars PROVE Apart
  <2>1. disk'.pointer \in {disk.pointer, None} \/ Due(disk)
    BY <1>1, CycleStep DEF Later
  <2>2. \A n \in Cycles : n # None
    BY WorkspaceAssumption DEF WorkspaceAssumption
  <2>3. \A c \in Ended : c \in Cycles /\ Outcome(disk, c)
    BY DEF Ended, Created, Outcome
  <2> QED
    BY <2>1, <2>2, <2>3 DEF Due, EndedAt
<1>2. CycleInvariant /\ [CycleNext]_vars => [Apart]_vars
  BY <1>1
<1> HIDE DEF Apart
<1>3. CycleSpec => [][Apart]_vars
  BY CycleInvariantHolds, <1>2, PTL DEF CycleSpec
<1> QED
  BY <1>3 DEF CyclesSpaced, Apart
=============================================================================
