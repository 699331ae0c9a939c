------------------------ MODULE DecisionRuntimeProofs ------------------------
(***************************************************************************)
(* Proofs about the cache of the decision runtime, for every number of     *)
(* decisions, keys and entries, every size of the cache, and stores that   *)
(* return anything.                                                        *)
(*                                                                         *)
(* That the books of the cache are kept is not inductive.  What makes it   *)
(* so is whose entry is whose: a decision that inserted an entry is the    *)
(* only one that will enter it in the order, the entry is under its own    *)
(* key or under none until then, and only compiled entries are in the      *)
(* order, so that an invalid entry that leaves the map leaves no pair      *)
(* behind.  What an entry was made from is a second invariant over that:   *)
(* whoever holds an entry has read a row of one key.                       *)
(***************************************************************************)
EXTENDS DecisionRuntime, LoopProofs

\* The loop of the eviction ends: with a map that fits, or with an empty order.
LEMMA EvictedCount ==
  ASSUME NEW map, NEW queue, Len(queue) \in Nat
  PROVE  /\ Evicted(map, queue) \in 0..Len(queue)
         /\ \/ Cardinality(DOMAIN Without(map, queue, Evicted(map, queue))) <= MaximumCompiled
            \/ Evicted(map, queue) = Len(queue)
  <1> DEFINE fits(n) == Cardinality(DOMAIN Without(map, queue, n)) <= MaximumCompiled
             T == {n \in 0..Len(queue) : fits(n) \/ n = Len(queue)}
             P(n) == /\ fits(n) \/ n = Len(queue)
                     /\ \A m \in 0..(n - 1) : ~fits(m)
  <1>1. \E n \in T : \A m \in T : n <= m
    <2>1. T \in SUBSET Nat /\ Len(queue) \in T
      OBVIOUS
    <2> HIDE DEF T
    <2> QED
      BY <2>1, LeastNatural
  <1>2. \E n \in 0..Len(queue) : P(n)
    <2>1. PICK n \in T : \A m \in T : n <= m
      BY <1>1
    <2>2. ASSUME NEW m \in 0..(n - 1)
          PROVE  ~fits(m)
      <3>1. m \in 0..Len(queue) /\ ~(n <= m)
        BY <2>2
      <3> QED
        BY <3>1, <2>1
    <2> QED
      BY <2>2
  <1>3. Evicted(map, queue) = CHOOSE n \in 0..Len(queue) : P(n)
    BY DEF Evicted
  <1> HIDE DEF P
  <1>4. Evicted(map, queue) \in 0..Len(queue) /\ P(Evicted(map, queue))
    BY <1>2, <1>3
  <1> QED
    BY <1>4 DEF P

-----------------------------------------------------------------------------
(* The inductive invariant *)

Busy(t) == task[t].step \in {"fill", "settle"}

\* A decision that is to enter its own cache entry in the order, or to drop it.
Making(t) == Busy(t) /\ task[t].inserted

Keys == {Key(r) : r \in Rows}

Answers == {Evaluated(q, r) : q \in Requests, r \in Results} \union {NoResult}

Tasks == [step : {"idle", "read", "lookup", "fill", "settle", "answered"},
          request : Requests \union {NoRequest}, row : Rows \union {NoRow},
          slot : Slots \union {NoSlot}, inserted : BOOLEAN, answer : Answers]

Known(result) == result \in Results

CacheTyped ==
  /\ entries \in [DOMAIN entries -> Slots] /\ DOMAIN entries \subseteq Keys
  /\ order \in Seq(Keys \X Slots)
  /\ cell \in [Slots -> Results \union {NoResult}]

TasksTyped ==
  /\ task \in [Threads -> Tasks]
  /\ \A t \in Threads : At(t, "idle") => task[t] = Idle

\* What a decision knows by the step it has come to.
TasksReady ==
  \A t \in Threads :
    /\ task[t].step \in {"read", "lookup", "fill", "settle"} =>
         task[t].request \in Requests /\ (~Busy(t) => ~task[t].inserted)
    /\ task[t].step \in {"lookup", "fill", "settle"} => task[t].row \in Rows
    /\ Busy(t) => task[t].slot \in Slots
    /\ At(t, "settle") => Known(cell[task[t].slot])

\* No two keys and no two decisions in progress have made one entry.
OwnSlots ==
  /\ \A k, l \in DOMAIN entries : entries[k] = entries[l] => k = l
  /\ \A t, u \in Threads : Making(t) /\ Making(u) /\ task[t].slot = task[u].slot => t = u
  /\ \A t \in Threads : Making(t) => \A i \in DOMAIN order : order[i][2] # task[t].slot

\* An entry a decision holds is under its key or under none, and stays under
\* it until it is entered in the order or found to be invalid.
OwnKeys ==
  \A t \in Threads :
    /\ Busy(t) => \A k \in DOMAIN entries : entries[k] = task[t].slot => k = Key(task[t].row)
    /\ Making(t) => \/ Known(cell[task[t].slot]) /\ IsInvalid(cell[task[t].slot])
                    \/ /\ Key(task[t].row) \in DOMAIN entries
                       /\ entries[Key(task[t].row)] = task[t].slot

\* Only compiled executables are in the order.
OrderCompiled ==
  \A i \in DOMAIN order : Known(cell[order[i][2]]) /\ IsCompiled(cell[order[i][2]])

Accounted(k) ==
  \/ \E i \in DOMAIN order : order[i] = <<k, entries[k]>>
  \/ \E t \in Threads : Making(t) /\ task[t].slot = entries[k]
  \/ /\ Known(cell[entries[k]])
     /\ ~IsCompiled(cell[entries[k]]) /\ ~IsInvalid(cell[entries[k]])

CacheInvariant ==
  /\ CacheTyped
  /\ TasksTyped
  /\ TasksReady
  /\ OwnSlots
  /\ OwnKeys
  /\ OrderCompiled
  /\ OrderCurrent
  /\ Len(order) <= MaximumCompiled
  /\ \A k \in DOMAIN entries : Accounted(k)

\* The invariant contains what is to be shown.
LEMMA CacheInvariantSuffices ==
  CacheInvariant => CacheAccounted /\ RuntimeTypeOK
  <1>1. CacheInvariant => CacheAccounted
    BY DEF CacheInvariant, CacheAccounted, EntriesAccounted, Accounted, Making, Busy, Known
  <1>2. CacheInvariant => RuntimeTypeOK
    BY DEF CacheInvariant, CacheTyped, TasksTyped, Tasks, RuntimeTypeOK
  <1> QED
    BY <1>1, <1>2

\* The empty cache.
LEMMA InitCache == RuntimeInit => CacheInvariant
  <1> SUFFICES ASSUME RuntimeInit
               PROVE  CacheInvariant
    OBVIOUS
  <1> USE RuntimeAssumption DEF RuntimeInit, Idle, At, Busy, Making
  <1>1. CacheTyped
    BY DEF CacheTyped, Keys
  <1>2. TasksTyped
    BY DEF TasksTyped, Tasks, Answers
  <1>3. TasksReady
    BY DEF TasksReady
  <1>4. OwnSlots /\ OwnKeys
    BY DEF OwnSlots, OwnKeys
  <1>5. OrderCompiled /\ OrderCurrent /\ Len(order) <= MaximumCompiled
    BY DEF OrderCompiled, OrderCurrent
  <1>6. \A k \in DOMAIN entries : Accounted(k)
    OBVIOUS
  <1> QED
    BY <1>1, <1>2, <1>3, <1>4, <1>5, <1>6 DEF CacheInvariant

-----------------------------------------------------------------------------
(* One lemma per step of a decision. *)

\* A step of a decision that holds no entry, before or after.
LEMMA OutsideKeeps ==
  ASSUME CacheInvariant, NEW t \in Threads, ~Busy(t), NEW v \in Tasks,
         v.step \notin {"fill", "settle"},
         v.step = "idle" => v = Idle,
         v.step \in {"read", "lookup"} => v.request \in Requests /\ ~v.inserted,
         v.step = "lookup" => v.row \in Rows,
         task' = [task EXCEPT ![t] = v], UNCHANGED <<entries, order, cell>>
  PROVE  CacheInvariant'
  <1>1. /\ task' \in [Threads -> Tasks] /\ task'[t] = v
        /\ \A u \in Threads : u # t => task'[u] = task[u]
    BY DEF CacheInvariant, TasksTyped
  <1>2. /\ ~Busy(t)' /\ \A u \in Threads : Busy(u)' <=> Busy(u)
        /\ \A u \in Threads : Making(u)' <=> Making(u)
        /\ \A u \in Threads : Busy(u) => task'[u] = task[u]
    BY <1>1 DEF Busy, Making
  <1>3. entries' = entries /\ order' = order /\ cell' = cell
    OBVIOUS
  <1>4. CacheTyped' /\ OrderCompiled' /\ OrderCurrent' /\ (Len(order) <= MaximumCompiled)'
    BY <1>3 DEF CacheInvariant, CacheTyped, OrderCompiled, OrderCurrent
  <1>5. TasksTyped'
    BY <1>1 DEF CacheInvariant, TasksTyped, At
  <1>6. TasksReady'
    <2> SUFFICES ASSUME NEW u \in Threads
                 PROVE  (/\ task[u].step \in {"read", "lookup", "fill", "settle"} =>
                              task[u].request \in Requests /\ (~Busy(u) => ~task[u].inserted)
                         /\ task[u].step \in {"lookup", "fill", "settle"} => task[u].row \in Rows
                         /\ Busy(u) => task[u].slot \in Slots
                         /\ At(u, "settle") => Known(cell[task[u].slot]))'
      BY DEF TasksReady
    <2>1. CASE u = t
      BY <2>1, <1>1, <1>2 DEF At
    <2>2. CASE u # t
      BY <2>2, <1>1, <1>2, <1>3 DEF CacheInvariant, TasksReady, At
    <2> QED
      BY <2>1, <2>2
  <1>7. OwnSlots'
    BY <1>1, <1>2, <1>3 DEF CacheInvariant, OwnSlots, Making
  <1>8. OwnKeys'
    BY <1>1, <1>2, <1>3 DEF CacheInvariant, OwnKeys, Making
  <1>9. (\A k \in DOMAIN entries : Accounted(k))'
    BY <1>1, <1>2, <1>3 DEF CacheInvariant, Accounted, Making
  <1> QED
    BY <1>4, <1>5, <1>6, <1>7, <1>8, <1>9 DEF CacheInvariant

\* A decision begins: its request may have been refused already.
LEMMA BeginKeeps ==
  ASSUME CacheInvariant, NEW t \in Threads, NEW request \in Requests \union {NoRequest},
         NEW accepted \in BOOLEAN, accepted => request \in Requests, Begin(t, request, accepted)
  PROVE  CacheInvariant'
  <1> DEFINE v == [task[t] EXCEPT !.step = IF accepted THEN "read" ELSE "answered",
                                  !.request = request]
  <1>1. task[t].step = "idle" /\ task[t] = Idle /\ task[t] \in Tasks /\ ~Busy(t)
    BY DEF CacheInvariant, TasksTyped, Begin, At, Busy
  <1>2. ~task[t].inserted
    BY <1>1 DEF Idle
  <1>3. /\ v \in Tasks /\ v.step = (IF accepted THEN "read" ELSE "answered")
        /\ v.request = request /\ ~v.inserted
    BY <1>1, <1>2 DEF Tasks
  <1>4. task' = [task EXCEPT ![t] = v] /\ UNCHANGED <<entries, order, cell>>
    BY DEF Begin, CacheInvariant, TasksTyped
  <1> HIDE DEF v
  <1> QED
    BY <1>1, <1>3, <1>4, OutsideKeeps

\* The row is read, or there is none.
LEMMA ReadActiveKeeps ==
  ASSUME CacheInvariant, NEW t \in Threads, NEW row \in Rows \union {NoRow}, ReadActive(t, row)
  PROVE  CacheInvariant'
  <1> DEFINE v == [task[t] EXCEPT !.step = IF row = NoRow THEN "answered" ELSE "lookup",
                                  !.row = row]
  <1>1. task[t].step = "read" /\ task[t] \in Tasks /\ ~Busy(t)
    BY DEF CacheInvariant, TasksTyped, ReadActive, At, Busy
  <1>2. task[t].request \in Requests /\ ~task[t].inserted
    BY <1>1 DEF CacheInvariant, TasksReady
  <1>3. /\ v \in Tasks /\ v.step \in {"lookup", "answered"}
        /\ v.request = task[t].request /\ ~v.inserted
        /\ v.step = "lookup" => v.row \in Rows
    BY <1>1, <1>2 DEF Tasks
  <1>4. task' = [task EXCEPT ![t] = v] /\ UNCHANGED <<entries, order, cell>>
    BY DEF ReadActive, CacheInvariant, TasksTyped
  <1> HIDE DEF v
  <1> QED
    BY <1>1, <1>2, <1>3, <1>4, OutsideKeeps

\* The decision is answered and lets go of its entry.
LEMMA ReturnKeeps ==
  ASSUME CacheInvariant, NEW t \in Threads, Return(t)
  PROVE  CacheInvariant'
  <1>1. Idle \in Tasks /\ Idle.step = "idle"
    BY DEF Idle, Tasks, Answers
  <1>2. ~Busy(t) /\ task' = [task EXCEPT ![t] = Idle] /\ UNCHANGED <<entries, order, cell>>
    BY DEF Return, At, Busy
  <1> QED
    BY <1>1, <1>2, OutsideKeeps

\* The decision shares the entry it finds.
LEMMA SharesKeeps ==
  ASSUME CacheInvariant, NEW t \in Threads, At(t, "lookup"), NEW key, key = Key(task[t].row),
         key \in DOMAIN entries,
         task' = [task EXCEPT ![t].step = "fill", ![t].slot = entries[key]],
         UNCHANGED <<entries, order, cell>>
  PROVE  CacheInvariant'
  <1> DEFINE v == [task[t] EXCEPT !.step = "fill", !.slot = entries[key]]
  <1>2. /\ task[t] \in Tasks /\ task[t].step = "lookup" /\ ~task[t].inserted
        /\ task[t].request \in Requests /\ task[t].row \in Rows
    BY DEF CacheInvariant, TasksTyped, TasksReady, At, Busy
  <1>1. /\ task' \in [Threads -> Tasks] /\ task'[t] = v
        /\ \A u \in Threads : u # t => task'[u] = task[u]
    <2>1. v \in Tasks
      BY <1>2 DEF Tasks, CacheInvariant, CacheTyped
    <2>2. task' = [task EXCEPT ![t] = v]
      BY DEF CacheInvariant, TasksTyped
    <2> HIDE DEF v
    <2> QED
      BY <2>1, <2>2 DEF CacheInvariant, TasksTyped
  <1>3. /\ task'[t].step = "fill" /\ task'[t].slot = entries[key] /\ ~task'[t].inserted
        /\ task'[t].request = task[t].request /\ task'[t].row = task[t].row
    BY <1>1, <1>2 DEF Tasks
  <1>4. entries' = entries /\ order' = order /\ cell' = cell
    OBVIOUS
  <1>5. /\ \A u \in Threads : Making(u)' <=> Making(u)
        /\ \A u \in Threads : Making(u) => task'[u] = task[u]
        /\ \A u \in Threads : u # t => (Busy(u)' <=> Busy(u))
    BY <1>1, <1>2, <1>3 DEF Busy, Making
  <1>6. CacheTyped' /\ OrderCompiled' /\ OrderCurrent' /\ (Len(order) <= MaximumCompiled)'
    BY <1>4 DEF CacheInvariant, CacheTyped, OrderCompiled, OrderCurrent
  <1>7. TasksTyped'
    BY <1>1, <1>3 DEF CacheInvariant, TasksTyped, At
  <1>8. TasksReady'
    <2>1. entries[key] \in Slots
      BY DEF CacheInvariant, CacheTyped
    <2> QED
      BY <2>1, <1>1, <1>2, <1>3, <1>4, <1>5 DEF CacheInvariant, TasksReady, At, Busy
  <1>9. OwnSlots'
    BY <1>4, <1>5 DEF CacheInvariant, OwnSlots
  <1>10. OwnKeys'
    <2>1. \A k \in DOMAIN entries : entries[k] = entries[key] => k = Key(task[t].row)
      BY DEF CacheInvariant, OwnSlots
    <2> QED
      BY <2>1, <1>1, <1>3, <1>4, <1>5 DEF CacheInvariant, OwnKeys
  <1>11. (\A k \in DOMAIN entries : Accounted(k))'
    BY <1>4, <1>5 DEF CacheInvariant, Accounted
  <1> QED
    BY <1>6, <1>7, <1>8, <1>9, <1>10, <1>11 DEF CacheInvariant

\* The decision inserts an empty entry that nothing refers to yet.
LEMMA InsertsKeeps ==
  ASSUME CacheInvariant, NEW t \in Threads, At(t, "lookup"), NEW key, key = Key(task[t].row),
         key \notin DOMAIN entries, NEW s \in Slots, Free(s),
         entries' = [k \in DOMAIN entries \union {key} |-> IF k = key THEN s ELSE entries[k]],
         cell' = [cell EXCEPT ![s] = NoResult],
         task' = [task EXCEPT ![t].step = "fill", ![t].slot = s, ![t].inserted = TRUE],
         UNCHANGED order
  PROVE  CacheInvariant'
  <1> DEFINE v == [task[t] EXCEPT !.step = "fill", !.slot = s, !.inserted = TRUE]
  <1>2. /\ task[t] \in Tasks /\ task[t].step = "lookup"
        /\ task[t].request \in Requests /\ task[t].row \in Rows
    BY DEF CacheInvariant, TasksTyped, TasksReady, At, Busy
  <1>1. /\ task' \in [Threads -> Tasks] /\ task'[t] = v
        /\ \A u \in Threads : u # t => task'[u] = task[u]
    <2>1. v \in Tasks
      BY <1>2 DEF Tasks
    <2>2. task' = [task EXCEPT ![t] = v]
      BY DEF CacheInvariant, TasksTyped
    <2> HIDE DEF v
    <2> QED
      BY <2>1, <2>2 DEF CacheInvariant, TasksTyped
  <1>3. /\ task'[t].step = "fill" /\ task'[t].slot = s /\ task'[t].inserted
        /\ task'[t].request = task[t].request /\ task'[t].row = task[t].row
    BY <1>1, <1>2 DEF Tasks
  <1>4. /\ DOMAIN entries' = DOMAIN entries \union {key} /\ entries'[key] = s
        /\ \A k \in DOMAIN entries : entries'[k] = entries[k] /\ entries[k] # s
    BY DEF Free
  <1>5. /\ \A u \in Threads : task[u].slot # s
        /\ \A i \in DOMAIN order : order[i][2] # s
        /\ order' = order
    BY DEF Free
  <1>6. /\ cell' \in [Slots -> Results \union {NoResult}] /\ cell'[s] = NoResult
        /\ \A r \in Slots : r # s => cell'[r] = cell[r]
    BY DEF CacheInvariant, CacheTyped
  <1>7. /\ \A u \in Threads : u # t => (Making(u)' <=> Making(u)) /\ (Busy(u)' <=> Busy(u))
        /\ ~Busy(t) /\ ~Making(t) /\ Busy(t)' /\ Making(t)'
        /\ \A u \in Threads : Busy(u) => task[u].slot \in Slots
    BY <1>1, <1>2, <1>3 DEF Busy, Making, CacheInvariant, TasksReady
  <1>8. /\ \A i \in DOMAIN order : order[i][2] \in Slots /\ cell'[order[i][2]] = cell[order[i][2]]
        /\ \A k \in DOMAIN entries : entries[k] \in Slots /\ cell'[entries[k]] = cell[entries[k]]
    BY <1>4, <1>5, <1>6 DEF CacheInvariant, CacheTyped
  <1>9. CacheTyped'
    <2>1. entries' \in [DOMAIN entries' -> Slots]
      BY <1>4, <1>8
    <2>2. DOMAIN entries' \subseteq Keys
      BY <1>2, <1>4 DEF CacheInvariant, CacheTyped, Keys
    <2> QED
      BY <2>1, <2>2, <1>5, <1>6 DEF CacheInvariant, CacheTyped
  <1>10. OrderCompiled' /\ OrderCurrent' /\ (Len(order) <= MaximumCompiled)'
    BY <1>4, <1>5, <1>8 DEF CacheInvariant, OrderCompiled, OrderCurrent
  <1>11. TasksTyped'
    BY <1>1, <1>3 DEF CacheInvariant, TasksTyped, At
  <1>12. TasksReady'
    BY <1>1, <1>2, <1>3, <1>5, <1>6, <1>7 DEF CacheInvariant, TasksReady, At, Busy
  <1>13. OwnSlots'
    BY <1>1, <1>3, <1>4, <1>5, <1>7 DEF CacheInvariant, OwnSlots
  <1>14. OwnKeys'
    BY <1>1, <1>3, <1>4, <1>5, <1>6, <1>7 DEF CacheInvariant, OwnKeys
  <1>15. (\A k \in DOMAIN entries : Accounted(k))'
    BY <1>1, <1>3, <1>4, <1>5, <1>7, <1>8 DEF CacheInvariant, Accounted
  <1> QED
    BY <1>9, <1>10, <1>11, <1>12, <1>13, <1>14, <1>15 DEF CacheInvariant

\* Either way of the lookup.
LEMMA LookupKeeps ==
  ASSUME CacheInvariant, NEW t \in Threads, Lookup(t)
  PROVE  CacheInvariant'
  <1> DEFINE key == Key(task[t].row)
  <1>1. At(t, "lookup")
    BY DEF Lookup
  <1>2. CASE key \in DOMAIN entries
    <2>1. /\ task' = [task EXCEPT ![t].step = "fill", ![t].slot = entries[key]]
          /\ UNCHANGED <<entries, order, cell>>
      BY <1>2 DEF Lookup
    <2> HIDE DEF key
    <2> QED
      BY <1>1, <1>2, <2>1, SharesKeeps DEF key
  <1>3. CASE key \notin DOMAIN entries
    <2>1. PICK s \in Slots :
            /\ Free(s)
            /\ entries' = [k \in DOMAIN entries \union {key} |-> IF k = key THEN s ELSE entries[k]]
            /\ cell' = [cell EXCEPT ![s] = NoResult]
            /\ task' = [task EXCEPT ![t].step = "fill", ![t].slot = s, ![t].inserted = TRUE]
      BY <1>3 DEF Lookup
    <2>2. UNCHANGED order
      BY DEF Lookup
    <2> QED
      BY <1>1, <1>3, <2>1, <2>2, InsertsKeeps
  <1> QED
    BY <1>2, <1>3

\* An entry gets its result, once.
LEMMA FillKeeps ==
  ASSUME CacheInvariant, NEW t \in Threads, Fill(t)
  PROVE  CacheInvariant'
  <1> DEFINE v == [task[t] EXCEPT !.step = "settle"]
             s == task[t].slot
             result == Materialized(task[t].request, task[t].row)
  <1>1. /\ task[t] \in Tasks /\ task[t].step = "fill" /\ Busy(t)
        /\ task[t].request \in Requests /\ task[t].row \in Rows /\ s \in Slots
    BY DEF CacheInvariant, TasksTyped, TasksReady, Fill, At, Busy
  <1>2. /\ task' \in [Threads -> Tasks] /\ task'[t] = v
        /\ \A u \in Threads : u # t => task'[u] = task[u]
    <2>1. v \in Tasks
      BY <1>1 DEF Tasks
    <2>2. task' = [task EXCEPT ![t] = v]
      BY DEF Fill, CacheInvariant, TasksTyped
    <2> HIDE DEF v
    <2> QED
      BY <2>1, <2>2 DEF CacheInvariant, TasksTyped
  <1>3. /\ v.step = "settle" /\ v.slot = s /\ v.inserted = task[t].inserted
        /\ v.request = task[t].request /\ v.row = task[t].row
    BY <1>1 DEF Tasks
  <1> HIDE DEF v
  <1>4. /\ \A u \in Threads : Busy(u)' <=> Busy(u)
        /\ \A u \in Threads : Making(u)' <=> Making(u)
        /\ \A u \in Threads : task'[u].slot = task[u].slot /\ task'[u].row = task[u].row
    BY <1>1, <1>2, <1>3 DEF Busy, Making
  <1>5. entries' = entries /\ order' = order
    BY DEF Fill
  <1>6. /\ cell' \in [Slots -> Results \union {NoResult}] /\ Known(cell'[s])
        /\ \A r \in Slots : Known(cell[r]) => cell'[r] = cell[r]
    <2>1. result \in Results /\ NoResult \notin Results
      BY <1>1, RuntimeAssumption
    <2>2. cell \in [Slots -> Results \union {NoResult}]
      BY DEF CacheInvariant, CacheTyped
    <2>3. cell' = IF cell[s] = NoResult THEN [cell EXCEPT ![s] = result] ELSE cell
      BY DEF Fill
    <2> HIDE DEF result, s
    <2> QED
      BY <1>1, <2>1, <2>2, <2>3 DEF Known
  <1>7. /\ \A i \in DOMAIN order : order[i][2] \in Slots
        /\ \A k \in DOMAIN entries : entries[k] \in Slots
        /\ \A u \in Threads : Busy(u) => task[u].slot \in Slots
    BY DEF CacheInvariant, CacheTyped, TasksReady
  <1>8. CacheTyped' /\ OrderCurrent' /\ (Len(order) <= MaximumCompiled)'
    BY <1>5, <1>6 DEF CacheInvariant, CacheTyped, OrderCurrent
  <1>9. OrderCompiled'
    BY <1>5, <1>6, <1>7 DEF CacheInvariant, OrderCompiled
  <1>10. TasksTyped'
    BY <1>2, <1>3 DEF CacheInvariant, TasksTyped, At
  <1>11. TasksReady'
    <2> SUFFICES ASSUME NEW u \in Threads
                 PROVE  (/\ task[u].step \in {"read", "lookup", "fill", "settle"} =>
                              task[u].request \in Requests /\ (~Busy(u) => ~task[u].inserted)
                         /\ task[u].step \in {"lookup", "fill", "settle"} => task[u].row \in Rows
                         /\ Busy(u) => task[u].slot \in Slots
                         /\ At(u, "settle") => Known(cell[task[u].slot]))'
      BY DEF TasksReady
    <2>1. CASE u = t
      BY <2>1, <1>1, <1>2, <1>3, <1>4, <1>6
    <2>2. CASE u # t
      <3>1. task'[u] = task[u] /\ (Busy(u)' <=> Busy(u))
        BY <2>2, <1>2, <1>4
      <3>2. At(u, "settle") => cell'[task[u].slot] = cell[task[u].slot]
        BY <1>6, <1>7 DEF CacheInvariant, TasksReady, At, Busy
      <3> QED
        BY <3>1, <3>2 DEF CacheInvariant, TasksReady, At
    <2> QED
      BY <2>1, <2>2
  <1>12. OwnSlots'
    BY <1>4, <1>5 DEF CacheInvariant, OwnSlots
  <1>13. OwnKeys'
    <2> SUFFICES ASSUME NEW u \in Threads
                 PROVE  (/\ Busy(u) => \A k \in DOMAIN entries :
                                         entries[k] = task[u].slot => k = Key(task[u].row)
                         /\ Making(u) => \/ /\ Known(cell[task[u].slot])
                                            /\ IsInvalid(cell[task[u].slot])
                                         \/ /\ Key(task[u].row) \in DOMAIN entries
                                            /\ entries[Key(task[u].row)] = task[u].slot)'
      BY DEF OwnKeys
    <2>1. Making(u) /\ Known(cell[task[u].slot]) => cell'[task[u].slot] = cell[task[u].slot]
      BY <1>6, <1>7 DEF Making
    <2> QED
      BY <2>1, <1>4, <1>5 DEF CacheInvariant, OwnKeys
  <1>14. (\A k \in DOMAIN entries : Accounted(k))'
    <2> SUFFICES ASSUME NEW k \in DOMAIN entries
                 PROVE  Accounted(k)'
      BY <1>5
    <2>1. Known(cell[entries[k]]) => cell'[entries[k]] = cell[entries[k]]
      BY <1>6, <1>7
    <2>2. Accounted(k)
      BY DEF CacheInvariant
    <2> QED
      BY <2>1, <2>2, <1>4, <1>5 DEF Accounted
  <1> QED
    BY <1>8, <1>9, <1>10, <1>11, <1>12, <1>13, <1>14 DEF CacheInvariant

\* A decision that has its answer is busy no more; the others go on as before.
LEMMA AnsweredTask ==
  ASSUME CacheInvariant, NEW t \in Threads, NEW v \in Tasks, v.step = "answered",
         task' = [task EXCEPT ![t] = v], cell' = cell
  PROVE  /\ TasksTyped' /\ TasksReady'
         /\ ~Busy(t)' /\ ~Making(t)'
         /\ \A u \in Threads : u # t => /\ task'[u] = task[u]
                                        /\ Busy(u)' <=> Busy(u)
                                        /\ Making(u)' <=> Making(u)
  <1>1. /\ task' \in [Threads -> Tasks] /\ task'[t] = v
        /\ \A u \in Threads : u # t => task'[u] = task[u]
    BY DEF CacheInvariant, TasksTyped
  <1>2. /\ ~Busy(t)' /\ ~Making(t)'
        /\ \A u \in Threads : u # t => (Busy(u)' <=> Busy(u)) /\ (Making(u)' <=> Making(u))
    BY <1>1 DEF Busy, Making
  <1>3. TasksTyped'
    BY <1>1 DEF CacheInvariant, TasksTyped, At
  <1>4. TasksReady'
    <2> SUFFICES ASSUME NEW u \in Threads
                 PROVE  (/\ task[u].step \in {"read", "lookup", "fill", "settle"} =>
                              task[u].request \in Requests /\ (~Busy(u) => ~task[u].inserted)
                         /\ task[u].step \in {"lookup", "fill", "settle"} => task[u].row \in Rows
                         /\ Busy(u) => task[u].slot \in Slots
                         /\ At(u, "settle") => Known(cell[task[u].slot]))'
      BY DEF TasksReady
    <2>1. CASE u = t
      BY <2>1, <1>1, <1>2 DEF At
    <2>2. CASE u # t
      BY <2>2, <1>1, <1>2 DEF CacheInvariant, TasksReady, At
    <2> QED
      BY <2>1, <2>2
  <1> QED
    BY <1>1, <1>2, <1>3, <1>4

\* An invalid entry is in no order and leaves the map; another failure stays.
LEMMA SettleFailedKeeps ==
  ASSUME CacheInvariant, NEW t \in Threads, SettleFailed(t)
  PROVE  CacheInvariant'
  <1> DEFINE v == [task[t] EXCEPT !.step = "answered"]
             s == task[t].slot
             key == Key(task[t].row)
  <1>1. /\ task[t] \in Tasks /\ Busy(t) /\ s \in Slots
        /\ Known(cell[s]) /\ ~IsCompiled(cell[s])
    BY DEF CacheInvariant, TasksTyped, TasksReady, SettleFailed, At, Busy
  <1>2. order' = order /\ cell' = cell
    BY DEF SettleFailed
  <1>3. /\ TasksTyped' /\ TasksReady'
        /\ ~Busy(t)' /\ ~Making(t)'
        /\ \A u \in Threads : u # t => /\ task'[u] = task[u]
                                       /\ Busy(u)' <=> Busy(u)
                                       /\ Making(u)' <=> Making(u)
    <2>1. v \in Tasks /\ v.step = "answered"
      BY <1>1 DEF Tasks
    <2>2. task' = [task EXCEPT ![t] = v]
      BY DEF SettleFailed, CacheInvariant, TasksTyped
    <2> HIDE DEF v
    <2> QED
      BY <2>1, <2>2, <1>2, AnsweredTask
  <1>4. /\ DOMAIN entries' \subseteq DOMAIN entries
        /\ \A k \in DOMAIN entries' : entries'[k] = entries[k]
        /\ \A k \in DOMAIN entries : entries[k] # s => k \in DOMAIN entries'
        /\ entries' \in [DOMAIN entries' -> Slots]
        /\ IsInvalid(cell[s]) => \A k \in DOMAIN entries' : entries'[k] # s
    <2>1. entries' = IF IsInvalid(cell[s]) THEN Removed(key, s) ELSE entries
      BY DEF SettleFailed
    <2>2. \A k \in DOMAIN entries : entries[k] \in Slots /\ (entries[k] = s => k = key)
      BY <1>1 DEF CacheInvariant, CacheTyped, OwnKeys
    <2>3. entries \in [DOMAIN entries -> Slots]
      BY DEF CacheInvariant, CacheTyped
    <2> HIDE DEF s, key
    <2>4. CASE IsInvalid(cell[s]) /\ key \in DOMAIN entries /\ entries[key] = s
      <3>1. entries' = [k \in DOMAIN entries \ {key} |-> entries[k]]
        BY <2>1, <2>4 DEF Removed
      <3> QED
        BY <3>1, <2>2, <2>4
    <2>5. CASE ~(IsInvalid(cell[s]) /\ key \in DOMAIN entries /\ entries[key] = s)
      <3>1. entries' = entries
        BY <2>1, <2>5 DEF Removed
      <3> QED
        BY <3>1, <2>2, <2>3, <2>5
    <2> QED
      BY <2>4, <2>5
  <1>5. \A i \in DOMAIN order : order[i][2] # s
    BY <1>1 DEF CacheInvariant, OrderCompiled
  <1>6. CacheTyped' /\ OrderCompiled' /\ (Len(order) <= MaximumCompiled)'
    BY <1>2, <1>4 DEF CacheInvariant, CacheTyped, OrderCompiled
  <1>7. OrderCurrent'
    BY <1>2, <1>4, <1>5 DEF CacheInvariant, OrderCurrent
  <1>8. OwnSlots'
    BY <1>2, <1>3, <1>4 DEF CacheInvariant, OwnSlots
  <1>9. OwnKeys'
    <2> SUFFICES ASSUME NEW u \in Threads, u # t
                 PROVE  (/\ Busy(u) => \A k \in DOMAIN entries :
                                         entries[k] = task[u].slot => k = Key(task[u].row)
                         /\ Making(u) => \/ /\ Known(cell[task[u].slot])
                                            /\ IsInvalid(cell[task[u].slot])
                                         \/ /\ Key(task[u].row) \in DOMAIN entries
                                            /\ entries[Key(task[u].row)] = task[u].slot)'
      BY <1>3 DEF OwnKeys
    <2>1. ~IsInvalid(cell[s]) => entries' = entries
      BY DEF SettleFailed
    <2>2. task'[u] = task[u] /\ (Busy(u)' <=> Busy(u)) /\ (Making(u)' <=> Making(u))
      BY <1>3
    <2>3. /\ Busy(u) => \A k \in DOMAIN entries :
                          entries[k] = task[u].slot => k = Key(task[u].row)
          /\ Making(u) => \/ /\ Known(cell[task[u].slot])
                             /\ IsInvalid(cell[task[u].slot])
                          \/ /\ Key(task[u].row) \in DOMAIN entries
                             /\ entries[Key(task[u].row)] = task[u].slot
      BY DEF CacheInvariant, OwnKeys
    <2> QED
      BY <2>1, <2>2, <2>3, <1>1, <1>2, <1>4
  <1>10. (\A k \in DOMAIN entries : Accounted(k))'
    <2> SUFFICES ASSUME NEW k \in DOMAIN entries'
                 PROVE  Accounted(k)'
      OBVIOUS
    <2>1. k \in DOMAIN entries /\ entries'[k] = entries[k] /\ Accounted(k)
      BY <1>4 DEF CacheInvariant
    <2>2. CASE entries[k] = s
      BY <2>1, <2>2, <1>1, <1>2, <1>4 DEF Accounted
    <2>3. CASE entries[k] # s
      <3>1. ASSUME NEW u \in Threads, Making(u), task[u].slot = entries[k]
            PROVE  Making(u)' /\ task'[u].slot = entries'[k]
        BY <3>1, <2>1, <2>3, <1>3
      <3> QED
        BY <3>1, <2>1, <1>2 DEF Accounted
    <2> QED
      BY <2>2, <2>3
  <1> QED
    BY <1>3, <1>6, <1>7, <1>8, <1>9, <1>10 DEF CacheInvariant

\* What is left of a queue when its first n elements are gone.
LEMMA RestOfQueue ==
  ASSUME NEW S, NEW queue \in Seq(S), NEW n \in 0..Len(queue)
  PROVE  /\ SubSeq(queue, n + 1, Len(queue)) \in Seq(S)
         /\ Len(SubSeq(queue, n + 1, Len(queue))) = Len(queue) - n
         /\ \A i \in 1..(Len(queue) - n) : SubSeq(queue, n + 1, Len(queue))[i] = queue[n + i]
  OBVIOUS

\* The order after an entry was put in it and the oldest n were evicted.
LEMMA EnteredKeeps ==
  ASSUME CacheInvariant, NEW t \in Threads, Making(t), NEW s, s = task[t].slot,
         NEW key, key = Key(task[t].row), Known(cell[s]), IsCompiled(cell[s]),
         NEW queue \in Seq(Keys \X Slots), Len(queue) = Len(order) + 1,
         queue[Len(queue)] = <<key, s>>, \A i \in 1..Len(order) : queue[i] = order[i],
         NEW n \in 0..Len(queue),
         NEW v \in Tasks, v.step = "answered",
         entries' = Without(entries, queue, n),
         order' \in Seq(Keys \X Slots), Len(order') = Len(queue) - n,
         \A i \in 1..Len(order') : order'[i] = queue[n + i],
         Cardinality(DOMAIN entries') <= MaximumCompiled \/ n = Len(queue),
         task' = [task EXCEPT ![t] = v], cell' = cell
  PROVE  CacheInvariant'
  <1> DEFINE gone == {k \in DOMAIN entries : \E i \in 1..n : queue[i] = <<k, entries[k]>>}
  <1>1. /\ TasksTyped' /\ TasksReady'
        /\ ~Busy(t)' /\ ~Making(t)'
        /\ \A u \in Threads : u # t => /\ task'[u] = task[u]
                                       /\ Busy(u)' <=> Busy(u)
                                       /\ Making(u)' <=> Making(u)
    BY AnsweredTask
  <1>2. key \in DOMAIN entries /\ entries[key] = s /\ s \in Slots
    <2>1. cell[s] \in Results /\ ~IsInvalid(cell[s])
      BY RuntimeAssumption DEF Known
    <2> QED
      BY <2>1 DEF CacheInvariant, CacheTyped, OwnKeys
  <1>3. /\ order \in Seq(Keys \X Slots) /\ Len(order) \in Nat
        /\ \A i \in DOMAIN order : i \in 1..Len(queue) /\ queue[i] = order[i]
        /\ \A i \in 1..Len(queue) : i = Len(queue) \/ i \in DOMAIN order
    BY DEF CacheInvariant, CacheTyped
  <1>4. \A i \in 1..Len(queue) : /\ queue[i] = <<queue[i][1], queue[i][2]>>
                                 /\ queue[i][1] \in DOMAIN entries
                                 /\ entries[queue[i][1]] = queue[i][2]
                                 /\ Known(cell[queue[i][2]]) /\ IsCompiled(cell[queue[i][2]])
    <2> SUFFICES ASSUME NEW i \in 1..Len(queue)
                 PROVE  /\ queue[i] = <<queue[i][1], queue[i][2]>>
                        /\ queue[i][1] \in DOMAIN entries
                        /\ entries[queue[i][1]] = queue[i][2]
                        /\ Known(cell[queue[i][2]]) /\ IsCompiled(cell[queue[i][2]])
      OBVIOUS
    <2>1. CASE i = Len(queue)
      BY <2>1, <1>2, <1>3
    <2>2. CASE i \in DOMAIN order
      <3>1. order[i] \in Keys \X Slots /\ queue[i] = order[i]
        BY <2>2, <1>3
      <3>2. /\ order[i][1] \in DOMAIN entries /\ entries[order[i][1]] = order[i][2]
            /\ Known(cell[order[i][2]]) /\ IsCompiled(cell[order[i][2]])
        BY <2>2 DEF CacheInvariant, OrderCurrent, OrderCompiled
      <3> QED
        BY <3>1, <3>2
    <2> QED
      BY <2>1, <2>2, <1>3
  <1>5. \A i, j \in 1..Len(queue) : queue[i] = queue[j] => i = j
    <2> SUFFICES ASSUME NEW i \in 1..Len(queue), NEW j \in 1..Len(queue), queue[i] = queue[j]
                 PROVE  i = j
      OBVIOUS
    <2>1. \A m \in DOMAIN order : order[m][2] # s
      BY DEF CacheInvariant, OwnSlots
    <2>2. <<key, s>>[2] = s
      OBVIOUS
    <2>3. \A m \in DOMAIN order : queue[m] # <<key, s>>
      BY <2>1, <2>2, <1>3
    <2>4. \A l, m \in DOMAIN order : order[l] = order[m] => l = m
      BY DEF CacheInvariant, OrderCurrent
    <2> QED
      BY <2>3, <2>4, <1>3
  <1>6. /\ DOMAIN entries' = DOMAIN entries \ gone
        /\ \A k \in DOMAIN entries' : entries'[k] = entries[k]
    BY DEF Without
  <1>7. /\ DOMAIN order' = 1..(Len(queue) - n)
        /\ \A i \in DOMAIN order' : n + i \in 1..Len(queue) /\ order'[i] = queue[n + i]
    <2>1. DOMAIN order' = 1..Len(order')
      OBVIOUS
    <2>2. Len(queue) \in Nat
      OBVIOUS
    <2> QED
      BY <2>1, <2>2
  <1>8. \A i \in (n + 1)..Len(queue) : queue[i][1] \notin gone
    <2>1. ASSUME NEW i \in (n + 1)..Len(queue), NEW j \in 1..n,
                 queue[j] = <<queue[i][1], entries[queue[i][1]]>>
          PROVE  FALSE
      <3>1. i \in 1..Len(queue) /\ j \in 1..Len(queue) /\ i # j
        BY <1>3
      <3>2. queue[j] = queue[i]
        BY <2>1, <3>1, <1>4
      <3> QED
        BY <3>1, <3>2, <1>5
    <2> QED
      BY <2>1
  <1>9. CacheTyped'
    <2>1. entries' \in [DOMAIN entries' -> Slots] /\ DOMAIN entries' \subseteq Keys
      <3>1. \A k \in DOMAIN entries : entries[k] \in Slots /\ k \in Keys
        BY DEF CacheInvariant, CacheTyped
      <3>2. entries' = [k \in DOMAIN entries \ gone |-> entries[k]]
        BY DEF Without
      <3> QED
        BY <3>1, <3>2
    <2> QED
      BY <2>1, <1>7 DEF CacheInvariant, CacheTyped
  <1>10. \A i \in DOMAIN order' : n + i \in (n + 1)..Len(queue)
    BY <1>3, <1>7
  <1>11. OrderCurrent'
    <2>1. ASSUME NEW i \in DOMAIN order'
          PROVE  order'[i][1] \in DOMAIN entries' /\ entries'[order'[i][1]] = order'[i][2]
      <3>1. order'[i] = queue[n + i] /\ n + i \in 1..Len(queue) /\ queue[n + i][1] \notin gone
        BY <1>7, <1>8, <1>10
      <3> HIDE DEF gone
      <3> QED
        BY <3>1, <1>4, <1>6
    <2>2. ASSUME NEW i \in DOMAIN order', NEW j \in DOMAIN order', order'[i] = order'[j]
          PROVE  i = j
      <3>1. n + i = n + j
        BY <2>2, <1>5, <1>7
      <3> QED
        BY <3>1, <1>3, <1>7
    <2> QED
      BY <2>1, <2>2 DEF OrderCurrent
  <1>12. OrderCompiled'
    BY <1>4, <1>7 DEF OrderCompiled
  <1>13. (Len(order) <= MaximumCompiled)'
    <2>1. CASE n = Len(queue)
      BY <2>1, <1>3, <1>7, RuntimeAssumption
    <2>2. CASE Cardinality(DOMAIN entries') <= MaximumCompiled
      <3> DEFINE f == [i \in 1..Len(order') |-> order'[i][1]]
      <3>1. IsFiniteSet(DOMAIN entries')
        <4>1. entries' \in Injection(DOMAIN entries', Slots)
          <5>1. entries' \in [DOMAIN entries' -> Slots]
            BY <1>9 DEF CacheTyped
          <5>2. \A k, l \in DOMAIN entries' : entries'[k] = entries'[l] => k = l
            BY <1>6 DEF CacheInvariant, OwnSlots
          <5> QED
            BY <5>1, <5>2 DEF Injection, IsInjective
        <4> QED
          BY <4>1, FS_Injection, RuntimeAssumption
      <3>2. f \in Injection(1..Len(order'), DOMAIN entries')
        <4>1. \A i \in 1..Len(order') : i \in DOMAIN order'
          BY <1>7
        <4>2. f \in [1..Len(order') -> DOMAIN entries']
          BY <4>1, <1>11 DEF OrderCurrent
        <4>3. ASSUME NEW i \in 1..Len(order'), NEW j \in 1..Len(order'), f[i] = f[j]
              PROVE  i = j
          <5>1. order'[i][1] = order'[j][1] /\ order'[i][2] = order'[j][2]
            BY <4>1, <4>3, <1>11 DEF OrderCurrent
          <5>2. order'[i] = <<order'[i][1], order'[i][2]>> /\ order'[j] = <<order'[j][1], order'[j][2]>>
            BY <4>1, <1>4, <1>7
          <5>3. order'[i] = order'[j]
            BY <5>1, <5>2
          <5> QED
            BY <5>3, <4>1, <1>11 DEF OrderCurrent
        <4> QED
          BY <4>2, <4>3 DEF Injection, IsInjective
      <3>3. Len(order') \in Nat
        BY <1>3, <1>7
      <3>4. Cardinality(1..Len(order')) <= Cardinality(DOMAIN entries')
        <4> HIDE DEF f
        <4> QED
          BY <3>1, <3>2, FS_Injection
      <3>5. Cardinality(1..Len(order')) = Len(order')
        BY <3>3, FS_Interval
      <3>6. Cardinality(DOMAIN entries') \in Nat
        BY <3>1, FS_CardinalityType
      <3> QED
        BY <2>2, <3>3, <3>4, <3>5, <3>6, RuntimeAssumption
    <2> QED
      BY <2>1, <2>2
  <1>14. \A u \in Threads : u # t /\ Making(u) =>
           \A i \in 1..Len(queue) : queue[i][2] # task[u].slot
    BY <1>3 DEF CacheInvariant, OwnSlots
  <1>15. OwnSlots'
    <2>1. \A k, l \in DOMAIN entries' : entries'[k] = entries'[l] => k = l
      BY <1>6 DEF CacheInvariant, OwnSlots
    <2>2. \A u, w \in Threads : Making(u)' /\ Making(w)' /\ task'[u].slot = task'[w].slot => u = w
      BY <1>1 DEF CacheInvariant, OwnSlots
    <2>3. \A u \in Threads : Making(u)' => \A i \in DOMAIN order' : order'[i][2] # task'[u].slot
      BY <1>1, <1>7, <1>14
    <2> QED
      BY <2>1, <2>2, <2>3 DEF OwnSlots
  <1>16. OwnKeys'
    <2> SUFFICES ASSUME NEW u \in Threads, u # t
                 PROVE  (/\ Busy(u) => \A k \in DOMAIN entries :
                                         entries[k] = task[u].slot => k = Key(task[u].row)
                         /\ Making(u) => \/ /\ Known(cell[task[u].slot])
                                            /\ IsInvalid(cell[task[u].slot])
                                         \/ /\ Key(task[u].row) \in DOMAIN entries
                                            /\ entries[Key(task[u].row)] = task[u].slot)'
      BY <1>1 DEF OwnKeys
    <2>1. task'[u] = task[u] /\ (Busy(u)' <=> Busy(u)) /\ (Making(u)' <=> Making(u))
      BY <1>1
    <2>2. /\ Busy(u) => \A k \in DOMAIN entries :
                          entries[k] = task[u].slot => k = Key(task[u].row)
          /\ Making(u) => \/ /\ Known(cell[task[u].slot])
                             /\ IsInvalid(cell[task[u].slot])
                          \/ /\ Key(task[u].row) \in DOMAIN entries
                             /\ entries[Key(task[u].row)] = task[u].slot
      BY DEF CacheInvariant, OwnKeys
    <2>3. ASSUME NEW k \in DOMAIN entries, Making(u), entries[k] = task[u].slot
          PROVE  k \notin gone
      <3>1. \A i \in 1..n : queue[i][2] # task[u].slot
        BY <2>3, <1>3, <1>14
      <3>2. <<k, entries[k]>>[2] = task[u].slot
        BY <2>3
      <3> QED
        BY <3>1, <3>2
    <2> HIDE DEF gone
    <2> QED
      BY <2>1, <2>2, <2>3, <1>6
  <1>17. (\A k \in DOMAIN entries : Accounted(k))'
    <2> SUFFICES ASSUME NEW k \in DOMAIN entries'
                 PROVE  Accounted(k)'
      OBVIOUS
    <2>1. k \in DOMAIN entries /\ entries'[k] = entries[k] /\ k \notin gone /\ Accounted(k)
      BY <1>6 DEF CacheInvariant
    <2>2. ASSUME NEW i \in 1..Len(queue), queue[i] = <<k, entries[k]>>
          PROVE  \E j \in DOMAIN order' : order'[j] = <<k, entries'[k]>>
      <3>1. i \notin 1..n
        BY <2>1, <2>2
      <3>2. i - n \in DOMAIN order' /\ n + (i - n) = i
        BY <3>1, <1>3, <1>7
      <3> QED
        BY <3>2, <2>1, <2>2, <1>7
    <2>3. CASE \E i \in DOMAIN order : order[i] = <<k, entries[k]>>
      BY <2>2, <2>3, <1>3 DEF Accounted
    <2>4. CASE entries[k] = s
      <3>1. k = key
        BY <2>1, <2>4, <1>2 DEF CacheInvariant, OwnSlots
      <3>2. Len(queue) \in 1..Len(queue) /\ queue[Len(queue)] = <<k, entries[k]>>
        BY <3>1, <2>4, <1>3
      <3>3. \E j \in DOMAIN order' : order'[j] = <<k, entries'[k]>>
        BY <3>2, <2>2
      <3> QED
        BY <3>3 DEF Accounted
    <2>5. CASE \E u \in Threads : u # t /\ Making(u) /\ task[u].slot = entries[k]
      BY <2>1, <2>5, <1>1 DEF Accounted
    <2>6. CASE /\ Known(cell[entries[k]])
               /\ ~IsCompiled(cell[entries[k]]) /\ ~IsInvalid(cell[entries[k]])
      BY <2>1, <2>6 DEF Accounted
    <2> QED
      BY <2>1, <2>3, <2>4, <2>5, <2>6 DEF Accounted
  <1> QED
    BY <1>1, <1>9, <1>11, <1>12, <1>13, <1>15, <1>16, <1>17 DEF CacheInvariant

\* The decision that inserted the entry puts it in the order; others leave it.
LEMMA SettleCompiledKeeps ==
  ASSUME CacheInvariant, NEW t \in Threads, SettleCompiled(t)
  PROVE  CacheInvariant'
  <1> DEFINE s == task[t].slot
             key == Key(task[t].row)
             queue == Append(order, <<key, s>>)
             n == Evicted(entries, queue)
             v == [task[t] EXCEPT !.step = "answered",
                                  !.answer = Evaluated(task[t].request, cell[s])]
  <1>1. /\ task[t] \in Tasks /\ Busy(t) /\ task[t].request \in Requests
        /\ task[t].row \in Rows /\ s \in Slots /\ Known(cell[s]) /\ IsCompiled(cell[s])
    BY DEF CacheInvariant, TasksTyped, TasksReady, SettleCompiled, At, Busy
  <1>2. v \in Tasks /\ v.step = "answered"
    <2>1. Evaluated(task[t].request, cell[s]) \in Answers
      BY <1>1 DEF Answers, Known
    <2> HIDE DEF s
    <2> QED
      BY <1>1, <2>1 DEF Tasks
  <1>3. task' = [task EXCEPT ![t] = v] /\ cell' = cell
    BY DEF SettleCompiled, CacheInvariant, TasksTyped
  <1>4. CASE task[t].inserted
    <2>1. Making(t)
      BY <1>1, <1>4 DEF Making
    <2>2. entries' = Without(entries, queue, n) /\ order' = SubSeq(queue, n + 1, Len(queue))
      BY <1>4 DEF SettleCompiled
    <2>3. order \in Seq(Keys \X Slots) /\ <<key, s>> \in Keys \X Slots
      BY <1>1 DEF CacheInvariant, CacheTyped, Keys
    <2> HIDE DEF s, key
    <2>4. /\ queue \in Seq(Keys \X Slots) /\ Len(queue) = Len(order) + 1 /\ Len(queue) \in Nat
          /\ queue[Len(queue)] = <<key, s>> /\ \A i \in 1..Len(order) : queue[i] = order[i]
      BY <2>3
    <2> HIDE DEF queue
    <2>5. /\ n \in 0..Len(queue)
          /\ Cardinality(DOMAIN Without(entries, queue, n)) <= MaximumCompiled \/ n = Len(queue)
      BY <2>4, EvictedCount
    <2> HIDE DEF v, n
    <2>6. /\ order' \in Seq(Keys \X Slots) /\ Len(order') = Len(queue) - n
          /\ \A i \in 1..Len(order') : order'[i] = queue[n + i]
      BY <2>2, <2>4, <2>5, RestOfQueue
    <2>7. Cardinality(DOMAIN entries') <= MaximumCompiled \/ n = Len(queue)
      BY <2>2, <2>5
    <2>8. s = task[t].slot /\ key = Key(task[t].row)
      BY DEF s, key
    <2> QED
      BY <1>1, <1>2, <1>3, <2>1, <2>2, <2>4, <2>5, <2>6, <2>7, <2>8, EnteredKeeps, ZenonT(60)
  <1>5. CASE ~task[t].inserted
    <2>1. entries' = entries /\ order' = order
      BY <1>5 DEF SettleCompiled
    <2>2. ~Making(t)
      BY <1>5 DEF Making
    <2>3. /\ TasksTyped' /\ TasksReady'
          /\ ~Busy(t)' /\ ~Making(t)'
          /\ \A u \in Threads : u # t => /\ task'[u] = task[u]
                                         /\ Busy(u)' <=> Busy(u)
                                         /\ Making(u)' <=> Making(u)
      <3> HIDE DEF v
      <3> QED
        BY <1>2, <1>3, AnsweredTask
    <2>4. CacheTyped' /\ OrderCompiled' /\ OrderCurrent' /\ (Len(order) <= MaximumCompiled)'
      BY <1>3, <2>1 DEF CacheInvariant, CacheTyped, OrderCompiled, OrderCurrent
    <2>5. OwnSlots' /\ OwnKeys'
      BY <1>3, <2>1, <2>2, <2>3 DEF CacheInvariant, OwnSlots, OwnKeys
    <2>6. (\A k \in DOMAIN entries : Accounted(k))'
      BY <1>3, <2>1, <2>2, <2>3 DEF CacheInvariant, Accounted
    <2> QED
      BY <2>3, <2>4, <2>5, <2>6 DEF CacheInvariant
  <1> QED
    BY <1>4, <1>5

\* Every step of the runtime.
LEMMA StepKeepsCache ==
  CacheInvariant /\ [RuntimeNext]_runtimeVars => CacheInvariant'
  <1> SUFFICES ASSUME CacheInvariant, [RuntimeNext]_runtimeVars
               PROVE  CacheInvariant'
    OBVIOUS
  <1>1. CASE UNCHANGED runtimeVars
    BY <1>1 DEF runtimeVars, CacheInvariant, CacheTyped, TasksTyped, TasksReady, OwnSlots,
                OwnKeys, OrderCompiled, OrderCurrent, Accounted, Making, Busy, At
  <1>2. ASSUME NEW t \in Threads, NEW request \in Requests, NEW accepted \in BOOLEAN,
               Begin(t, request, accepted)
        PROVE  CacheInvariant'
    BY <1>2, BeginKeeps
  <1>3. ASSUME NEW t \in Threads, Begin(t, NoRequest, FALSE)
        PROVE  CacheInvariant'
    BY <1>3, BeginKeeps
  <1>4. ASSUME NEW t \in Threads, NEW row \in Rows \union {NoRow}, ReadActive(t, row)
        PROVE  CacheInvariant'
    BY <1>4, ReadActiveKeeps
  <1>5. ASSUME NEW t \in Threads, Proceed(t)
        PROVE  CacheInvariant'
    BY <1>5, LookupKeeps, FillKeeps, SettleCompiledKeeps, SettleFailedKeeps, ReturnKeeps
       DEF Proceed
  <1> QED
    BY <1>1, <1>2, <1>3, <1>4, <1>5 DEF RuntimeNext

-----------------------------------------------------------------------------

\* The cache and the decisions in progress keep their types
\* (DecisionRuntime::decide and materialize in runtime.rs).
THEOREM RuntimeTypeCorrect == RuntimeSpec => []RuntimeTypeOK
  BY InitCache, StepKeepsCache, CacheInvariantSuffices, PTL DEF RuntimeSpec

\* However decisions look up, fill, settle, drop and evict entries, the order
\* and the map of the cache agree, at most MaximumCompiled entries are settled,
\* and every other one is in the making or is a failure to be shared
\* (DecisionRuntime::materialize and remove_entry in runtime.rs).
THEOREM CacheAccountedHolds == RuntimeSpec => []CacheAccounted
  BY InitCache, StepKeepsCache, CacheInvariantSuffices, PTL DEF RuntimeSpec

-----------------------------------------------------------------------------
(* What an answer comes from *)

\* The result is what a row of this cache key was materialised to.
MadeFor(key, result) ==
  \E q \in Requests, r \in Rows : Key(r) = key /\ result = Materialized(q, r)

\* Decisions that share an entry read rows of one key.
OneKey ==
  \A t, u \in Threads :
    Busy(t) /\ Busy(u) /\ task[t].slot = task[u].slot => Key(task[t].row) = Key(task[u].row)

\* An entry that is filled was filled for the key it is under, and for the
\* decisions that hold it.
EntriesMade ==
  /\ \A k \in DOMAIN entries :
       cell[entries[k]] = NoResult \/ MadeFor(k, cell[entries[k]])
  /\ \A t \in Threads : Busy(t) =>
       cell[task[t].slot] = NoResult \/ MadeFor(Key(task[t].row), cell[task[t].slot])

\* The answer of a decision is that of a compiled executable, and what was
\* compiled is a row with the cache key of the row the decision has read, be
\* it shared, evicted meanwhile, removed as invalid and made again, or at an
\* address another entry had before (the insertion, the OnceLock and the
\* pointer comparisons of DecisionRuntime in runtime.rs).
AnswersOfOwnKey ==
  \A t \in Threads : At(t, "answered") /\ task[t].answer # NoResult =>
    \E result \in Results :
      /\ MadeFor(Key(task[t].row), result) /\ IsCompiled(result)
      /\ task[t].answer = Evaluated(task[t].request, result)

\* Only a decision that was answered has an answer.
AnswersLast == \A t \in Threads : ~At(t, "answered") => task[t].answer = NoResult

OriginInvariant ==
  CacheInvariant /\ OneKey /\ EntriesMade /\ AnswersLast /\ AnswersOfOwnKey

\* A step of one decision that takes hold of nothing and fills nothing: the
\* decision is let alone, or has no answer afterwards.
LEMMA OriginUntouched ==
  ASSUME OriginInvariant, NEW t \in Threads,
         task' = [task EXCEPT ![t] = task'[t]], cell' = cell,
         \A k \in DOMAIN entries' : k \in DOMAIN entries /\ entries'[k] = entries[k],
         Busy(t)' => /\ Busy(t) /\ task'[t].slot = task[t].slot
                     /\ task'[t].row = task[t].row,
         task'[t].answer = NoResult
  PROVE  (OneKey /\ EntriesMade /\ AnswersLast /\ AnswersOfOwnKey)'
<1>1. \A u \in Threads : u # t => task'[u] = task[u]
  BY DEF OriginInvariant, CacheInvariant, TasksTyped
<1>2. \A u \in Threads : Busy(u)' =>
        Busy(u) /\ task'[u].slot = task[u].slot /\ task'[u].row = task[u].row
  BY <1>1 DEF Busy
<1>3. OneKey'
  BY <1>2 DEF OriginInvariant, OneKey
<1>4. EntriesMade'
  BY <1>2 DEF OriginInvariant, EntriesMade
<1>5. AnswersLast' /\ AnswersOfOwnKey'
  BY <1>1 DEF OriginInvariant, AnswersLast, AnswersOfOwnKey, At
<1> QED
  BY <1>3, <1>4, <1>5

LEMMA OriginStart == RuntimeInit => OriginInvariant
<1> SUFFICES ASSUME RuntimeInit PROVE OriginInvariant
  OBVIOUS
<1>1. /\ entries = <<>> /\ DOMAIN entries = {}
      /\ \A t \in Threads : task[t].step = "idle" /\ task[t].answer = NoResult
  BY DEF RuntimeInit, Idle
<1>2. OneKey /\ EntriesMade /\ AnswersLast /\ AnswersOfOwnKey
  BY <1>1 DEF OneKey, EntriesMade, AnswersLast, AnswersOfOwnKey, Busy, At
<1> QED
  BY <1>2, InitCache DEF OriginInvariant

\* The contract, or the active executable, is read, or the response is sent.
LEMMA OriginOutside ==
  ASSUME OriginInvariant, NEW t \in Threads,
         \/ \E request \in Requests \union {NoRequest}, accepted \in BOOLEAN :
              Begin(t, request, accepted)
         \/ \E row \in Rows \union {NoRow} : ReadActive(t, row)
         \/ Return(t)
  PROVE  (OneKey /\ EntriesMade /\ AnswersLast /\ AnswersOfOwnKey)'
<1>1. entries' = entries /\ cell' = cell
  BY DEF Begin, ReadActive, Return
<1>2. task \in [Threads -> Tasks]
  BY DEF OriginInvariant, CacheInvariant, TasksTyped
<1>3. ~Busy(t)' /\ task' = [task EXCEPT ![t] = task'[t]] /\ task'[t].answer = NoResult
  <2>1. CASE \E request \in Requests \union {NoRequest}, accepted \in BOOLEAN :
               Begin(t, request, accepted)
    <3>1. PICK request \in Requests \union {NoRequest}, accepted \in BOOLEAN :
            Begin(t, request, accepted)
      BY <2>1
    <3>2. task[t].answer = NoResult
      BY <3>1 DEF Begin, At, OriginInvariant, AnswersLast
    <3> QED
      BY <1>2, <3>1, <3>2 DEF Begin, Busy, Tasks
  <2>2. CASE \E row \in Rows \union {NoRow} : ReadActive(t, row)
    <3>1. PICK row \in Rows \union {NoRow} : ReadActive(t, row)
      BY <2>2
    <3>2. task[t].answer = NoResult
      BY <3>1 DEF ReadActive, At, OriginInvariant, AnswersLast
    <3> QED
      BY <1>2, <3>1, <3>2 DEF ReadActive, Busy, Tasks
  <2>3. CASE Return(t)
    BY <1>2, <2>3 DEF Return, Busy, Idle
  <2> QED
    BY <2>1, <2>2, <2>3
<1> QED
  BY <1>1, <1>3, OriginUntouched

\* Whether it shares an entry or makes one, the decision holds an entry of the
\* key it looked up.
LEMMA OriginLookup ==
  ASSUME OriginInvariant, NEW t \in Threads, Lookup(t)
  PROVE  (OneKey /\ EntriesMade /\ AnswersLast /\ AnswersOfOwnKey)'
<1> DEFINE key == Key(task[t].row)
<1>1. /\ task \in [Threads -> Tasks] /\ At(t, "lookup") /\ task[t].answer = NoResult
      /\ entries \in [DOMAIN entries -> Slots] /\ cell \in [Slots -> Results \union {NoResult}]
  BY DEF OriginInvariant, CacheInvariant, TasksTyped, CacheTyped, Lookup, At, AnswersLast
<1>2. CASE key \in DOMAIN entries
  <2>1. /\ task' = [task EXCEPT ![t].step = "fill", ![t].slot = entries[key]]
        /\ entries' = entries /\ cell' = cell
    BY <1>2 DEF Lookup
  <2>2. /\ \A u \in Threads : u # t => task'[u] = task[u]
        /\ task'[t].slot = entries[key] /\ task'[t].row = task[t].row
        /\ task'[t].answer = NoResult /\ task'[t].step = "fill"
    BY <1>1, <2>1 DEF Tasks
  <2>3. \A u \in Threads : u # t /\ Busy(u) /\ task[u].slot = entries[key] => Key(task[u].row) = key
    BY <1>2 DEF OriginInvariant, CacheInvariant, OwnKeys
  <2>4. OneKey'
    BY <2>2, <2>3 DEF OriginInvariant, OneKey, Busy
  <2>5. EntriesMade'
    <3>1. ASSUME NEW u \in Threads, Busy(u)'
          PROVE  cell[task'[u].slot] = NoResult \/ MadeFor(Key(task'[u].row), cell[task'[u].slot])
      <4>1. CASE u = t
        BY <1>2, <2>2, <4>1 DEF OriginInvariant, EntriesMade
      <4>2. CASE u # t
        BY <2>2, <3>1, <4>2 DEF OriginInvariant, EntriesMade, Busy
      <4> QED
        BY <4>1, <4>2
    <3>2. \A k \in DOMAIN entries : cell[entries[k]] = NoResult \/ MadeFor(k, cell[entries[k]])
      BY DEF OriginInvariant, EntriesMade
    <3> QED
      BY <2>1, <3>1, <3>2 DEF EntriesMade, MadeFor
  <2>6. AnswersLast' /\ AnswersOfOwnKey'
    BY <2>2 DEF OriginInvariant, AnswersLast, AnswersOfOwnKey, At
  <2> QED
    BY <2>4, <2>5, <2>6
<1>3. CASE key \notin DOMAIN entries
  <2>1. PICK s \in Slots :
          /\ Free(s)
          /\ entries' = [k \in DOMAIN entries \union {key} |-> IF k = key THEN s ELSE entries[k]]
          /\ cell' = [cell EXCEPT ![s] = NoResult]
          /\ task' = [task EXCEPT ![t].step = "fill", ![t].slot = s, ![t].inserted = TRUE]
    BY <1>3 DEF Lookup
  <2>2. /\ \A u \in Threads : u # t => task'[u] = task[u]
        /\ task'[t].slot = s /\ task'[t].row = task[t].row
        /\ task'[t].answer = NoResult /\ task'[t].step = "fill"
    BY <1>1, <2>1 DEF Tasks
  <2>3. /\ \A u \in Threads : task[u].slot # s
        /\ \A k \in DOMAIN entries : entries[k] # s
    BY <2>1 DEF Free
  <2>4. cell'[s] = NoResult /\ \A z \in Slots : z # s => cell'[z] = cell[z]
    BY <1>1, <2>1
  <2>5. OneKey'
    BY <2>2, <2>3 DEF OriginInvariant, OneKey, Busy
  <2>6. \A k \in DOMAIN entries' : \/ entries'[k] = s
                                   \/ /\ k \in DOMAIN entries /\ entries'[k] = entries[k]
                                      /\ entries[k] \in Slots
    BY <1>1, <2>1
  <2>7. \A u \in Threads : u # t /\ Busy(u)' => Busy(u) /\ task[u].slot \in Slots
    BY <2>2 DEF OriginInvariant, CacheInvariant, TasksReady, Busy
  <2>8. EntriesMade'
    <3>1. ASSUME NEW k \in DOMAIN entries'
          PROVE  cell'[entries'[k]] = NoResult \/ MadeFor(k, cell'[entries'[k]])
      BY <2>3, <2>4, <2>6 DEF OriginInvariant, EntriesMade
    <3>2. ASSUME NEW u \in Threads, Busy(u)'
          PROVE  cell'[task'[u].slot] = NoResult \/ MadeFor(Key(task'[u].row), cell'[task'[u].slot])
      <4>1. CASE u = t
        BY <2>2, <2>4, <4>1
      <4>2. CASE u # t
        BY <2>2, <2>3, <2>4, <2>7, <3>2, <4>2 DEF OriginInvariant, EntriesMade
      <4> QED
        BY <4>1, <4>2
    <3> QED
      BY <3>1, <3>2 DEF EntriesMade, MadeFor
  <2>9. AnswersLast' /\ AnswersOfOwnKey'
    BY <2>2 DEF OriginInvariant, AnswersLast, AnswersOfOwnKey, At
  <2> QED
    BY <2>5, <2>8, <2>9
<1> QED
  BY <1>2, <1>3

\* The row a decision materialises itself has the key of every holder of the
\* entry, and the one it is under.
LEMMA OriginFill ==
  ASSUME OriginInvariant, NEW t \in Threads, Fill(t)
  PROVE  (OneKey /\ EntriesMade /\ AnswersLast /\ AnswersOfOwnKey)'
<1> DEFINE s == task[t].slot
           made == Materialized(task[t].request, task[t].row)
<1>1. /\ task \in [Threads -> Tasks] /\ Busy(t) /\ task[t].answer = NoResult /\ s \in Slots
      /\ task[t].request \in Requests /\ task[t].row \in Rows
      /\ entries \in [DOMAIN entries -> Slots] /\ cell \in [Slots -> Results \union {NoResult}]
  BY DEF OriginInvariant, CacheInvariant, TasksTyped, TasksReady, CacheTyped, Fill, At, Busy,
         AnswersLast
<1>2. /\ entries' = entries
      /\ cell' = IF cell[s] = NoResult THEN [cell EXCEPT ![s] = made] ELSE cell
      /\ task' = [task EXCEPT ![t].step = "settle"]
  BY DEF Fill
<1>3. /\ \A u \in Threads : u # t => task'[u] = task[u]
      /\ task'[t].slot = s /\ task'[t].row = task[t].row
      /\ task'[t].answer = NoResult /\ task'[t].step = "settle"
  BY <1>1, <1>2 DEF Tasks
<1>4. MadeFor(Key(task[t].row), made)
  BY <1>1 DEF MadeFor
<1> HIDE DEF s, made
<1>5. \A z \in Slots : cell'[z] = cell[z] \/ (z = s /\ cell'[z] = made)
  BY <1>1, <1>2
<1>6. \A u \in Threads : Busy(u)' =>
        Busy(u) /\ task'[u].slot = task[u].slot /\ task'[u].row = task[u].row
  BY <1>1, <1>3 DEF Busy, s
<1>7. OneKey'
  BY <1>6 DEF OriginInvariant, OneKey
<1>8. ASSUME NEW k \in DOMAIN entries
      PROVE  cell'[entries[k]] = NoResult \/ MadeFor(k, cell'[entries[k]])
  <2>1. entries[k] = s => k = Key(task[t].row)
    BY <1>1 DEF OriginInvariant, CacheInvariant, OwnKeys, s
  <2>2. entries[k] \in Slots
    BY <1>1
  <2> QED
    BY <1>4, <1>5, <2>1, <2>2 DEF OriginInvariant, EntriesMade
<1>9. ASSUME NEW u \in Threads, Busy(u)
      PROVE  cell'[task[u].slot] = NoResult \/ MadeFor(Key(task[u].row), cell'[task[u].slot])
  <2>1. task[u].slot = s => Key(task[u].row) = Key(task[t].row)
    BY <1>1, <1>9 DEF OriginInvariant, OneKey, s
  <2>2. task[u].slot \in Slots
    BY <1>9 DEF OriginInvariant, CacheInvariant, TasksReady
  <2> QED
    BY <1>4, <1>5, <1>9, <2>1, <2>2 DEF OriginInvariant, EntriesMade
<1>10. EntriesMade'
  BY <1>2, <1>6, <1>8, <1>9 DEF EntriesMade, MadeFor
<1>11. AnswersLast' /\ AnswersOfOwnKey'
  BY <1>3 DEF OriginInvariant, AnswersLast, AnswersOfOwnKey, At
<1> QED
  BY <1>7, <1>10, <1>11

\* Who is answered, is answered from the entry it holds, in the map or not.
LEMMA OriginSettleCompiled ==
  ASSUME OriginInvariant, NEW t \in Threads, SettleCompiled(t)
  PROVE  (OneKey /\ EntriesMade /\ AnswersLast /\ AnswersOfOwnKey)'
<1> DEFINE s == task[t].slot
<1>1. /\ task \in [Threads -> Tasks] /\ Busy(t) /\ Known(cell[s]) /\ IsCompiled(cell[s])
  BY DEF OriginInvariant, CacheInvariant, TasksTyped, TasksReady, SettleCompiled, At, Busy
<1>2. /\ cell' = cell
      /\ task' = [task EXCEPT ![t].step = "answered",
                              ![t].answer = Evaluated(task[t].request, cell[s])]
  BY DEF SettleCompiled
<1>3. /\ \A u \in Threads : u # t => task'[u] = task[u]
      /\ task'[t].row = task[t].row /\ task'[t].request = task[t].request
      /\ task'[t].answer = Evaluated(task[t].request, cell[s]) /\ task'[t].step = "answered"
  BY <1>1, <1>2 DEF Tasks
<1>4. \A k \in DOMAIN entries' : k \in DOMAIN entries /\ entries'[k] = entries[k]
  <2>1. CASE task[t].inserted
    <3>1. PICK queue, n : entries' = Without(entries, queue, n)
      BY <2>1 DEF SettleCompiled
    <3> QED
      BY <3>1 DEF Without
  <2>2. CASE ~task[t].inserted
    BY <2>2 DEF SettleCompiled
  <2> QED
    BY <2>1, <2>2
<1>5. MadeFor(Key(task[t].row), cell[s]) /\ cell[s] \in Results
  <2>1. cell[s] # NoResult
    BY <1>1, RuntimeAssumption DEF Known
  <2> QED
    BY <1>1, <2>1 DEF OriginInvariant, EntriesMade, Known
<1> HIDE DEF s
<1>6. \A u \in Threads : Busy(u)' =>
        Busy(u) /\ task'[u].slot = task[u].slot /\ task'[u].row = task[u].row
  BY <1>3 DEF Busy
<1>7. OneKey'
  BY <1>6 DEF OriginInvariant, OneKey
<1>8. EntriesMade'
  <2>1. \A k \in DOMAIN entries' : cell[entries'[k]] = NoResult \/ MadeFor(k, cell[entries'[k]])
    BY <1>4 DEF OriginInvariant, EntriesMade
  <2>2. \A u \in Threads : Busy(u)' =>
          cell[task'[u].slot] = NoResult \/ MadeFor(Key(task'[u].row), cell[task'[u].slot])
    BY <1>6 DEF OriginInvariant, EntriesMade
  <2> QED
    BY <1>2, <2>1, <2>2 DEF EntriesMade, MadeFor
<1>9. AnswersLast'
  BY <1>3 DEF OriginInvariant, AnswersLast, At
<1>10. AnswersOfOwnKey'
  <2> SUFFICES ASSUME NEW u \in Threads, At(u, "answered")', task'[u].answer # NoResult
               PROVE  \E result \in Results :
                        /\ MadeFor(Key(task'[u].row), result) /\ IsCompiled(result)
                        /\ task'[u].answer = Evaluated(task'[u].request, result)
    BY DEF AnswersOfOwnKey, MadeFor
  <2>1. CASE u = t
    BY <1>1, <1>3, <1>5, <2>1
  <2>2. CASE u # t
    BY <1>3, <2>2 DEF OriginInvariant, AnswersOfOwnKey, At
  <2> QED
    BY <2>1, <2>2
<1> QED
  BY <1>7, <1>8, <1>9, <1>10

\* A decision that finds an invalid entry drops it at most from the map.
LEMMA OriginSettleFailed ==
  ASSUME OriginInvariant, NEW t \in Threads, SettleFailed(t)
  PROVE  (OneKey /\ EntriesMade /\ AnswersLast /\ AnswersOfOwnKey)'
<1>1. /\ task \in [Threads -> Tasks] /\ task[t].answer = NoResult /\ cell' = cell
      /\ task' = [task EXCEPT ![t].step = "answered"]
  BY DEF OriginInvariant, CacheInvariant, TasksTyped, SettleFailed, AnswersLast, At
<1>2. ~Busy(t)' /\ task' = [task EXCEPT ![t] = task'[t]] /\ task'[t].answer = NoResult
  BY <1>1 DEF Busy, Tasks
<1>3. \A k \in DOMAIN entries' : k \in DOMAIN entries /\ entries'[k] = entries[k]
  BY DEF SettleFailed, Removed
<1> QED
  BY <1>1, <1>2, <1>3, OriginUntouched

LEMMA StepKeepsOrigin == OriginInvariant /\ [RuntimeNext]_runtimeVars => OriginInvariant'
<1> SUFFICES ASSUME OriginInvariant, [RuntimeNext]_runtimeVars
             PROVE  (OneKey /\ EntriesMade /\ AnswersLast /\ AnswersOfOwnKey)'
  BY StepKeepsCache DEF OriginInvariant
<1>1. CASE UNCHANGED runtimeVars
  BY <1>1 DEF OriginInvariant, runtimeVars, OneKey, EntriesMade, AnswersLast, AnswersOfOwnKey,
              MadeFor, Busy, At
<1>2. ASSUME NEW t \in Threads, \/ \E request \in Requests, accepted \in BOOLEAN :
                                       Begin(t, request, accepted)
                                \/ Begin(t, NoRequest, FALSE)
                                \/ \E row \in Rows \union {NoRow} : ReadActive(t, row)
                                \/ Return(t)
      PROVE  (OneKey /\ EntriesMade /\ AnswersLast /\ AnswersOfOwnKey)'
  BY <1>2, OriginOutside
<1> QED
  BY <1>1, <1>2, OriginLookup, OriginFill, OriginSettleCompiled, OriginSettleFailed
     DEF RuntimeNext, Proceed

\* Whatever the stores return, whatever decisions share entries and whatever is
\* evicted, dropped or put at an address that was used before, a decision is
\* answered by an executable with the cache key of the row it read.
THEOREM AnswersOfOwnKeyHolds == RuntimeSpec => []AnswersOfOwnKey
<1>1. OriginInvariant => AnswersOfOwnKey
  BY DEF OriginInvariant
<1> QED
  BY <1>1, OriginStart, StepKeepsOrigin, PTL DEF RuntimeSpec

=============================================================================
