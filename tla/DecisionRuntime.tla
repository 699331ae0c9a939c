--------------------------- MODULE DecisionRuntime ---------------------------
(***************************************************************************)
(* The decision runtime: concurrent decisions over a bounded cache of      *)
(* compiled executables.  Steps end where the code awaits a store or takes *)
(* the mutex of the cache; a blocked OnceLock initialisation is the order  *)
(* in which Fill runs.  Which contracts exist and which row is active are  *)
(* parameters of the actions: AuthoredDecisions supplies them, and the     *)
(* specification of this module lets every read return anything.           *)
(***************************************************************************)
EXTENDS Naturals, Sequences, FiniteSets

CONSTANTS
  Threads,               \* decisions that may be in progress at once
  Slots,                 \* identities of cache entries (Arc addresses)
  NoSlot,
  MaximumCompiled,       \* MAXIMUM_COMPILED_EXECUTABLES
  Requests, NoRequest,   \* a contract and an input for it
  Rows, NoRow,           \* what get_active may return
  Results, NoResult,     \* what materialising a row may give
  Key(_),                \* the cache key of a row
  Materialized(_, _),    \* the result for a request and a row
  IsCompiled(_),         \* the result is a compiled executable
  IsInvalid(_),          \* the result is ExecutableMaterializationError::Invalid
  Evaluated(_, _)        \* the outcome of a request with a compiled executable

ASSUME RuntimeAssumption ==
  /\ MaximumCompiled \in Nat \ {0}
  /\ IsFiniteSet(Slots)
  /\ NoSlot \notin Slots
  /\ NoResult \notin Results
  /\ \A q \in Requests, r \in Rows : Materialized(q, r) \in Results
  /\ \A r \in Results : ~(IsCompiled(r) /\ IsInvalid(r))

VARIABLES
  entries,   \* key -> slot: the map of the cache
  order,     \* <<key, slot>>: its insertion order, oldest first
  cell,      \* slot -> result: the OnceLock of each entry
  task       \* thread -> the decision it makes

runtimeVars == <<entries, order, cell, task>>

Idle == [step |-> "idle", request |-> NoRequest, row |-> NoRow,
         slot |-> NoSlot, inserted |-> FALSE, answer |-> NoResult]

RuntimeInit ==
  /\ entries = <<>>
  /\ order = <<>>
  /\ cell = [s \in Slots |-> NoResult]
  /\ task = [t \in Threads |-> Idle]

\* No decision and no table of the cache refers to the slot.
Free(s) ==
  /\ \A k \in DOMAIN entries : entries[k] # s
  /\ \A i \in DOMAIN order : order[i][2] # s
  /\ \A t \in Threads : task[t].slot # s

At(t, step) == task[t].step = step

\* The map after the first n entries of a queue were evicted: an evicted
\* pair takes its key along only while the map still holds that very entry.
Without(map, queue, n) ==
  LET gone == {k \in DOMAIN map : \E i \in 1..n : queue[i] = <<k, map[k]>>}
  IN [k \in DOMAIN map \ gone |-> map[k]]

\* How many of the oldest entries are evicted: until the map fits, or the
\* order is exhausted because the rest is still in progress.
Evicted(map, queue) ==
  LET fits(n) == Cardinality(DOMAIN Without(map, queue, n)) <= MaximumCompiled
  IN CHOOSE n \in 0..Len(queue) :
       /\ fits(n) \/ n = Len(queue)
       /\ \A m \in 0..(n - 1) : ~fits(m)

\* Slip: whatever entry the key has now is removed.
RemovedByKey(key, slot) == [k \in DOMAIN entries \ {key} |-> entries[k]]

\* The map after an entry that could not be materialised was removed.
Removed(key, slot) ==
  IF key \in DOMAIN entries /\ entries[key] = slot
    THEN [k \in DOMAIN entries \ {key} |-> entries[k]]
    ELSE entries

-----------------------------------------------------------------------------

\* The contract is read and the input validated against it.
Begin(t, request, accepted) ==
  /\ At(t, "idle")
  /\ task' = [task EXCEPT ![t].step = IF accepted THEN "read" ELSE "answered",
                          ![t].request = request]
  /\ UNCHANGED <<entries, order, cell>>

\* The active executable of the contract is read.
ReadActive(t, row) ==
  /\ At(t, "read")
  /\ task' = [task EXCEPT ![t].step = IF row = NoRow THEN "answered" ELSE "lookup",
                          ![t].row = row]
  /\ UNCHANGED <<entries, order, cell>>

\* Under the mutex: share the entry of the key, or insert an empty one.
Lookup(t) ==
  LET key == Key(task[t].row)
  IN /\ At(t, "lookup")
     /\ \/ /\ key \in DOMAIN entries
           /\ task' = [task EXCEPT ![t].step = "fill", ![t].slot = entries[key]]
           /\ UNCHANGED <<entries, cell>>
        \/ /\ key \notin DOMAIN entries
           /\ \E s \in Slots :
                /\ Free(s)
                /\ entries' = [k \in DOMAIN entries \union {key} |->
                                 IF k = key THEN s ELSE entries[k]]
                /\ cell' = [cell EXCEPT ![s] = NoResult]
                /\ task' = [task EXCEPT ![t].step = "fill", ![t].slot = s,
                                        ![t].inserted = TRUE]
     /\ UNCHANGED order

\* The first decision that gets here materialises the row it read itself.
Fill(t) ==
  /\ At(t, "fill")
  /\ cell' = IF cell[task[t].slot] = NoResult
               THEN [cell EXCEPT ![task[t].slot] = Materialized(task[t].request, task[t].row)]
               ELSE cell
  /\ task' = [task EXCEPT ![t].step = "settle"]
  /\ UNCHANGED <<entries, order>>

\* Under the mutex: the decision that inserted a compiled entry enters it in
\* the order and evicts.  The evaluation touches nothing shared.
SettleCompiled(t) ==
  LET pair == <<Key(task[t].row), task[t].slot>>
      queue == Append(order, pair)
      n == Evicted(entries, queue)
      result == cell[task[t].slot]
  IN /\ At(t, "settle")
     /\ IsCompiled(result)
     /\ IF task[t].inserted
          THEN /\ entries' = Without(entries, queue, n)
               /\ order' = SubSeq(queue, n + 1, Len(queue))
          ELSE UNCHANGED <<entries, order>>
     /\ task' = [task EXCEPT ![t].step = "answered",
                             ![t].answer = Evaluated(task[t].request, result)]
     /\ UNCHANGED cell

\* An invalid entry leaves the map; any other failure stays and is shared.
SettleFailed(t) ==
  LET result == cell[task[t].slot]
  IN /\ At(t, "settle")
     /\ ~IsCompiled(result)
     /\ entries' = IF IsInvalid(result) THEN Removed(Key(task[t].row), task[t].slot)
                                        ELSE entries
     /\ task' = [task EXCEPT ![t].step = "answered"]
     /\ UNCHANGED <<order, cell>>

\* The response is sent; the decision lets go of its entry.
Return(t) ==
  /\ At(t, "answered")
  /\ task' = [task EXCEPT ![t] = Idle]
  /\ UNCHANGED <<entries, order, cell>>

\* The steps of a decision that need nothing from outside the runtime.
Proceed(t) == Lookup(t) \/ Fill(t) \/ SettleCompiled(t) \/ SettleFailed(t) \/ Return(t)

RuntimeNext ==
  \E t \in Threads :
    \/ \E request \in Requests, accepted \in BOOLEAN : Begin(t, request, accepted)
    \/ Begin(t, NoRequest, FALSE)
    \/ \E row \in Rows \union {NoRow} : ReadActive(t, row)
    \/ Proceed(t)

RuntimeSpec == RuntimeInit /\ [][RuntimeNext]_runtimeVars

-----------------------------------------------------------------------------
(* Properties *)

\* The types of the cache and of the decisions in progress.
RuntimeTypeOK ==
  /\ entries \in [DOMAIN entries -> Slots]
  /\ \A i \in DOMAIN order : order[i][2] \in Slots
  /\ cell \in [Slots -> Results \union {NoResult}]
  /\ \A t \in Threads :
       /\ task[t].step \in {"idle", "read", "lookup", "fill", "settle", "answered"}
       /\ task[t].request \in Requests \union {NoRequest}
       /\ task[t].row \in Rows \union {NoRow}
       /\ task[t].slot \in Slots \union {NoSlot}
       /\ task[t].inserted \in BOOLEAN
       /\ At(t, "idle") => task[t] = Idle

\* The insertion order names only entries the map still holds, each once:
\* neither a failure that is settled late nor an eviction of an entry under
\* the key of another can leave a dangling pair that would later evict or
\* shield the wrong executable (remove_entry and its pointer comparison).
OrderCurrent ==
  /\ \A i \in DOMAIN order :
       /\ order[i][1] \in DOMAIN entries
       /\ entries[order[i][1]] = order[i][2]
  /\ \A i, j \in DOMAIN order : order[i] = order[j] => i = j

\* The cache is bounded: at most MaximumCompiled entries are settled as
\* compiled, and every other entry of the map is being made by a decision in
\* progress or records a failure that is not the fault of the stored row.
\* In particular no invalid entry outlives the decisions that found it, so a
\* repaired row is materialised again.
EntriesAccounted ==
  /\ Len(order) <= MaximumCompiled
  /\ \A k \in DOMAIN entries :
       \/ \E i \in DOMAIN order : order[i] = <<k, entries[k]>>
       \/ \E t \in Threads : /\ task[t].step \in {"fill", "settle"}
                             /\ task[t].inserted
                             /\ task[t].slot = entries[k]
       \/ /\ cell[entries[k]] \in Results
          /\ ~IsCompiled(cell[entries[k]])
          /\ ~IsInvalid(cell[entries[k]])

\* The cache keeps its books while decisions fill, settle and evict entries in
\* any order: its order and its map agree, and both are bounded.
CacheAccounted == OrderCurrent /\ EntriesAccounted
=============================================================================
