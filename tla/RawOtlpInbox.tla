---------------------------- MODULE RawOtlpInbox ----------------------------
(***************************************************************************)
(* The Raw OTLP Inbox: acknowledged batches in the order of their identity *)
(* until hard retention takes them, and the one row of books kept in the   *)
(* same SQLite transactions.  Every operation is one transaction that      *)
(* takes the write lock first, so one atomic action.                       *)
(*                                                                         *)
(* A nullable timestamp is the set of the at most one value it has.        *)
(***************************************************************************)
EXTENDS Integers, Sequences, FiniteSets, FiniteSetsExt, Functions

CONSTANTS
  SizeOf,            \* the length of each payload
  MaxRetainedBytes,  \* limit on the retained payload bytes
  HardRetention      \* age at which a batch expires

ASSUME LimitsAssumption ==
  /\ SizeOf \in [DOMAIN SizeOf -> Nat]
  /\ MaxRetainedBytes \in Nat \ {0} /\ HardRetention \in Nat \ {0}

VARIABLES
  batches,  \* the retained rows, by their inbox_batch_id
  books,    \* raw_otlp_inbox_state: counts, replay boundary, last receipt
  lastId    \* the AUTOINCREMENT sequence

inboxVars == <<batches, books, lastId>>

InboxInit ==
  /\ batches = [id \in {} |-> {}]
  /\ books = [retained |-> 0, bytes |-> 0, expired |-> 0, expiredBytes |-> 0,
              earliestReplay |-> {}, lastReceived |-> {}]
  /\ lastId = 0

-----------------------------------------------------------------------------

\* Receipts never precede an earlier receipt or the replay boundary, whatever
\* the clock does; retention takes the same time as its reference.
InboxTime(clock) == Max({clock} \union books.lastReceived \union books.earliestReplay)

Fits(batch) == books.bytes + SizeOf[batch.payload] <= MaxRetainedBytes

\* A full inbox refuses the batch: nothing is expired to make room.
AppendBatch(batch, clock) ==
  /\ Fits(batch)
  /\ lastId' = lastId + 1
  /\ batches' = [id \in DOMAIN batches \union {lastId + 1} |->
       IF id \in DOMAIN batches THEN batches[id]
       ELSE [id |-> id, received |-> InboxTime(clock),
             signal |-> batch.signal, encoding |-> batch.encoding, payload |-> batch.payload]]
  /\ books' = [books EXCEPT !.lastReceived = {InboxTime(clock)},
                            !.retained = @ + 1,
                            !.bytes = @ + SizeOf[batch.payload]]

\* SUM(payload_length) of the rows with an id up to last.
PayloadBytes(rows, last) ==
  LET sum[id \in 0..last] ==
        IF id = 0 THEN 0
        ELSE sum[id - 1] + (IF id \in DOMAIN rows THEN SizeOf[rows[id].payload] ELSE 0)
  IN sum[last]

\* The retained rows that were received before the cutoff.
Older(cutoff) == {id \in DOMAIN batches : batches[id].received < cutoff}

\* Slip: the boundary stays where the last expiry put it.
ExpireQuietly(cutoff) ==
  LET bytes == PayloadBytes(Restrict(batches, Older(cutoff)), lastId)
  IN /\ Older(cutoff) # {}
     /\ batches' = Restrict(batches, DOMAIN batches \ Older(cutoff))
     /\ books' = [books EXCEPT !.retained = @ - Cardinality(Older(cutoff)),
                               !.bytes = @ - bytes,
                               !.expired = @ + Cardinality(Older(cutoff)),
                               !.expiredBytes = @ + bytes]
     /\ UNCHANGED lastId

\* Nothing changes when no batch is older than the cutoff.
ExpireBefore(cutoff) ==
  LET bytes == PayloadBytes(Restrict(batches, Older(cutoff)), lastId)
  IN /\ Older(cutoff) # {}
     /\ batches' = Restrict(batches, DOMAIN batches \ Older(cutoff))
     /\ books' = [books EXCEPT !.retained = @ - Cardinality(Older(cutoff)),
                               !.bytes = @ - bytes,
                               !.expired = @ + Cardinality(Older(cutoff)),
                               !.expiredBytes = @ + bytes,
                               !.earliestReplay = {Max(@ \union {cutoff})}]
     /\ UNCHANGED lastId

\* Progress of the materializer is not consulted.
EnforceRetention(clock) == ExpireBefore(InboxTime(clock) - HardRetention)

\* A page: the first rows after the cursor, at most limit of them.
ReadAfter(after, limit) ==
  LET later == {id \in DOMAIN batches : id > after}
      first == {id \in later : Cardinality({j \in later : j < id}) < limit}
  IN {batches[id] : id \in first}

\* Where a consumer without a checkpoint can start from.
EarliestReplayAt ==
  IF books.earliestReplay # {} THEN books.earliestReplay
  ELSE IF DOMAIN batches = {} THEN {}
  ELSE {Min({batches[id].received : id \in DOMAIN batches})}
=============================================================================
