--------------------------- MODULE EvidenceLedger ---------------------------
(***************************************************************************)
(* What the evidence pipeline promises, with no inbox, page, process or    *)
(* transaction: acknowledged batches form a log that is consumed in order, *)
(* each batch at most once and passed over only after it has expired.  The *)
(* first content of a logical source is evidence for good; a batch is      *)
(* consumed under one of the catalogs the Contract Service has published.  *)
(***************************************************************************)
EXTENDS Naturals, Sequences, SequencesExt

CONSTANTS
  Batches,       \* batches that can be acknowledged
  Documents,     \* catalogs a batch can be consumed under
  Reading(_, _)  \* the observations of a batch under a catalog, in order

VARIABLES
  ledger,    \* the acknowledged batches
  expired,   \* places of the ledger that hard retention has taken
  position,  \* the last place consumed
  evidence,  \* accepted observations
  refused    \* contents refused for that of the accepted observation

ledgerVars == <<ledger, expired, position, evidence, refused>>

LedgerInit ==
  ledger = <<>> /\ expired = {} /\ position = 0 /\ evidence = {} /\ refused = {}

Acknowledge ==
  /\ \E b \in Batches : b.id = Len(ledger) + 1 /\ ledger' = Append(ledger, b)
  /\ UNCHANGED <<expired, position, evidence, refused>>

\* Only a prefix of the ledger can have expired.
Expire ==
  /\ \E n \in DOMAIN ledger : expired' = 1..n
  /\ expired \subseteq expired'
  /\ UNCHANGED <<ledger, position, evidence, refused>>

\* What an observation is evidence of, and where it was first observed.
Evidence(o, i) ==
  [logical |-> o.logical, content |-> o.content, contract |-> o.contract,
   place |-> i, ordinal |-> o.ordinal]

Claimed(logical) == \E e \in evidence : e.logical = logical

Consume ==
  \E i \in DOMAIN ledger, document \in Documents :
    LET found == {Evidence(o, i) : o \in ToSet(Reading(ledger[i], document))}
        new == {e \in found : /\ ~Claimed(e.logical)
                              /\ \A f \in found : f.logical = e.logical => f.ordinal >= e.ordinal}
    IN /\ i > position
       /\ (position + 1)..(i - 1) \subseteq expired
       /\ position' = i
       /\ evidence' = evidence \union new
       /\ refused' = refused \union
            {[logical |-> e.logical, content |-> e.content] :
               e \in {f \in found : \E a \in evidence \union new :
                        a.logical = f.logical /\ a.content # f.content}}
       /\ UNCHANGED <<ledger, expired>>

LedgerNext == Acknowledge \/ Expire \/ Consume

LedgerSpec == LedgerInit /\ [][LedgerNext]_ledgerVars
=============================================================================
