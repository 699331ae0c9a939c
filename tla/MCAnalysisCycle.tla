--------------------------- MODULE MCAnalysisCycle ---------------------------
(* Small instances of the analysis cycle. *)
EXTENDS AnalysisCycle, TLC

CONSTANTS d1, d2, x, y, w1, w2

MCAccepted == [d \in Digests |-> 0]
Interchangeable == Permutations(Workers) \union Permutations(Digests)
=============================================================================
