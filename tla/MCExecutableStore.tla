------------------------- MODULE MCExecutableStore -------------------------
(* A small instance of the open store: one name contested by two scopes,    *)
(* two versions of one scope, executables of both, and three proposals of   *)
(* which two share a cycle and two share an executable.                     *)
EXTENDS ExecutableStore

CONSTANTS d1, d2, d3, s1, s2, p1, p2, p3

MCNameOf == [d \in Contracts |-> 1]
MCScopeOf == [d \in Contracts |-> IF d = d3 THEN s2 ELSE s1]
MCContractOf == [e \in Executables |-> IF e <= 3 THEN d1 ELSE d2]
MCCycleOf == [p \in Proposals |-> IF p = p3 THEN 2 ELSE 1]
MCCandidateOf == [p \in Proposals |-> IF p = p1 THEN 1 ELSE 2]
=============================================================================
