-------------------------- MODULE MCContractService --------------------------
(* Small instances of the Contract Service.  Executable 10 * k is the default *)
(* of the k-th contract, 10 * k + 1 its authored executable where it has one, *)
(* and larger ones are analysis candidates.                                   *)
EXTENDS ContractService

CONSTANTS d1, d2, d3, scope, p1, p2, p3, r1, r2, i1, i2

MCNameOf == [d \in Contracts |-> IF d = d3 THEN 2 ELSE 1]
MCScopeOf == [d \in Contracts |-> scope]
MCContractOf == [e \in Executables |-> IF e < 20 THEN d1 ELSE IF e < 30 THEN d2 ELSE d3]
MCDefaultOf == [d \in Contracts |-> IF d = d1 THEN 10 ELSE IF d = d2 THEN 20 ELSE 30]
AuthoredFirst == [d \in Contracts |-> IF d = d1 THEN {11} ELSE {}]
NoneAuthored == [d \in Contracts |-> {}]
MCCycleOf == [p \in Proposals |-> IF p = p1 THEN 1 ELSE IF p = p2 THEN 2 ELSE 3]
OneInstance == [s \in Slots |-> i1]
TwoInstances == [s \in Slots |-> IF s = r1 THEN i1 ELSE i2]
OneName == [p \in Proposals |-> IF p = p1 THEN 12 ELSE 22]
EachName == [p \in Proposals |-> IF p = p1 THEN 12 ELSE IF p = p2 THEN 13 ELSE 31]
=============================================================================
