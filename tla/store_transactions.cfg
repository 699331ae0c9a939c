SPECIFICATION StoreSpec
CONSTANTS
  d1 = d1  d2 = d2  d3 = d3  s1 = s1  s2 = s2  p1 = p1  p2 = p2  p3 = p3
  None = None
  Names = {1}
  Contracts = {d1, d2, d3}
  Scopes = {s1, s2}
  NameOf <- MCNameOf
  ScopeOf <- MCScopeOf
  Executables = {1, 2, 3, 4}
  ContractOf <- MCContractOf
  Proposals = {p1, p2, p3}
  CycleOf <- MCCycleOf
  CandidateOf <- MCCandidateOf
  Times = {0, 1}
  MaxVersion = 3
INVARIANTS
  StoreInvariant
  NameAuthority
PROPERTIES
  TokensNameOneTenure
  AuthorityNeverLost
