SPECIFICATION FairServiceSpec
CONSTANTS
  d1 = d1  d2 = d2  d3 = d3  scope = scope  p1 = p1  p2 = p2  p3 = p3
  r1 = r1  r2 = r2  i1 = i1  i2 = i2
  None = None
  Names = {1, 2}
  Contracts = {d1, d2, d3}
  Scopes = {scope}
  NameOf <- MCNameOf
  ScopeOf <- MCScopeOf
  Executables = {10, 12, 13, 20, 30, 31}
  ContractOf <- MCContractOf
  Proposals = {p1, p2, p3}
  CycleOf <- MCCycleOf
  CandidateOf <- EachName
  Times = {0}
  MaxVersion = 6
  Instances = {i1}
  Slots = {r1}
  InstanceOf <- OneInstance
  DefaultOf <- MCDefaultOf
  AuthoredOf <- NoneAuthored
  AutoActivation = {d1, d3}
  Conforming = {10, 12, 20, 30, 31}
  PageSize = 1
PROPERTIES
  CandidatesResolve
