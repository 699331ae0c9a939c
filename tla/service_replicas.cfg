SPECIFICATION ServiceSpec
CONSTANTS
  d1 = d1  d2 = d2  d3 = d3  scope = scope  p1 = p1  p2 = p2  p3 = p3
  r1 = r1  r2 = r2  i1 = i1  i2 = i2
  None = None
  Names = {1}
  Contracts = {d1, d2}
  Scopes = {scope}
  NameOf <- MCNameOf
  ScopeOf <- MCScopeOf
  Executables = {10, 11, 12, 20, 22}
  ContractOf <- MCContractOf
  Proposals = {p1, p2}
  CycleOf <- MCCycleOf
  CandidateOf <- OneName
  Times = {0}
  MaxVersion = 6
  Instances = {i1, i2}
  Slots = {r1, r2}
  InstanceOf <- TwoInstances
  DefaultOf <- MCDefaultOf
  AuthoredOf <- AuthoredFirst
  AutoActivation = {d1}
  Conforming = {10, 11, 12, 20, 22}
  PageSize = 1
INVARIANTS
  BootstrapOrder
PROPERTIES
  WorkerGrantsAssessed
  ImplementsAuthority
