SPECIFICATION FairSessionsSpec
CONSTANTS
  wa = wa  wb = wb  q1 = q1  q2 = q2
  n1 = n1 n2 = n2 n3 = n3 out = out
  ScopeNames = {"o", "p", "e"}
  Spaces = {wa, wb}
  Calls = {q1, q2}
  Contract <- MCContract
  Snapshots <- MCSnapshots
  Queries <- MCQueries
  RowLimits = {2}
  MaxRows = 2
  MaxBytes = 2
  Scripts <- MCScripts
  Streams = {out}
  MaxCaptured = 1
  MaxWritten = 2
  Clients = {n1, n2, n3}
  Attempts <- MCAttempts
  Edits <- MCEdits
  Budgets <- MCBudgets
INVARIANTS ClientsAccounted RecordsFaithful
PROPERTIES RecordsOnlyGrow CallsEnd ServiceStops
CHECK_DEADLOCK FALSE
