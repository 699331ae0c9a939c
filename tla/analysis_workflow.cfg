SPECIFICATION FairCycleSpec
CONSTANTS
  d1 = d1  d2 = d2  x = x  y = y  w1 = w1  w2 = w2
  None = None
  Digests = {d1}
  Cycles = {1}
  Rules = {x, y}
  Accepted <- MCAccepted
  Interval = 1
  MaxAttempts = 4
  Total = 3
  Timeout = 2
  Workers = {w1}
  General = TRUE
  MaxRevisions = 1
  Refused = {}
  MaxDeploys = 0
  MaxFaults = 1
  MaxStrays = 0
  Horizon = 1
INVARIANTS
  AttemptCharged
  ReviewedBeforeSubmitted
PROPERTIES
  CyclesEnd
