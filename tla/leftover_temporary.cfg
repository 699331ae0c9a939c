SPECIFICATION FairCycleSpec
CONSTANTS
  d1 = d1  d2 = d2  x = x  y = y  w1 = w1  w2 = w2
  None = None
  Digests = {d1}
  Cycles = {1}
  Rules = {x}
  Accepted <- MCAccepted
  Interval = 1
  MaxAttempts = 2
  Total = 2
  Timeout = 1
  Workers = {w1}
  General = FALSE
  MaxRevisions = 0
  Refused = {}
  MaxDeploys = 0
  MaxFaults = 1
  MaxStrays = 1
  Horizon = 1
PROPERTIES
  CyclesEnd
