SPECIFICATION CycleSpec
CONSTANTS
  d1 = d1  d2 = d2  x = x  y = y  w1 = w1  w2 = w2
  None = None
  Digests = {d1, d2}
  Cycles = {1, 2}
  Rules = {x, y}
  Accepted <- MCAccepted
  Interval = 1
  MaxAttempts = 2
  Total = 1
  Timeout = 1
  Workers = {w1, w2}
  General = FALSE
  MaxRevisions = 0
  Refused = {y}
  MaxDeploys = 1
  MaxFaults = 1
  MaxStrays = 1
  Horizon = 1
SYMMETRY Interchangeable
INVARIANTS
  SealIntact
  AdmissionMatchesJournal
  CandidateIsAdmitted
  NothingAbandoned
PROPERTIES
  OutcomeFinal
  CyclesSpaced
