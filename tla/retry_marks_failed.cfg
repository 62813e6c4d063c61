SPECIFICATION Spec
CONSTANTS
  Jobs = {j1}
  Workers = {w1}
  NoJob = NoJob
  Pool = TRUE
  MaxAttempts = 3
  MaxEntries = 1
  MaxCopies = 2
  MaxCrashes = 0
  MaxSlips = 1
  Faults = {"transient"}
CHECK_DEADLOCK FALSE
SYMMETRY Symmetry
INVARIANTS
  FailedAfterLastAttempt
