SPECIFICATION Spec
CONSTANTS
  Jobs = {j1, j2}
  Workers = {w1, w2}
  NoJob = NoJob
  Pool = FALSE
  MaxAttempts = 1
  MaxEntries = 1
  MaxCopies = 2
  MaxCrashes = 1
  MaxSlips = 0
  Faults = {"crash"}
CHECK_DEADLOCK FALSE
SYMMETRY Symmetry
INVARIANTS
  CompletedMeansDone

  
