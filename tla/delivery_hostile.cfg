SPECIFICATION Spec
CONSTANTS
  Jobs = {j1}
  Workers = {w1}
  NoJob = NoJob
  Pool = FALSE
  MaxAttempts = 2
  MaxEntries = 1
  MaxCopies = 2
  MaxCrashes = 2
  MaxSlips = 1
  Faults = {"crash", "transient", "slow", "premium"}
CHECK_DEADLOCK FALSE
SYMMETRY Symmetry
INVARIANTS
  SentMeansAccepted
