SPECIFICATION Spec
CONSTANTS
  Jobs = {j1}
  Workers = {w1, w2}
  NoJob = NoJob
  Pool = TRUE
  MaxAttempts = 1
  MaxEntries = 1
  MaxCopies = 3
  MaxCrashes = 1
  MaxSlips = 0
  Faults = {"crash", "db", "persist", "marker"}
CHECK_DEADLOCK FALSE
SYMMETRY Symmetry
INVARIANTS
  TypeOK
  NoDuplicate
  OneHolder
  RecordInv

  
  
