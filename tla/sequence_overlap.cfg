SPECIFICATION Spec
CONSTANTS
  Recipients = {r1}
  NoOne = NoOne
  Ticks = {t1, t2}
  Last = 3
  OnMatch <- StepMatch
  OnNoMatch <- StepNoMatch
  Ruled = {2}
  Simple = {}
  Cap = 2
  Happenings = {"crash", "bounce", "db", "reject"}
  MaxMade = 2
  MaxCrashes = 1
CHECK_DEADLOCK FALSE
SYMMETRY Symmetry
INVARIANTS
  OneJobPerStep
