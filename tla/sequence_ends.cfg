SPECIFICATION FairSpec
CONSTANTS
  Recipients = {r1, r2}
  NoOne = NoOne
  Ticks = {t1}
  Last = 2
  OnMatch <- SkipMatch
  OnNoMatch <- SkipNoMatch
  Ruled = {}
  Simple = {1}
  Cap = 1
  Happenings = {"reply"}
  MaxMade = 2
  MaxCrashes = 1
CHECK_DEADLOCK FALSE
INVARIANTS
  CapIsKept
  CompletedMeansDone
PROPERTIES
  SequenceEnds
