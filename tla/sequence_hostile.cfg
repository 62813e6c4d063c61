SPECIFICATION Spec
CONSTANTS
  Recipients = {r1}
  NoOne = NoOne
  Ticks = {t1}
  Last = 2
  OnMatch <- SkipMatch
  OnNoMatch <- SkipNoMatch
  Ruled = {2}
  Simple = {}
  Cap = 0
  Happenings = {"toggle", "stop", "pause", "db"}
  MaxMade = 2
  MaxCrashes = 1
CHECK_DEADLOCK FALSE
SYMMETRY Symmetry
INVARIANTS
  TypeOK
  SentEntryIsTrue
PROPERTIES
  RepliesEndSequence
