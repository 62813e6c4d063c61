SPECIFICATION Spec
CONSTANTS
  Recipients = {r1}
  NoOne = NoOne
  Ticks = {t1}
  Last = 2
  OnMatch <- LinearMatch
  OnNoMatch <- LinearNoMatch
  Ruled = {}
  Simple = {}
  Cap = 0
  Happenings = {"reply"}
  MaxMade = 2
  MaxCrashes = 1
CHECK_DEADLOCK FALSE
SYMMETRY Symmetry
PROPERTIES
  NoMailAfterReply
