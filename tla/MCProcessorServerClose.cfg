SPECIFICATION Spec
CONSTANTS
  Conns = {c1}
  MaxInc = 2
  MaxDups = 0
  MaxWindowSize = 3
  Closings = {"server"}
  PrefaceAlone = TRUE
  GoAwayInTime = TRUE
INVARIANT
  NewConnTracked
CHECK_DEADLOCK FALSE
