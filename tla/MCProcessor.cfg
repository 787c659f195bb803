SPECIFICATION Spec
CONSTANTS
  Conns = {c1}
  MaxInc = 3
  MaxDups = 2
  MaxWindowSize = 3
  Closings = {"client", "clientFast", "clientReset"}
  PrefaceAlone = TRUE
  GoAwayInTime = TRUE
INVARIANTS
  TypeOK
  IndInv
  OwnBytes
  NewConnTracked
  ClosedIsForgotten
  Reassembled
PROPERTY
  FeedsSpec
CHECK_DEADLOCK FALSE
