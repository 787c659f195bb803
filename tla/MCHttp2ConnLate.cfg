SPECIFICATION Spec
CONSTANTS
  NStreams = 1
  NSlots = 1
  OutputCap = 1
  Silent = {}
  Cancellable = {}
  GoAways = {}
  MayTimeOut = FALSE
INVARIANT
  EveryMessageWhole
CHECK_DEADLOCK FALSE
