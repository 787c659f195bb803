SPECIFICATION FairSpec
CONSTANTS
  NStreams = 3
  NSlots = 1
  OutputCap = 1
  Silent = {3}
  Cancellable = {1}
  GoAways = {"in"}
  MayTimeOut = TRUE
CONSTRAINT
  Followed
INVARIANTS
  TypeOK
  IndInv
  EmittedWhole
  AtMostOnce
  SlotsClean
PROPERTY
  CallLogSpec
  CapturedIsEmitted
CHECK_DEADLOCK FALSE
