SPECIFICATION FairSpec
CONSTANTS
  Conns = {c1, c2}
  Old = {c1}
  MaxInc = 2
  MaxData = 1
  QueueCap = 4
  Reuse = TRUE
  GapOpens = FALSE
INVARIANTS
  TypeOK
  FreshFollowed
  DoneMeansGone
PROPERTY
  HistoryEnds
CHECK_DEADLOCK FALSE
