SPECIFICATION FairSpec
CONSTANTS
  Messages = {1, 2, 3, 4, 5}
  MethodOf <- MCMethodOf
  HasResponse <- MCHasResponse
  Recordings <- MCRecordings
  TimestampOf <- MCTimestampOf
  Speed = 2
  ReadDepth = 2
  TimerWorkers = {t1, t2}
  MsgCap = 1
  Horizon = 3
  Input = file
  Inputs = {file}
  Outputs <- MCOutputs
  IncludeFilters = {}
  ExcludeFilters <- MCExclude
  RateLimited = TRUE
  Workers = {w1, w2}
  ChannelCap = 1
  Unanswered = {1}
INVARIANTS
  TypeOK
  CalledOnce
  NotEarly
  OrderKept
  TasksKept
  OrderInv
PROPERTY
  AllReplayed
CHECK_DEADLOCK FALSE
