SPECIFICATION FairSpec
CONSTANTS
  Messages = {1, 2, 3, 4}
  MethodOf <- MCMethodOf
  HasResponse <- MCHasResponse
  Inputs = {1, 2}
  Outputs <- MCOutputs
  IncludeFilters <- MCInclude
  ExcludeFilters <- MCExclude
  RateLimited = FALSE
  Workers = {w1, w2}
  ChannelCap = 1
  Unanswered = {4}
  MaxFiles = 2
  Arrivals <- MCArrivals
  MaxFaults = 2
INVARIANTS
  TypeOK
  ReadsBack
  SameToAll
  IndInv
PROPERTY
  AllCalled
CHECK_DEADLOCK FALSE
