SPECIFICATION FairSpec
CONSTANTS
  SeqSpace = 16
  MaxWindowSize = 6
  MaxLen = 3
  ChanCap = 2
  ISN = 11
  Segments <- WrapSegments
  Lag = 8
  Flight = 10
  ReadSizes <- TwoSizes
INVARIANTS
  TypeOK
  IndInv
  CountersAgree
  NoSegmentLost
PROPERTIES
  StreamSpec
  CapturedIsRead
