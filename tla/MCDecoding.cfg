SPECIFICATION Spec
CONSTANTS
  NameOf <- MCNameOf
  Requests <- MCRequests
  Responses <- MCResponses
  Trailers <- MCTrailers
  BodyLengths = {0, 5}
  TableSize = 2
  Announced = {1, 3}
  MayContinue = TRUE
  MaxUnusual = 3
INVARIANTS
  TypeOK
  TablesAgree
  AsSent
  IndInv
CHECK_DEADLOCK FALSE
