SPECIFICATION Spec
CONSTANTS
  NameOf <- MCNameOf
  Requests <- MCRequests
  Responses <- MCResponses
  Trailers <- MCTrailers
  BodyLengths = {0, 5}
  TableSize = 2
  Announced = {}
  MayContinue = FALSE
  MaxUnusual = 1
INVARIANT
  BodyAsSent
CHECK_DEADLOCK FALSE
