SPECIFICATION FairSpec
CONSTANTS
  r1 = r1
  r2 = r2
  Requests <- TwoRequests
  MAX_OBJECT_SIZE = 3
  RebuiltSizes <- Rebuilds
  PageSize = 1
  Loads <- AllLoads
INVARIANTS
  ScannedWhole
  LengthTrue
  Settled
PROPERTIES
  RequestEnds
CHECK_DEADLOCK FALSE
