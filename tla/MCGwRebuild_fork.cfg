SPECIFICATION Spec
CONSTANTS
  r1 = r1
  r2 = r2
  Requests <- TwoRequests
  MAX_OBJECT_SIZE = 3
  RebuiltSizes <- Rebuilds
  PageSize = 1
  Loads <- ForkLoads
INVARIANTS
  OwnOutcome
CHECK_DEADLOCK FALSE
