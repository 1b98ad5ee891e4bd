SPECIFICATION Spec
CONSTANTS
  Processes = 4
  MAX_SERVERS = 2
  START_SERVERS = 1
  MIN_SPARE_THREADS = 0
  MAX_SPARE_THREADS = 2
  THREADS_PER_CHILD = 1
  Crashes = 1
  Reconfigures = 1
  Stops = TRUE
  MaxRequests = TRUE
INVARIANTS
  OldChildrenTold
CHECK_DEADLOCK FALSE
