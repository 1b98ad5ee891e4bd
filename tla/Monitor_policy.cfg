SPECIFICATION Spec
CONSTANTS
  Processes = 3
  MAX_SERVERS = 2
  START_SERVERS = 1
  MIN_SPARE_THREADS = 0
  MAX_SPARE_THREADS = 2
  THREADS_PER_CHILD = 1
  Crashes = 1
  Reconfigures = 2
  Stops = TRUE
  MaxRequests = FALSE
INVARIANTS
  QueuesTrue
CHECK_DEADLOCK FALSE
