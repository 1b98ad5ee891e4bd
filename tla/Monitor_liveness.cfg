SPECIFICATION FairSpec
CONSTANTS
  Processes = 3
  MAX_SERVERS = 1
  START_SERVERS = 1
  MIN_SPARE_THREADS = 0
  MAX_SPARE_THREADS = 2
  THREADS_PER_CHILD = 1
  Crashes = 1
  Reconfigures = 0
  Stops = TRUE
  MaxRequests = TRUE
PROPERTIES
  ServerStops
  KeepsServers
CHECK_DEADLOCK FALSE
