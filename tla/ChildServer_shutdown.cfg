SPECIFICATION FairSpec
CONSTANTS
  Workers = {w1}
  Conns = {c1}
  NoConn = NoConn
  NPorts = 1
  MAX_KEEPALIVE_REQUESTS = 1
  ListenerTries = 1
  WorkerRounds = 1
  Spurious = FALSE
  Siblings = TRUE
  FatherModes = {1, 2}
  FatherDies = TRUE
INVARIANTS
  ShutdownClosesServed
PROPERTIES
  ImmediateShutdown
  ThreadsMoveOn
CHECK_DEADLOCK FALSE
