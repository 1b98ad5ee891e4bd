SPECIFICATION Spec
CONSTANTS
  Workers = {w1, w2}
  Conns = {c1, c2, c3}
  NoConn = NoConn
  NPorts = 2
  MAX_KEEPALIVE_REQUESTS = 1
  ListenerTries = 1
  WorkerRounds = 1
  Spurious = TRUE
  Siblings = TRUE
  FatherModes = {}
  FatherDies = FALSE
SYMMETRY ThreadsAndConns
INVARIANTS CountersAgree ConnOnePlace AcceptUnderMutex
PROPERTIES RoomAfterHasChild ImplementsLifecycle
CHECK_DEADLOCK FALSE
