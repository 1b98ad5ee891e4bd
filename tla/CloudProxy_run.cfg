SPECIFICATION FairSpec
CONSTANTS
  Answers = 2
  Faults = TRUE
INVARIANTS
  ExitTrue
PROPERTIES
  KeepsContract
  ProxyEnds
CHECK_DEADLOCK FALSE
