SPECIFICATION Spec
INVARIANTS
  MemoryKept
  ContainersKept
  CachesTrue
  TablesTrue
  HeldWhileUsed
  LocksSound
  StatsSound
CHECK_DEADLOCK FALSE
