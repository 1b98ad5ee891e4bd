SPECIFICATION Spec
INVARIANTS
  AccessDecides
  ReconfigureIsRestart
  CallsTrue
  CommandsOnce
  HeadsExact
  ClientsExact
  DemoExact
CHECK_DEADLOCK FALSE
