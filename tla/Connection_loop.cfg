SPECIFICATION RunningSpec
CONSTANTS
  MaxAttempts = 2
  HardCap = 3
  IdleTimeout = 1
  DeadAfter = 2
INVARIANT TypeOK
PROPERTIES
  LiveForAReason
  ConfigPhaseEnds
  Reconnects
  ShutdownEndsRun
CHECK_DEADLOCK FALSE
