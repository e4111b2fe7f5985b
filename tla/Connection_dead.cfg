SPECIFICATION Spec
CONSTANTS
  MaxAttempts = 2
  HardCap = 3
  IdleTimeout = 1
  DeadAfter = 2
INVARIANT DeadConnectionGuard
CHECK_DEADLOCK FALSE
