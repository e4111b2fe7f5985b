SPECIFICATION MCSpec
CONSTANTS
  Nodes = {a}
  NoNode = none
  Threshold = 2
  ScanPeriod = 2
  Retention = 3
  HandlingBound = 1
  LastTick = 8
  MaxCrashes = 1
  RawLog = TRUE
  DayLength = 2
  SyncEvery = 1
  OlderThan = 1
  MaxTime = 4
  MaxLines = 3
  MaxFaults = 2
INVARIANTS
  TypesOK
  UptimeCounted
  UptimeNotInflated
  LogMatchesTracker
  LinesKept
PROPERTY LossBounded
CHECK_DEADLOCK FALSE
