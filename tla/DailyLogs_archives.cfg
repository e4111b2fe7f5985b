SPECIFICATION FairSpec
CONSTANTS
  RawLog = FALSE
  DayLength = 1
  SyncEvery = 0
  OlderThan = 1
  MaxTime = 3
  MaxLines = 2
  MaxFaults = 1
PROPERTY OldLogsCompressed
CHECK_DEADLOCK FALSE
