SPECIFICATION Spec
CONSTANTS
  a = a
  none = none
  Nodes <- OneNode
  NoNode <- none
  Threshold = 2
  ScanPeriod = 2
  Retention = 3
  HandlingBound = 1
  MaxTime = 6
  MaxCrashes = 1
INVARIANT SilentIsOffline
CHECK_DEADLOCK FALSE
