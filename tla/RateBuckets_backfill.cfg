SPECIFICATION Spec
CONSTANTS
  a = a
  me = me
  Nodes <- TwoNodes
  Self <- me
  Counted <- OneType
  Packets <- JustNodeInfo
  Configs <- ShortOrCount
  DefaultConfig <- Short
  MinWindow = 0
  Cap = 2
  LoadLimit = 3
  Retention = 2
  MaxTime = 2
  MaxEvents = 3
  MaxRestarts = 1
INVARIANT BackfillIsExact
CHECK_DEADLOCK FALSE
