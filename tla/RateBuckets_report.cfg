SPECIFICATION Spec
CONSTANTS
  a = a
  me = me
  Nodes <- TwoNodes
  Self <- me
  Counted <- OneType
  Packets <- Traffic
  Configs <- CountAndHop
  DefaultConfig <- Count
  MinWindow = 0
  Cap = 2
  LoadLimit = 2
  Retention = 1
  MaxTime = 2
  MaxEvents = 3
  MaxRestarts = 1
INVARIANTS
  TypeOK
  ReportIsExact
CHECK_DEADLOCK FALSE
