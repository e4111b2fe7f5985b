SPECIFICATION MCSpec
CONSTANTS
  n1 = n1
  n2 = n2
  r1 = r1
  NoNode = NoNode
  Nodes <- TwoNodes
  Notifiers <- OneRequest
  Resetters <- OneRequest
  Posters <- OneRequest
  Configs <- AllSettings
  DefaultConfig <- Short
  Hour = 1
  NackWindow = 1
  Retention = 3
  PassBound = 1
  MaxTime = 6
  MaxRows = 2
SYMMETRY Symmetry
INVARIANTS
  TypeOK
  CooldownHolds
  RateHolds
  GraceRestarts
  ReadyIsTrue
  NeverAnnouncedLate
  EndpointsAgree
CHECK_DEADLOCK FALSE
