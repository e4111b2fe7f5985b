SPECIFICATION MCSpec
CONSTANTS
  me = me
  a = a
  b = b
  none = none
  all = all
  Nodes <- ThreeNodes
  Self <- me
  None <- none
  Broadcast <- all
  Types <- AllTypes
  Packets <- AllPackets
  Km <- OnALine
  NotIgnoreSelf = FALSE
  IgnoreName = "a"
  RingSize = 2
  MaxTraceroutes = 1
  MaxAge = 1
  MaxTime = 6
  MaxFaults = 1
  MaxRestarts = 1
INVARIANTS
  LinksAreObserved
  CountsMatchLog
  PairsMatchClasses
  RowsAreFaithful
  TraceroutesAreNewest
  DXPrefersDirect
PROPERTIES
  NothingForgotten
  MetadataWins
CHECK_DEADLOCK FALSE
