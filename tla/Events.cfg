SPECIFICATION MCSpec
CONSTANTS
  e1 = e1
  e2 = e2
  e3 = e3
  nil = nil
  Events <- ThreeEvents
  Nil <- nil
  MaxEvents = 3
  LoadLimit = 3
  MaxRows = 4
  MaxCount = 5
  ChannelSlots = 1
  Limit = 2
  Rows = 3
  MaxErrors = 1
  StreamEvents = 3
  MaxFaults = 2
INVARIANTS
  TypesOK
  StreamInOrder
  OpenIsComplete
  NeverRefused
PROPERTIES
  ImplementsHistory
  ViewConverges
CHECK_DEADLOCK FALSE
