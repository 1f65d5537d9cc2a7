CONSTANTS
  Conn = conn
  MaxSize = 2
  MaxSeq = 6
  WireCap = 2
  MaxDrops = 2
SPECIFICATION FairSpec
CHECK_DEADLOCK FALSE
INVARIANTS
  SeenOnceInOrder
  SeenAllRetained
PROPERTIES
  EventuallySeen
