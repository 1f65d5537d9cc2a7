CONSTANTS
  a = a
  c = c
  Ids = {a, c}
  Registered = {a}
  Prefixed = {a, c}
  Chunks = 2
  None = None
  MaxLog = 4
  MaxResets = 1
  MaxAttach = 1
SPECIFICATION FairSpec
CHECK_DEADLOCK FALSE
INVARIANTS
  TypeOK
  LatestInArrivalOrder
  ShowsPrefix
PROPERTIES
  CompleteStays
  EventuallyShown
