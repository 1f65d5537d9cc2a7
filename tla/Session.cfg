CONSTANTS
  m1 = m1
  m2 = m2
  m3 = m3
  m4 = m4
  None = None
  Msgs = {m1, m2, m3, m4}
  QueueCap = 2
SPECIFICATION FairSpec
CHECK_DEADLOCK FALSE
INVARIANTS
  OneTurnAtATime
  NothingLost
PROPERTIES
  Answered
  CloseCompletes
