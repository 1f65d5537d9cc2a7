CONSTANTS
  s1 = s1
  Subscribers = {s1}
  MaxSize = 2
  MaxSeq = 5
SPECIFICATION Spec
CHECK_DEADLOCK FALSE
INVARIANT BlocksOnlyWhenCaughtUp
