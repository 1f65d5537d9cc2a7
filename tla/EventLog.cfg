CONSTANTS
  s1 = s1
  s2 = s2
  Subscribers = {s1, s2}
  MaxSize = 2
  MaxSeq = 5
SPECIFICATION FairSpec
CHECK_DEADLOCK FALSE
INVARIANTS
  InOrderOnce
  OnlyEvictedSkipped
PROPERTIES
  ImplementsFeed
  CloseEndsSubscribers
