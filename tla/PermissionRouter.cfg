CONSTANTS
  c1 = c1
  c2 = c2
  c3 = c3
  i1 = i1
  i2 = i2
  r1 = r1
  r2 = r2
  r3 = r3
  None = None
  Calls = {c1, c2}
  Replies = {r1, r2, r3}
  Ids = {i1, i2}
  IdOf <- DistinctIds
  KindOf <- Kinds
SPECIFICATION FairRouterSpec
CHECK_DEADLOCK FALSE
INVARIANTS
  OneWinner
  RunsOnlyOnAllow
  AnswerableWhileWaiting
PROPERTIES
  ReleasedOnClose
  ImplementsPrompts
