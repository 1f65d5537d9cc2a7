CONSTANTS
  Ops = {"first", "retry", "sub", "drop", "other"}
  Deletes = {"drop"}
  SessionOf <- MCSession
  PathOf <- MCPath
  EntriesOf <- MCEntriesOf
  ProcOf <- Sticky
  Sessions = {"s1", "s2"}
  Paths = {"", "agent"}
  Entries = {"a", "b", "x", "y"}
  Procs = {"p1", "p2"}
  Main = ""
  Keyed = {"a", "x"}
  Keys = {1, 2}
  LockKey <- Seeded
  PoolSize = 2
  MaxClock = 2
  None = None
SPECIFICATION FairSpec
CHECK_DEADLOCK FALSE
INVARIANTS
  LoadIsMerged
  SummaryIsFold
  ListingsAgree
PROPERTIES
  LoadGrowsAtEnd
  OpsEnd
