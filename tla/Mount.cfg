SPECIFICATION Spec
CONSTANTS
  Script <- MCScript
  MaxMounts = 2
  MaxSessions = 2
  MaxSends = 1
  MaxChunk = 1
  MaxReplays = 1
INVARIANTS OneLiveStream Reconciled CountedOnce
CHECK_DEADLOCK FALSE
