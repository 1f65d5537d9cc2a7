CONSTANTS
  s1 = s1
  s2 = s2
  Sessions = {s1, s2}
  IdleLimit = 1
SPECIFICATION FairRegistrySpec
INVARIANTS
  OneAtATime
PROPERTIES
  ClosedOrCut
  IdleGoes
  ShutdownCompletes
