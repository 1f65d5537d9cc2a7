CONSTANTS
  q = q
  Tabs = {t1, t2}
  Prompts = {p1, p2, q}
  Questions = {q}
  None = None
  MaxLog = 3
  MaxSends = 1
  MaxFaults = 1
SPECIFICATION Spec
CHECK_DEADLOCK FALSE
SYMMETRY Symmetry
INVARIANTS
  OnlyNewestShown
  WaitingStaysOnScreen
  OneTabTold
