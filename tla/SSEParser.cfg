SPECIFICATION Spec
CONSTANTS
  None = None
  Tokens <- MCTokens
  Frames <- MCFrames
  Forms <- MCForms
  MaxBreaks = 1
INVARIANTS OnceInOrder NothingHeldBack
CHECK_DEADLOCK FALSE
