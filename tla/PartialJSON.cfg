SPECIFICATION Spec
CONSTANTS
  Null = Null
  Documents <- MCDocuments
  Blanks <- MCBlanks
  Strays <- MCStrays
  MaxGarbage = 1
INVARIANTS ShowsFinalPart
PROPERTIES NeverTakenBack
CHECK_DEADLOCK FALSE
