SPECIFICATION Spec
CONSTANTS
  x = x
  y = y
  Name <- MCName
  MaxNode = 6
  MaxCalls = 4
INVARIANT CapturesComplete
CHECK_DEADLOCK FALSE
