SPECIFICATION Spec
CONSTANTS
  x = x
  y = y
  Name <- MCName
  MaxNode = 7
  MaxCalls = 5
SYMMETRY MCSymmetry
INVARIANTS TypeOK ScopesBalanced ClosureContextExact CapturesSound CapturesNested CapturesCompleteOutsideArms
PROPERTY ImplementsVisibleScope
CHECK_DEADLOCK FALSE
