SPECIFICATION Spec
CONSTANTS
  Blocks = 3
  MaxSucc = 2
INVARIANT CyclesStayTogether
CHECK_DEADLOCK FALSE
