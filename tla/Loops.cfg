SPECIFICATION Spec
CONSTANTS
  Blocks = 3
  MaxSucc = 2
INVARIANTS
  StackDiscipline
  SccsPartition
  
  NothingFoundWhenAllReachable
PROPERTY Terminates
CHECK_DEADLOCK FALSE
