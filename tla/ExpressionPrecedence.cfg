SPECIFICATION Spec
CONSTANTS
  Texts <- MCTexts
  MaxTokens = 10
  MaxCalls = 23
INVARIANT HigherPriorityFirst
CHECK_DEADLOCK FALSE
