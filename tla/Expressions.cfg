SPECIFICATION Spec
CONSTANTS
  Texts <- MCTexts
  MaxTokens = 10
  MaxCalls = 23
INVARIANTS
  TypeOK
  BindingPowersDecide
  SpansWhatWasEaten
  TuplesStayOpen
  DeepOnlyAtUneaten
PROPERTY Ends
CHECK_DEADLOCK FALSE
