SPECIFICATION Spec
CONSTANT Functions <- MCFunctions
INVARIANTS
  AgreesWithTypings
  AbortsOnlyIfIllTyped
  DeclaredTypesReach
  CoercionIsRepeatable
CHECK_DEADLOCK FALSE
