SPECIFICATION Spec
CONSTANTS
  Adts <- MCAdts
  Height = 4
  MaxCalls = 8
  Receivers <- MCTypesAll
  Others <- MCTypesAll
INVARIANTS
  ProbeMissesNothing
  ProbeBlindSpots
  CompatibleTypesMeet
  MeetingIsUsable
CHECK_DEADLOCK FALSE
