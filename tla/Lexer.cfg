SPECIFICATION Spec
CONSTANT Texts <- MCTexts
INVARIANTS
  TokensTile
  LongestToken
  LocationsExact
PROPERTY RoundsEat
