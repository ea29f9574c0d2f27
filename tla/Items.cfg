SPECIFICATION Spec
CONSTANTS
  Crates <- MCCrates
  Words <- MCWords
  Name <- MCName
  MaxNode <- MCMaxNode
INVARIANTS
  PathsOfOneNameReachIt
  CanonicalPathsDistinct
  VisitsEndWell
  ScopesNest
