SPECIFICATION Spec
CONSTANTS
  Crates <- MCCrates
  Words <- MCWords
  Name <- MCName
  MaxNode <- MCMaxNode
INVARIANT PathsReachTheirLastName
