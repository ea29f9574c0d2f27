SPECIFICATION FairSpec
CONSTANT Memory = 2
INVARIANTS
  AssertionsHold
  LoopsAdvance
  PayloadsMatch
  NothingDropped
  ReturnsMeanProgress
PROPERTY CallsAdvance
