SPECIFICATION FairSpec
INVARIANTS FoundTurns FirstIfItLasts
PROPERTIES Terminates
CONSTANTS
  Blocks = {0, 1, 2, 3, 4, 5, 6}
  Values = {0, 1}
  Histories <- AllHistories
  MayFail = TRUE
  Nowhere = Nowhere
  Failed = Failed
