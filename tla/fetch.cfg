SPECIFICATION FairSpec
INVARIANTS StreamIsContiguous WithinRange EndIsTheEnd IInv
PROPERTIES Terminates
CONSTANTS
  None = None
  MaxRetries = 5
  Ranges <- SomeRanges
  MaxHeight = 4
