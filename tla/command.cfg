SPECIFICATION FairRunSpec
INVARIANTS FirstOfferContiguous NoGapReported CompleteIsCaughtUp
PROPERTIES NoHole CatchesUp
CONSTANTS
  None = None
  MaxRetries = 2
  Ranges <- Unasked
  MaxHeight = 3
  FromArgs = {None, 0, 2}
  ToArgs = {None, 1, 2}
