SPECIFICATION Spec
INVARIANTS SamplesSpread ValidIsRight AlarmHasReason
CONSTANTS
  Code = {"c1", "c2"}
  NoCode = NoCode
  ZeroHash = ZeroHash
  EmptyHash = EmptyHash
  Samples = {0, 1, 2, 3, 4, 6, 9, 20}
  Accounts <- SomeAccounts
  Slots <- SomeSlots
  Nodes <- SomeNodes
