SPECIFICATION FairSpec
INVARIANTS ImportIsWhole SidecarIsDurable HeadMeansWhole RoundTrip IInv
PROPERTIES Completes
CONSTANTS
  Keys = {"alice", "dapp", "slot", "code"}
  Values = {"a1", "a2", "a3", "d1", "d2", "s1", "c0", "c1"}
  None = None
  Files <- AllFiles
  BatchSize = 2
  OldRows <- EmptyRows
  MayCrash = TRUE
  Order <- KeyOrder
  Source <- Exported
  SourceHead <- ExportedHead
