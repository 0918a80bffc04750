SPECIFICATION ServerSpec
CONSTANTS
  Dirs = {"a", "b"}
  p = p
  q = q
  Procs = {p, q}
  Rows = {"account", "slot", "code"}
  Order <- Iterated
  Blocks = 2
  StateAt <- States
  Overlay <- Overlays
  Network = 137
  Wrong = Wrong
  None = None
  Config <- PolygonConfig
  Cli <- CommandLines
  MaxCommands = 4
  CodeRow <- HasCodeRow
  Conns = {c}
  Singles = {"head", "code"}
  Batches <- Lists
  Texts = {"slot", "garbled", "code"}
  MaxTexts = 2
SYMMETRY Processes
INVARIANTS ServerTypeOK HeadTellsRows ExportOfOneState AnswersOfOneState
CHECK_DEADLOCK FALSE
