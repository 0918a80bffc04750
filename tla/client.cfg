SPECIFICATION FairSpec
INVARIANTS TypeOK HonestServerVerifies OwnSliceStays CodeUnderItsHash CacheIsGenuine
PROPERTIES CallsEnd
CHECK_DEADLOCK FALSE
CONSTANTS
  None = None
  NoCode = NoCode
  Keep = Keep
  Addr = {"alice", "front", "lib"}
  Slot = {"s"}
  Code = {"front", "lib1", "lib2"}
  Gas = 7
  Body <- Bodies
  Schedule <- PolygonMainnet
  Callers = {"t1", "t2"}
  Clients <- SomeClients
  Histories <- SomeHistories
  Requests <- SomeRequests
  MaxCalls = 2
