SPECIFICATION FeedSpec
CONSTANTS
  Keepalive = 2
  Silence = 2
  MaxFrames = 3
  MaxReqs = 2
  MaxDrops = 1
  MaxTime = 5
  MaxSockets = 4
  MaxCalls = 3
  MaxBatches = 3
  Sinks = 2
  Capacity = 2
  MaxFeed = 6
  MaxSendFails = 2
  Tasks = {task1, task2}
  TickerId <- SymbolIds
  Listings <- TwoListings
  Wanted <- RestWanted
  MaxRestCalls = 3
  MaxFed = 3
  IdOf <- ScriptIds
  Listed = {"a", "b"}
  Routable = {"x"}
  Naming <- ScriptNaming
  MaxSent = 3
  MaxScCalls = 1
SYMMETRY TaskSymmetry
CHECK_DEADLOCK FALSE
INVARIANTS
  FeedTypeOK
  NoTickDropped
  RustSocket
  TsStreams
  LossIsCounted
  ClientsHear
  CallsAgree
