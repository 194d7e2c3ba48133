SPECIFICATION FeedSpec
CONSTANTS
  Keepalive = 2
  Silence = 2
  MaxFrames = 1
  MaxReqs = 2
  MaxDrops = 1
  MaxTime = 1
  MaxSockets = 4
  MaxCalls = 3
  MaxBatches = 3
  Sinks = 2
  Capacity = 2
  MaxFeed = 6
  MaxSendFails = 2
  Tasks = {task1}
  TickerId <- SymbolIds
  Listings <- TwoListings
  Wanted <- RestWanted
  MaxRestCalls = 2
  MaxFed = 1
  IdOf <- ScriptIds
  Listed = {"a", "b"}
  Routable = {"x"}
  Naming <- ScriptNaming
  MaxSent = 1
  MaxScCalls = 1
CHECK_DEADLOCK FALSE
INVARIANT
  FiltersByTicker
