SPECIFICATION SeriesSpec
CONSTANTS
  Mids = {2, 3, 5, 99}
  Garbage = 99
  Fine = 1
  Coarse = 2
  RejectWidth = 2
  MaxTime = 3
  MaxIn = 4
  MaxPushes = 4
  BinLen = 2
  Cap = 2
  EmaPeriod = 2
  MaxRows = 2
  Shapes <- CandleShapes
  VolTime = 6
  MaxCandles = 2
  MaxKills = 1
  MaxTrims = 1
  NoPrice <- Unpriced
  MaxPrice = 9
  FullConf = 100
  MaxCount = 5
  MtsPerMs = 2
  LegStaleTtl = 1
  WindowMs = 1
  RingCap = 2
  SeqWidth = 2
  Quotes <- LegRecords
  StreamTime = 3
  Delays = {0, 1}
  MaxLegTicks = 4
  Peg <- Wraps
  Names <- Called
  MaxHops = 3
  Endless = 9
  carried = carried
  heavy = heavy
  derived = derived
  Providers = {carried, heavy, derived}
  BaseWeight <- Weights
  Carriers = {carried}
  Injectable = {derived}
  Leavers = {heavy, derived}
  LegQuotes <- Levels
  Stale = 3
  Diffusion = 5
  Horizon = 5
  CarrySecs = 4
  Lone = 3
  MinPeers = 1
  Tol = 0
  CarryZero = 1
  Refresh = 2
  One = 60
  MaxLate <- Lateness
  SpreadFloor = 1
  BaseClip = 1
  WAbs <- MostHeld
  WFloor <- Quarter
  UnmappedFrac <- Third
  FreshFloor <- Fifth
VIEW Unexpired
CHECK_DEADLOCK FALSE
INVARIANTS
  SeriesTypeOK
  TicksKept
  VolSeam
  KernelsSound
  CrossSound
  MarkIsHonest
