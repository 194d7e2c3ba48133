SPECIFICATION BarsSpec
CONSTANTS
  Exts = {s10, renko}
  NoDoc = NoDoc
  Torn = Torn
  LastDay = 1
  MaxBars = 2
  MaxKills = 0
  Books <- SomeBooks
  MaxTicks = 3
  Prices = {0, 100100, 105106, 118000}
  Sigmas = {5, 9, 12}
  Multipliers = {1, 2}
  MaxBricks = 3
  HalfHours = 1
  MaxFed = 5
  MaxSeeds = 1
  Stride = 2
  Chunk = 2
  MaxBytes = 9
  MaxHeals = 1
CHECK_DEADLOCK FALSE
INVARIANTS
  ClosedShardsListed
