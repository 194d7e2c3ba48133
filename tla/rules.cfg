SPECIFICATION RulesSpec
CONSTANTS
  Tickers = {t1, t2}
  Runs = {r1, r2}
  Nobody = Nobody
  MaxEdits = 2
  MaxFails = 1
  FxAssets = {"USD", "EUR", "JPY", "KRW"}
  CryptoAssets = {"BTC", "ETH"}
  Hub = "USD"
  Perps = {"QQQ/USD:PERP"}
  Registered = {"icm"}
  Classes30 = {"FX", "crypto_major"}
  DefaultInterval = 200
  PortText <- PortTexts
  Files <- ConfigFiles
  Replacements <- LaterFiles
  EnvIntervals = {100, 200}
  Physical <- PhysicalRam
  Available <- AvailableRam
  Cgroup <- CgroupRam
  Requested <- RequestedRam
  MaxGrowth = 5
  Table <- Assets6
  Pins <- ClassPins
  Wraps <- WrapRows
  Similar <- Near
  Threads = {th1, th2}
  Answer <- MemoAnswer
  Symbols = {"BTC", "ETH", "SUI", "NOPE", "LONG"}
  LongSymbols = {"LONG"}
  MemoCap = 1
  MaxCalls = 6
  Valid = {v1, v2, v3}
  Broken = {b1}
  Initial = Initial
  Missing = Missing
  Reuse = FALSE
  MaxWrites = 4
CHECK_DEADLOCK FALSE
INVARIANTS
  RulesTypeOK
  OneTruth
  AcceptedMeans
  SymbolsMean
PROPERTIES
  Converges
  NeverDegrades
