SPECIFICATION ProcessSpec
CONSTANTS
  Garbage = Garbage
  Interval = 2
  Caps = {0, 2}
  MaxNow = 4
  MaxRecs = 3
  MaxKills = 1
  MaxOutages = 1
  MaxFaults = 1
  Recorders = {r1, r2}
  Lags = {2, 3, 9}
  K = 4
  Width = 4
  Unbounded = 15
  MaxSamples = 3
  Stall = 2
  Grace = 1
  Wrap = 64
  MaxProbe = 5
  Bits = 4
  Window = 4
  MaxAge = 1
  MaxPeers = 1
  Rate = 1
  MaxFuture = 1
  DrainGrace = 1
  Lag = 0
  Ahead = 1
  BootTime = 4
  Ports = 2
  LastTime = 5
  ArmTimes = {1}
SYMMETRY RecorderSymmetry
CHECK_DEADLOCK FALSE
INVARIANTS
  LogInv
  BarrierHolds
  LossWindow
  InstrumentsTypeOK
  WindowsTrue
  DeadIsReported
  AtMostOnce
  FreshNeverRefused
