SPECIFICATION ProcessSpec
CONSTANTS
  Garbage = Garbage
  Interval = 1
  Caps = {0}
  MaxNow = 0
  MaxRecs = 0
  MaxKills = 0
  MaxOutages = 0
  MaxFaults = 0
  Recorders = {r1}
  Lags = {2}
  K = 3
  Width = 4
  Unbounded = 15
  MaxSamples = 1
  Stall = 2
  Grace = 1
  Wrap = 64
  MaxProbe = 5
  Bits = 4
  Window = 4
  MaxAge = 1
  MaxPeers = 1
  Rate = 1
  MaxFuture = 1
  DrainGrace = 1
  Lag = 0
  Ahead = 1
  BootTime = 4
  Ports = 2
  LastTime = 5
  ArmTimes = {1}
CHECK_DEADLOCK FALSE
INVARIANT
  AliveIsUp
