SPECIFICATION Spec
CONSTANTS
  d1 = d1
  None = None
  Devices <- MCDevices
  CpuDevice = d1
  Sizes <- MCSizes
  Winning <- MCWinning
  Batch = 2
  MaxCounter = 4
  MaxQueue = 2
  MaxEpoch = 1
  MaxToken = 3
  Lag = 0
INVARIANTS
  CurrentIsNewest
CHECK_DEADLOCK FALSE
