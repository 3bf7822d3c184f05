SPECIFICATION Spec
CONSTANTS
  d1 = d1
  d2 = d2
  w1 = w1
  w2 = w2
  None = None
  Devices <- MCDevices
  Workers <- MCOneWorker
  GpuBuild = TRUE
  Batches = 1
  Winning <- MCNothing
  Lag = 1
  MaxEpoch = 0
  MaxChanges = 2
  MaxSeq = 1
  MaxLives = 1
INVARIANTS
  DevicesSearchDisjoint
CHECK_DEADLOCK FALSE
