SPECIFICATION FairSpec
CONSTANTS
  d1 = d1
  d2 = d2
  w1 = w1
  w2 = w2
  None = None
  Devices <- MCOneDevice
  Workers <- MCOneWorker
  GpuBuild = TRUE
  Batches = 0
  Winning <- MCNothing
  Lag = 0
  MaxEpoch = 1
  MaxChanges = 3
  MaxSeq = 2
  MaxLives = 2
INVARIANTS
  TypeOK
PROPERTIES
  UnknownReregisters
  NewWorkNoticed
  AllocatorSettles
CHECK_DEADLOCK FALSE
