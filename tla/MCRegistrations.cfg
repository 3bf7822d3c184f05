SPECIFICATION Spec
CONSTANTS
  d1 = d1
  d2 = d2
  w1 = w1
  w2 = w2
  None = None
  Devices <- MCDevices
  Workers <- MCWorkers
  GpuBuild = FALSE
  Batches = 1
  Winning <- MCFirst
  Lag = 1
  MaxEpoch = 1
  MaxChanges = 3
  MaxSeq = 2
  MaxLives = 1
CONSTRAINT MCBound
SYMMETRY MCSymmetry
INVARIANTS
  SentOnce
  WorkersSearchDisjoint
  BatchesDisjoint
PROPERTIES
  ImplementsSolutionLog
  OldCopiesRunOut
CHECK_DEADLOCK FALSE
