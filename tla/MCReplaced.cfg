SPECIFICATION Spec
CONSTANTS
  a = a
  b = b
  None = None
  Foreign = Foreign
  Sols <- MCSols
  EpochOf <- MCEpochOf
  Faults <- MCNoFaults
  MaxEpoch = 1
  MaxNonce = 2
  MaxFee = 1
  MaxDbErrors = 0
  MaxRestarts = 0
  Parallel = FALSE
  SkipSim = TRUE
  ListLimit = 2
SYMMETRY MCSymmetry
INVARIANTS
  ReplacedMeansForeign
CHECK_DEADLOCK FALSE
