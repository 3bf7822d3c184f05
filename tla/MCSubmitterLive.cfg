SPECIFICATION FairSpec
CONSTANTS
  a = a
  b = b
  None = None
  Foreign = Foreign
  Sols <- MCSols
  EpochOf <- MCEpochOf
  Faults <- MCHangUps
  MaxEpoch = 0
  MaxNonce = 2
  MaxFee = 2
  MaxDbErrors = 0
  MaxRestarts = 1
  Parallel = FALSE
  SkipSim = TRUE
  ListLimit = 1
INVARIANTS
  OneBumpAhead
PROPERTIES
  PendingResolves
  ImplementsWalletLog
CHECK_DEADLOCK FALSE
