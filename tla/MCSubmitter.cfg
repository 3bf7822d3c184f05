SPECIFICATION Spec
CONSTANTS
  a = a
  b = b
  None = None
  Foreign = Foreign
  Sols <- MCSols
  EpochOf <- MCEpochOf
  Faults <- MCFaults
  MaxEpoch = 1
  MaxNonce = 2
  MaxFee = 1
  MaxDbErrors = 1
  MaxRestarts = 1
  Parallel = TRUE
  SkipSim = TRUE
  ListLimit = 2
SYMMETRY MCSymmetry
CONSTRAINT OneMisfortune
INVARIANTS
  TypeOK
  WriteAhead
  SuccessIsOnChain
  ReplacedIsSettled
  ConfirmationsBounded
CHECK_DEADLOCK FALSE
