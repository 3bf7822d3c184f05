SPECIFICATION FairSpec
CONSTANTS
  d1 = d1
  None = None
  Devices <- MCDevices
  CpuDevice = d1
  Sizes <- MCSizes
  Winning <- MCWinning
  Batch = 2
  MaxCounter = 4
  MaxQueue = 2
  MaxEpoch = 2
  MaxToken = 6
  Lag = 0
INVARIANTS
  TypeOK
  CpuNeverRepeats
PROPERTIES
  HeadIsPublished
  ImplementsFeed
  OldTokenAborts
  FindsAreSubmitted
CHECK_DEADLOCK FALSE
