SPECIFICATION Spec
CONSTANTS
  Configs <- MCReadmeConfigs
  BaseFees <- MCBaseFees
  Estimates <- MCEstimates
  Countdown <- MCCountdown
  MaxU <- MCMaxU
  MaxBumps <- MCMaxBumps
PROPERTIES
  ReplacementAcceptable
CHECK_DEADLOCK FALSE
