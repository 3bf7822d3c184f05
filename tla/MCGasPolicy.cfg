SPECIFICATION Spec
CONSTANTS
  Configs <- MCConfigs
  BaseFees <- MCBaseFees
  Estimates <- MCEstimates
  Countdown <- MCCountdown
  MaxU <- MCMaxU
  MaxBumps <- MCMaxBumps
INVARIANTS
  TypeOK
  TipWithinMaxFee
  MaxFeeBounded
  BumpRaisesTip
PROPERTIES
  BumpNeverLowers
CHECK_DEADLOCK FALSE
