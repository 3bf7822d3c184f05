SPECIFICATION FairSpec
CONSTANTS
  h1 = h1
  h2 = h2
  s1 = s1
  s2 = s2
  None = None
  Handlers <- MCHandlers
  Solutions <- MCSolutions
  MaxNonce <- MCMaxNonce
  MaxBoots <- MCMaxBoots
INVARIANTS
  TypeOK
  NoncesIncrease
  IssuedIsDurable
PROPERTIES
  WaitersAreServed
  RowsWrittenOnce
  ImplementsLedger
