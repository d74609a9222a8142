CONSTANTS
  r1 = r1
  d1 = d1
  Writer = w
  Readers <- MCReaders
  Drainers <- MCDrainers
  FifoCap = 1
  MaxStreams = 2
  MaxStarts = 2
  MaxSamples = 1
  MaxRefused = 1
SPECIFICATION FairSpec
INVARIANTS
  TypeOK
  NoUseAfterClose
  OnlyOpenTransmits
PROPERTIES
  BurstPlayed
  CloseReturns
  DeactivateReturns
CHECK_DEADLOCK FALSE
