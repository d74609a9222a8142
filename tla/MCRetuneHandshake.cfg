CONSTANTS
  t1 = t1
  t2 = t2
  Tunes <- MCTunes
  InitialTune = t1
  NoTune = none
  none = none
  MaxRequests = 3
  MaxStarts = 2
  MaxRecoveries = 1
SPECIFICATION FairSpec
INVARIANTS Agree
PROPERTIES CallsReturn
CHECK_DEADLOCK FALSE
