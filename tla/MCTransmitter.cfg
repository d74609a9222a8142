CONSTANTS
  N = 8
  K = 2
  Guard = 2
  LowBase = 3
  Margin = 1
  Pacing = 1
  Preroll = 3
  FifoCap = 1
  Chunk = 2
  BadPollLimit = 2
  Advances <- MCAdvances
  MinBatch = 1
  MaxBatch = 2
  MaxLag = 1
  BusyLag = 0
  Skew = 1
  CalmRestart = TRUE
  MaxSamples = 2
  MaxRetunes = 1
  MaxChanges = 0
  MaxFaults = 1
  MaxStarts = 1
  MaxPos = 5
SPECIFICATION Spec
INVARIANTS
  TypeOK
  Accounted
  DrainedMeansQuiet
  ResendBounded
CHECK_DEADLOCK FALSE
