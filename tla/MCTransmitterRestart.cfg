CONSTANTS
  N = 8
  K = 1
  Guard = 2
  LowBase = 3
  Margin = 1
  Pacing = 1
  Preroll = 3
  FifoCap = 2
  Chunk = 2
  BadPollLimit = 2
  Advances <- MCTwoAdvances
  MinBatch = 1
  MaxBatch = 2
  MaxLag = 1
  BusyLag = 0
  Skew = 1
  CalmRestart = TRUE
  MaxSamples = 2
  MaxRetunes = 1
  MaxChanges = 1
  MaxFaults = 0
  MaxStarts = 2
  MaxPos = 6
SPECIFICATION Spec
INVARIANT DrainedMeansQuiet
PROPERTIES
  StartsWithPrefix
  AdvanceAtBoundary
CHECK_DEADLOCK FALSE
