CONSTANTS
  N = 8
  K = 1
  Guard = 2
  LowBase = 3
  Margin = 1
  Pacing = 1
  Preroll = 3
  FifoCap = 2
  Chunk = 2
  BadPollLimit = 2
  Advances <- MCAdvances
  MinBatch = 1
  MaxBatch = 2
  MaxLag = 9
  BusyLag = 0
  Skew = 3
  CalmRestart = TRUE
  MaxSamples = 2
  MaxRetunes = 0
  MaxChanges = 0
  MaxFaults = 0
  MaxStarts = 1
  MaxPos = 12
SPECIFICATION Spec
INVARIANTS
  Accounted
  NothingStale
  TrackerFollows
CHECK_DEADLOCK FALSE
