CONSTANTS
  N = 8
  Guard = 3
  Margin = 1
  Pacing = 0
  Advances <- MCAdvances
  Chunk = 2
  MaxLag = 3
  Busy = 1
  Skew = 1
  MaxQueued = 2
  MaxReplay = 2
  MaxPos = 9
  Full = 12
  Turn = 8
  Gate = 1
  Length = 4
  Parts = 2
  Quantum = 2
  Offset = 1
  Lowest <- MCLowest
  Highest = 9
  MaxStep = 1
  MaxCarry = 8
SPECIFICATION Spec
INVARIANTS
  WordsPlaced
PROPERTIES
  ExecutingUntouched
CHECK_DEADLOCK FALSE
