CONSTANTS
  Drivers = {d1}
  Tools = {t1}
  Handles = {h1, h2}
  Bcm2711 = TRUE
  FoundTrees <- MCFoundTrees
  NoTree = NoTree
  Faults = {"write", "map"}
  CrashAfterFree = FALSE
  MaxCrashes = 2
SPECIFICATION Spec
INVARIANTS TypeOK NoStrayDma OrphansNamed IdleMeansOriginal NeverModulated
PROPERTIES NeverFreesForeign SwitchedStopped
CHECK_DEADLOCK FALSE
SYMMETRY MCHandleSymmetry
