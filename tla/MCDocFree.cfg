CONSTANTS
  Drivers = {d1}
  Tools = {t1}
  Handles = {h1, h2}
  Bcm2711 = TRUE
  FoundTrees <- MCFoundTrees
  NoTree = NoTree
  Faults = {}
  CrashAfterFree = TRUE
  MaxCrashes = 2
SPECIFICATION Spec

PROPERTIES NeverFreesForeign
CHECK_DEADLOCK FALSE
SYMMETRY MCHandleSymmetry
