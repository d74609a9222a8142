CONSTANTS
  a = a
  b = b
  zero = zero
  Values <- MCValues
  Zero = zero
  Cap = 3
  Limits <- MCLimits
  PushMax = 2
  PopMax = 2
  MaxPushed = 5
SPECIFICATION Spec
INVARIANTS
  TypeOK
  NoDataRace
  FillBounded
PROPERTY ImplementsQueue
