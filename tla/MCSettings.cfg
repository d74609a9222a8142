CONSTANTS
  Bcm2711 = FALSE
  Xosc = 3
  VcoMin = 4
  VcoPrediv = 10
  VcoMax = 12
  MaxDivider = 4
  PllMin = 1
  PllMax = 4
  Plld = 9
  MaxPacingDivider = 9
  MinFrame = 1
  MaxFrame = 3
  DacFrame = 1
  PwmRange = 2
  MinRing = 8
  MaxRing = 24
  RingTime = 8
  DefaultTime = 10
  RingStep = 8
  Callers = {c1, c2}
  Requests <- MCRequests
  StreamArgs <- MCStreamArgs
  Explicit <- MCExplicit
  p1 = p1
  p2 = p2
  p3 = p3
  Paths = {p1, p2, p3}
  NoPath = NoPath
  File <- MCFile
  Default <- MCDefault
  MinRate = 1
  MaxRate = 2
  MaxSlots = 2
  MaxHarmonic = 2
  MaxPpm = 1
  MaxDelay = 2
  MaxGain = 1
  Ntps <- MCNtps
  NoStream = NoStream
SYMMETRY MCCallerSymmetry
SPECIFICATION Spec
INVARIANTS
  TypeOK
  AllOrNothing
  Reachable
  StreamFits
  DeviceMatchesTransmitter
  HardwareMatches
PROPERTIES
  NoLostUpdate
CHECK_DEADLOCK FALSE
