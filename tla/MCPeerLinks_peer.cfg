SPECIFICATION Spec
CONSTANTS
  f1 = f1
  f2 = f2
  Frames <- MCFrames
  NLinks = 2
  Conns = 1
  MaxQueue = 1
  Relayed <- MCAnyKind
  MaxFaults = 1
INVARIANTS
  NoRecordLost
  FarewellArrives
  RoutesAgree
CHECK_DEADLOCK FALSE
SYMMETRY Sym
