SPECIFICATION FairSpec
CONSTANTS
  Total = 4
  CREDIT = 2
  MAX_CREDIT = 2
  MAX_READ = 2
  MAX_RANGES = 2
  MAX_PTOS = 2
  MAX_PROBES = 1
  MIN_CHUNK = 1
  Bounds <- MCBounds
INVARIANT
  DrainedReceived
PROPERTIES
  IsByteStream
  BothEnd
CHECK_DEADLOCK FALSE
