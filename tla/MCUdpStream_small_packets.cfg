SPECIFICATION FairSpec
CONSTANTS
  Total = 4
  CREDIT = 4
  MAX_CREDIT = 4
  MAX_READ = 2
  MAX_RANGES = 2
  MAX_PTOS = 2
  MAX_PROBES = 1
  MIN_CHUNK = 4
  Bounds <- MCWrites
INVARIANT
  HonestSpared
CHECK_DEADLOCK FALSE
