SPECIFICATION FairSpec
CONSTANTS
  NCalls = 2
  MaxTime = 3
  CallMs <- MCCallMs
  HostMs <- MCHostMs
  Ceiling <- MCNever
  OwnTurns = FALSE
INVARIANTS
  NoIdleWait
  Exclusive
  ResumedOnce
PROPERTY
  EveryCallSettles
CHECK_DEADLOCK FALSE
