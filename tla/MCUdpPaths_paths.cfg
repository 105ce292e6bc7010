SPECIFICATION FairSpec
CONSTANTS
  Routes <- MCRoutes
  Hosts <- MCHosts
  Spare = 1
  MaxFlight = 1
  Bounds <- MCBounds
INVARIANT
  PathAnswered
PROPERTY
  PathsMeet
CHECK_DEADLOCK FALSE
