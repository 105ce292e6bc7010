SPECIFICATION FairSpec
CONSTANTS
  MaxLinks = 2
  Sizes <- MCSizes
  MAX_OUTBOUND_QUEUE_BYTES = 3
  MAX_OUTBOUND_QUEUE_SLICES = 2
  MAX_NODE_OUTBOUND_QUEUE_BYTES = 3
  MAX_NODE_OUTBOUND_QUEUE_SLICES = 2
  MaxBinds = 3
  MAX_UDP_SOCKETS = 2
  MAX_UDP_HELD_BYTES = 2
  MAX_LINK_READ_BYTES = 1
  Bounds <- MCBounds
INVARIANTS
  Charged
  FlushedWhole
  OccupantsApart
PROPERTIES
  RefusedWhenFull
  ComesToRest
CHECK_DEADLOCK FALSE
