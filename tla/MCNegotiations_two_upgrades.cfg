SPECIFICATION NegotiationsSpec
CONSTANTS
  Peers <- MCPeers
  Larger <- MCLarger
  maxNegotiating = 2
  BIRTHDAY_SOCKETS = 2
  BIRTHDAY_BINDS = 1
  MAX_NODE_BIRTHDAY_SOCKETS = 3
  MaxQueued = 1
  MaxNegotiations = 3
  NegBounds <- MCUpgrades
INVARIANT
  OffersInOrder
CHECK_DEADLOCK FALSE
