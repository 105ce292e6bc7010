SPECIFICATION Spec
CONSTANTS
  Peers = {p1, p2}
  Sizes <- MCSizes
  maxFrameBytes = 3
  deliveryWindow = 7
  maxRequestWeight = 3
  Holders <- MCHolders
  Horizon = 2
  Origins = {o1, o2}
  Keys = {k1, k2}
  MaxConns = 3
  Sources = {s1, s2}
  maxPerSource = 3
  maxTier <- MCTiers
  Contacts = {c1}
  connsPerPeer = 2
  maxHandshakeFrame = 1
  maxFrame = 2
  Bounds <- MCBounds
SYMMETRY MCSymmetry
INVARIANTS
  RequestsSettle
  RoomForAnother
  HomePursued
  Woken
  SlotsExact
  DialsKept
  FramesKept
CHECK_DEADLOCK FALSE
