SPECIFICATION ReadsSpec
CONSTANTS
  ReadLinks = {1, 2, 3}
  Pausable = {1, 2}
  Budget = 2
  MaxRawLinks = 2
  MaxReads = 2
  ReadBinds = 2
  MaxStarved = 1
  MaxPaused = 1
INVARIANT
  ReservationsReturn
CHECK_DEADLOCK FALSE
