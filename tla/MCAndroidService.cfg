SPECIFICATION FairSpec
CONSTANTS
  MayRefuse = TRUE
  MaxStarts = 2
  MaxStops = 1
  MaxDrops = 1
  MaxPackets = 1
  None = None
CHECK_DEADLOCK FALSE
INVARIANTS CompleteUnlessLate SessionsKeepToSockets
PROPERTY KeepsTrying
