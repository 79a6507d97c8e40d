SPECIFICATION FairSpec
CONSTANTS
  Pids = {p1, p2}
  None = None
  NListeners = 2
  MaxConns = 1
  MaxSignals = 2
  MaxCrashes = 1
  MaxStops = 1
  MaxAdmin = 1
INVARIANT Supervised
PROPERTY StopsInTime
PROPERTY ConnectionsTaken
CHECK_DEADLOCK FALSE
