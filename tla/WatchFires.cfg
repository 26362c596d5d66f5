CONSTANTS
  Ids = {w1, w2, w3}
  Gone = {w2}
  Throwing = {w1}
  TickIds = {t1, t2}
  Cadence = 2
  IdleTimeout = 20
  NoWatch = nowatch
  MaxMade = 1
  MaxRevoked = 0
  Requests = {}
  MaxStops = 0
  MaxCrashes = 0
  MaxSleeps = 1
  MaxTime = 4
SPECIFICATION FairSpec
PROPERTIES
  FiresOncePerCadence
  DueWatchFires
CHECK_DEADLOCK FALSE
