CONSTANTS
  Ids = {w1}
  Gone = {}
  Throwing = {}
  TickIds = {t1, t2}
  Cadence = 4
  IdleTimeout = 3
  NoWatch = nowatch
  MaxMade = 1
  MaxRevoked = 1
  Requests = {TRUE, FALSE}
  MaxStops = 1
  MaxCrashes = 1
  MaxSleeps = 0
  MaxTime = 8
SPECIFICATION Spec
INVARIANTS
  ReceiptIsEvidence
CHECK_DEADLOCK FALSE
