CONSTANTS
  Streams = {s1, s2}
  Digests = {d1}
  NoDigest = none
  MaxSeq = 3
  AnchorRequired = FALSE
  AnchorOnCheckpoint = TRUE
  MaxBoots = 3
  MaxFaults = 1
  Daemon = Daemon
  Verb = {verb}
  None = None
  MaxCrashes = 2
  MaxLocks = 1
  MaxLies = 1
  MaxMints = 2
  MaxLoads = 2
  LoadsOverlap = FALSE
  Run = {r1}
  NoRun = NoRun
  Slot = {s1, s2, s3}
  NoSlot = NoSlot
  MaxSse = 2
  MaxNavs = 2
  MaxMishaps = 1
SPECIFICATION DaemonSpec
INVARIANTS
  CheckpointIsOneMoment
  SealedIsRecoverable
  StreamsAreCounted
PROPERTIES
  StartsAreJustified
  MigrationEnds
  
  ShowsTheEnd
CHECK_DEADLOCK FALSE
