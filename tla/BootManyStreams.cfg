CONSTANTS
  Streams = {s1, s2}
  Digests = {d1, d2}
  NoDigest = none
  MaxSeq = 3
  AnchorRequired = FALSE
  AnchorOnCheckpoint = TRUE
  MaxBoots = 3
  MaxFaults = 0
SPECIFICATION Spec
INVARIANTS
  IntactNeverQuarantined
CHECK_DEADLOCK FALSE
