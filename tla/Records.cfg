CONSTANTS
  Streams = {s1, s2}
  Digests = {d1, d2}
  NoDigest = none
  MaxSeq = 4
  Matter = {m1}
  Run = {r1}
  Hash = {h1}
  Key = {k1, k2}
  NoRun = NoRun
  Nil = Nil
  MaxBindings = 2
  MaxDeadlines = 1
  KeyPair = {k1, k2}
  MaxRotations = 2
  MaxDelivered = 3
  RunId = {"r1", "r2"}
  MaxRows = 2
  MaxFaults = 2
  Page = {p1, p2}
  Vacant = Vacant
  MaxEntries = 3
  MaxKills = 2
  Commit = {u1, u2}
  Dropping = {u2}
  Gone = Gone
  Cut = Cut
  Empty = Empty
  NoArtifact = NoArtifact
  NoTail = NoTail
  Tree = Tree
  Sentinel = Sentinel
  MaxOdd = 2
  MaxBuilds = 2
SPECIFICATION Spec
INVARIANTS
  ChainIntact
  MatterKeepsRecord
  LineageIsOne
  EvidenceIsWhole
  AckedIsRecovered
  KernelsAsPinned
PROPERTIES
  ImplementsLog
CHECK_DEADLOCK FALSE
