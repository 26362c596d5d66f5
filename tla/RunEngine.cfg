CONSTANTS
  Feeds <- BoundFeeds
  N = 3
  Runs = {r1, r2}
  Calls = {c1, c2}
  ConnectorSteps = {1}
  GatedSteps = {3}
  MissingData = {2}
  DryRuns = {r2}
  Outputs = {a, b}
  DryOutput = dry
  NoOutput = null
  NoHash = nohash
  Free = free
  MaxCrashes = 1
SPECIFICATION Spec
SYMMETRY CallSymmetry
INVARIANTS
  OneExecutor
  RecordsReplay
  GatedResultsWereApproved
PROPERTIES
  ResultsAreFinal
CHECK_DEADLOCK FALSE
