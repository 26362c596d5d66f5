CONSTANTS
  Ticket = {t1, t2}
  Credential = {k1, k2}
  Unset = Unset
  MaxStops = 2
  BrowserTab = {b1}
  Slots = {c1, c2}
  Blank = Blank
  Null = Null
  MaxChanges = 1
  NotGiven = NotGiven
  OutputCap = 3
  MaxChunks = 4
  SshKey = {x1, x2}
  Namespace = {countersign, policy}
  Message = {y1, y2}
  Principal = {ann, bob}
  Unmade = Unmade
  Program = {p1, p2}
  Nowhere = Nowhere
  Illegible = Illegible
  MaxEvents = 3
  Connectors = {1, 2}
  Nodes = {3, 4}
  Declarer = 3
  Stray = 5
  BindingIds = {g1, g2}
  MaxBindings = 2
  MaxEdges = 2
  NoParams = NoParams
  Nonces = {n1, n2, n3}
  Keys = {k1, k2}
  Runs = {r1}
  RunOf <- OneRun
  AllowedKeys = {k1}
  ResumeAuthorized = TRUE
  Window = 1
  Skew = 0
  NoKey = nokey
  MaxTime = 4
  MaxRestarts = 1
SPECIFICATION SurfaceSpec
INVARIANTS
  ConsentSpentOnce
  AgentSendsNothing
  NeverInvents
  ErasAgree
  NonceAcceptedOnce
  SignaturesAreWhole
  EntriesAreAsShown
  PlanIsRunnable
PROPERTIES
  RetriesAreIdempotent
CHECK_DEADLOCK FALSE
