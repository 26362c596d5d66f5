CONSTANTS
  None = None
  Nothing = Nothing
  Unset = Unset
  Flow = {f1, f2}
  Bundle = {b1, b2}
  Origin = Origin
  MaxDeaths = 1
  MaxLocks = 1
  Call = {c1, c2}
  Host = {h1, h2, x}
  AllowedHost = {h1, h2}
  Addr = {pub1, pub2, priv}
  DeniedAddr = {priv}
  MaxRedirects = 1
  Tab = {t1, t2}
  Provider = {microsoft, google, github}
  Github = github
  Work = {w1, w2, w3}
  MaxBegun = 3
  Interval = 1
  Minute = 2
  RelayLimit = 3
  MaxStarts = 4
  MaxHead = 2
SPECIFICATION Spec
INVARIANTS
  VaultMatchesRegistry
  EgressIsAccountable
  StoredTokensOpen
  RetriesKeptAndPaced
PROPERTIES
  FlowSettles
  PassEnds
CHECK_DEADLOCK FALSE
