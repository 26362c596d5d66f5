CONSTANTS
  Nonces = {n1, n2, n3}
  Keys = {k1, k2}
  Runs = {r1}
  RunOf <- OneRun
  AllowedKeys = {k1}
  ResumeAuthorized = TRUE
  Window = 1
  Skew = 0
  NoKey = nokey
  MaxTime = 4
  MaxRestarts = 1
SPECIFICATION Spec
INVARIANT
  GovernedStepOnce
CHECK_DEADLOCK FALSE
