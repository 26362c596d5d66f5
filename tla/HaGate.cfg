CONSTANTS
  Ids = {helmd, ann, bob, cat}
  Helmd = helmd
  Subjects = {n1, x1}
  ArtifactSubjects = {x1}
  Threshold = 2
  Nobody = nobody
  MaxSubjects = 1
  MaxTime = 1
  MaxRecords = 3
  MaxSigs = 2
SPECIFICATION Spec
INVARIANTS
  PinIsSupported
  ApprovalsAreSigned
PROPERTIES
  DecisionsAreFinal
CHECK_DEADLOCK FALSE
SYMMETRY PeopleSymmetry
