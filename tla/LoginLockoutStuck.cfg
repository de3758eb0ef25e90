SPECIFICATION Spec
CONSTANTS
  Request = {r1, r2}
  Address = {a1}
  Nowhere = Nowhere
  FailureLimit = 2
  RateLimit = 3
  LockTime = 2
  MaxTime = 3
  MaxChanges = 1
  MaxFaults = 0
SYMMETRY Symmetry
INVARIANT ExhaustedIsLocked
CHECK_DEADLOCK FALSE
