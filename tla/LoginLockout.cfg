SPECIFICATION Spec
CONSTANTS
  Request = {r1, r2, r3}
  Address = {a1}
  Nowhere = Nowhere
  FailureLimit = 2
  RateLimit = 3
  LockTime = 2
  MaxTime = 3
  MaxChanges = 1
  MaxFaults = 1
SYMMETRY Symmetry
INVARIANT GuessesBounded
PROPERTY LockKept
CHECK_DEADLOCK FALSE
