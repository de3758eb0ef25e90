SPECIFICATION Spec
CONSTANTS
  u1 = u1  u2 = u2
  r1 = r1  r2 = r2
  User = {u1, u2}
  Panel = Panel
  Request = {r1, r2}
  Nobody = Nobody
  Period = {"week", "month"}
  Start <- Calendar
  Config <- TightAndLoose
  MaxAmount = 2
  MaxTime = 4
  MaxUploads = 2
  MaxClears = 1
SYMMETRY Symmetry
INVARIANTS
  UsageExact
PROPERTIES
  LimitsKept
CHECK_DEADLOCK FALSE
