SPECIFICATION Spec
CONSTANTS
  Token = {t1, t2, t3}
  Session = {s1, s2}
  Request = {r1, r2}
  None = None
  Access = 3
  MaxAge = 5
  Near = 3
  Margin = 2
  Lag = 1
  MaxTime = 7
  MaxVersion = 1
SYMMETRY Symmetry
INVARIANTS LoggedOut SessionsBounded
PROPERTIES RefusedForGood
CHECK_DEADLOCK FALSE
