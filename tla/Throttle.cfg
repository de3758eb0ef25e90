SPECIFICATION ThrottleSpec
CONSTANTS
  t1 = t1  t2 = t2
  Thread = {t1, t2}
  Interval = 2
  Delay = {1, 3}
  MaxClock = 6
  MaxSends = 4
SYMMETRY Symmetry
INVARIANTS
  IndInv
  Paced
  PausesKept
CHECK_DEADLOCK FALSE
