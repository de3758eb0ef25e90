SPECIFICATION FairSpec
CONSTANTS
  j1 = j1  j2 = j2  p1 = p1  p2 = p2  r1 = r1  r2 = r2
  NoProc = NoProc  NoJob = NoJob
  Job = {j1, j2}
  Proc = {p1}
  Request = {r1}
  Host <- OneRequest
  Workers = 1
  Targets = 2
  FaultKinds = {"crash", "restart", "database", "file"}
  MaxFaults = 1
INVARIANTS
  OutputsOnDisk
PROPERTIES
  EveryJobSettles
CHECK_DEADLOCK FALSE
