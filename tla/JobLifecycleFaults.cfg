SPECIFICATION Spec
CONSTANTS
  j1 = j1  j2 = j2  p1 = p1  p2 = p2  r1 = r1  r2 = r2
  NoProc = NoProc  NoJob = NoJob
  Job = {j1, j2}
  Proc = {p1, p2}
  Request = {r1, r2}
  Host <- TwoProcesses
  Workers = 1
  Targets = 1
  FaultKinds = {"crash", "restart", "database", "ack", "file"}
  MaxFaults = 1
SYMMETRY FullSymmetry
INVARIANTS
  IndInv
  Attended
  RunHoldsFiles
  CancelHonoured
PROPERTIES
  ImplementsContract
CHECK_DEADLOCK FALSE
