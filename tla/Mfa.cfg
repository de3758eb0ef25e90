SPECIFICATION Spec
CONSTANTS
  Request = {r1}
  Challenge = {c1, c2, c3, c4}
  None = None
  Life = 2
  FailureLimit = 2
  LockTime = 1
  SendGap = 1
  SendWindow = 4
  SendLimit = 2
  RecoveryNr = {1}
  MaxVersion = 2
  MaxFaults = 1
  MaxEvents = 5
SYMMETRY Symmetry
INVARIANTS CodesAcceptedOnce TokensProven BudgetsKept HashMeansSent
PROPERTY EmailedCodeKept
CHECK_DEADLOCK FALSE
