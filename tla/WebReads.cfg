SPECIFICATION Spec
CONSTANTS
  r1 = r1  r2 = r2
  Request = {r1, r2}
  Nothing = Nothing  NoRequest = NoRequest
  MaxRevisions = 6
  EnvSecret = FALSE
  Payload <- PartialSaves
  InitConfigs <- KeysOffOn
  Targets = 3
  InitOuts = 2
  MaxCalls = 3
  MaxStops = 1
SYMMETRY RequestSymmetry
INVARIANTS
  CaptchaUsable
  CaptchaEnforced
  ArchiveExact
  NothingLeftBehind
PROPERTY ImplementsReads
CHECK_DEADLOCK FALSE
