SPECIFICATION Spec
CONSTANTS
  d1 = d1
  d2 = d2
  c1 = c1
  c2 = c2
  None = None
  DryRun = {d1}
  Confirm = {c1}
  Operation <- RaceOps
  OpInfo <- RaceInfo
  UnsafeInputs = {FALSE}
  Policies <- RacePolicies
  TTL = 1
  MaxClock = 1
  MaxVersion = 0
  AuditMayFail = TRUE
INVARIANTS
  ConfirmedActionsAreRechecked
