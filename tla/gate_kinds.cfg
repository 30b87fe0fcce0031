SPECIFICATION FairSpec
CONSTANTS
  d1 = d1
  d2 = d2
  c1 = c1
  c2 = c2
  None = None
  DryRun = {d1}
  Confirm = {c1}
  Operation <- AllOps
  OpInfo <- AllInfo
  UnsafeInputs = {TRUE, FALSE}
  Policies <- AllPolicies
  TTL = 1
  MaxClock = 1
  MaxVersion = 0
  AuditMayFail = TRUE
INVARIANTS
  EffectIsAllowedByPolicy
  RejectedHasNoEffect
PROPERTIES
  ConfirmIsAnswered
