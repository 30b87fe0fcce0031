SPECIFICATION FairSpec
CONSTANTS
  p1 = p1
  t1 = t1
  r1 = r1
  None = None
  Probe = {p1}
  Typed = {t1}
  Raw = {r1}
  Attempts = 2
  TTL = 1
  MaxClock = 1
INVARIANTS
  SuccessIsReal
  TypeOK
  RequestIsAppliedOnce
  RetryUsesNewSession
  LoginsAreShared
PROPERTIES
  CallEnds
CHECK_DEADLOCK FALSE
