SPECIFICATION Spec
CONSTANTS
  m1 = m1
  m2 = m2
  move1 = move1
  move2 = move2
  patch1 = patch1
  a1 = a1
  Blank = Blank
  None = None
  Message = {m1, m2}
  Mutation = {move1, patch1}
  Audit = {a1}
  Moving = {move1}
  Backends = {"graph", "owa"}
  Targets <- OnceOrTwice
  Shared = {m1}
  MaxBodies = 1
  TTL = 1
  MaxClock = 1
  MaxVersion = 2
INVARIANTS
  TypeOK
  SuccessIsReal
  ManifestIsHonest
CHECK_DEADLOCK FALSE
