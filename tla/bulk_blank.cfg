SPECIFICATION Spec
CONSTANTS
  m1 = m1
  m2 = m2
  move1 = move1
  move2 = move2
  patch1 = patch1
  a1 = a1
  Blank = Blank
  None = None
  Message = {m1, m2}
  Mutation = {move1}
  Audit = {}
  Moving = {move1}
  Backends = {"owa"}
  Targets <- WithBlank
  Shared = {}
  MaxBodies = 1
  TTL = 1
  MaxClock = 1
  MaxVersion = 2
INVARIANTS
  SuccessIsReal
CHECK_DEADLOCK FALSE
