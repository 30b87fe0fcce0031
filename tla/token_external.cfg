SPECIFICATION Spec
CONSTANTS
  p = p
  q = q
  r = r
  c1 = c1
  c2 = c2
  c3 = c3
  e1 = e1
  Bare = Bare
  None = None
  Process = {p, q, r}
  Call = {c1, c2, c3}
  Enrolment = {}
  Owner <- OwnerOf
  FirstStored <- SignedIn
  Writable = FALSE
  Rotations = {"one_time"}
  Skew = 2
  Life = 4
  Hold = 1
  MaxClock = 2
INVARIANTS
  SignInIsKept
CHECK_DEADLOCK FALSE
