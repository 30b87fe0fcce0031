SPECIFICATION FairSpec
CONSTANTS
  s1 = s1
  r1 = r1
  r2 = r2
  r3 = r3
  None = None
  Search = {s1}
  Reader = {r1, r2, r3}
  CursorTTL = 3
  LeaseTTL = 1
  FetchTime = 3
  MaxPage = 3
  MaxClock = 4
INVARIANTS
  TypeOK
  PageIsAnsweredOnce
  LeaseShutsOthersOut
PROPERTIES
  CursorIsOnlySpentByItsReader
  ImplementsOneShotGrant
  LeaseIsGivenUp
