SPECIFICATION FairSpec
CONSTANTS
  root = root
  nested = nested
  skill = skill
  manifest = manifest
  p = p
  q = q
  r = r
  find = find
  move = move
  ann = ann
  bob = bob
  someone = someone
  Wrapper = wrapper
  Secret = secret
  Config <- ConfigPlaces
  Skills <- SkillFiles
  Plugin <- PluginFiles
  Ahead = {nested}
  UserEntry = {entry}
  Ours = ours
  Torn = torn
  MaxRuns = 2
  MaxEdits = 2
  Intervals = {0, 1, 2}
  Lifetimes = {0, 3, 5}
  DefaultInterval = 2
  DefaultLifetime = 4
  SlowDown = 2
  Delay = 1
  MaxClock = 20
  Url = {p, q, r}
  Elsewhere = elsewhere
  Action = {find, move}
  Known = {move}
  Webs <- WebsToRead
  Limits = {1, 2, 5}
  Broken = {q, r}
  Person = {ann, bob}
  Organizer = organizer
  Name = {someone}
  Requests <- TimesToFind
  Answers <- CalendarsToRead
  DefaultDuration = 2
  Grid = 2
  MaxSuggestions = 2
  MaxPages = 2
  Meeting = {standup}
  Address = {ann, bob}
  DisplayName = {someone}
  Invited <- AttendeesToInvite
  MaxEvents = 2
  MaxVersion = 2
  MaxCalls = 2
  None = none
INVARIANTS
  TypeOK
  SuccessIsComplete
  WrapperHasSecret
  ApprovalIsNoticed
  ReportIsComplete
  SuggestionsAreFree
PROPERTIES
  NothingIsLost
  PollsKeepDistance
  AnswersAreTrue
  ActivityEnds
CHECK_DEADLOCK FALSE
