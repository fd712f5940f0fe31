\* The components around the turn, each on its own.
SPECIFICATION Spec
CONSTANTS
  Desks = {d1, d2}
  Cards = {c1, c2}
  Shipped = {c1}
  WipeFails = FALSE
  MaxTexts = 4
  MaxDeskFaults = 1
  MaxSubmissions = 3
  MaxSlips = 1
  MaxFailedShadows = 1
  MaxMessages = 3
  MaxEvents = 4
  Directories = {1, 2}
  Orphans = {1}
  PathsPerDir = 1
  PathsCap = 1
  MaxChanges = 2
  MaxOutages = 2
  Documents = {f, g}
  Seeded = {f}
  MaxCalls = 3
  MaxStrikes = 1
  MaxWriters = 3
  MaxMounts = 2
  MaxMishaps = 1
  MaxMoves = 3
  MaxBreaks = 1
INVARIANTS
  TypeOK
  ReloadKeepsPage
  OwnPostRides
  OldPostsAreShadowed
  ForkOwesWhatIsPending
  OneByOne
  ClosedStaysClosed
  OpenTabsStay
  OnlyMountedFollows
PROPERTIES
  SavesReachTheirCard
  DraftSurvives
  ChangesArePulled
  EveryCallSettles
  TailIsFollowed
CONSTRAINT StillClaimed
CHECK_DEADLOCK FALSE
