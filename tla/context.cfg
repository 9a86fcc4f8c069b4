SPECIFICATION ContextSpec
CONSTANTS
  Capacity = 2
  TicksPerSecond = 4
  Null = Null
  Symbols = {"btc"}
  Callers = {c1, c2}
  Channels = {"x", "y"}
  LoadCalls = 2
  Budgets <- Divided
  None = None
  b1 = b1
  b2 = b2
  Builds = {b1, b2}
  MaxVersions = 2
  MaxSweeps = 1
  MaxBuilds = 3
CHECK_DEADLOCK FALSE
SYMMETRY Symmetry
INVARIANTS
  RateFollowsLimit
  OverlapOnlyAfterSkip
  CachesFollowFeed
  StoppedIsSilent
  TextsAreCurrent
