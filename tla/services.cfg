SPECIFICATION ServicesSpec
CONSTANTS
  a = a
  btc = btc
  eth = eth
  b = b
  c = c
  someone = someone
  jan = jan
  feb = feb
  mar = mar
  key = key
  secret = secret
  save1 = save1
  save2 = save2
  erase = erase
  start = start
  Tabs = {a, b}
  Accounts = {someone}
  Incognito = zero
  MaxSockets = 3
  Pairs = {btc, eth}
  Bounds <- Divided
  None = None
  Candles = 3
  MaxTicks = 2
  MaxClicks = 6
  Fields = {key, secret}
  Asking <- SomeRequests
  Absent = Absent
  Calls = {a, b, c}
  Ranges <- TwoRanges
  MaxFailures = 1
  MaxReplies = 2
  Reports = {a, b}
  MaxSaves = 2
  MaxPages = 3
  NoReport = NoReport
  Logs = {a, b}
  MaxLines = 2
  MaxAsks = 2
  NoLogs = NoLogs
  Symbols <- TwoSymbols
  Values = {0, 1, 3}
  MaxParams = 2
  MaxSets = 4
  RunTimes = {1, 2, 3}
  Profits = {1, 2}
  MaxCharts = 3
  NoNumber = NoNumber
  bot = bot
  JobIds = {bot}
  JobPages = {a, b}
  JobCalls = {a, b}
  MaxRequests = 5
  MaxRowVersion = 3
CHECK_DEADLOCK FALSE
SYMMETRY Symmetry
INVARIANTS
  EventsArriveOnce
  RecordsFollowSockets
  PlaybackFollowsButtons
  SettingsFollowRequests
  OwnAnswers
  KeptIsWhole
  PageShowsLastReport
  LogFollowsFile
  SetsCoverForm
  ReportAddsUp
  JobsAgree
