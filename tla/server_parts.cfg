SPECIFICATION PartsSpec
CONSTANTS
  post = post
  mass_delete = mass_delete
  Readers = {post}
  Gates = {mass_delete}
  TailRows = 2
  Ring = 2
  MaxLines = 3
  MaxRotates = 1
  PendingWindow = 0
  GrantTTL = 0
  MaxAuthzTime = 1
  MaxRecords = 2
  MaxClock = 4
  TailLength = 1
  RunningSecs = 1
  IdleSecs = 3
  MaxDbTime = 3
  MaxWrites = 2
  ProbeTtl = 1
  WindowSecs = 1
  RowCap = 1
  Dispatches = {"k1", "k2"}
  Interval = 1
  Slack = 1
  MaxBeat = 2
  MaxRows = 1
  Chats = {"c1", "c2"}
  Cap = 1
  Headroom = 1
  Lively = 1
  Horizon = 2
  MaxPulse = 3
  MaxCockpits = 1
  ScanWindow = 4
  PageLimit = 2
  MaxTurnLines = 4
  MaxPages = 6
  LineKinds <- MCLineKinds
  MaxBody = 3
  ListingTtl = 1
  MaxSeconds = 1
  MaxStarts = 2
  r1 = r1
  r2 = r2
  Requests = {r1, r2}
  Pids = {1}
  MaxEvents = 3
  MarksKept = 2
  MaxLapses = 1
  KbTtl = 1
  MaxMinute = 1
  Files <- MCFiles
  KbTickets <- MCKbTickets
  a1 = a1
  a2 = a2
  Askers = {a1, a2}
  PrTtl = 1
  MaxInstant = 2
  MaxAsks = 1
  c1 = c1
  c2 = c2
  Callers = {c1, c2}
  Pulls <- MCPulls
  PullThreads <- MCPullThreads
  BridgeLogs = {2, 3}
  MaxFinite = 3
  CandidateCap = 2
  RecentCap = 1
  ParseCap = 1
  MaxReads = 2
  MaxSwaps = 1
  b1 = b1
  b2 = b2
  BridgeReaders = {b1, b2}
  BridgeRecords <- MCBridgeRecords
  Debounce = 2
  BridgeTtl = 1
  MaxMoment = 2
  p1 = p1
  Pollers = {p1}
  Seats = {"s1", "s2"}
  Senders = {"loop"}
  RowLimit = 1
  Vivid = 1
  Span = 1
  MaxBell = 3
  MaxSends = 1
  Browsers = {"here", "there"}
  LocalOnes = {"here"}
  Tokens = {"t1"}
  MaxRuns = 2
  MaxEdits = 2
  MaxRequests = 2
  Instances = {"i1", "i2"}
  Repos = {"r"}
  t1 = t1
  t2 = t2
  Threads = {t1, t2}
  MaxMade = 2
  MaxRepeated = 1
  MaxChanges = 2
  Roots = {"p", "q"}
  Folders = {"a", "b#"}
  Modes = {"default", "auto"}
  Cut <- MCCut
  MaxTexts = 1
  MaxTouches = 1
  x1 = x1
  x2 = x2
  Runs = {x1, x2}
  MaxWork = 3
  MaxReleases = 2
  onScan = onScan
  Scanners = {onScan}
  Bodies = {"x", "y"}
  MaxCommits = 2
  MaxWorks = 3
  Walkers = {"page", "daily"}
  Snapper = "daily"
  MaxHalf = 3
  MaxLanding = 2
  Backfill = 1
  RecapTurns = {1, 2}
  Remotes <- MCRemotes
  WindowSpan = 1
  MtimeSkew = 1
  TopN = 2
  MaxHour = 2
  MaxChunks = 2
INVARIANTS
  PartTypes
  RowsAreTheTail
  OneBlockOneCommand
  RowsAreOfTheSession
  FlagIsHonest
  
  ListingsWereSo
  WalkIsComplete
  UnitsAreTheGaps
  
  
  CountersWereSo
  RowsAreAccountedFor
  DrawnWasSeen
  OperationsAreOfThisRun
  WorkIsDoneOnce
  
  
  PastPointsStay
  
CHECK_DEADLOCK FALSE
