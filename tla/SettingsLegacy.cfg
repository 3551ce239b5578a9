SPECIFICATION SettingsSpec
CONSTANTS
  None = None
  Asker = {"a", "b"}
  Link = {"u1", "u2"}
  MaxItems = 3
  MaxUrls = 2
  ScrapeLimit = 2
  ScrapeLanes = 1
  CacheSize = 1
  Blocked = {"u2"}
  LastQuery = 3
  SearchLane = {"a", "b"}
  Hit = {"u1"}
  SteeredRun = {"r1", "r2"}
  SteeringMessage = {"m1", "m2"}
  BoxCap = 1
  Signals = {"INT", "TERM"}
  Grace = 1
  MaxClock = 3
  QuickMessage = {"m1"}
  Cited = {1, 2}
  MaxEntries = 2
  TeamSize = 2
  QueryBudget = 1
  MaxRounds = 3
  MaxWaits = 1
  LlmRetries = 1
  MaxDelay = 2
  Window = 6
  MinCorpus = 3
  MinPartial = 2
  MaxPasses = 2
  ReportSizes = {1, 4}
  Offered <- Teams
  Search = {"s1", "s2"}
  Headless = {}
  QueriesOf <- QueryCounts
  RowsOf <- FoundRows
  MaxCandidates = 2
  MaxDocuments = 2
  MaxChars = 3
  MinRest = 1
  MaxAttempts = 2
  Indices <- Namings
  TextSizes = {1, 2, 4}
  Proc = {"a", "b"}
  Standalone = {"b"}
  Dir = {"d1", "d2"}
  CwdOf <- Cwds
  Env <- NoEnv
  Overlay <- PiEnv
  Named <- CliFile
  Values = {"x"}
  Inodes = {1, 2}
  MaxTries = 2
  MaxSaves = 3
  Starts <- OldFileOnly
  WorkerTask = {"t1", "t2", "t3"}
  MaxBrowsers = 2
  PageTask = {"t1", "t2"}
  HealthCheck = {"t1", "t2"}
  Response = {"r1", "r2"}
  BrowserTask = {"c1", "c2"}
  MaxLeaders = 2
  Handovers = 1
  Retries = 1
  Opener = {"o1", "o2"}
  Closer = {"k1", "k2"}
  Runner = {"r1", "r2"}
  StoreOp = {"r", "w"}
  OpKinds <- Kinds
  MaxStoreRetries = 1
  MaxCommits = 2
  SmallCap = 2
  LargeCap = 9
  Chunks = {2}
  TooOld = {1}
  Capture = {"run", "load", "server", "again"}
  SessionOf <- Sessions
  Terminal = "terminal"
  LogFile = "log"
  ClosedFd = "closed"
  MaxFrames = 3
CHECK_DEADLOCK FALSE
INVARIANTS
  RegistryWins
