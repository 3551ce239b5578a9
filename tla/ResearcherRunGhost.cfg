SPECIFICATION RoundSpec
CONSTANTS
  None = None
  Call = {"a1", "a2", "b1"}
  Pid = {"a", "b"}
  PidOf <- Hosts
  MaxBirths = 3
  Model = {"m1", "m2"}
  FirstModel = "m1"
  Strategies = {"backup", "drop", "re-embed"}
  MaxStoreOpens = 2
  MaxStoreFaults = 2
  MaxStoreRows = 3
  Writer = {"p", "q"}
  Content = {"x", "y"}
  MaxIngestItems = 2
  MaxIngestClock = 3
  MaxIngestFaults = 1
  Maintainer = {"p", "q"}
  MaxFtsVersions = 5
  MaxFtsDocs = 3
  Proc = {"p", "n"}
  Newer = {"n"}
  MaxBackups = 2
  MaxFileUpdates = 4
  MaxFileFaults = 2
  Requester = {"c1", "c2"}
  MaxLoads = 2
  MaxDisposals = 2
  Session = {"a1", "a2", "b1"}
  Host = {"a", "b"}
  HostOf <- Hosts
  Odd = {"a2"}
  MaxElectionTries = 2
  MissThreshold = 1
  Opener = {"o1", "o2", "o3"}
  Closer = {d1}
  Scope = {"here", "there"}
  Lazy = "lazy"
  MaxServiceBuilds = 3
  Getter = {"g1", "g2", "g3"}
  WithCtx = {"g2", "g3"}
  Clearer = {"k1", "k2"}
  Replacer = {"w1"}
  MaxContainerInits = 4
  Plan <- Researchers
  Unlinked = {"r2"}
  MaxConcurrent = 2
  MaxFailed = 1
  MaxResearcherTries = 2
  Peer = {"p", "q"}
  Classes <- LockClasses
  Unidentified = 5
  Delay = 1
  Lag = 1
  MayWedge = TRUE
  MaxWaitTime = 10
CHECK_DEADLOCK FALSE
INVARIANTS
  NoFailureAfterTheEnd
