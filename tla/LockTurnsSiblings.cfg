SPECIFICATION SafetySpec
CONSTANTS
  a = a
  b = b
  d = d
  Proc = {a, b, d}
  NoProc = NoProc
  NoLock = NoLock
  Predecessors = {d}
  LeftTorn = TRUE
  Crashers = {a}
  Forceable = {b}
  MaxAge = 2
  Faulty = {b}
  Heartbeats = TRUE
  Flows = {"monitor", "idle", "run", "sweep"}
  Inherited = {"init"}
  ContextOf <- Contexts
  Forced = TRUE
  MaxNesting = 2
  Requests = {"c1", "c2", "c3", "c4"}
  MaxDepth = 2
  Hangs = {"c2"}
  Trials = {"t1", "t2", "t3"}
  FailureThreshold = 2
  HalfOpenMaxCalls = 1
  BaseRounds = 3
  MaxExtra = 2
  MaxWaits = 2
  MaxMessages = 2
CHECK_DEADLOCK FALSE
INVARIANTS
  Serialized
