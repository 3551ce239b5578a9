SPECIFICATION Spec
CONSTANTS
  Proc = {a, b, c, d}
  NoProc = NoProc
  NoLock = NoLock
  Predecessors = {d}
  LeftTorn = FALSE
  Crashers = {}
  Forceable = {}
  MaxAge = 0
  Faulty = {}
  Heartbeats = FALSE
CHECK_DEADLOCK FALSE
INVARIANTS
  MutualExclusion
