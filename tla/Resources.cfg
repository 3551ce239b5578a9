SPECIFICATION ResourcesSpec
CONSTANTS
  r1 = r1
  r2 = r2
  r3 = r3
  p1 = p1
  p2 = p2
  Callers = {"c1", "c2", "c3"}
  Shapes = {1, 2}
  MaxPools = 3
  MaxStops = 1
  Threshold = 2
  None = None
  Run = {r1, r2, r3}
  Process = {p1, p2}
  ProcessOf <- TwoAndOne
  MaxSlots = 2
  Free = Free
  Torn = Torn
  Expired = Expired
  Scenarios <- Hard
CHECK_DEADLOCK FALSE
INVARIANTS
  CapHolds
  NoLeakedSlot
  DestroyedOnce
PROPERTIES
  RefusedOnlyWhenFull
  EveryRunGetsIn
  GivenALivePool
  ResetsTheLivePool
  EveryWaitEnds
