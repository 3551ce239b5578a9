SPECIFICATION FairSpec
CONSTANTS
  a1 = a1
  a2 = a2
  b1 = b1
  pa = pa
  pb = pb
  Call = {a1, a2, b1}
  Process = {pa, pb}
  ProcessOf <- TwoAndOne
  Version = {1, 2}
  Client = Client
  None = None
  Threshold = 2
  Scenarios <- All
INVARIANTS NoOrphanScheduler
PROPERTIES OnlyJustifiedClears LosersGoQuiet EveryCallSettles
CHECK_DEADLOCK FALSE
