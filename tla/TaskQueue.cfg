SPECIFICATION FairSpec
CONSTANTS
  Task = {"t1", "t2", "t3"}
  Mixes <- Trios
  Limit <- Limits
  Grace = 1
  Idle = 4
  Capacities = {1, 2}
  MaxDepth = 2
  Cancels = {"t2"}
  Stops = TRUE
  Off = Off
INVARIANTS SlotsBalance FullBudget
PROPERTIES NobodyIsOvertaken EverythingSettles
CHECK_DEADLOCK FALSE
