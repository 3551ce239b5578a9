SPECIFICATION Spec
CONSTANTS
  Model = {"m1", "m2"}
  FirstModel = "m1"
  Strategies = {"re-embed"}
  MaxOpens = 3
  MaxFaults = 0
  MaxRows = 1
  None = None
CHECK_DEADLOCK FALSE
PROPERTIES
  LiveDataNeverReaped
