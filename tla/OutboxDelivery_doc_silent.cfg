SPECIFICATION OutboxSpec
CONSTANTS
  Events = {e1}
  Instances = {i1}
  Limit = 1
  MaxRetry = 2
  MaxFaults = 0
  MaxCrashes = 0
  Troubles = {}
INVARIANTS NoSilentLoss
CHECK_DEADLOCK FALSE
