SPECIFICATION FairOutbox
CONSTANTS
  Events = {e1, e2}
  Instances = {i1, i2}
  Limit = 2
  MaxRetry = 2
  MaxFaults = 2
  MaxCrashes = 1
  Troubles = {"mongo", "rabbit", "crash", "stop"}
INVARIANTS OutboxTypeOK PendingIsFindable CompletedWasSent DuplicatesBounded
PROPERTY EventSettles
CHECK_DEADLOCK FALSE
