SPECIFICATION RecoverySpec
CONSTANTS
  Jobs = {j1}
  Instances = {i1}
  Runs = {r1}
  Requests = {q1}
  None = None
  MaxAttempts = 2
  MaxCrashes = 0
  MaxFaults = 0
  Faulty = {}
PROPERTY AnnouncedRetryHappens
CHECK_DEADLOCK FALSE
