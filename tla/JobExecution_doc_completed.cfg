SPECIFICATION Spec
CONSTANTS
  Jobs = {j1}
  Instances = {i1}
  Runs = {r1}
  Requests = {q1}
  None = None
  MaxAttempts = 1
  MaxCrashes = 0
  MaxFaults = 0
  Faulty = {}
INVARIANT ExecutedJobIsCompleted
CHECK_DEADLOCK FALSE
