SPECIFICATION FairSpec
CONSTANTS
  Jobs = {j1, j2}
  Instances = {i1}
  Runs = {r1, r2}
  Requests = {q1, q2}
  None = None
  MaxAttempts = 2
  MaxCrashes = 0
  MaxFaults = 0
  Faulty = {}
INVARIANTS TypeOK CancelledNeverRuns FreshJobReachable
PROPERTIES FirstAttemptHappens FailureConcluded
CHECK_DEADLOCK FALSE
