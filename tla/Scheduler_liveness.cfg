SPECIFICATION FairScheduler
CONSTANTS
  Chains = {c1}
  Shutdowns = {s1, s2}
  None = None
  Types = 1
  MaxConcurrent = 1
  BatchSize = 1
  MinFree = 1
  MaxFaults = 1
PROPERTIES LeaderPolls ShutdownEnds
CHECK_DEADLOCK FALSE
