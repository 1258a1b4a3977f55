SPECIFICATION SchedulerSpec
CONSTANTS
  Chains = {c1, c2}
  Shutdowns = {s1, s2}
  None = None
  Types = 2
  MaxConcurrent = 2
  BatchSize = 2
  MinFree = 2
  MaxFaults = 1
SYMMETRY Symmetry
INVARIANTS PollTypeOK SchedulerTypeOK ActiveAccounted WithinCapacity StoppedIsQuiet PollsForLeader ExitIsQuiet ExitFreesLock
PROPERTY PollLoopImplemented
CHECK_DEADLOCK FALSE
