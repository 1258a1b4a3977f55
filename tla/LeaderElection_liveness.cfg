SPECIFICATION FairElection
CONSTANTS
  Instances = {i1, i2}
  None = None
  Interval = 3
  LockTTL = 6
  HeartbeatTTL = 9
  StaleThreshold = 6
  Skews <- InStep
  Troubles = {"crash", "fault", "stall"}
  MaxEach = 1

PROPERTIES PollingResumes DeposedStops
CHECK_DEADLOCK FALSE
