SPECIFICATION ElectionSpec
CONSTANTS
  Instances = {i1, i2, i3}
  None = None
  Interval = 3
  LockTTL = 6
  HeartbeatTTL = 9
  StaleThreshold = 6
  Skews <- InStep
  Troubles = {"crash", "shutdown", "fault", "redisRestart"}
  MaxEach = 1
CONSTRAINT TwoTroubles
SYMMETRY Symmetry
INVARIANTS ElectionTypeOK OnePoller DoubleLeaderWindow FailoverBounded
CHECK_DEADLOCK FALSE
