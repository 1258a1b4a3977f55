SPECIFICATION Spec
CONSTANTS
  Jobs = {j1}
  Instances = {i1, i2}
  Runs = {r1, r2}
  Requests = {q1, q2}
  None = None
  MaxAttempts = 2
  MaxCrashes = 1
  MaxFaults = 1
  Faulty = {"mongo", "redis", "rabbit"}
CONSTRAINTS CrashOrFault OneReset
SYMMETRY Symmetry
INVARIANTS ClaimExclusive EffectBudget AuditPrecedes
PROPERTY LifecycleImplemented
CHECK_DEADLOCK FALSE
