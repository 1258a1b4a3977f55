SPECIFICATION KeySpec
CONSTANTS
  Values = {v1, v2}
  Tenants = {t1}
  Undefined = Undefined
  MaxRandom = 1
INVARIANT OrdersAreKept
CHECK_DEADLOCK FALSE
