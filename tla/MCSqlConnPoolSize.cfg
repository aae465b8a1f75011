\* The configured size of the pool.
CONSTANTS
  Thread = {t1, t2}
  Conn = {c1, c2}
  Null = Null
  MaxConn = 2
  MayFail = FALSE
  MaxCalls = 3
SPECIFICATION Spec
INVARIANTS
  PoolBounded
CHECK_DEADLOCK FALSE
