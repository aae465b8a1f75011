\* Three workers and two connections, some of which may not be made.
CONSTANTS
  Thread = {t1, t2, t3}
  Conn = {c1, c2}
  Null = Null
  MaxConn = 2
  MayFail = TRUE
  MaxCalls = 4
SPECIFICATION Spec
INVARIANTS
  TypeOK
  NoneLost
PROPERTIES
  EveryCallEnds
CHECK_DEADLOCK FALSE
