\* The limit of the wait: what server.cpp:78 takes for granted.
CONSTANTS
  Id = {t1, t2}
  Timeout = 2
  MaxClock = 4
  NoCall = NoCall
SPECIFICATION Spec
INVARIANTS
  LimitedWait
