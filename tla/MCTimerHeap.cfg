\* Four timers, one timeout, a clock that can be set back.
CONSTANTS
  Id = {t1, t2, t3, t4}
  Timeout = 1
  MaxClock = 2
  NoCall = NoCall
SPECIFICATION Spec
INVARIANTS
  TypeOK
  RefOK
  HeapOrder
  SiftInside
PROPERTIES
  TimersFire
  ImplementsTimerMap
