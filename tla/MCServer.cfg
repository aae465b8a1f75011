\* Safety as main.cpp starts the server: edge-triggered, timers in use.
CONSTANTS
  Fd = {f1, f2, f3}
  Worker = {w1, w2}
  Main = Main
  None = None
  MaxConn = 3
  MaxUsers = 2
  ListenET = TRUE
  UseTimer = TRUE
SYMMETRY Symmetry
SPECIFICATION Spec
INVARIANTS
  TypeOK
  OneHandler
  OwnConnection
  ClosedOnce
  Counted
  NotLost
  AdjustFindsTimer
  TimerCovers
  EdgeKept
CHECK_DEADLOCK FALSE
