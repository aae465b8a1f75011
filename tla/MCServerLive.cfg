\* Liveness, with a level-triggered listener and a full descriptor table.
CONSTANTS
  Fd = {f1, f2}
  Worker = {w1}
  Main = Main
  None = None
  MaxConn = 3
  MaxUsers = 1
  ListenET = FALSE
  UseTimer = TRUE
SPECIFICATION Spec
PROPERTIES
  Rearmed
  Served
CHECK_DEADLOCK FALSE
