SPECIFICATION Spec
CONSTANTS
  None = None
  Conns = {c1}
  Publishers = {p1}
  Buffer = 1
  Heartbeat = 1
  WriteTimeout = 1
  MaxEvents = 1
  MaxAge = 2
INVARIANT KeptAlive
CHECK_DEADLOCK FALSE
