SPECIFICATION FairSpec
CONSTANTS
  None = None
  Conns = {c1, c2}
  Publishers = {p1, p2}
  Buffer = 1
  Heartbeat = 1
  WriteTimeout = 1
  MaxEvents = 2
  MaxAge = 1
INVARIANTS
  NoSendOnClosed
  OnlySlowClientsMiss
PROPERTIES
  GoneIsUnsubscribed
  PublishReturns
CHECK_DEADLOCK FALSE
