SPECIFICATION FairSpec
CONSTANTS
  Workers = {w1, w2}
  MaxMsgs = 7
  MaxFaults = 1
INVARIANTS
  NothingDropped
  WaitGroupCounts
  LossBounded
  OvertakenBounded
PROPERTIES
  BroadcastWhileConsuming
  CloseEnds
CHECK_DEADLOCK FALSE
