SPECIFICATION FairSpec
CONSTANTS
  Requests = {r1, r2}
  Grace = 2
  MaxFaults = 1
INVARIANTS
  AnswersHonest
  DrainGetsItsTime
PROPERTIES
  SignalEnds
CHECK_DEADLOCK FALSE
