SPECIFICATION FairSpec
CONSTANTS
  Requests = {r1}
  MaxFaults = 2
PROPERTIES
  AuditGapExplained
  OrderlyReturn
  StopsWhenTold
  BothServe
