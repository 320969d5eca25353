SPECIFICATION FairSpec
CONSTANTS
  Lines = {c1, c2}
  PerLine = 2
  Attempts = 2
  HasSession = TRUE
  HasProducer = TRUE
  MaxFaults = 3
INVARIANTS
  PublishedIsStored
  OkIsEverywhere
  AcknowledgedInOrder
PROPERTY EmitReturns
