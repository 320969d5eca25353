SPECIFICATION Spec
CONSTANTS
  Workers = {w1}
  MaxMsgs = 2
  MaxFaults = 0
INVARIANT ShutdownWaits
CHECK_DEADLOCK FALSE
