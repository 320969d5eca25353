SPECIFICATION Spec
CONSTANTS
  None = None
  Procs = {p1, p2}
  Emails = {e1, e2}
  Limiters = {l1, l2, l3, l4}
  Burst = 2
  TTL = 4
  Pause = 1
  MaxKeys = 1
  MaxTime = 6
SYMMETRY Symmetric
INVARIANTS
  LimitUnlessRaced
  RefusedOnlyAtLimit
 
CHECK_DEADLOCK FALSE
