SPECIFICATION Spec
CONSTANTS
  alice = alice
  aliceCased = aliceCased
  bob = bob
  None = None
  Ids = {i1}
  Passwords = {w1}
  Unhashable = {}
  AccessTTL = 1
  RefreshTTL = 2
  MaxTime = 2
  Emails = {alice}
  Usernames = {alice}
  Canon <- FoldCase
  Seed <- SeedAlice
  Procs = {p1, p2}
  Ops = {"Login", "RefreshSession", "Logout"}
  CacheOn = FALSE
  MaxFaults = 0
SYMMETRY ProcSymmetry
INVARIANTS
  SingleUse
