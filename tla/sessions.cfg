SPECIFICATION Spec
CONSTANTS
  alice = alice
  aliceCased = aliceCased
  bob = bob
  None = None
  Ids = {i1}
  Passwords = {w1, w2}
  Unhashable = {w2}
  AccessTTL = 1
  RefreshTTL = 2
  MaxTime = 2
  Emails = {alice}
  Usernames = {alice}
  Canon <- FoldCase
  Seed <- SeedAlice
  Procs = {p1, p2}
  Ops = {"Login", "RefreshSession", "Logout"}
  CacheOn = FALSE
  MaxFaults = 1
SYMMETRY ProcSymmetry
INVARIANTS
  TypeOK
  RotationRevokesParent
  SessionMatchesToken
  NoReuseAfterRevoke
  AcknowledgedIsStored
  AuditTruthful
  LoginAuthentic
PROPERTIES
  SessionsOnlyAge
  LogoutRevokes
  ImplementsLifecycle
