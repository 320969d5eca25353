SPECIFICATION FairSpec
CONSTANTS
  alice = alice
  aliceCased = aliceCased
  bob = bob
  None = None
  Ids = {i1, i2}
  Passwords = {w1}
  Unhashable = {}
  AccessTTL = 1
  RefreshTTL = 2
  MaxTime = 0
  Emails = {alice, bob}
  Usernames = {alice, aliceCased, bob}
  Canon <- FoldCase
  Seed <- SeedNone
  Procs = {p1, p2}
  Ops = {"Register", "GetProfile"}
  CacheOn = TRUE
  MaxFaults = 1
INVARIANTS
  AcknowledgedIsStored
  AccountsDistinct
  CacheCoherent
  ProfileFaithful
  FlightSound
PROPERTY Answered
