SPECIFICATION OrderlySpec
CONSTANTS
  Procs = {p1, p2, p3}
  NoPid = NoPid
  StaleAfter = 3
  MaxCrashes = 2
PROPERTIES UnlinksOnlyItsOwn LeftoverLockGoesAway ImplementsSyncLock
