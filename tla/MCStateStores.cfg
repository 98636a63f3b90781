SPECIFICATION SmallSpec
CONSTANTS
  Clients = {c1, c2, c3}
  Nobody = Nobody
  MaxAcquires = 4
  Emissions <- Three
  TTL = 1
  Watchers = {w1, w2}
  Slots = 1
  WatchBuffer = 2
  Days = {1, 2}
  MaxTime = 1
  MaxResets = 2
  MaxOutages = 1
INVARIANTS StateIsMerge RecountsNeedExpiry WatchShowsNews FallbackAgrees ArchivedIsKept
PROPERTIES ChangeWakesWatch ImplementsFencedLock
CHECK_DEADLOCK FALSE
