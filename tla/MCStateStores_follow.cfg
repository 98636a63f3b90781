SPECIFICATION FollowSpec
CONSTANTS
  Clients = {c1, c2, c3}
  Nobody = Nobody
  MaxAcquires = 0
  Emissions <- Three
  TTL = 1
  Watchers = {w1}
  Slots = 1
  WatchBuffer = 2
  Days = {1, 2}
  MaxTime = 1
  MaxResets = 0
  MaxOutages = 0
PROPERTIES FollowsLive
CHECK_DEADLOCK FALSE
