SPECIFICATION FairSpec
CONSTANTS
  Events = {e1, e2, e3}
  Capacity = 1
  QueueDepth = 1
  Callers = {main, watcher}
  MaxFaults = 1
  MaxOutages = 1
INVARIANTS NothingLeftOpen UsersEndFirst NothingLostSilently
PROPERTIES StopEnds
CHECK_DEADLOCK FALSE
