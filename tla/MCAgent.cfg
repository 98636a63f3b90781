SPECIFICATION SmallSpec
CONSTANTS
  Policies = {"oldest", "newest", "block"}
  MaxEvents = 2
  QueueDepth = 2
  Produced = 7
  Invalid = {4}
  Threads = {1, 2}
  Skipped = {2}
  CPUs = {1}
  MinLatency = 1
  MaxPerSecond = 2
  Second = 4
  RingSize = 1
  MaxTime = 7
  MaxExits = 4
INVARIANTS EveryEventAccounted CaptureAccounted LatencyIsOwn RateIsBounded
PROPERTIES OldestAreDropped CancelEndsRun
CHECK_DEADLOCK FALSE
