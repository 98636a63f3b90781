SPECIFICATION FairSpec
CONSTANTS
  MaxBatches = 3
  Malformed = {2}
  Capacity = 2
  MaxFaults = 3
  MaxRestarts = 1
INVARIANTS OnlyOutagesForget DuplicatesNeedFaults
PROPERTIES SpoolDrains
CHECK_DEADLOCK FALSE
