SPECIFICATION Spec
CONSTANTS
  MaxBatches = 3
  Malformed = {2}
  Capacity = 2
  MaxFaults = 3
  MaxRestarts = 1
INVARIANTS NoBatchForgotten
CHECK_DEADLOCK FALSE
