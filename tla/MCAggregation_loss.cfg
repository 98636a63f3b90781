SPECIFICATION Spec
CONSTANTS
    Correlations = {c1}
    LastWindow = 1
    Targets = {state}
    MaxOpenWindows = 2
    MaxEvents = 2
    MaxFaults = 0
    MaxCrashes = 1
CHECK_DEADLOCK FALSE
INVARIANTS CommittedIsKept
