SPECIFICATION SmallSpec
CONSTANTS
    Correlations = {c1}
    LastWindow = 1
    Targets = {state, archive}
    MaxOpenWindows = 2
    MaxEvents = 3
    MaxFaults = 1
    MaxCrashes = 1
CHECK_DEADLOCK FALSE
INVARIANTS TypeOK RecountsNeedCrashes HandledIsKept HeldWithinCeiling
PROPERTIES AcceptedIsCounted
