SPECIFICATION SmallSpec
CONSTANTS
  Sizes = {1, 2, 4}
  MaxBytes = 3
  MaxEntries = 2
  MaxOffers = 4
  MaxFaults = 1
  MaxCrashes = 2
INVARIANTS IndexMatchesDisk WithinBudget AckedIsDurable
PROPERTIES ImplementsDurableQueue
CHECK_DEADLOCK FALSE
