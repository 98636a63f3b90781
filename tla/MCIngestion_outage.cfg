SPECIFICATION Spec
CONSTANTS
  Limit = 4
  Garbled <- Bad
  Replaced = "u#"
  Now = 3
  Pod = "p"
  Messages <- SomeMessages
  Poison <- SomePoison
  MaxAttempts = 2
  MaxRecords = 2
  MaxFaults = 1
  MaxOutages = 1
  MaxRestarts = 1
  Requests = {r1, r2}
  Inputs <- SomeInputs
  Buffer = 1
INVARIANTS OutagesAreWaitedOut
CHECK_DEADLOCK FALSE
