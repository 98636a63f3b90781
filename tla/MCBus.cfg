SPECIFICATION FairSpec
CONSTANTS
  Partitions = {p1, p2}
  Capacity = 1
  MaxAttempts = 2
  Senders = {s1, s2}
  Groups = {g1, g2}
  MaxMessages = 2
  None = None
INVARIANTS NoMessageLost ClosedBusIsEmpty PartitionOrder
PROPERTIES CloseTerminates
CHECK_DEADLOCK FALSE
