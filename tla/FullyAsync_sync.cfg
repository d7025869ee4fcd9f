CONSTANTS
  Total = 7
  Required = 2
  Trigger = 2
  StalenessPct = 0
  ServerSlots = 2
  PendingCap = 2
  PartialRollout = TRUE
  MaxFailures = 1
  TestFreq = 2
  max_queue_size = 4
  MaxPuts = 8
  Payload = {1, 2, 3, 4, 5, 6, 7, 9}
  Consumers = {"trainer"}
  None = None
SPECIFICATION BothSpec
INVARIANTS
  SynchronousMode
PROPERTIES
  FixedNumber
  Termination
