CONSTANTS
  Total = 6
  Required = 2
  Trigger = 1
  StalenessPct = 50
  ServerSlots = 2
  PendingCap = 2
  PartialRollout = FALSE
  MaxFailures = 0
  TestFreq = 2
  max_queue_size = 3
  MaxPuts = 7
  Payload = {1, 2, 3, 4, 5, 6, 8}
  Consumers = {"trainer"}
  None = None
SPECIFICATION Spec
INVARIANTS
  RolloutNumBounded
