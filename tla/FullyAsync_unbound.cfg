CONSTANTS
  Total = 4
  Required = 1
  Trigger = 1
  StalenessPct = 400
  ServerSlots = 5
  PendingCap = 2
  PartialRollout = TRUE
  MaxFailures = 0
  TestFreq = 2
  max_queue_size = 5
  MaxPuts = 5
  Payload = {1, 2, 3, 4, 6}
  Consumers = {"trainer"}
  None = None
SPECIFICATION Spec
INVARIANTS
  ProcessorSurvives
