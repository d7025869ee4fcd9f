CONSTANTS
  Total = 4
  Required = 1
  Trigger = 1
  StalenessPct = 100
  ServerSlots = 2
  PendingCap = 2
  PartialRollout = TRUE
  MaxFailures = 1
  TestFreq = 2
  max_queue_size = 2
  MaxPuts = 5
  Payload = {1, 2, 3, 4, 6}
  Consumers = {"trainer"}
  None = None
SPECIFICATION Spec
INVARIANTS
  NoGenerationInTransfer
  NoLostResume
  VersionsInOrder
  SectionsExclusive
  ValidationComplete
  FreshBatch
  SamplesConserved
  StalenessCounted
