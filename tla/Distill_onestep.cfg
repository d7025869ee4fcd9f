CONSTANTS
  Schedulers <- OneOnly
  EpochLength = 4
  Epochs = 1
  TotalSteps = 4
  SaveFreq = 2
  MaxFailures = 0
  MaxCrashes = 0
SPECIFICATION Spec
INVARIANTS
  EveryBatchOnce
