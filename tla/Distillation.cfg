CONSTANTS
  Schedulers <- Both
  EpochLength = 5
  Epochs = 2
  TotalSteps = 10
  SaveFreq = 3
  MaxFailures = 2
  MaxCrashes = 2
  t1 = t1
  t2 = t2
  Threads = {t1, t2}
  NoThread = NoThread
  num_microbatches = 2
  Parts = 4
  PartSize = 2
  MaxRetries = 1
  SkipsFailed = TRUE
  Faults = {"prepare", "error", "timeout"}
  MaxCalls = 2
SPECIFICATION AllSpec
INVARIANTS
  Staleness
  OwnKnowledge
  LastWeightsSaved
  ResumedOnce
  AttemptsNotWasted
PROPERTIES
  TrainingFinishes
  ImplementsCall
  CallEnds
