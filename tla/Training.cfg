CONSTANTS
  Configs <- Cs
  Prompts = 4
  N = 2
  Layouts <- Ls
  Lengths <- SomeLengths
  MaxTokens = 4
  MiniPrompts = 2
  MicroSize = 2
  PpoEpochs = 2
  StudentBytes <- ByteStrings
  Specials = {0, 1, 2}
  LargeChunkThreshold = 2
  Payloads <- Sequences2
  LossSettings <- Losses4
  Ranks = {1, 2}
  Modes = {"dctv", "lr", "adv"}
  Samples <- Found2
  Norms = {100, 300}
  Schedule <- Rates
  MiniBatches = 2
  Resumes = 1
  Unit = 100
  Eps = 1
  Beta = 50
  CMin = 10
  CCap = 200
  EpochBatches = 2
  TotalEpochs = 2
  TotalTrainingSteps = {3, 5}
  TestFreq = 2
  SaveFreq = 2
  OverlapCrashes = 2
  Samplings <- Samplings4
  GenBatchSize = 2
  TrainBatchSize = 3
  GenBatches = 5
  Engines <- Engines5
  Replicas <- TwoReplicas
  CriticWarmup = 2
  UpdateSteps = 2
  EngineCrashes = 1
SPECIFICATION Spec
INVARIANTS
  OneStepBehind
  OverlapKept
  SamplingKept
  RowsIntact
  DealtEvenly
  ChunksAligned
  AllCredited
  CreditKept
  HybridKept
  RanksInStep
  MotionBounded
PROPERTY
  EveryPartEnds
