CONSTANTS
  CkptJobs <- Jobs
  Steps = 4
  CkptFreq = 3
  Lead = 2
  CkptCrashes = 2
  Requests = {r1, r2, r3}
  RateLimits <- Settings
  MaxConcurrent = 1
  Timeout = 2
  PoolSize = 2
  LastDecoded = 2
  LoopKinds = {"single_turn", "tool", "interaction"}
  Responses <- LoopResponses
  ResponseLength = 4
  Room = 6
  MaxAssistantTurns = 3
  MaxUserTurns = 0
  MaxParallelCalls = 1
  Observation = {1, 2}
  MaxCuts = 2
  s1 = s1
  s2 = s2
  Payload = {s1, s2}
  c1 = c1
  c2 = c2
  Consumers = {c1, c2}
  None = None
  max_queue_size = 2
  MaxPuts = 4
  MaxVersion = 1
  MaxValidate = 1
SPECIFICATION AllSpec
INVARIANTS
  ResumesWhole
  LimitsKept
  TrajectoryIntact
  QueueIsSuffix
  NoLostWakeup
PROPERTIES
  ProgressKept
  EveryServiceEnds
  ImplementsFifo
  ShutdownReleases
