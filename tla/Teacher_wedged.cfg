CONSTANTS
  t1 = t1
  t2 = t2
  Threads = {t1, t2}
  NoThread = NoThread
  num_microbatches = 1
  Parts = 2
  PartSize = 1
  MaxRetries = 3
  SkipsFailed = FALSE
  Faults = {"prepare", "error", "timeout"}
  MaxCalls = 1
SPECIFICATION ServiceSpec
INVARIANTS
  RaisedIsJustified
SYMMETRY Symmetry
