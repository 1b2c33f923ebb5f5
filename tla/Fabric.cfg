SPECIFICATION Spec
CONSTANTS
  Plans <- FabricPlans
  Services = {s1}
  Urls <- OneUrl
  Workers = {w1, w2}
  NoWorker = none
  Verdicts = {"match", "incomplete"}
  LeaseTTL = 1
  DefaultDeadline = 3
  ActiveJobs = 1
  LeasedTasks = 2
  MaxJobs = 2
  LastCreate = 1
  Slots = 1
  MaxTime = 3
  MaxAttempts = 2
  Keys <- JobKeys
  Digests = {"match"}
  Torn = "torn"
  MaxLosses = 1
INVARIANTS
  OwnResult
  AckedKept
  IndexBacked
PROPERTIES
  MemImplementsLedger
SYMMETRY WorkerSymmetry
CHECK_DEADLOCK FALSE
