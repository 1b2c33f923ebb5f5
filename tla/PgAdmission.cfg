SPECIFICATION Spec
CONSTANTS
  Plans <- PairPlans
  Services = {s1, s2}
  Urls <- QuotaUrls
  Workers = {w1, w2}
  NoWorker = none
  Verdicts = {"match"}
  LeaseTTL = 1
  DefaultDeadline = 1
  ActiveJobs = 1
  LeasedTasks = 1
  JobIDs = {1, 2}
  Slots <- NoSlots
  DefaultSlots = 1
  MaxSlots = 2
  ClientTTLs = {}
  MaxLag = 0
  LastCreate = 3
  MaxTime = 3
  MaxAttempts = 2
INVARIANTS
  GatewayExclusive
  ActiveQuota
  
SYMMETRY AdmissionSymmetry
