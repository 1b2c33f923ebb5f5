SPECIFICATION Spec
CONSTANTS
  Plans <- SinglePlans
  Services = {s1}
  Urls <- PortUrls
  Workers = {w1}
  NoWorker = none
  Verdicts = {"match"}
  LeaseTTL = 1
  DefaultDeadline = 3
  ActiveJobs = 2
  LeasedTasks = 1
  JobIDs = {1, 2}
  Slots <- OneSlot
  DefaultSlots = 1
  MaxSlots = 2
  ClientTTLs = {}
  MaxLag = 0
  LastCreate = 2
  MaxTime = 5
  MaxAttempts = 3
INVARIANTS
  HostExclusive
