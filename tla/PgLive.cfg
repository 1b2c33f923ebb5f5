SPECIFICATION FairSpec
CONSTANTS
  Plans <- LifePlans
  Services = {s1}
  Urls <- OneUrl
  Workers = {w1, w2}
  NoWorker = none
  Verdicts = {"match"}
  LeaseTTL = 1
  DefaultDeadline = 3
  ActiveJobs = 1
  LeasedTasks = 1
  JobIDs = {1}
  Slots <- OneSlot
  DefaultSlots = 1
  MaxSlots = 2
  ClientTTLs = {0, 9}
  MaxLag = 0
  LastCreate = 2
  MaxTime = 6
  MaxAttempts = 3
PROPERTIES
  JobEnds
  LeaseReaped
