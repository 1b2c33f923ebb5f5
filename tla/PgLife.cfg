SPECIFICATION Spec
CONSTANTS
  Plans <- LifePlans
  Services = {s1}
  Urls <- OneUrl
  Workers = {w1, w2}
  NoWorker = none
  Verdicts = {"match"}
  LeaseTTL = 1
  DefaultDeadline = 2
  ActiveJobs = 1
  LeasedTasks = 1
  JobIDs = {1, 2}
  Slots <- OneSlot
  DefaultSlots = 1
  MaxSlots = 2
  ClientTTLs = {0}
  MaxLag = 1
  LastCreate = 2
  MaxTime = 4
  MaxAttempts = 3
INVARIANTS
  TypeOK
  DependencyOrder
  NoLostWakeup
  StatusAgrees
  LeaseWhole
  NeverValidated
PROPERTIES
  FinishedFrozen
  Fencing
SYMMETRY WorkerSymmetry
