CONSTANTS
  w1 = w1
  NoEvent = NoEvent
  NoWorker = NoWorker
  Events <- MCTypes
  Workers <- MCWorkers
  WorkerId <- MCOwnId
  CreatedAt <- MCSameTime
  Outcomes <- MCResults
  MaxAttempts = 5
  BatchSize = 20
  LockTtl = 2
  BaseDelay = 1
  MaxDelay = 2
  CrashThreshold = 3
  FaultKinds = {}
  MaxFaults = 0
SPECIFICATION Spec
INVARIANTS
  Exhaustive
