CONSTANTS
  e1 = e1
  e2 = e2
  w1 = w1
  w2 = w2
  NoEvent = NoEvent
  NoWorker = NoWorker
  Events <- MCTwoEvents
  Workers <- MCWorkers
  WorkerId <- MCOwnId
  CreatedAt <- MCSameTime
  Outcomes <- MCOutcomes
  MaxAttempts = 3
  BatchSize = 1
  LockTtl = 2
  BaseDelay = 1
  MaxDelay = 2
  CrashThreshold = 2
  FaultKinds = {"slow", "kill"}
  MaxFaults = 2
SPECIFICATION Spec
INVARIANTS
  GivenUpForCause
  CrashOnlyIfFenced
