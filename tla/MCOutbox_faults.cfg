CONSTANTS
  e1 = e1
  e2 = e2
  w1 = w1
  w2 = w2
  NoEvent = NoEvent
  NoWorker = NoWorker
  Events <- MCTwoEvents
  Workers <- MCWorkers
  WorkerId <- MCOwnId
  CreatedAt <- MCInOrder
  Outcomes <- MCOutcomes
  MaxAttempts = 2
  BatchSize = 2
  LockTtl = 1
  BaseDelay = 1
  MaxDelay = 2
  CrashThreshold = 2
  FaultKinds = {"slow", "kill", "stop", "write"}
  MaxFaults = 3
SPECIFICATION FairSpec
INVARIANTS
  NoRecordStranded
  QuarantineBoundsClaims
PROPERTIES
  EventsSettle
  OnlyHolderMarks
  DeliveryImplemented
