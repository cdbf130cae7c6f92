CONSTANTS
  r1 = r1
  r2 = r2
  Requests <- MCRequests
  Guarded <- MCRequests
  Key <- MCKey
  MaxAttempts = 2
  Failover = FALSE
SPECIFICATION Spec
SYMMETRY MCSymmetry
CHECK_DEADLOCK FALSE
INVARIANTS
  CommittedIsAudited
  VersionFollowsTruth
  OneWinner
  AnswerIsTrue
