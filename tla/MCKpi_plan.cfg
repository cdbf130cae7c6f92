SPECIFICATION Spec
CONSTANTS
  Clients = {h1}
  m1 = m1
  m2 = m2
  Members = {m1, m2}
  Actors = {a1, a2}
  Target = 2
  Slots <- MCSlots
  Values = {1, 2}
  MaxDirectEdits = 1
  CorrectionCap = 1
  VersionCap = 2
SYMMETRY MCSymmetry
ACTION_CONSTRAINT MCStep
INVARIANTS
  CheckedByAnother
  PublishedWithPlan
  VersionNamesContent
PROPERTIES
  LateNeedsReview
  OverAllocatedLate
  FinalPartsLate
CHECK_DEADLOCK FALSE
