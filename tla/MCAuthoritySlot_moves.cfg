CONSTANTS
  a1 = a1
  a2 = a2
  a3 = a3
  s1 = s1
  s2 = s2
  None = None
  Ids <- MCThree
  Slots <- MCTwoSlots
  MaxTime = 2
  Ahead = 1
SPECIFICATION Spec
SYMMETRY MCSymmetry
CHECK_DEADLOCK FALSE
INVARIANTS
  SlotForetells
  RevokedHoldsNothing
  HandoverHasNoGap
