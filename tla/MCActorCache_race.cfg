CONSTANTS
  r1 = r1
  r2 = r2
  None = None
  assignment = assignment
  breakGlass = breakGlass
  Requests <- MCRequests
  Parts <- MCParts
  MaxGen = 1
  MaxTime = 1
  From <- MCFrom
  Until <- MCUntil
SPECIFICATION Spec
SYMMETRY MCSymmetry
INVARIANTS
  CurrentEntryIsTruth
  NoRevokedAuthority
