SPECIFICATION Spec
CONSTANTS
  Clients = {h1}
  x1 = x1
  x2 = x2
  y1 = y1
  y2 = y2
  p1 = p1
  p2 = p2
  r1 = r1
  a1 = a1
  u1 = u1
  u2 = u2
  u3 = u3
  n1 = n1
  n2 = n2
  CalendarEvents = {x1, x2}
  Bookings = {y1, y2}
  People = {p1, p2}
  Rooms = {r1}
  PlatformAccounts = {a1}
  AccountOwner <- MCAccountOwner
  EventWindows <- MCEventWindows
  Starts <- MCStarts
  Units = {u1, u2, u3}
  Names = {n1, n2}
  Profiles = {p1, p2}
  LinkedUsers = {n1}
  UnitAccounts = {a1}
  OwnerUnit <- MCOwnerUnit
  OrgWorlds <- MCOrgWorlds
  Entries = {x1, x2}
  Rules = {r1}
  Settlements = {y1, y2}
  Payees = {p1}
  Amounts = {1, 5}
  Rates = {50, 70}
  Shifts = {x1, x2}
  Staff = {p1, p2}
  ShiftWindows <- MCShiftWindows
  DayOf <- MCDayOf
  RequestLines = {y1, y2}
  RequestBatch <- MCBatch
  Rosters = {x1, x2}
  Members = {p1}
  RosterDays = {1}
  WorkingDays <- MCWorkingDays
  Hours <- MCHours
  OwnShifts = {r1}
  RosterLines = {y1, y2}
  RosterBatch <- MCBatch
  Ranges <- MCRanges
  MaxExceptions = 2
  LifeTime = 3
  Window = 2
  DefaultGrace = 1
  MaxGrace = 2
  Terms <- MCTerms
  ContractIds = {u1}
  Obligations = {a1}
  Links = {x1, x2}
  EvidenceEvents = {n1}
  Actors = {p1, p2}
  GovUsers = {p1, p2}
  Roles = {u1, u2}
  Founder = p1
  FirstRole = u1
  GovWorlds <- MCGovWorlds
  Persons = {p1, p2, a1}
  First = r1
  FirstOwner = p1
  Successors = {x1, x2}
  AccessRequests = {y1}
  OwnTime = 2
  OwnWindows <- MCOwnWindows
  Durations = {1}
SYMMETRY MCSymmetry
ACTION_CONSTRAINT MCStep
INVARIANTS
  BookingsKept
  PaidAsListed
  RequestsKept
  RostersKeepLines
  RulesAgree
  TransitionsForetell
  DeliveryKept
  OwnershipKept
PROPERTIES
  CalendarErrsForCause
  OrganisationErrsLate
  StraysForCause
  AppliedToWhatWasSeen
  ClashingDutiesForCause
  WorkerEndsWhatEnded
  ContractsErrLate
  GovernanceErrsForCause
  OwnershipErrsForCause
CHECK_DEADLOCK FALSE
