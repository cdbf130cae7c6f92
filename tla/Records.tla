------------------------------- MODULE Records -------------------------------
(***************************************************************************)
(* The records the back office keeps: events, the organisation,            *)
(* commissions, shift requests, rosters, contracts, the lives of role      *)
(* assignments, who can repair governance, and who owns the business and   *)
(* its emergency access.  The models have no document in common, so that   *)
(* each behaviour is one of one of them, the one "part" names.  Rosters    *)
(* are two parts of one model, and so are ownership and emergency access.  *)
(* What a part has beside its documents, failures on their way or what a   *)
(* worker listed, is "failed".                                             *)
(***************************************************************************)
EXTENDS Integers, FiniteSets

CONSTANTS
  Clients,
  \* events
  CalendarEvents, Bookings, People, Rooms, PlatformAccounts, AccountOwner,
  EventWindows, Starts,
  \* the organisation
  Units, Names, Profiles, LinkedUsers, UnitAccounts, OwnerUnit, OrgWorlds,
  \* commissions
  Entries, Rules, Settlements, Payees, Amounts, Rates,
  \* shift requests
  Shifts, Staff, ShiftWindows, DayOf, RequestLines, RequestBatch,
  \* rosters
  Rosters, Members, RosterDays, WorkingDays, Hours, OwnShifts, RosterLines,
  RosterBatch, Ranges, MaxExceptions,
  \* the lives of assignments
  LifeTime, Window, DefaultGrace, MaxGrace, Terms,
  \* contracts
  ContractIds, Obligations, Links, EvidenceEvents, Actors,
  \* governance
  GovUsers, Roles, Founder, FirstRole, GovWorlds,
  \* ownership and emergency access
  Persons, First, FirstOwner, Successors, AccessRequests, OwnTime, OwnWindows, Durations

VARIABLES part, db, snap, missed, failed

vars == <<part, db, snap, missed, failed>>

Cal == INSTANCE EventCalendar WITH
  Events <- CalendarEvents, Accounts <- PlatformAccounts, Owner <- AccountOwner,
  Windows <- EventWindows

Org == INSTANCE Organisation WITH
  Users <- LinkedUsers, Accounts <- UnitAccounts, Worlds <- OrgWorlds

\* No unit is the root of the others, and the accounts here are owned by units.
ASSUME RootIsNoUnit == Org!Root \notin Units
ASSUME AccountsAreOwned == OwnerUnit \in [UnitAccounts -> Units]

Com == INSTANCE Commission

\* Amounts are cents and rates per cent, and the collections are finite.
ASSUME CommissionIsCounted ==
  /\ Amounts \subseteq Nat
  /\ Rates \subseteq Nat /\ IsFiniteSet(Rates)
  /\ IsFiniteSet(Entries) /\ IsFiniteSet(Settlements)

Req == INSTANCE ShiftRequests WITH
  People <- Staff, Windows <- ShiftWindows, Lines <- RequestLines,
  BatchOf <- RequestBatch

\* A line that is not applied names no shift.
ASSUME NoneIsNoShift == "none" \notin Shifts

Ros == INSTANCE MonthlyRoster WITH
  Days <- RosterDays, Lines <- RosterLines, BatchOf <- RosterBatch

\* Windows are pairs of hours, and an exception not made from a line names none.
ASSUME RostersAreTimed ==
  /\ {"STANDARD", "CHANGE_TIME", "ADD_SPECIAL_SHIFT"} \subseteq DOMAIN Hours
  /\ \A kind \in DOMAIN Hours : Hours[kind] \in Nat \X Nat
  /\ MaxExceptions \in Nat
  /\ "none" \notin RosterLines

Life == INSTANCE AssignmentLifecycle WITH MaxTime <- LifeTime, due <- failed

\* Times are numbers, and -1 stands for none.
ASSUME LifeIsTimed ==
  /\ LifeTime \in Nat /\ Window \in Nat /\ DefaultGrace \in Nat /\ MaxGrace \in Nat
  /\ Terms \subseteq (0..LifeTime) \X (-1..LifeTime) \X (-1..LifeTime)

Con == INSTANCE Contracts WITH Events <- EvidenceEvents

\* Who has not delivered, or not reviewed, is none of the people.
ASSUME NoOneIsNobody == Con!NoOne \notin Actors

Gov == INSTANCE GovernanceRecovery WITH Users <- GovUsers, Worlds <- GovWorlds

Own == INSTANCE BreakGlass WITH
  Users <- Persons, Founder <- FirstOwner, Requests <- AccessRequests,
  MaxTime <- OwnTime, Windows <- OwnWindows

ASSUME OwnershipIsTimed ==
  /\ OwnTime \in Nat /\ OwnWindows \subseteq Nat \X Nat /\ Durations \subseteq Nat
  /\ FirstOwner \in Persons
-----------------------------------------------------------------------------
Init ==
  \/ part = "events" /\ Cal!Init /\ failed = {}
  \/ part = "organisation" /\ Org!Init /\ failed = {}
  \/ part = "commission" /\ Com!Init /\ failed = {}
  \/ part = "requests" /\ Req!Init
  \/ part \in {"rosters", "availability"} /\ Ros!Init /\ failed = {}
  \/ part = "lifecycle" /\ Life!Init
  \/ part = "contracts" /\ Con!Init /\ failed = {}
  \/ part = "governance" /\ Gov!Init /\ failed = {}
  \/ part \in {"owners", "access"} /\ Own!Init /\ failed = {}

Next ==
  \/ part = "events" /\ Cal!Next /\ UNCHANGED <<part, failed>>
  \/ part = "organisation" /\ Org!Next /\ UNCHANGED <<part, failed>>
  \/ part = "commission" /\ Com!Next /\ UNCHANGED <<part, failed>>
  \/ part = "requests" /\ Req!Next /\ UNCHANGED part
  \/ part \in {"rosters", "availability"} /\ Ros!Next /\ UNCHANGED <<part, failed>>
  \/ part = "lifecycle" /\ Life!Next /\ UNCHANGED part
  \/ part = "contracts" /\ Con!Next /\ UNCHANGED <<part, failed>>
  \/ part = "governance" /\ Gov!Next /\ UNCHANGED <<part, failed>>
  \/ part \in {"owners", "access"} /\ Own!Next /\ UNCHANGED <<part, failed>>

Spec == Init /\ [][Next]_vars
-----------------------------------------------------------------------------
(* The properties of the parts.                                            *)

\* Confirmed bookings of a studio never overlap, and a booking is held or
\* confirmed as its event is planned or confirmed.
BookingsKept ==
  part = "events" => Cal!NoConfirmedOverlap /\ Cal!BookingsFollowEvent

\* Live events clash only through a draft or an overtaken check, and what is in
\* use goes out of service only through an overtaken check.
CalendarErrsForCause ==
  [][part = "events" => Cal!ClashForCauseStep /\ Cal!OutForCauseStep]_vars

\* Paths and parents come apart, two units above each other part again, and a
\* closed unit is filled only through an overtaken check.
OrganisationErrsLate ==
  [][part = "organisation" =>
       Org!TreeBreaksLateStep /\ Org!RingsStayStep /\ Org!ClosedUnitsEmptyStep]_vars

\* A settlement is the sum of its lines, and together settlements pay no entry
\* twice to one payee.
PaidAsListed == part = "commission" => Com!PaidAsListed

\* A voided entry is paid only through an overtaken check, and amounts leave the
\* settlement's rate only when entries are replaced.
StraysForCause ==
  [][part = "commission" => Com!VoidPaidLateStep /\ Com!RatePartsByReplacementStep]_vars

\* A batch says what has become of its lines, and generated codes of one day
\* keep shifts apart.
RequestsKept ==
  part = "requests" => Req!BatchTellsLines /\ Req!SameDayNeverClashes

\* A line is applied to the shift its maker saw.
AppliedToWhatWasSeen == [][part = "requests" => Req!AppliedToWhatWasSeenStep]_vars

Rostering == part \in {"rosters", "availability"}

\* Published rosters and their shifts are what the exceptions say, and an
\* approved line stands in one roster, once.
RostersKeepLines == Rostering => Ros!RostersKeepIntents /\ Ros!LinesTellRosters

\* Two exceptions take one workday only when an update hits the wrong one, and
\* publishing puts nobody on duty twice but through an overtaken check.
ClashingDutiesForCause ==
  [][Rostering => Ros!ContradictsByMishitStep /\ Ros!DoubleDutyLateStep]_vars

\* Both rules of effectiveness say the same until the risk of a role moves.
RulesAgree == part = "lifecycle" => Life!RulesAgree

\* What is granted stays as it is until the transitions looked up with it.
TransitionsForetell == part = "lifecycle" => Life!TransitionsForetell

\* The worker suspends what has ended, and what it lists, but for causes named.
WorkerEndsWhatEnded == [][part = "lifecycle" => Life!WorkerEndsWhatEndedStep]_vars

\* What stands delivered has its evidence, and another accepted it.
DeliveryKept == part = "contracts" => Con!DeliveryKept

\* Evidence goes, and an archived contract is left with unresolved obligations,
\* only through an overtaken check; what an ended contract strands stays.
ContractsErrLate ==
  [][part = "contracts" => Con!ContractErrsLateStep /\ Con!StrandedStaysStep]_vars

\* The last who can repair governance is lost, a role that is not ACTIVE held and
\* a user who is gone given authority only for the causes named.
GovernanceErrsForCause ==
  [][part = "governance" =>
       /\ Gov!RecoveryLostForCauseStep
       /\ Gov!InactiveRolesUnheldStep
       /\ Gov!GoneUsersGainLateStep
       /\ Gov!EndedKeepsRoleStep]_vars

Owning == part \in {"owners", "access"}

\* Ownership is handed on by consent, and so is emergency access, which ends.
OwnershipKept ==
  Owning => Own!SuccessionIsChain /\ Own!AccessIsConsented

\* The owner is lost, and access given by another, only for the causes named.
OwnershipErrsForCause ==
  [][Owning => Own!OwnerLostForCauseStep /\ Own!AccessErrsLateStep]_vars
=============================================================================
