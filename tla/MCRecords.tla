----------------------------- MODULE MCRecords -----------------------------
(***************************************************************************)
(* The instance of Records for TLC: what there is of each, and bounds on   *)
(* the steps of each part.                                                 *)
(***************************************************************************)
EXTENDS Records, Sequences, TLC

CONSTANTS x1, x2, y1, y2,       \* ids: of two records, and of what belongs to them
          p1, p2, r1, a1,       \* people, a studio, an account
          u1, u2, u3, n1, n2    \* units and their names

\* The windows touch; three worlds: a studio, two people, an account.
MCEventWindows == {<<1, 3>>, <<3, 4>>}
MCStarts == {{r1, p1}, {p1, p2}, {p1, a1}}
MCAccountOwner == a1 :> p1

\* The worlds: three units, or two with what may be in them.
MCOrgWorlds == {{u1, u2, u3}, {u1, u2, p1}, {u1, a1, p1}, {u1, p1, p2}}
MCOwnerUnit == a1 :> u1

\* The windows overlap and begin on different days.
MCShiftWindows == {<<1, 4>>, <<3, 6>>}
MCDayOf == <<1, 2, 2>>
MCBatch == [l \in {y1, y2} |-> r1]

\* One day of the month is rostered, and a line may ask for the next one too.
\* A changed time begins on the day before in UTC; a special shift overlaps the
\* standard hours, not the changed ones.
MCWorkingDays == u1 :> {1} @@ u2 :> {2}
MCHours == [STANDARD |-> <<8, 16>>, CHANGE_TIME |-> <<6, 14>>,
            ADD_SPECIAL_SHIFT |-> <<15, 19>>]
MCRanges == {{1}, {1, 2}}

\* Assignments begin at once or later, with and without an expiry and a review.
MCTerms == {<<0, -1, -1>>, <<0, 3, 2>>, <<0, 2, -1>>, <<0, -1, 2>>,
            <<1, -1, 1>>, <<1, 3, -1>>, <<0, -1, 0>>}

\* After the bootstrap: a second user, or a second role.
MCGovWorlds == {{p1, p2, u1}, {p1, u1, u2}}

MCOwnWindows == {<<0, 2>>, <<1, 2>>}

MCSymmetry == Permutations({x1, x2}) \cup Permutations({y1, y2})
-----------------------------------------------------------------------------
(* Bounds.  One commit overtakes a transaction, and what is archived is    *)
(* the end.                                                                *)

Once == \A c \in Clients : missed[c] # {} => missed'[c] = {}

Holds(x, statuses) == db'[Cal!Resource(x)] \in {db[Cal!Resource(x)]} \cup statuses

\* Each world takes out of service one resource it is about; with a studio or
\* a second person events are in one window, and bookings in both.
InWorld(x) == db[Cal!Resource(x)] # "ARCHIVED"
EventsStep ==
  /\ Once
  /\ \A e \in {x1, x2} : Cal!Status(db, e) # "ARCHIVED"
  /\ Holds(p2, {})
  /\ InWorld(r1) => Holds(p1, {}) /\ Holds(r1, {"ACTIVE", "INACTIVE"})
  /\ InWorld(r1) \/ InWorld(p2) =>
       \A e \in {x1, x2} : Cal!Known(db', e) => db'[Cal!EventDoc(e)].win = <<1, 3>>

\* In a world of three units none is closed.
OrgStep ==
  /\ Once
  /\ Org!LiveUnit(db, u3) =>
       \A u \in {u1, u2, u3} : Org!UnitStatus(db', u) \in {"none", "ACTIVE"}

\* The small amount, whose share is rounded, is that of a single entry with a
\* single settlement; the rate of the rule starts low and rises.
ComStep ==
  /\ Once
  /\ \A x \in {x1, x2} : db[Com!EntryDoc(x)].status # "ARCHIVED"
  /\ \A y \in {y1, y2} : db[Com!SettlementDoc(y)].status # "ARCHIVED"
  /\ LET rule == db[Com!RuleDoc(r1)]
         next == db'[Com!RuleDoc(r1)]
     IN  /\ rule.status # "ARCHIVED"
         /\ rule = Com!Nothing => next = Com!Nothing \/ next.rate = 50
         /\ rule # Com!Nothing => next.rate >= rule.rate
  /\ (\E x \in {x1, x2} : db'[Com!EntryDoc(x)].status # "none"
                            /\ db'[Com!EntryDoc(x)].amount = 1) =>
       /\ \E x \in {x1, x2} : db'[Com!EntryDoc(x)] = Com!Nothing
       /\ \E y \in {y1, y2} : db'[Com!SettlementDoc(y)] = Com!Nothing

\* A shift is changed once, with requests one of them; it is p1's, has a generated code and is not
\* archived when requests come; two lines are two creations, or a move and a
\* cancellation; one failure is on its way.
ReqStep ==
  /\ Once
  /\ Cardinality(failed') <= 1
  /\ \A k \in {x1, x2} :
       /\ Req!Shift(db, k).status # "ARCHIVED"
       /\ LET shift == Req!Shift(db', k) IN shift # Req!Nothing =>
            /\ shift.rev <= 1
            /\ shift.rev = 0 => shift.person = p1
            /\ db'[Req!BatchDoc(r1)] # Req!Nothing =>
                 \A j \in {x1, x2} \ {k} :
                   shift.rev = 1 /\ Req!Shift(db', j) # Req!Nothing =>
                     Req!Shift(db', j).rev = 0
            /\ db'[Req!BatchDoc(r1)] # Req!Nothing =>
                 shift.person = p1 /\ shift.code = "generated" /\ shift.status # "ARCHIVED"
  /\ db'[Req!BatchDoc(r1)] # Req!Nothing =>
       /\ \A l \in {y1, y2} : Req!Line(db', l).person = p1
       /\ {Req!Line(db', l).kind : l \in {y1, y2}} \in
            {{"CREATE"}, {"RESCHEDULE", "CANCEL"}}

Exceptions(x) == IF db'[Ros!RosterDoc(x)] = Ros!Nothing THEN <<>>
                 ELSE db'[Ros!RosterDoc(x)].exceptions

Ended(x) == Ros!Roster(db, x).status = "ARCHIVED" => UNCHANGED db[Ros!RosterDoc(x)]

\* Rosters: a shift by hand at the standard hours.  Holidays, a
\* member who leaves, and a second roster with one exception in both come without
\* it.
RostersStep ==
  /\ Once /\ Ended(x1) /\ Ended(x2)
  /\ db'[Ros!BatchDoc(r1)] = Ros!Nothing
  /\ \A x \in {x1, x2} :
       Ros!Roster(db', x) # Ros!Nothing => Ros!Roster(db', x).pattern = u1
  /\ db[Ros!Calendar] \subseteq db'[Ros!Calendar]
  /\ db'[Ros!Calendar] # {} => db'[Ros!MemberDoc(p1)]
  /\ LET shift == db'[Ros!OwnShift(r1)] IN shift # Ros!Nothing =>
       /\ shift.win = <<8, 16>> /\ shift.status = "ACTIVE"
       /\ db'[Ros!Calendar] = {} /\ db'[Ros!MemberDoc(p1)]
       /\ \E x \in {x1, x2} : db'[Ros!RosterDoc(x)] = Ros!Nothing
  /\ \/ \E x \in {x1, x2} : db'[Ros!RosterDoc(x)] = Ros!Nothing
     \/ Len(Exceptions(x1) \o Exceptions(x2)) <= 1

\* Availability: exceptions come from lines only, one of which asks for one
\* day off; drafts are not published.
AvailabilityStep ==
  /\ Once /\ Ended(x1) /\ Ended(x2)
  /\ db'[Ros!OwnShift(r1)] = Ros!Nothing
  /\ db'[Ros!Calendar] = {} /\ db'[Ros!MemberDoc(p1)]
  /\ \A x \in {x1, x2} :
       /\ Ros!Roster(db', x).status # "PUBLISHED"
       /\ \A i \in DOMAIN Exceptions(x) :
            LET e == Exceptions(x)[i]
            IN  e.line # "none" /\ e.kind = Ros!Line(db', e.line).kind
  /\ db'[Ros!BatchDoc(r1)] # Ros!Nothing =>
       /\ \E l \in {y1, y2} : LET line == Ros!Line(db', l)
                             IN  line.kind = "WORKING_TO_OFF" /\ line.days = {1}
       /\ \A l \in {y1, y2} : LET line == Ros!Line(db', l)
                             IN  line.kind = "CHANGE_TIME" => line.days = {1}

\* A review is renewed once.
LifecycleStep ==
  /\ Once
  /\ LET a == db'[Life!Assignment] IN a # Life!Nothing => a.cycle <= 2

\* A transaction may be overtaken by any number of writes to one document, as
\* an end and an archiving of the contract are.
ContractsStep ==
  \A c \in Clients : missed[c] # {} => missed'[c] \subseteq missed[c]

\* With a second role the one user stays as he is, and the founder is not given
\* his role again.
GovernanceStep ==
  /\ Once
  /\ Gov!RoleState(db, u2) # "ARCHIVED" /\ Gov!Account(db, p2) = "ARCHIVED" =>
       UNCHANGED db[Gov!UserDoc(p1)]
  /\ ~Gov!Assigned(db, <<p1, u1>>) => ~Gov!Assigned(db', <<p1, u1>>)

Proposed(x) == db'[Own!PrincipalDoc(x)]
Ineligible == {u \in {p1, p2, a1} : ~Own!Eligible(db', u)}

\* Ownership: the third person approves, or checks another's approval; a user who
\* becomes ineligible stays so.
OwnersStep ==
  /\ Once
  /\ db'[Own!RequestDoc(y1)] = Own!Nothing
  /\ Cardinality(Ineligible) <= 1 /\ a1 \notin Ineligible
  /\ \A u \in {p1, p2} : ~Own!Eligible(db, u) => u \in Ineligible
  /\ \A x \in {x1, x2} : Proposed(x) # Own!Nothing =>
       /\ Proposed(x).user # a1
       /\ db[Own!PrincipalDoc(r1)].until = Own!Null => Proposed(x).from = 1

\* Access: the first owner has no end, one successor is proposed at once, and
\* requests that wait for approval come without either.
AccessStep ==
  /\ Once
  /\ Cardinality(Ineligible) <= 1
  /\ \A u \in {p1, p2, a1} : ~Own!Eligible(db, u) => u \in Ineligible
  /\ db'[Own!RequestDoc(y1)] # Own!Nothing => db'[Own!RequestDoc(y1)].target # a1
  /\ db'[Own!PrincipalDoc(r1)].until = Own!Null
  /\ \E x \in {x1, x2} : Proposed(x) = Own!Nothing
  /\ \A x \in {x1, x2} :
       Proposed(x) = Own!Nothing \/ (Proposed(x).user = p2 /\ Proposed(x).from = 0)
  /\ db'[Own!RequestDoc(y1)].status \notin {"none", "ACTIVATED"} =>
       Ineligible = {} /\ \A x \in {x1, x2} : Proposed(x) = Own!Nothing

MCStep ==
  CASE part = "events" -> EventsStep
    [] part = "organisation" -> OrgStep
    [] part = "commission" -> ComStep
    [] part = "requests" -> ReqStep
    [] part = "rosters" -> RostersStep
    [] part = "availability" -> AvailabilityStep
    [] part = "lifecycle" -> LifecycleStep
    [] part = "contracts" -> ContractsStep
    [] part = "governance" -> GovernanceStep
    [] part = "owners" -> OwnersStep
    [] part = "access" -> AccessStep
=============================================================================
