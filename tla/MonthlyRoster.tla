--------------------------- MODULE MonthlyRoster ---------------------------
(***************************************************************************)
(* The roster of one target for one month, with the exceptions it makes    *)
(* for its members and the shifts it generates when it is published        *)
(* (admin.monthly-roster.service.ts), and the lines with which managers    *)
(* announce when members are available, which admins apply to a draft      *)
(* (admin.work-schedule-availability-batch.service.ts).                    *)
(*                                                                         *)
(* Every operation is a transaction (SnapshotTxn).  A preview writes       *)
(* nothing, and publishing is refused unless the caller brings the hash of *)
(* the preview the transaction itself computes: here it always does.  The  *)
(* draftVersion, which is part of the hash, is left out with it.           *)
(*                                                                         *)
(* Windows are in hours of the local day, UTC+7, and end on the day they   *)
(* begin.  The work pattern says which days are worked; holidays, members  *)
(* of the target and shifts made by hand change under the roster.  Notes,  *)
(* lines that ask for nothing, can only be refused and are left out.       *)
(***************************************************************************)
EXTENDS Integers, Sequences, FiniteSets

CONSTANTS Clients,
          Rosters,        \* ids, each given to one roster at most
          Members,        \* employment profiles
          Days,           \* the days of the month that are rostered
          WorkingDays,    \* work pattern -> its workdays
          Hours,          \* kind of row -> its window, a pair of hours
          OwnShifts,      \* ids of shifts made by hand
          Lines,          \* ids of availability lines
          BatchOf,        \* line -> the batch it is submitted with
          Ranges,         \* sets of days a line may ask for
          MaxExceptions   \* bound on the exceptions of a roster

VARIABLES db, snap, missed

Patterns == DOMAIN WorkingDays
Batches == {BatchOf[l] : l \in Lines}
Slots == 0 .. MaxExceptions         \* 0 is the workday, i the i-th exception

\* toUtcShiftCodeDateBucket of a local hour.
Bucket(day, window) == IF window[1] < 7 THEN day - 1 ELSE day
Buckets == {Bucket(d, Hours[k]) : d \in Days, k \in DOMAIN Hours}

RosterDoc(r) == <<"roster", r>>
Target == <<"target">>              \* unique: the roster that is not archived
Calendar == <<"calendar">>          \* the holidays
MemberDoc(m) == <<"member", m>>     \* eligible for the target
Generated(r, m, d, i) == <<"generated", r, m, d, i>>
OwnShift(k) == <<"own", k>>
Sequence(b) == <<"sequence", b>>
LineDoc(l) == <<"line", l>>
BatchDoc(b) == <<"batch", b>>

GeneratedDocs ==
  {Generated(r, m, d, i) : r \in Rosters, m \in Members, d \in Days, i \in Slots}
ShiftDocs == GeneratedDocs \cup {OwnShift(k) : k \in OwnShifts}

Docs == ShiftDocs \cup {Target, Calendar}
          \cup {RosterDoc(r) : r \in Rosters} \cup {MemberDoc(m) : m \in Members}
          \cup {Sequence(b) : b \in Buckets}
          \cup {LineDoc(l) : l \in Lines} \cup {BatchDoc(b) : b \in Batches}

INSTANCE SnapshotTxn

Nothing == [status |-> "none"]

Roster(s, r) == s[RosterDoc(r)]
Draft(s, r) == Roster(s, r).status = "DRAFT"
Line(s, l) == s[LineDoc(l)]
Eligible(s) == {m \in Members : s[MemberDoc(m)]}
-----------------------------------------------------------------------------
(* Shifts.                                                                 *)

Overlap(v, w) == v[1] < w[2] /\ v[2] > w[1]

OnDuty(s, x) == s[x].status = "ACTIVE"

\* hasActiveOverlappingSubjectShift.
Taken(s, m, d, w) == \E x \in ShiftDocs :
  OnDuty(s, x) /\ s[x].member = m /\ s[x].day = d /\ Overlap(s[x].win, w)

NewShift(m, d, w, code) ==
  [status |-> "ACTIVE", member |-> m, day |-> d, win |-> w, code |-> code]

\* allocateGeneratedShiftCode outside the session, and in it: the counters of
\* the days the shifts begin on.
Unnumbered(shifts) == <<>>
Numbered(shifts) ==
  [x \in {Sequence(Bucket(shift.day, shift.win)) : shift \in shifts} |-> "next"]

\* createWorkShift of another service.
CreateShift(c, k, m, d, w, code) ==
  LET s == Seen(c)
      shift == NewShift(m, d, w, code)
  IN
  /\ Ready(c)
  /\ db[OwnShift(k)] = Nothing
  /\ ~Taken(s, m, d, w)
  /\ Commit(c, OwnShift(k) :> shift @@ IF code = "generated" THEN Numbered({shift}) ELSE <<>>)

CancelShift(c, x) ==
  LET s == Seen(c) IN
  /\ Ready(c)
  /\ OnDuty(s, x)
  /\ Commit(c, x :> [s[x] EXCEPT !.status = "CANCELLED"])
-----------------------------------------------------------------------------
(* Drafts.                                                                 *)

\* assertNoDuplicateActiveRoster, and the unique index behind it.
CreateRoster(c, r, p) ==
  LET s == Seen(c) IN
  /\ Ready(c)
  /\ db[RosterDoc(r)] = Nothing
  /\ s[Target] = "free"
  /\ Commit(c, RosterDoc(r) :> [status |-> "DRAFT", pattern |-> p, exceptions |-> <<>>]
                 @@ Target :> r)

Active(roster) == {i \in DOMAIN roster.exceptions : roster.exceptions[i].active}

\* Of the structural fields only the pattern: month and target stay.
UpdateDraft(c, r, p) ==
  LET s == Seen(c) IN
  /\ Ready(c)
  /\ Draft(s, r)
  /\ p # Roster(s, r).pattern => Active(Roster(s, r)) = {}
  /\ Commit(c, RosterDoc(r) :> [Roster(s, r) EXCEPT !.pattern = p])

\* The shifts of a published roster stay as they are.
ArchiveRoster(c, r) ==
  LET s == Seen(c) IN
  /\ Ready(c)
  /\ Roster(s, r).status \in {"DRAFT", "PUBLISHED"}
  /\ Commit(c, RosterDoc(r) :> [Roster(s, r) EXCEPT !.status = "ARCHIVED"]
                 @@ Target :> "free")

\* addHolidayCalendarEntry, removeHolidayCalendarEntry, and the update of an
\* entry, which may move it.
ChangeCalendar(c, holidays) ==
  LET old == Seen(c)[Calendar] IN
  /\ Ready(c)
  /\ Cardinality(holidays \ old) <= 1 /\ Cardinality(old \ holidays) <= 1
  /\ Commit(c, Calendar :> holidays)

\* A profile leaves the target or active service, or comes back.
ChangeMember(c, m) ==
  /\ Ready(c)
  /\ Commit(c, MemberDoc(m) :> ~Seen(c)[MemberDoc(m)])
-----------------------------------------------------------------------------
(* Exceptions.                                                             *)

Intents == [member : Members, day : Days,
            kind : {"WORKING_TO_OFF", "CHANGE_TIME", "ADD_SPECIAL_SHIFT"}]

IntentOf(e) == [member |-> e.member, day |-> e.day, kind |-> e.kind]
Standard(e) == e.kind # "ADD_SPECIAL_SHIFT"

\* assertStandardRosterCandidate: a workday of the pattern, and no holiday.
Workday(s, r, d) == d \in WorkingDays[Roster(s, r).pattern] /\ d \notin s[Calendar]

\* assertNoContradictoryStandardException, hasActiveStandardExceptionForDate:
\* another active exception takes the workday of the same member already.
Contradicts(roster, but, x) == \E i \in Active(roster) \ {but} :
  LET e == roster.exceptions[i]
  IN  Standard(x) /\ Standard(e) /\ e.member = x.member /\ e.day = x.day

\* The checks of executeExceptionMutation, first without the one above.
AllowedTwice(s, r, but, x) ==
  /\ x.member \in Eligible(s)
  /\ IF Standard(x) THEN Workday(s, r, x.day)
     ELSE ~Taken(s, x.member, x.day, Hours[x.kind])

Allowed(s, r, but, x) ==
  /\ x.member \in Eligible(s)
  /\ ~Contradicts(Roster(s, r), but, x)
  /\ IF Standard(x) THEN Workday(s, r, x.day)
     ELSE ~Taken(s, x.member, x.day, Hours[x.kind])

Added(roster, x, l) == [roster EXCEPT !.exceptions =
  Append(@, x @@ [active |-> TRUE, line |-> l])]

Room(roster) == Len(roster.exceptions) < MaxExceptions

\* AddRosterException without assertDraftRoster and the filter on the status.
AddExceptionAnyTime(c, r, x) ==
  LET s == Seen(c) IN
  /\ Ready(c)
  /\ Roster(s, r) # Nothing /\ Room(Roster(s, r))
  /\ Allowed(s, r, 0, x)
  /\ Commit(c, RosterDoc(r) :> Added(Roster(s, r), x, "none"))

AddRosterException(c, r, x) ==
  LET s == Seen(c) IN
  /\ Ready(c)
  /\ Draft(s, r) /\ Room(Roster(s, r))
  /\ Allowed(s, r, 0, x)
  /\ Commit(c, RosterDoc(r) :> Added(Roster(s, r), x, "none"))

\* The filter has two conditions on the array, on the id and on the status,
\* and "exceptions.$" is the position either of them matched: that of the
\* exception with the id, or the first one that is active.
Hit(roster, i) == {i, CHOOSE j \in Active(roster) : \A o \in Active(roster) : j <= o}

\* buildRosterExceptionPatch: the fields in which the intent differs from the
\* exception that was meant.
Patched(e, old, x) ==
  [e EXCEPT !.member = IF x.member # old.member THEN x.member ELSE @,
            !.day = IF x.day # old.day THEN x.day ELSE @,
            !.kind = IF x.kind # old.kind THEN x.kind ELSE @]

UpdateRosterException(c, r, i, x) ==
  LET s == Seen(c)
      roster == Roster(s, r)
  IN
  /\ Ready(c)
  /\ Draft(s, r)
  /\ i \in Active(roster)
  /\ Allowed(s, r, i, x)
  /\ x # IntentOf(roster.exceptions[i])
  /\ \E j \in Hit(roster, i) :
       Commit(c, RosterDoc(r) :> [roster EXCEPT
                   !.exceptions[j] = Patched(@, roster.exceptions[i], x)])

RemoveRosterException(c, r, i) ==
  LET s == Seen(c)
      roster == Roster(s, r)
  IN
  /\ Ready(c)
  /\ Draft(s, r)
  /\ i \in Active(roster)
  /\ \E j \in Hit(roster, i) :
       Commit(c, RosterDoc(r) :> [roster EXCEPT !.exceptions[j].active = FALSE])
-----------------------------------------------------------------------------
(* Publishing.                                                             *)

\* buildPreviewRows throws unless each active exception still has its member
\* and its workday, and the workday to itself.
Previewable(s, r) ==
  LET roster == Roster(s, r) IN
  \A i \in Active(roster) :
    LET e == roster.exceptions[i] IN
    /\ e.member \in Eligible(s)
    /\ Standard(e) => Workday(s, r, e.day)
    /\ ~Contradicts(roster, i, e)

\* The exceptions that are about the workday d of m, and those that add to it.
About(roster, m, d, kinds) == {i \in Active(roster) :
  LET e == roster.exceptions[i] IN e.member = m /\ e.day = d /\ e.kind \in kinds}

\* The candidate rows of the preview.
Rows(s, r) ==
  LET roster == Roster(s, r)
      Workdays == {d \in Days : Workday(s, r, d)}
      Slot(m, d) ==
        IF About(roster, m, d, {"WORKING_TO_OFF"}) # {} THEN {}
        ELSE IF About(roster, m, d, {"CHANGE_TIME"}) # {}
             THEN {<<m, d, 0, Hours["CHANGE_TIME"]>>}
             ELSE {<<m, d, 0, Hours["STANDARD"]>>}
      Special(m, d) ==
        {<<m, d, i, Hours["ADD_SPECIAL_SHIFT"]>> : i \in About(roster, m, d, {"ADD_SPECIAL_SHIFT"})}
  IN  (UNION {Slot(m, d) : m \in Eligible(s), d \in Workdays})
        \cup (UNION {Special(m, d) : m \in Eligible(s), d \in Days})

\* addCandidateSelfConflicts, assertGeneratedRowInsertIsStillSafe.
Conflict(s, rows) ==
  \/ \E row \in rows : Taken(s, row[1], row[2], row[4])
  \/ \E row, other \in rows : row # other /\ row[1] = other[1] /\ row[2] = other[2]
                                /\ Overlap(row[4], other[4])

PublishRoster(c, r) ==
  LET s == Seen(c)
      rows == Rows(s, r)
      Shift(row) == NewShift(row[1], row[2], row[4], "generated")
  IN
  /\ Ready(c)
  /\ Draft(s, r)
  /\ Eligible(s) # {}
  /\ Previewable(s, r)
  /\ ~Conflict(s, rows)
  /\ LET shifts == [x \in {Generated(r, row[1], row[2], row[3]) : row \in rows} |->
                      Shift(CHOOSE row \in rows : x = Generated(r, row[1], row[2], row[3]))]
     IN  Commit(c, RosterDoc(r) :> [Roster(s, r) EXCEPT !.status = "PUBLISHED"]
                     @@ shifts @@ Numbered({shifts[x] : x \in DOMAIN shifts}))
-----------------------------------------------------------------------------
(* Availability.                                                           *)

LinesOf(b) == {l \in Lines : BatchOf[l] = b}
Having(s, b, status) == {l \in LinesOf(b) : Line(s, l).status = status}

\* deriveBatchStatus, and reconcileAvailabilityBatchState, which agrees.
Outcome(s, b) ==
  IF Having(s, b, "CANCELLED") = LinesOf(b) THEN "CANCELLED"
  ELSE IF Having(s, b, "APPROVED") = LinesOf(b) THEN "APPROVED"
  ELSE IF Having(s, b, "APPROVED") # {} THEN "PARTIALLY_APPROVED"
  ELSE IF Having(s, b, "PENDING") # {} THEN "PENDING"
  ELSE "REJECTED"

Summary(s, b) == [status |-> Outcome(s, b),
                  pending |-> Cardinality(Having(s, b, "PENDING"))]

\* The line, and the batch as the transaction leaves its lines.
PutLine(s, l, line) ==
  LET t == [s EXCEPT ![LineDoc(l)] = line]
  IN  LineDoc(l) :> line @@ BatchDoc(BatchOf[l]) :> Summary(t, BatchOf[l])

Requests == [member : Members, days : Ranges, kind : {"WORKING_TO_OFF", "CHANGE_TIME"}]

SubmitBatch(c, b, requests) ==
  LET s == Seen(c) IN
  /\ Ready(c)
  /\ db[BatchDoc(b)] = Nothing
  /\ \A l \in LinesOf(b) : requests[l].member \in Eligible(s)
  /\ \A l, o \in LinesOf(b) : l # o => requests[l] # requests[o]
  /\ Commit(c, [x \in {LineDoc(l) : l \in LinesOf(b)} |->
                  requests[x[2]] @@ [status |-> "PENDING"]]
                 @@ BatchDoc(b) :> [status |-> "PENDING",
                                    pending |-> Cardinality(LinesOf(b))])

\* rejectAdminLines, cancelAdminLines.
Refuse(c, l, to) ==
  LET s == Seen(c) IN
  /\ Ready(c)
  /\ Line(s, l).status = "PENDING"
  /\ Commit(c, PutLine(s, l, [Line(s, l) EXCEPT !.status = to]))

\* ApplyLine without the condition on the status of the line.
ApplyAgain(c, l, r) ==
  LET s == Seen(c)
      line == Line(s, l)
  IN
  /\ Ready(c)
  /\ line.status \in {"PENDING", "APPROVED"}
  /\ Draft(s, r) /\ Room(Roster(s, r))
  /\ line.member \in Eligible(s)
  /\ Cardinality(line.days) = 1
  /\ \E d \in line.days :
       LET x == [member |-> line.member, day |-> d, kind |-> line.kind] IN
       /\ d \in Days
       /\ Workday(s, r, d)
       /\ ~Contradicts(Roster(s, r), 0, x)
       /\ Commit(c, RosterDoc(r) :> Added(Roster(s, r), x, l)
                      @@ PutLine(s, l, [line EXCEPT !.status = "APPROVED"]))
\* applyAvailabilityLinesToMonthlyRoster, for a pending line: it is approved
\* and applied, or nothing happens.  Several lines in one command are several
\* applications with nothing in between.  Each day of the line is an exception
\* of its own; addException refuses a second one of the same line as created
\* "concurrently", so that only a line of one day is ever applied.
ApplyLine(c, l, r) ==
  LET s == Seen(c)
      line == Line(s, l)
  IN
  /\ Ready(c)
  /\ line.status = "PENDING"
  /\ Draft(s, r) /\ Room(Roster(s, r))
  /\ line.member \in Eligible(s)
  /\ Cardinality(line.days) = 1
  /\ \E d \in line.days :
       LET x == [member |-> line.member, day |-> d, kind |-> line.kind] IN
       /\ d \in Days
       /\ Workday(s, r, d)
       /\ ~Contradicts(Roster(s, r), 0, x)
       /\ Commit(c, RosterDoc(r) :> Added(Roster(s, r), x, l)
                      @@ PutLine(s, l, [line EXCEPT !.status = "APPROVED"]))

-----------------------------------------------------------------------------
Init ==
  /\ \E eligible \in SUBSET Members :
       db = [x \in Docs |-> CASE x = Target -> "free"
                              [] x = Calendar -> {}
                              [] x[1] = "member" -> x[2] \in eligible
                              [] x[1] = "sequence" -> "next"
                              [] OTHER -> Nothing]
  /\ TxnInit

RosterStep(c, r) ==
  \/ \E p \in Patterns : CreateRoster(c, r, p) \/ UpdateDraft(c, r, p)
  \/ ArchiveRoster(c, r)
  \/ PublishRoster(c, r)
  \/ \E x \in Intents :
       \/ AddRosterException(c, r, x)
       \/ \E i \in Slots : UpdateRosterException(c, r, i, x)
  \/ \E i \in Slots : RemoveRosterException(c, r, i)
  \/ \E l \in Lines : ApplyLine(c, l, r)

Next ==
  \/ \E c \in Clients \cup {Now} :
       \/ \E r \in Rosters : RosterStep(c, r)
       \/ \E holidays \in SUBSET Days : ChangeCalendar(c, holidays)
       \/ \E m \in Members : ChangeMember(c, m)
       \/ \E k \in OwnShifts, m \in Members, d \in Days, kind \in DOMAIN Hours,
             code \in {"generated", "own"} : CreateShift(c, k, m, d, Hours[kind], code)
       \/ \E x \in ShiftDocs : CancelShift(c, x)
       \/ \E b \in Batches : \E requests \in [LinesOf(b) -> Requests] :
            SubmitBatch(c, b, requests)
       \/ \E l \in Lines, to \in {"REJECTED", "CANCELLED"} : Refuse(c, l, to)
  \/ \E c \in Clients : Begin(c) \/ Abort(c)

Spec == Init /\ [][Next]_txnVars
-----------------------------------------------------------------------------
(* Properties.                                                             *)

\* A published roster and its shifts stay what its exceptions say, whoever
\* edits the draft while it is published: a day off has no shift of the
\* roster, a changed time is kept, and each special shift is there.
KeepsIntents(r) ==
  LET roster == Roster(db, r) IN
  /\ \A m \in Members, d \in Days, i \in Slots :
       LET shift == db[Generated(r, m, d, i)]
           changed == About(roster, m, d, {"CHANGE_TIME"}) # {}
       IN  shift # Nothing =>
             /\ roster.status \in {"PUBLISHED", "ARCHIVED"}
             /\ About(roster, m, d, {"WORKING_TO_OFF"}) = {} \/ i # 0
             /\ i = 0 => shift.win = Hours[IF changed THEN "CHANGE_TIME" ELSE "STANDARD"]
             /\ i # 0 => i \in About(roster, m, d, {"ADD_SPECIAL_SHIFT"})
  /\ roster.status = "PUBLISHED" => \A i \in Active(roster) :
       LET e == roster.exceptions[i]
       IN  e.kind # "WORKING_TO_OFF" =>
             db[Generated(r, e.member, e.day, IF Standard(e) THEN 0 ELSE i)] # Nothing

RostersKeepIntents == \A r \in Rosters : Roster(db, r) # Nothing => KeepsIntents(r)

Contradictory(roster) ==
  \E i \in Active(roster) : Contradicts(roster, i, roster.exceptions[i])

\* "Only one ACTIVE standard-candidate exception is allowed for a
\* profile/date": there are two only after an update that was meant for one
\* exception and hit the first active one.
ContradictsByMishitStep == \A r \in Rosters :
  LET old == Roster(db, r)
      new == Roster(db', r)
  IN
  old # Nothing /\ ~Contradictory(old) /\ Contradictory(new) =>
    /\ DOMAIN new.exceptions = DOMAIN old.exceptions
    /\ \E i, j \in Active(old) :
         /\ i # j /\ j \in Hit(old, i)
         /\ \A o \in DOMAIN old.exceptions \ {j} : new.exceptions[o] = old.exceptions[o]
ContradictsByMishit == [][ContradictsByMishitStep]_txnVars

\* The step is the commit of a transaction that missed another's.
LateCommit == \E c \in Clients : missed[c] # {} /\ InTxn(c) /\ ~InTxn(c)'

Clash(s, x, y) ==
  /\ x # y /\ OnDuty(s, x) /\ OnDuty(s, y)
  /\ s[x].member = s[y].member /\ s[x].day = s[y].day /\ Overlap(s[x].win, s[y].win)

\* A roster and whoever makes shifts by hand put nobody on duty twice at one
\* time, unless the two overlap, and then only if one of the shifts has a code
\* of its own or they begin on different days in UTC: counters of codes are all
\* that keeps the two transactions apart.
DoubleDutyLateStep == \A x, y \in {z \in ShiftDocs : OnDuty(db, z)'} :
  Clash(db, x, y)' /\ ~Clash(db, x, y) =>
    /\ LateCommit
    /\ \/ "own" \in {db'[x].code, db'[y].code}
       \/ Bucket(db'[x].day, db'[x].win) # Bucket(db'[y].day, db'[y].win)
DoubleDutyLate == [][DoubleDutyLateStep]_txnVars

\* An approved line, of one day, stands in one roster once, whoever applies it
\* or refuses it meanwhile, no other line does, and batches say what has become
\* of their lines.
LinesTellRosters ==
  /\ \A b \in Batches : db[BatchDoc(b)] # Nothing => db[BatchDoc(b)] = Summary(db, b)
  /\ \A l \in Lines :
       LET made == {at \in Rosters \X (1 .. MaxExceptions) :
             /\ Roster(db, at[1]) # Nothing
             /\ at[2] \in DOMAIN Roster(db, at[1]).exceptions
             /\ Roster(db, at[1]).exceptions[at[2]].line = l}
           approved == Line(db, l).status = "APPROVED"
       IN  /\ Cardinality(made) = IF approved THEN 1 ELSE 0
           /\ approved => Cardinality(Line(db, l).days) = 1
=============================================================================
