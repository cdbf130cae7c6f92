--------------------------- MODULE ShiftRequests ---------------------------
(***************************************************************************)
(* Work shifts, and the batches of requests with which managers have them  *)
(* created, moved and cancelled: admin.work-schedule.service.ts and        *)
(* admin.work-schedule-request-batch.service.ts.                           *)
(*                                                                         *)
(* Lines are decided one at a time, each in a transaction (SnapshotTxn)    *)
(* that also applies the line to the shifts and brings the batch up to     *)
(* date.  When an application fails, a second transaction marks the line,  *)
(* so that anything may happen in between.  A shift that is given a code   *)
(* takes the next number of its day, which makes transactions wait for     *)
(* each other that have otherwise no document in common.                   *)
(*                                                                         *)
(* A line is never cancelled by a manager: the service lets only its maker *)
(* do it and forbids it to the maker.  Shifts have no studios here, and    *)
(* whether people are in service only refuses, or fails an application.    *)
(***************************************************************************)
EXTENDS Integers, FiniteSets

CONSTANTS Clients,
          Shifts,       \* ids, each given to one shift at most
          People,       \* employment profiles
          Windows,      \* pairs <<start, end>>
          DayOf,        \* start -> the UTC day, the bucket of the codes
          Lines,        \* ids of request lines
          BatchOf       \* line -> the batch it is submitted with

VARIABLES db, snap, missed,
          failed        \* lines whose application failed, not yet marked

vars == <<db, snap, missed, failed>>

ShiftDoc(k) == <<"shift", k>>
Sequence(day) == <<"sequence", day>>
LineDoc(l) == <<"line", l>>
BatchDoc(b) == <<"batch", b>>

Batches == {BatchOf[l] : l \in Lines}
Days == {DayOf[w[1]] : w \in Windows}

Docs == {ShiftDoc(k) : k \in Shifts} \cup {Sequence(d) : d \in Days}
          \cup {LineDoc(l) : l \in Lines} \cup {BatchDoc(b) : b \in Batches}

INSTANCE SnapshotTxn

Nothing == [status |-> "none"]

Shift(s, k) == s[ShiftDoc(k)]
Line(s, l) == s[LineDoc(l)]
OnDuty(s, k) == Shift(s, k).status = "ACTIVE"

Overlap(v, w) == v[1] < w[2] /\ v[2] > w[1]

\* assertNoOverlapConflicts, hasActiveOverlappingSubjectShift.
Clash(s, but, p, w) == \E k \in Shifts \ {but} :
  OnDuty(s, k) /\ Shift(s, k).person = p /\ Overlap(Shift(s, k).win, w)

\* allocateGeneratedShiftCode in the session of the transaction, and outside.
Unnumbered(w) == <<>>
Numbered(w) == Sequence(DayOf[w[1]]) :> "next"
-----------------------------------------------------------------------------
(* Shifts.  rev stands for updatedAt, code for where the code came from.   *)

NewShift(p, w, code) ==
  [status |-> "ACTIVE", person |-> p, win |-> w, rev |-> 0, code |-> code]

Edited(shift) == [shift EXCEPT !.rev = @ + 1]

CreateShift(c, k, p, w, code) ==
  LET s == Seen(c) IN
  /\ Ready(c)
  /\ db[ShiftDoc(k)] = Nothing
  /\ ~Clash(s, k, p, w)
  /\ Commit(c, ShiftDoc(k) :> NewShift(p, w, code)
                 @@ IF code = "generated" THEN Numbered(w) ELSE <<>>)

UpdateShiftCore(c, k) ==
  LET s == Seen(c) IN
  /\ Ready(c)
  /\ OnDuty(s, k)
  /\ Commit(c, ShiftDoc(k) :> Edited(Shift(s, k)))

RescheduleShift(c, k, w) ==
  LET s == Seen(c) IN
  /\ Ready(c)
  /\ OnDuty(s, k)
  /\ ~Clash(s, k, Shift(s, k).person, w)
  /\ w # Shift(s, k).win
  /\ Commit(c, ShiftDoc(k) :> Edited([Shift(s, k) EXCEPT !.win = w]))

ReassignShift(c, k, p) ==
  LET s == Seen(c) IN
  /\ Ready(c)
  /\ OnDuty(s, k)
  /\ ~Clash(s, k, p, Shift(s, k).win)
  /\ p # Shift(s, k).person
  /\ Commit(c, ShiftDoc(k) :> Edited([Shift(s, k) EXCEPT !.person = p]))

\* cancelWorkShift and archiveWorkShift, of an active shift when it is over.
EndShift(c, k, to) ==
  LET s == Seen(c) IN
  /\ Ready(c)
  /\ <<Shift(s, k).status, to>> \in
       {<<"ACTIVE", "CANCELLED">>, <<"ACTIVE", "ARCHIVED">>, <<"CANCELLED", "ARCHIVED">>}
  /\ Commit(c, ShiftDoc(k) :> Edited([Shift(s, k) EXCEPT !.status = to]))
-----------------------------------------------------------------------------
(* Batches of requests.                                                    *)

LinesOf(b) == {l \in Lines : BatchOf[l] = b}
Having(s, b, status) == {l \in LinesOf(b) : Line(s, l).status = status}

\* deriveBatchStatus.
Outcome(s, b) ==
  LET All(status) == Having(s, b, status) = LinesOf(b) IN
  IF All("CANCELLED") THEN "CANCELLED"
  ELSE IF All("APPROVED") THEN "APPROVED"
  ELSE IF Having(s, b, "REJECTED") \cup Having(s, b, "FAILED") = LinesOf(b) THEN "REJECTED"
  ELSE IF Having(s, b, "APPROVED") # {} THEN "PARTIALLY_APPROVED"
  ELSE "PENDING"

\* updateDerivedBatchState, on the lines as the transaction leaves them: the
\* status and the number that are pending.
Summary(s, b) == [status |-> Outcome(s, b),
                  pending |-> Cardinality(Having(s, b, "PENDING"))]

PutLine(s, l, line) ==
  LET t == [s EXCEPT ![LineDoc(l)] = line]
  IN  LineDoc(l) :> line @@ BatchDoc(BatchOf[l]) :> Summary(t, BatchOf[l])

Requests ==
  [kind : {"CREATE"}, person : People, win : Windows]
    \cup [kind : {"RESCHEDULE"}, shift : Shifts, win : Windows]
    \cup [kind : {"CANCEL"}, shift : Shifts]

\* assertLineSubmitEligible: the shift is there, as sourceWorkShiftVersion notes.
Noted(s, request) ==
  [status |-> "PENDING", applied |-> "none"] @@
  IF request.kind = "CREATE" THEN request
  ELSE request @@ [person |-> Shift(s, request.shift).person,
                   saw |-> Shift(s, request.shift).rev]

SubmitBatch(c, b, requests) ==
  LET s == Seen(c) IN
  /\ Ready(c)
  /\ db[BatchDoc(b)] = Nothing
  /\ \A l \in LinesOf(b) : requests[l].kind # "CREATE" => OnDuty(s, requests[l].shift)
  /\ \A l, o \in LinesOf(b) : l # o => requests[l] # requests[o]
  /\ Commit(c, [d \in {LineDoc(l) : l \in LinesOf(b)} |-> Noted(s, requests[d[2]])]
                 @@ BatchDoc(b) :> [status |-> "PENDING",
                                    pending |-> Cardinality(LinesOf(b))])

\* assertPendingLine, assertBatchNotCancelled; and the batch alone.
BatchOpen(s, l) == Line(s, l) # Nothing /\ s[BatchDoc(BatchOf[l])].status # "CANCELLED"
Undecided(s, l) == Line(s, l).status = "PENDING" /\ s[BatchDoc(BatchOf[l])].status # "CANCELLED"

Approved(s, l, k) ==
  PutLine(s, l, [Line(s, l) EXCEPT !.status = "APPROVED", !.applied = k])

\* applyCreateShiftLine.
ApproveCreate(c, l, k) ==
  LET s == Seen(c)
      line == Line(s, l)
  IN
  /\ Ready(c)
  /\ Undecided(s, l) /\ line.kind = "CREATE"
  /\ db[ShiftDoc(k)] = Nothing
  /\ ~Clash(s, k, line.person, line.win)
  /\ Commit(c, Approved(s, l, k) @@ Numbered(line.win)
                 @@ ShiftDoc(k) :> NewShift(line.person, line.win, "generated"))

\* requireTargetEmploymentProfileShift, assertRequestSourceUnchanged and
\* assertActiveWorkShift.
Unchanged(s, line) == LET shift == Shift(s, line.shift) IN
  OnDuty(s, line.shift) /\ shift.person = line.person /\ shift.rev = line.saw

Cancelled(s, k) == ShiftDoc(k) :> Edited([Shift(s, k) EXCEPT !.status = "CANCELLED"])

\* applyRescheduleShiftLine: another shift takes the place of the shift.
ApproveReschedule(c, l, k) ==
  LET s == Seen(c)
      line == Line(s, l)
  IN
  /\ Ready(c)
  /\ Undecided(s, l) /\ line.kind = "RESCHEDULE"
  /\ Unchanged(s, line)
  /\ db[ShiftDoc(k)] = Nothing
  /\ ~Clash(s, line.shift, line.person, line.win)
  /\ line.win # Shift(s, line.shift).win
  /\ Commit(c, Approved(s, l, k) @@ Numbered(line.win) @@ Cancelled(s, line.shift)
                 @@ ShiftDoc(k) :> [Shift(s, line.shift) EXCEPT
                      !.win = line.win, !.rev = 0, !.code = "generated"])

\* The same, when the shift has the window already: no shift is written.
ApproveAsItIs(c, l) ==
  LET s == Seen(c)
      line == Line(s, l)
  IN
  /\ Ready(c)
  /\ Undecided(s, l) /\ line.kind = "RESCHEDULE"
  /\ Unchanged(s, line)
  /\ ~Clash(s, line.shift, line.person, line.win)
  /\ line.win = Shift(s, line.shift).win
  /\ Commit(c, Approved(s, l, line.shift))

\* applyCancelShiftLine.
ApproveCancel(c, l) ==
  LET s == Seen(c)
      line == Line(s, l)
  IN
  /\ Ready(c)
  /\ Undecided(s, l) /\ line.kind = "CANCEL"
  /\ Unchanged(s, line)
  /\ Commit(c, Approved(s, l, line.shift) @@ Cancelled(s, line.shift))

\* rejectAdminLines, cancelAdminLines: one transaction for each line.
Refuse(c, l, to) ==
  LET s == Seen(c) IN
  /\ Ready(c)
  /\ Undecided(s, l)
  /\ Commit(c, PutLine(s, l, [Line(s, l) EXCEPT !.status = to]))

\* approveOneLine catches the failure of an application, which had read the
\* line pending.
ApplicationFails(l) ==
  /\ l \notin failed
  /\ Line(db, l).status = "PENDING"
  /\ failed' = failed \cup {l}

\* markLineFailedToApply, in a transaction of its own.
MarkFailed(c, l) ==
  LET s == Seen(c) IN
  /\ Ready(c)
  /\ l \in failed
  /\ Undecided(s, l)
  /\ Commit(c, PutLine(s, l, [Line(s, l) EXCEPT !.status = "FAILED"]))
  /\ failed' = failed \ {l}

\* The mark is refused, or its process dies.
ForgetFailure(l) == l \in failed /\ failed' = failed \ {l}
-----------------------------------------------------------------------------
Init ==
  /\ db = [d \in Docs |-> IF d[1] = "sequence" THEN "next" ELSE Nothing]
  /\ TxnInit
  /\ failed = {}

ShiftStep(c, k) ==
  \/ \E p \in People, w \in Windows, code \in {"generated", "own"} :
       CreateShift(c, k, p, w, code)
  \/ UpdateShiftCore(c, k)
  \/ \E w \in Windows : RescheduleShift(c, k, w)
  \/ \E p \in People : ReassignShift(c, k, p)
  \/ \E to \in {"CANCELLED", "ARCHIVED"} : EndShift(c, k, to)

LineStep(c, l) ==
  \/ \E k \in Shifts : ApproveCreate(c, l, k) \/ ApproveReschedule(c, l, k)
  \/ ApproveAsItIs(c, l) \/ ApproveCancel(c, l)
  \/ \E to \in {"REJECTED", "CANCELLED"} : Refuse(c, l, to)

Next ==
  \/ \E c \in Clients \cup {Now} :
       \/ (\E k \in Shifts : ShiftStep(c, k)) /\ UNCHANGED failed
       \/ (\E b \in Batches : \E requests \in [LinesOf(b) -> Requests] :
             SubmitBatch(c, b, requests)) /\ UNCHANGED failed
       \/ (\E l \in Lines : LineStep(c, l)) /\ UNCHANGED failed
       \/ \E l \in Lines : MarkFailed(c, l)
  \/ \E l \in Lines : (ApplicationFails(l) \/ ForgetFailure(l)) /\ UNCHANGED <<db, snap, missed>>
  \/ \E c \in Clients : (Begin(c) \/ Abort(c)) /\ UNCHANGED failed

Spec == Init /\ [][Next]_vars
-----------------------------------------------------------------------------
(* Properties.                                                             *)

\* What a line did to the shifts it did, and is on record for it: an approved
\* line names the shift it created, moved or left as it was, the shift that it
\* took away is off duty for good, and a line that failed, whose failure is
\* recorded by another transaction, did nothing.
Applied(l) ==
  LET line == Line(db, l)
      done == line.status = "APPROVED"
      gone == \/ line.kind = "CANCEL"
              \/ line.kind = "RESCHEDULE" /\ line.applied # line.shift
  IN
  /\ done <=> line.applied \in Shifts
  /\ done => Shift(db, line.applied) # Nothing
  /\ done /\ gone => ~OnDuty(db, line.shift)

\* A batch says what has become of its lines, whichever of them are decided at
\* the same time, and the lines say what became of the shifts.
BatchTellsLines ==
  /\ \A b \in Batches : db[BatchDoc(b)] # Nothing => db[BatchDoc(b)] = Summary(db, b)
  /\ \A l \in Lines : Line(db, l) # Nothing => Applied(l)

\* The step is the commit of a transaction that missed another's.
LateCommit == \E c \in Clients : missed[c] # {} /\ InTxn(c) /\ ~InTxn(c)'

ClashingPair(s, j, k) ==
  /\ j # k /\ OnDuty(s, j) /\ OnDuty(s, k)
  /\ Shift(s, j).person = Shift(s, k).person
  /\ Overlap(Shift(s, j).win, Shift(s, k).win)

\* "Subject overlap conflict detected" is decided on a snapshot, so that shifts
\* of one person may come to overlap when transactions do.  But two that are
\* as they were created do not if both begin on one day and have generated
\* codes: the counter of the day keeps their transactions apart.
SameDayNeverClashes == \A j, k \in Shifts :
  ClashingPair(db, j, k) /\ Shift(db, j).rev = 0 /\ Shift(db, k).rev = 0 =>
    \/ DayOf[Shift(db, j).win[1]] # DayOf[Shift(db, k).win[1]]
    \/ "own" \in {Shift(db, j).code, Shift(db, k).code}

\* A line that moves or cancels a shift is applied to the shift as its maker
\* saw it, even if the shift is edited while the line is approved, unless the
\* line asks for the window the shift has: then nothing is written that could
\* conflict.
AppliedToWhatWasSeenStep == \A l \in Lines :
  /\ Line(db, l).status = "PENDING" /\ Line(db', l).status = "APPROVED"
  /\ Line(db, l).kind # "CREATE"
  => \/ Unchanged(db, Line(db, l))
     \/ LateCommit /\ db'[ShiftDoc(Line(db, l).shift)] = db[ShiftDoc(Line(db, l).shift)]
          /\ Line(db, l).kind = "RESCHEDULE"
AppliedToWhatWasSeen == [][AppliedToWhatWasSeenStep]_vars
=============================================================================
