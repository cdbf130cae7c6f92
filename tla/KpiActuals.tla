---------------------------- MODULE KpiActuals -----------------------------
(***************************************************************************)
(* What members achieved against a published division: the daily actuals,  *)
(* excuses for days without one, corrections after the day is locked, and  *)
(* the finalization that freezes the result.  admin.kpi.service.ts with    *)
(* kpi-actual.repository.ts and kpi-actual-policy.ts.                      *)
(*                                                                         *)
(* clock counts days at noon, the hour at which direct entry for the day   *)
(* before closes.  A handler reads the clock while its transaction runs    *)
(* and commits later: since[c] is the time at which c began.               *)
(***************************************************************************)
EXTENDS KpiPlan

CONSTANTS Values,           \* values an actual can have, positive
          MaxDirectEdits,   \* maxDirectEditsPerEntry of the policy
          CorrectionCap     \* bound: corrections of one entry explored

ASSUME KpiActualsAssumption ==
  /\ Values \subseteq Nat \ {0}
  /\ MaxDirectEdits \in Nat
  /\ CorrectionCap \in Nat

VARIABLES clock, since

vars == <<db, snap, missed, clock, since>>

LastDay == Max({slot[2] : slot \in Slots})

\* resolveActualDeadline: direct entry until noon of the next day, ordinary
\* correction a day longer, reviewed correction until the third day after
\* the period, nothing later.  controlledReopenUntil is never set.
Stage(day, t) ==
  CASE t <= day + 1 -> "DIRECT"
    [] t = day + 2 -> "ORDINARY"
    [] t > day + 2 /\ t <= LastDay + 3 -> "REVIEWED"
    [] OTHER -> "LOCKED"

\* isDirectEditWindowOpen has an opening too.
DirectOpen(day, t) == day <= t /\ t <= day + 1

\* assertFinalizeEligible: the last day's direct window is over.
Finalizable(t) == t > LastDay + 1

\* The times at which the handler of c may have read the clock.
Clocks(c) == IF c = Now THEN {clock} ELSE since[c]..clock

Published(s, slot) == s[Row(slot[1])].stage = "PUBLISHED"

\* requireActiveAllocation with assertActualMutationPlanOpen.  A unit's
\* member must still belong to it; a group's need not.
OpenFor(s, slot) ==
  /\ Life(s) = "ACTIVE"
  /\ Published(s, slot)
  /\ s[PlanDoc].subject = "ORG_UNIT" => s[Seat(slot[1])] = "ACTIVE"

HasEntry(s, slot) == s[Entry(slot)] # NoEntry
-----------------------------------------------------------------------------
\* effective: the value that counts; accepted: the entry version it is of.
NewEntry(v, reviewed) ==
  [life |-> IF reviewed THEN "UNDER_REVIEW" ELSE "ACCEPTED",
   effective |-> IF reviewed THEN 0 ELSE v,
   accepted |-> IF reviewed THEN 0 ELSE 1,
   version |-> 1, edits |-> 0, corrections |-> 0]

\* A correction that waits for review counts at once.
CorrectedAtOnce(e, v, review) ==
  [e EXCEPT !.version = @ + 1, !.corrections = @ + 1,
            !.life = IF review THEN "UNDER_REVIEW" ELSE "CORRECTED",
            !.effective = v]

\* insertCorrectionAndApply: the value counts unless it has to be reviewed.
Corrected(e, v, review) ==
  LET moved == [e EXCEPT !.version = @ + 1, !.corrections = @ + 1,
                  !.life = IF review THEN "UNDER_REVIEW" ELSE "CORRECTED"]
  IN IF review THEN moved
     ELSE [moved EXCEPT !.effective = v, !.accepted = e.version + 1]

CreateActual(c, slot, v) ==
  LET s == Seen(c) IN
  /\ Ready(c)
  /\ OpenFor(s, slot)
  /\ \E t \in Clocks(c) : DirectOpen(slot[2], t)
  /\ ~HasEntry(s, slot)
  /\ ~s[Excuse(slot)]
  /\ Commit(c, Entry(slot) :> NewEntry(v, s[PlanDoc].reviewed))

MarkExcuse(c, slot) ==
  LET s == Seen(c) IN
  /\ Ready(c)
  /\ OpenFor(s, slot)
  /\ ~HasEntry(s, slot)
  /\ Commit(c, Excuse(slot) :> TRUE)

RemoveExcuse(c, slot) ==
  LET s == Seen(c) IN
  /\ Ready(c)
  /\ OpenFor(s, slot)
  /\ s[Excuse(slot)]
  /\ Commit(c, Excuse(slot) :> FALSE)

\* updateKpiActualDirect, updateExistingActualDirect, updateEntryDirect.
UpdateActual(c, slot, v) ==
  LET s == Seen(c)
      e == s[Entry(slot)]
  IN
  /\ Ready(c)
  /\ OpenFor(s, slot)
  /\ HasEntry(s, slot)
  /\ \E t \in Clocks(c) : DirectOpen(slot[2], t)
  /\ ~s[PlanDoc].reviewed /\ e.life = "ACCEPTED"
  /\ ~s[Excuse(slot)]
  /\ e.edits < MaxDirectEdits
  /\ Commit(c, Entry(slot) :>
       [e EXCEPT !.effective = v, !.accepted = e.version + 1,
                 !.version = @ + 1, !.edits = @ + 1])

\* correctKpiActual, createActualCorrectionLineage, insertCorrectionAndApply.
CorrectActual(c, slot, v) ==
  LET s == Seen(c)
      e == s[Entry(slot)]
  IN
  /\ Ready(c)
  /\ OpenFor(s, slot)
  /\ HasEntry(s, slot)
  /\ ~s[Excuse(slot)]
  /\ e.corrections < CorrectionCap
  /\ \E t \in Clocks(c) :
       /\ Stage(slot[2], t) \in {"ORDINARY", "REVIEWED"}
       /\ Commit(c, Entry(slot) :>
            Corrected(e, v, s[PlanDoc].reviewed \/ Stage(slot[2], t) = "REVIEWED"))

\* A result of the entries that were never corrected.
FinalOfAccepted(s) ==
  [slot \in {x \in Slots : Published(s, x)} |->
     IF HasEntry(s, slot) /\ s[Entry(slot)].life = "ACCEPTED"
       THEN s[Entry(slot)].effective ELSE 0]

\* buildFinalResultSnapshot: a result for every published share, nothing for
\* a day without an entry.
FinalResult(s) ==
  [slot \in {x \in Slots : Published(s, x)} |->
     IF HasEntry(s, slot) THEN s[Entry(slot)].effective ELSE 0]

\* finalizeKpiPlan.  buildFinalResultSnapshot passes no session: it reads
\* what is committed while the transaction runs, not its snapshot.
Finalize(c) ==
  LET s == Seen(c) IN
  /\ Ready(c)
  /\ Life(s) = "ACTIVE"
  /\ LiveIn(s, {"PUBLISHED"})
  /\ \E t \in Clocks(c) : Finalizable(t)
  /\ \E outside \in {s, db} :
       Commit(c, PlanDoc :>
         [s[PlanDoc] EXCEPT !.life = "FINALIZED",
                            !.final = FinalResult(outside)])

\* The period passes.  Nothing but the actuals depends on the time, so the
\* clock of the model stands still until the plan is active.
Tick ==
  /\ Life(db) = "ACTIVE"
  /\ clock < LastDay + 4
  /\ clock' = clock + 1
  /\ UNCHANGED <<db, snap, missed, since>>
-----------------------------------------------------------------------------
Init ==
  /\ PlanInit
  /\ clock = 0
  /\ since = [c \in Clients |-> 0]

BeginTxn(c) ==
  /\ Begin(c)
  /\ since' = [since EXCEPT ![c] = clock]
  /\ UNCHANGED clock

SlotStep(c, slot) ==
  \/ MarkExcuse(c, slot) \/ RemoveExcuse(c, slot)
  \/ \E v \in Values : \/ CreateActual(c, slot, v)
                       \/ UpdateActual(c, slot, v)
                       \/ CorrectActual(c, slot, v)

ActualStep ==
  \E c \in Clients \cup {Now} :
    Finalize(c) \/ \E slot \in Slots : SlotStep(c, slot)

\* A transaction that ended leaves no start time.
Closed == since' = [c \in Clients |->
            IF snap'[c] = NoSnapshot THEN 0 ELSE since[c]]

Next ==
  \/ /\ PlanStep \/ ActualStep \/ \E c \in Clients : Abort(c)
     /\ Closed
     /\ UNCHANGED clock
  \/ \E c \in Clients : BeginTxn(c)
  \/ Tick

Spec == Init /\ [][Next]_vars
-----------------------------------------------------------------------------
RowType == [stage : Stages, share : 1..Target, version : Nat,
            set : SUBSET Members, born : Nat,
            by : Actors \cup {"none"}, checker : Actors \cup {"none"}]

EntryType == [life : {"ACCEPTED", "UNDER_REVIEW", "CORRECTED"},
              effective : Values \cup {0}, accepted : Nat, version : Nat,
              edits : Nat, corrections : Nat]

PlanLives == {"DRAFT", "RELEASED", "ACTIVE", "FINALIZED", "ARCHIVED"}

PlanType == [life : PlanLives, subject : {"TALENT_GROUP", "ORG_UNIT"},
             reviewed : BOOLEAN,
             final : UNION {[S -> Values \cup {0}] : S \in SUBSET Slots}]

StateOK(s) ==
  /\ s[PlanDoc] \in PlanType
  /\ \A m \in Members : /\ s[Row(m)] \in RowType \cup {NoRow}
                        /\ s[Seat(m)] \in {"ACTIVE", "LEFT"}
  /\ \A x \in Slots : /\ s[Entry(x)] \in EntryType \cup {NoEntry}
                      /\ s[Excuse(x)] \in BOOLEAN

\* The documents, of the database and of every open snapshot.
KpiTypeOK ==
  /\ StateOK(db)
  /\ \A c \in Clients : InTxn(c) => StateOK(snap[c])
  /\ clock \in Nat /\ since \in [Clients -> Nat]

\* Shares are published with the plan (PublishedTogether), and an actual
\* belongs to a published share for good: no handler that still sees the
\* division open takes the plan or the share from under it.
PublishedWithPlan ==
  /\ PublishedTogether
  /\ \A x \in Slots : HasEntry(db, x) => Published(db, x)

\* A plan that asks for review, or whose direct and ordinary windows for the
\* day were over when the handler began, changes no value that counts.
LateNeedsReview == [][\A x \in Slots :
  LET old == IF HasEntry(db, x) THEN db[Entry(x)].effective ELSE 0
      new == IF HasEntry(db', x) THEN db'[Entry(x)].effective ELSE 0
  IN new # old =>
       /\ ~db[PlanDoc].reviewed
       /\ \E c \in Clients \cup {Now} : \E t \in Clocks(c) :
            Ready(c) /\ Stage(x[2], t) \in {"DIRECT", "ORDINARY"}]_vars

\* A finalized plan has a result for exactly the published shares, although
\* the result is read outside the transaction; and "PLAN_FINALIZED"
\* (admin.kpi.service.ts:7428), until when corrections are allowed, is the end
\* of them: the frozen result comes to differ from the entries only when the
\* finalization and a correction overlap.
FinalCovers(s) == Life(s) = "FINALIZED" =>
  DOMAIN s[PlanDoc].final = {x \in Slots : Published(s, x)}

FinalHolds(s) == Life(s) = "FINALIZED" =>
  \A x \in DOMAIN s[PlanDoc].final : HasEntry(s, x) =>
    s[PlanDoc].final[x] = s[Entry(x)].effective

FinalPartsLate == [][
  /\ FinalCovers(db')
  /\ FinalHolds(db) /\ ~FinalHolds(db') => LateCommit]_vars
=============================================================================
