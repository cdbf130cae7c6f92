------------------------------ MODULE KpiPlan ------------------------------
(***************************************************************************)
(* One monthly KPI plan and the division of its target over the members of *)
(* its subject: admin.kpi.service.ts with kpi.repository.ts.               *)
(*                                                                         *)
(* The plan goes DRAFT -> RELEASED -> ACTIVE -> FINALIZED, or ARCHIVED; a  *)
(* division is drafted, submitted, approved or sent back, and published.   *)
(* Every operation is a transaction (SnapshotTxn) that reads the plan and  *)
(* its rows; submit, review and draft write the rows only, archive the     *)
(* plan only.                                                              *)
(***************************************************************************)
EXTENDS Integers, FiniteSets, FiniteSetsExt, Functions

CONSTANTS Clients,
          Members,      \* members the plan's target can be divided over
          Actors,       \* users who submit and check
          Target,       \* the plan's target, a positive number of units
          Slots,        \* pairs <<member, day>> that actuals are entered for
          VersionCap    \* bound: allocationVersion up to which a draft is
                        \* edited and submissions are sent back

ASSUME KpiPlanAssumption ==
  /\ Target \in Nat \ {0}
  /\ VersionCap \in Nat
  /\ Slots \subseteq Members \X Nat
  /\ "none" \notin Actors

VARIABLES db, snap, missed

PlanDoc == <<"plan">>
Row(m) == <<"row", m>>            \* unique (kpiPlanId, member)
Seat(m) == <<"seat", m>>          \* the membership the row is checked against
Entry(s) == <<"entry", s>>        \* unique (plan, allocation, metric, date)
Excuse(s) == <<"excuse", s>>      \* unique among the excuses not deleted

Docs == {PlanDoc} \cup {Row(m) : m \in Members} \cup {Seat(m) : m \in Members}
          \cup {Entry(s) : s \in Slots} \cup {Excuse(s) : s \in Slots}

INSTANCE SnapshotTxn

-----------------------------------------------------------------------------
(* Rows.  stage stands for the pair allocationStatus:lifecycleStatus:      *)
(* PLAIN is DRAFT without a lifecycle, CHANGES is                          *)
(* REJECTED:CHANGES_REQUESTED, SUPERSEDED is REJECTED:SUPERSEDED.          *)
(***************************************************************************)
Stages == {"PLAIN", "DRAFT", "SUBMITTED", "APPROVED", "PUBLISHED", "CHANGES",
           "SUPERSEDED"}

NoRow == [stage |-> "none"]

\* share: units of the target; set and born: what membershipSnapshotVersion
\* is a fingerprint of.
NewRow(stage, share, version, set) ==
  [stage |-> stage, share |-> share, version |-> version, set |-> set,
   born |-> version, by |-> "none", checker |-> "none"]

Stored(s) == {m \in Members : s[Row(m)] # NoRow}
Live(s) == {m \in Stored(s) : s[Row(m)].stage # "SUPERSEDED"}

LiveIn(s, stages) == \A m \in Live(s) : s[Row(m)].stage \in stages

Version(s) == Max({s[Row(m)].version : m \in Live(s)} \cup {0})

\* assertKpiAllocationVersions: the caller's versions are the current ones
\* and all rows carry one membership snapshot.
OneSnapshot(s) == \A m, n \in Live(s) :
  s[Row(m)].set = s[Row(n)].set /\ s[Row(m)].born = s[Row(n)].born

\* validateAllocationsForTransition: one status, members still active.
Transferable(s) ==
  /\ Live(s) # {}
  /\ \A m, n \in Live(s) : s[Row(m)].stage = s[Row(n)].stage
  /\ \A m \in Live(s) : s[Seat(m)] = "ACTIVE"

\* Divisions each share of which is checked and the sum is not.
DivisionsUnsummed == UNION {[M -> 1..Target] : M \in (SUBSET Members) \ {{}}}

\* A division of the target: every listed member gets a share and, for the
\* allocation mode MEMBER_ALLOCATED, the shares add up exactly.
Divisions ==
  UNION {{f \in [M -> 1..Target] : SumFunction(f) = Target} :
           M \in (SUBSET Members) \ {{}}}

\* A transition that leaves allocationVersion alone.
MoveRowsUnversioned(s, rows, stage, by, checker) ==
  [d \in {Row(m) : m \in rows} |->
     [s[d] EXCEPT !.stage = stage,
                  !.by = IF by = "none" THEN @ ELSE by,
                  !.checker = IF checker = "none" THEN @ ELSE checker]]

MoveRows(s, rows, stage, by, checker) ==
  [d \in {Row(m) : m \in rows} |->
     [s[d] EXCEPT !.stage = stage, !.version = Version(s) + 1,
                  !.by = IF by = "none" THEN @ ELSE by,
                  !.checker = IF checker = "none" THEN @ ELSE checker]]

\* assertAdminKpiAllocationMakerChecker, and without it.
AnyoneMayCheck(s, a) == TRUE
MayCheck(s, a) == \A m \in Live(s) : s[Row(m)].by # a

Life(s) == s[PlanDoc].life

PutPlan(s, life) == PlanDoc :> [s[PlanDoc] EXCEPT !.life = life]
-----------------------------------------------------------------------------
(* Operations of the plan.                                                 *)

\* replaceKpiAllocations, on a draft plan: the rows get no lifecycle.  The
\* draft's core and metrics (updateKpiDraftCore, replaceKpiTargetMetrics)
\* write the plan document under the same guard, with no row.
ReplaceDraftAllocations(c, f) ==
  LET s == Seen(c) IN
  /\ Ready(c)
  /\ Life(s) = "DRAFT"
  /\ s[PlanDoc].subject = "TALENT_GROUP"
  /\ \A m \in DOMAIN f : s[Seat(m)] = "ACTIVE"
  /\ Commit(c, PutPlan(s, "DRAFT") @@
       [d \in {Row(m) : m \in Stored(s) \cup DOMAIN f} |->
          IF d[2] \in DOMAIN f
            THEN NewRow("PLAIN", f[d[2]], 0, {}) ELSE NoRow])

UpdateDraft(c) ==
  /\ Ready(c)
  /\ Life(Seen(c)) = "DRAFT"
  /\ Commit(c, PutPlan(Seen(c), "DRAFT"))

PublishPlan(c) ==
  /\ Ready(c)
  /\ Life(Seen(c)) = "DRAFT"
  /\ Commit(c, PutPlan(Seen(c), "RELEASED"))

ArchivePlan(c) ==
  LET s == Seen(c) IN
  /\ Ready(c)
  /\ Life(s) # "ARCHIVED"
  /\ s[PlanDoc].subject = "ORG_UNIT" => Life(s) = "DRAFT"
  /\ Commit(c, PutPlan(s, "ARCHIVED"))
-----------------------------------------------------------------------------
(* Operations of the division.                                             *)

\* upsertKpiAllocationDraft.  replaceAllocationsForPlan refuses any stored
\* row that is neither a draft nor sent back, superseded rows included; rows
\* sent back are kept as SUPERSEDED, and the unique index counts them.
UpsertDraft(c, f) ==
  LET s == Seen(c)
      sentBack == \E m \in Stored(s) : s[Row(m)].stage = "CHANGES"
      set == DOMAIN f
  IN
  /\ Ready(c)
  /\ Life(s) = "RELEASED"
  /\ LiveIn(s, {"DRAFT", "CHANGES"})
  /\ OneSnapshot(s)
  /\ \A m \in set : s[Seat(m)] = "ACTIVE"
  /\ \A m \in Stored(s) : s[Row(m)].stage \in {"DRAFT", "CHANGES"}
  /\ sentBack => set \cap Stored(s) = {}
  /\ ~sentBack => Version(s) < VersionCap
  /\ Commit(c,
       [d \in {Row(m) : m \in Stored(s) \cup set} |->
          IF d[2] \in set
            THEN NewRow("DRAFT", f[d[2]], Version(s) + 1, set)
          ELSE IF sentBack THEN [s[d] EXCEPT !.stage = "SUPERSEDED"]
          ELSE NoRow])

Submit(c, a) ==
  LET s == Seen(c) IN
  /\ Ready(c)
  /\ Life(s) = "RELEASED"
  /\ LiveIn(s, {"DRAFT", "CHANGES"})
  /\ OneSnapshot(s)
  /\ Transferable(s)
  /\ Commit(c, MoveRows(s, Live(s), "SUBMITTED", a, "none"))

\* approveKpiAllocation and rejectKpiAllocation (transitionAdminAllocationApproval).
Review(c, a, verdict) ==
  LET s == Seen(c) IN
  /\ Ready(c)
  /\ Life(s) = "RELEASED"
  /\ LiveIn(s, {"SUBMITTED"})
  /\ OneSnapshot(s)
  /\ Transferable(s)
  /\ MayCheck(s, a)
  /\ verdict = "CHANGES" => Version(s) <= VersionCap
  /\ Commit(c, MoveRows(s, Live(s), verdict, "none",
                        IF verdict = "APPROVED" THEN a ELSE "none"))

PublishAllocation(c) ==
  LET s == Seen(c) IN
  /\ Ready(c)
  /\ Life(s) = "RELEASED"
  /\ LiveIn(s, {"APPROVED"})
  /\ OneSnapshot(s)
  /\ Transferable(s)
  /\ Commit(c, MoveRows(s, Live(s), "PUBLISHED", "none", "none")
                 @@ PutPlan(s, "ACTIVE"))

\* Outside this service: a member leaves the group or the unit.
Leave(m) ==
  /\ db[Seat(m)] = "ACTIVE"
  /\ Commit(Now, Seat(m) :> "LEFT")
-----------------------------------------------------------------------------
NoEntry == [life |-> "none"]

PlanInit ==
  /\ \E subject \in {"TALENT_GROUP", "ORG_UNIT"}, reviewed \in BOOLEAN :
       db = [d \in Docs |->
         CASE d[1] = "plan" -> [life |-> "DRAFT", subject |-> subject,
                                reviewed |-> reviewed, final |-> <<>>]
           [] d[1] = "row" -> NoRow
           [] d[1] = "seat" -> "ACTIVE"
           [] d[1] = "entry" -> NoEntry
           [] d[1] = "excuse" -> FALSE]
  /\ TxnInit

PlanStep ==
  \/ \E c \in Clients \cup {Now} :
       \/ \E f \in Divisions : ReplaceDraftAllocations(c, f) \/ UpsertDraft(c, f)
       \/ UpdateDraft(c) \/ PublishPlan(c) \/ ArchivePlan(c)
       \/ \E a \in Actors : Submit(c, a)
       \/ \E a \in Actors, verdict \in {"APPROVED", "CHANGES"} :
            Review(c, a, verdict)
       \/ PublishAllocation(c)
  \/ \E m \in Members : Leave(m)
-----------------------------------------------------------------------------
(* Properties.                                                             *)

\* Drafting, submitting, checking and publishing move every row of a draft
\* together, and an approved or published share was checked by somebody other
\* than the user who submitted it (assertAdminKpiAllocationMakerChecker),
\* although submit and review are separate transactions, neither writes the
\* plan, and other drafts overlap.
MovesAsOne(m, n) ==
  /\ db[Row(m)].born = db[Row(n)].born
  /\ db[Row(m)].set = db[Row(n)].set
  => [db[Row(m)] EXCEPT !.share = 0] = [db[Row(n)] EXCEPT !.share = 0]

CheckedByAnother ==
  /\ \A m, n \in Stored(db) : MovesAsOne(m, n)
  /\ \A m \in Stored(db) : db[Row(m)].stage \in {"APPROVED", "PUBLISHED"} =>
       db[Row(m)].checker \notin {"none", db[Row(m)].by}

\* Rows are published only with the plan and the plan is active only with
\* published rows, although archive and publish write different documents.
PublishedTogether ==
  /\ \A m \in Stored(db) : db[Row(m)].stage = "PUBLISHED" =>
       Life(db) \in {"ACTIVE", "FINALIZED", "ARCHIVED"}
  /\ Life(db) = "ACTIVE" => \E m \in Live(db) : db[Row(m)].stage = "PUBLISHED"

\* What assertKpiAllocationVersions relies on: if the rows a transaction has
\* read carry the current version and the current membership snapshot, they
\* are the current rows, not others that reached the same number.
Versioned(s) ==
  Live(s) # {} /\ OneSnapshot(s) /\ LiveIn(s, Stages \ {"PLAIN"})

VersionNamesContent == \A c \in Clients :
  InTxn(c) /\ Versioned(db) /\ Versioned(snap[c])
    /\ Live(snap[c]) = Live(db) /\ Version(snap[c]) = Version(db)
    /\ (\A m \in Live(db) : db[Row(m)].set = snap[c][Row(m)].set
                             /\ db[Row(m)].born = snap[c][Row(m)].born)
  => \A m \in Live(db) : db[Row(m)] = snap[c][Row(m)]

\* The step is the commit of a transaction that missed another's.
LateCommit == \E c \in Clients : missed[c] # {} /\ InTxn(c) /\ ~InTxn(c)'

\* "KPI allocation ... is over-allocated" (kpi-allocation-lifecycle.ts:138):
\* the stored shares come to exceed the target only when two drafts overlap
\* that divide it over different members.
OverAllocated(s) ==
  MapThenSumSet(LAMBDA m : s[Row(m)].share, Live(s)) > Target

OverAllocatedLate == [][OverAllocated(db') /\ ~OverAllocated(db) => LateCommit]_txnVars
=============================================================================
