------------------------ MODULE AssignmentLifecycle ------------------------
(***************************************************************************)
(* When a role assignment has effect.  It begins, expires, is superseded,  *)
(* and ends when its review is overdue, each by the clock alone; how long  *)
(* a review may be overdue depends on the risk of the role, which edits of *)
(* the role change.  The rule is written twice: in TypeScript              *)
(* (role-assignment-lifecycle.ts, for administration) and as an expression *)
(* of MongoDB (user.auth.repository.ts, for every request and for the list *)
(* of the deadline worker).                                                *)
(*                                                                         *)
(* Around the rules: the commands that write what they read, each in one   *)
(* transaction (SnapshotTxn), and the worker, which lists with one rule    *)
(* and decides with the other.  The clock is a document nobody writes      *)
(* with others: a transaction goes by the time at which it began.          *)
(*                                                                         *)
(* Left out: who decides (their number is kept), and values no command of  *)
(* the repository stores, such as one half of a successor or a high risk   *)
(* without a deadline.                                                     *)
(***************************************************************************)
EXTENDS Integers, FiniteSets

CONSTANTS Clients,
          MaxTime,        \* bound on the clock and on the times asked for
          Terms,          \* what is applied for: <<effectiveAt, expiresAt, reviewAt>>
          Window,         \* what a review allows: 30 or 90 days, by role code
          DefaultGrace,   \* ACCESS_REVIEW_DEFAULT_GRACE_MS
          MaxGrace        \* ACCESS_REVIEW_MAXIMUM_GRACE_MS

VARIABLES db, snap, missed,
          due             \* what the worker has listed and not yet decided

vars == <<db, snap, missed, due>>

Clock == <<"clock">>
Role == <<"role">>
Assignment == <<"assignment">>
Cycle == <<"cycle">>            \* the review cycle the assignment names
Grace == <<"grace">>            \* the last exception asked for

Docs == {Clock, Role, Assignment, Cycle, Grace}

INSTANCE SnapshotTxn

Times == 0..MaxTime
Null == -1                      \* an absent time
Nothing == [state |-> "none"]

Passed(t, now) == t # Null /\ t <= now

Earliest(s, t) ==
  IF s = Null THEN t ELSE IF t = Null THEN s ELSE IF s <= t THEN s ELSE t
-----------------------------------------------------------------------------
(* The rule in TypeScript.                                                 *)

\* reviewDeadline of buildCurrentRoleAssignmentPolicy: that of the cycle if it
\* was set for the risk the role has, or else that of a new cycle.
PolicyDeadline(a, risk) ==
  IF a.review # Null /\ a.risk = risk THEN a.review
  ELSE IF risk = "HIGH" THEN a.from + Window
  ELSE Null

GraceEnd(deadline, exception) ==
  IF exception # Null /\ exception > deadline
    THEN Earliest(exception, deadline + MaxGrace)
    ELSE deadline + DefaultGrace

\* resolveReviewAuthorityEnd: the higher of both risks, the earlier of both
\* deadlines.
AuthorityEnd(a, risk) ==
  LET deadline == Earliest(a.review, PolicyDeadline(a, risk)) IN
  IF deadline = Null THEN Null
  ELSE IF "HIGH" \in {a.risk, risk} THEN deadline
  ELSE GraceEnd(deadline, a.grace)

Overdue(a, risk, now) == Passed(AuthorityEnd(a, risk), now)

\* The reason of evaluateRoleAssignmentEffectiveness: the first that applies.
Reason(a, risk, now) ==
  CASE a.state \notin {"ACTIVE", "SCHEDULED"} -> "INVALID_STATE"
    [] OTHER ->
  CASE Passed(a.nextAt, now) -> "SUPERSEDED_AT_CUTOVER"
    [] OTHER ->
  CASE a.from > now -> "NOT_YET_EFFECTIVE"
    [] OTHER ->
  CASE Passed(a.until, now) -> "EXPIRED"
    [] OTHER ->
  IF Overdue(a, risk, now) THEN "REVIEW_OVERDUE" ELSE "EFFECTIVE"

Effective(a, risk, now) == Reason(a, risk, now) = "EFFECTIVE"

\* nextTransitionAt, the earliest of these.
NextChanges(a, risk, now) ==
  {t \in {a.until, AuthorityEnd(a, risk), a.from, a.nextAt} : t > now}

\* OPERATIONALLY_SUSPENDED of resolveRoleAssignmentOperationalState.
Suspended(a, now) == a.state = "SUSPENDED" /\ ~Passed(a.until, now)
-----------------------------------------------------------------------------
(* The rule in MongoDB.                                                    *)

\* buildCurrentRoleReviewDeadlineExpression.
RoleDeadline(a, risk) ==
  IF a.review # Null /\ (IF a.risk = "none" THEN "HIGH" ELSE a.risk) = risk
    THEN a.review
  ELSE IF risk = "HIGH" THEN a.from + Window
  ELSE Null

\* Faulty variant: the grace of the risk the role has now.
ReviewEndOfRole(a, risk) ==
  LET deadline == RoleDeadline(a, risk) IN
  IF deadline = Null THEN Null
  ELSE IF risk = "LOW" THEN GraceEnd(deadline, Null)
  ELSE deadline

\* buildRoleAssignmentReviewAuthorityEndExpression.
ReviewEnd(a, risk) ==
  LET deadline == RoleDeadline(a, risk) IN
  IF deadline = Null THEN Null
  ELSE IF a.risk = "LOW" /\ risk = "LOW" THEN GraceEnd(deadline, a.grace)
  ELSE deadline

\* buildCurrentlyEffectiveRoleAssignmentExpression.
Granted(a, risk, now) ==
  /\ a.state \in {"ACTIVE", "SCHEDULED"}
  /\ ~Passed(a.nextAt, now)
  /\ a.from <= now
  /\ ~Passed(a.until, now)
  /\ ~Passed(ReviewEnd(a, risk), now)

\* Faulty variant: the end of the review is forgotten.
TransitionsButReview(a, risk, now) ==
  IF a.state \in {"ACTIVE", "SCHEDULED"}
    THEN {t \in {a.from, a.until, a.nextAt} : t > now}
    ELSE {}

\* buildNextRoleAssignmentLifecycleTransitionLookup: the earliest of these is
\* how long a request's actor may be cached.
Transitions(a, risk, now) ==
  IF a.state \in {"ACTIVE", "SCHEDULED"}
    THEN {t \in {a.from, a.until, a.nextAt, ReviewEnd(a, risk)} : t > now}
    ELSE {}
-----------------------------------------------------------------------------
(* The commands.                                                           *)

Init ==
  /\ db \in {[d \in Docs |-> IF d = Clock THEN 0
                             ELSE IF d = Role THEN risk ELSE Nothing] :
               risk \in {"LOW", "HIGH"}}
  /\ TxnInit
  /\ due = {}

Tick ==
  /\ db[Clock] < MaxTime
  /\ Commit("now", Clock :> db[Clock] + 1)
  /\ UNCHANGED due

\* validateSensitiveAccessLifecycle and assertAssignmentDates.
Reviewable(risk, from, until, review) ==
  /\ until # Null => until > from
  /\ review # Null => review >= from
  /\ risk = "HIGH" => review # Null /\ review <= from + Window

\* An assignment without a review has no lifecycle, and so no risk on record.
Apply(c, from, until, review) ==
  LET s == Seen(c) IN
  /\ Ready(c)
  /\ db[Assignment] = Nothing
  /\ Reviewable(s[Role], from, until, review)
  /\ Commit(c,
       Assignment :> [state |-> "ACTIVE", from |-> from, until |-> until,
                      review |-> review, grace |-> Null, nextAt |-> Null,
                      risk |-> IF review = Null THEN "none" ELSE s[Role],
                      cycle |-> IF review = Null THEN 0 ELSE 1]
       @@ IF review = Null THEN <<>>
          ELSE Cycle :> [state |-> "PENDING", id |-> 1, deadline |-> review,
                         approvals |-> 0])
  /\ UNCHANGED due

\* setRolePermissions: what the role permits decides how risky it is.
SetRolePermissions(c, risk) ==
  /\ Ready(c)
  /\ risk # Seen(c)[Role]
  /\ Commit(c, Role :> risk)
  /\ UNCHANGED due

\* resolveCurrentLifecycleActionContext.
ActionDeadline(s) ==
  Earliest(s[Cycle].deadline, PolicyDeadline(s[Assignment], s[Role]))

CyclePending(s) ==
  /\ s[Assignment] # Nothing /\ s[Cycle].state = "PENDING"
  /\ s[Assignment].cycle = s[Cycle].id
  /\ s[Assignment].review = s[Cycle].deadline

InEffect(s) == Effective(s[Assignment], s[Role], s[Clock])

ReviewEligible(s) ==
  CyclePending(s) /\ (InEffect(s) \/ Suspended(s[Assignment], s[Clock]))

GraceEligible(s) == CyclePending(s) /\ InEffect(s) /\ s[Role] = "LOW"

RejectReview(c) ==
  LET s == Seen(c) IN
  /\ Ready(c)
  /\ ReviewEligible(s)
  /\ Commit(c, Cycle :> [s[Cycle] EXCEPT !.state = "REJECTED"]
                 @@ Assignment :> [s[Assignment] EXCEPT !.state = "SUSPENDED"])
  /\ UNCHANGED due

Required(risk) == IF risk = "HIGH" THEN 2 ELSE 1

\* Of several approvers, one that is not the last.
ApproveInPart(c) ==
  LET s == Seen(c) IN
  /\ Ready(c)
  /\ ReviewEligible(s)
  /\ s[Cycle].approvals + 1 < Required(s[Role])
  /\ Commit(c, Cycle :> [s[Cycle] EXCEPT !.approvals = @ + 1])
  /\ UNCHANGED due

\* The last approver chooses the next review, for the risk the role has.
RenewReview(c, review) ==
  LET s == Seen(c)
      a == s[Assignment] IN
  /\ Ready(c)
  /\ ReviewEligible(s)
  /\ s[Cycle].approvals + 1 >= Required(s[Role])
  /\ review > s[Clock]
  /\ review <= ActionDeadline(s) + Window
  /\ a.until # Null => review <= a.until
  /\ a.nextAt # Null => review <= a.nextAt
  /\ Commit(c,
       Assignment :> [a EXCEPT !.review = review, !.cycle = @ + 1,
                               !.risk = s[Role], !.grace = Null]
       @@ Cycle :> [state |-> "PENDING", id |-> s[Cycle].id + 1,
                    deadline |-> review, approvals |-> 0])
  /\ UNCHANGED due

\* validateGraceException.
GraceValid(s, until) ==
  /\ until > ActionDeadline(s) + DefaultGrace
  /\ until <= ActionDeadline(s) + MaxGrace

\* Bound: one request is open at a time.
RequestGrace(c, until) ==
  LET s == Seen(c) IN
  /\ Ready(c)
  /\ GraceEligible(s) /\ GraceValid(s, until)
  /\ s[Grace].state # "PENDING"
  /\ Commit(c, Grace :> [state |-> "PENDING", cycle |-> s[Cycle].id, until |-> until])
  /\ UNCHANGED due

DecideGrace(c, decision) ==
  LET s == Seen(c) IN
  /\ Ready(c)
  /\ s[Grace].state = "PENDING" /\ s[Grace].cycle = s[Cycle].id
  /\ GraceEligible(s) /\ GraceValid(s, s[Grace].until)
  /\ Commit(c, Grace :> [s[Grace] EXCEPT !.state = decision]
       @@ IF decision = "APPROVED"
          THEN Assignment :> [s[Assignment] EXCEPT !.grace = s[Grace].until]
          ELSE <<>>)
  /\ UNCHANGED due

\* A renewal or replacement begins before the authority of its predecessor is
\* to change; a restoration follows a suspended one.
ScheduleSuccessor(c, at) ==
  LET s == Seen(c)
      a == s[Assignment] IN
  /\ Ready(c)
  /\ a # Nothing
  /\ a.nextAt = Null /\ at >= a.from
  /\ \/ InEffect(s) /\ \A t \in NextChanges(a, s[Role], s[Clock]) : at <= t
     \/ Suspended(a, s[Clock])
  /\ Commit(c, Assignment :> [a EXCEPT !.nextAt = at])
  /\ UNCHANGED due
-----------------------------------------------------------------------------
(* The deadline worker.                                                    *)

\* Faulty variant: the list names what is to be suspended later.
CandidatesAhead(a, risk, now) ==
  LET deadline == Earliest(a.until, ReviewEnd(a, risk)) IN
  IF /\ a.state \in {"ACTIVE", "SCHEDULED"} /\ a.from <= now
     /\ ~Passed(a.nextAt, now) /\ deadline # Null
    THEN {[deadline |-> deadline, cycle |-> a.cycle,
           why |-> IF deadline = a.until THEN "EXPIRY" ELSE "REVIEW"]}
    ELSE {}

\* listDueLifecycleTransitionCandidates.
Candidates(a, risk, now) ==
  LET deadline == Earliest(a.until, ReviewEnd(a, risk)) IN
  IF /\ a.state \in {"ACTIVE", "SCHEDULED"} /\ a.from <= now
     /\ ~Passed(a.nextAt, now) /\ Passed(deadline, now)
    THEN {[deadline |-> deadline, cycle |-> a.cycle,
           why |-> IF deadline = a.until THEN "EXPIRY" ELSE "REVIEW"]}
    ELSE {}

Listed(s) == IF s[Assignment] = Nothing THEN {}
             ELSE Candidates(s[Assignment], s[Role], s[Clock])

\* The read that lists is not part of a transaction.
ListDue ==
  /\ due = {}
  /\ due' = Listed(db)
  /\ due' # {}
  /\ UNCHANGED <<db, snap, missed>>

\* transitionStillDue.  A cycle is compared where there is one.
StillDue(s, candidate) ==
  LET a == s[Assignment]
      reason == Reason(a, s[Role], s[Clock]) IN
  IF candidate.why = "EXPIRY"
    THEN reason = "EXPIRED" /\ a.until = candidate.deadline
    ELSE /\ candidate.cycle # 0 => a.cycle = candidate.cycle
         /\ reason = "REVIEW_OVERDUE"
         /\ AuthorityEnd(a, s[Role]) = candidate.deadline

Materialize(c) == \E candidate \in due :
  LET s == Seen(c) IN
  /\ Ready(c)
  /\ StillDue(s, candidate)
  /\ Commit(c, Assignment :> [s[Assignment] EXCEPT !.state = "SUSPENDED"])
  /\ due' = {}

\* markExplicitNoOpSuccess: the transaction ends without a write.
LeaveAlone(c) == \E candidate \in due :
  /\ Ready(c)
  /\ ~StillDue(Seen(c), candidate)
  /\ IF c = Now THEN UNCHANGED <<db, snap, missed>> ELSE Abort(c)
  /\ due' = {}
-----------------------------------------------------------------------------
Operation(c) ==
  \/ \E t \in Terms : Apply(c, t[1], t[2], t[3])
  \/ \E risk \in {"LOW", "HIGH"} : SetRolePermissions(c, risk)
  \/ RejectReview(c)
  \/ ApproveInPart(c)
  \/ \E t \in Times : RenewReview(c, t)
  \/ \E t \in Times : RequestGrace(c, t)
  \/ \E decision \in {"APPROVED", "REJECTED"} : DecideGrace(c, decision)
  \/ \E t \in Times : ScheduleSuccessor(c, t)
  \/ Materialize(c)
  \/ LeaveAlone(c)

Next ==
  \/ Tick
  \/ ListDue
  \/ \E c \in Clients \cup {Now} : Operation(c)
  \/ \E c \in Clients : Begin(c) /\ UNCHANGED due
  \/ \E c \in Clients : Abort(c) /\ UNCHANGED due

Spec == Init /\ [][Next]_vars
-----------------------------------------------------------------------------
(* Properties.                                                             *)

\* The risk of the role is not the one on record.
RiskMoved == db[Assignment].risk \notin {"none", db[Role]}

\* At all times, what administration takes for effective is granted, and until
\* the risk of the role changes after it was put on record, what is granted is
\* taken for effective: the two rules are one.  After such a change a request
\* may be granted what administration shows as overdue.
RulesAgree == db[Assignment] # Nothing =>
  LET a == db[Assignment]
      risk == db[Role] IN
  \A t \in Times :
    /\ Effective(a, risk, t) => Granted(a, risk, t)
    /\ Granted(a, risk, t) /\ ~RiskMoved => Effective(a, risk, t)

\* What a request is granted stays as it is until the first of the transitions
\* that are looked up with it, so that an actor may be cached until then.
TransitionsForetell == db[Assignment] # Nothing =>
  LET a == db[Assignment]
      risk == db[Role]
      now == db[Clock] IN
  \A t \in now..MaxTime :
    (\A n \in Transitions(a, risk, now) : t < n) =>
      (Granted(a, risk, t) <=> Granted(a, risk, now))

\* The step ends a transaction that missed another's commit.
LateStep == \E c \in Clients : missed[c] # {} /\ InTxn(c) /\ ~InTxn(c)'

\* The assignment has expired and its review is overdue.
BothEnded ==
  LET a == db[Assignment] IN
  Passed(a.until, db[Clock]) /\ Passed(AuthorityEnd(a, db[Role]), db[Clock])

SuspendedByWorker == due # {} /\ due' = {} /\ db'[Assignment] # db[Assignment]
LeftByWorker == due # {} /\ due' = {} /\ db' = db

\* "authorityAlreadyRequestTimeIneffective": the worker suspends what no request
\* is granted any more, and what it lists it suspends.  It errs only when the
\* risk of the role has moved or an edit overtakes it, and it leaves for good
\* what has expired as well by the time it comes.
WorkerEndsWhatEndedStep ==
  /\ SuspendedByWorker =>
       RiskMoved \/ LateStep \/ ~Granted(db[Assignment], db[Role], db[Clock])
  /\ LeftByWorker =>
       RiskMoved \/ LateStep \/ BothEnded \/ Listed(db) # due
WorkerEndsWhatEnded == [][WorkerEndsWhatEndedStep]_vars
=============================================================================
