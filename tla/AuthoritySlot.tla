--------------------------- MODULE AuthoritySlot ---------------------------
(***************************************************************************)
(* Role assignments and the authority slots that keep them apart.  A slot  *)
(* stands for one user, role and scope; whoever assigns that role reserves *)
(* it, and a successor is scheduled in it before its predecessor ends.     *)
(* Nothing happens in a slot when time passes: who holds it is worked out  *)
(* from its record and the clock, as the effect of an assignment is from   *)
(* its own, and the two are written by different rules.                    *)
(*                                                                         *)
(* Every action is one transaction of the mutation bridge.  Two that write *)
(* one slot conflict and one of them is repeated (MutationBridge), so the  *)
(* version of a slot and its compare-and-set are left out, and so are its  *)
(* lineage and transition identities: the callers read the lineage from    *)
(* the slot itself, and make a new identity for each command.              *)
(***************************************************************************)
EXTENDS Naturals

CONSTANTS
  Ids,      \* assignments
  Slots,    \* pairs of role and scope, of one user
  MaxTime,  \* bound on the clock
  Ahead,    \* how far ahead an applied assignment may begin
  None

Never == MaxTime + 1   \* an absent time: no expiry, no cutover

ASSUME SlotAssumption ==
  /\ MaxTime \in Nat /\ Ahead \in Nat
  /\ Slots # {}
  /\ None \notin Ids

VARIABLES
  now,
  slot,     \* the record of each slot
  state,    \* the stored state of each assignment; "none" before its insert
  place,    \* its slot
  from,     \* effectiveAt
  until,    \* expiresAt
  overdue,  \* its review authority end has passed
  next,     \* lifecycle.successorAssignmentId
  nextAt    \* lifecycle.successorEffectiveAt

terms == <<place, from, until>>
links == <<next, nextAt>>
vars == <<now, slot, state, terms, overdue, links>>

Times == 0..MaxTime
Live == {"ACTIVE", "SCHEDULED", "SUSPENDED"}

Record == [status : {"absent", "RESERVED", "RELEASED"},
           cur : Ids \cup {None}, succ : Ids \cup {None},
           cutover : 0..Never, releaseAt : 0..Never, predReleaseAt : 0..Never]

\* A record without a successor.
Alone(status, holder, end) ==
  [status |-> status, cur |-> holder, succ |-> None, cutover |-> Never,
   releaseAt |-> end, predReleaseAt |-> Never]

Absent == Alone("absent", None, Never)

Init ==
  /\ now = 0
  /\ slot = [s \in Slots |-> Absent]
  /\ state = [a \in Ids |-> "none"]
  /\ place = [a \in Ids |-> CHOOSE s \in Slots : TRUE]
  /\ from = [a \in Ids |-> 0]
  /\ until = [a \in Ids |-> 0]
  /\ overdue = [a \in Ids |-> FALSE]
  /\ next = [a \in Ids |-> None]
  /\ nextAt = [a \in Ids |-> Never]

-----------------------------------------------------------------------------
(* The operational state of an assignment.                                 *)

Expired(a) == until[a] <= now
Superseded(a) == nextAt[a] <= now
Begun(a) == from[a] <= now

Effective(a) ==
  /\ state[a] \in {"ACTIVE", "SCHEDULED"}
  /\ Begun(a) /\ ~Expired(a) /\ ~Superseded(a) /\ ~overdue[a]

\* OPERATIONALLY_SUSPENDED comes before the cutover, OPERATIONALLY_EXPIRED
\* before both.
Suspended(a) == state[a] = "SUSPENDED" /\ ~Expired(a)

FutureScheduled(a) ==
  state[a] = "SCHEDULED" /\ ~Begun(a) /\ ~Expired(a) /\ ~Superseded(a)

ReviewBlocked(a) ==
  /\ state[a] \in {"ACTIVE", "SCHEDULED"}
  /\ Begun(a) /\ ~Expired(a) /\ ~Superseded(a) /\ overdue[a]

Retains(a) ==
  Effective(a) \/ Suspended(a) \/ FutureScheduled(a) \/ ReviewBlocked(a)

Manageable(a) == Retains(a) \/ (state[a] \in Live /\ Expired(a))

-----------------------------------------------------------------------------
(* The planners of a slot x.                                               *)

\* Who holds x at time t.
HolderAt(x, t) ==
  IF x.status # "RESERVED" \/ x.releaseAt <= t THEN None
  ELSE IF x.succ # None /\ x.cutover <= t THEN x.succ
  ELSE x.cur

\* The reservation continues that of the predecessor p.
Continues(x, p) ==
  /\ p # None
  /\ x.status = "RESERVED"
  /\ x.cur = p \/ (x.succ = p /\ x.cutover <= now)

CanReserve(x, p) ==
  Continues(x, p) \/ x.status # "RESERVED" \/ x.releaseAt <= now

\* Faulty variant: the cutover is stored without looking at the predecessor.
ReserveAnyCutover(x, a, p, c, end) ==
  [status |-> "RESERVED",
   cur |-> IF p = None THEN a ELSE p,
   succ |-> IF p = None THEN None ELSE a,
   cutover |-> c,
   releaseAt |-> end,
   predReleaseAt |-> IF Continues(x, p) THEN x.releaseAt ELSE Never]

\* x reserved for a until end; after the predecessor p, from c, if there is one.
Reserve(x, a, p, c, end) ==
  [status |-> "RESERVED",
   cur |-> IF p = None THEN a ELSE p,
   succ |-> IF p = None THEN None ELSE a,
   cutover |-> IF p = None THEN Never ELSE c,
   releaseAt |-> end,
   predReleaseAt |-> IF Continues(x, p) THEN x.releaseAt ELSE Never]

\* Faulty variant: clearing a scheduled successor releases the slot.
ReleaseAll(x, a) ==
  IF HolderAt(x, now) = None THEN x
  ELSE IF x.succ = a THEN Alone("RELEASED", a, now)
  ELSE IF x.cur = a /\ x.succ # None
    THEN IF x.cutover <= now THEN x ELSE Alone("RESERVED", x.succ, x.releaseAt)
  ELSE IF x.cur = a THEN Alone("RELEASED", a, now)
  ELSE x

\* Faulty variant: only the assignment that holds the slot now is released.
ReleaseHolder(x, a) ==
  IF HolderAt(x, now) # a THEN x
  ELSE IF x.cur = a /\ x.succ # None THEN Alone("RESERVED", x.succ, x.releaseAt)
  ELSE Alone("RELEASED", a, now)

\* x after its assignment a was revoked.
Release(x, a) ==
  IF x.status # "RESERVED" THEN x
  ELSE IF x.releaseAt <= now THEN Alone("RELEASED", x.cur, x.releaseAt)
  ELSE IF x.succ = a
    THEN IF x.cutover <= now THEN Alone("RELEASED", a, now)
                             ELSE Alone("RESERVED", x.cur, x.predReleaseAt)
  ELSE IF x.cur = a /\ x.succ # None
    THEN IF x.cutover <= now THEN x ELSE Alone("RESERVED", x.succ, x.releaseAt)
  ELSE IF x.cur = a THEN Alone("RELEASED", a, now)
  ELSE x

\* x can be promised for release when p, its effective holder, is replaced.
CanScheduleRelease(x, p) ==
  HolderAt(x, now) = p /\ x.succ \in {None, p}

ScheduleRelease(x, p, c) == Alone("RESERVED", p, c)

\* findOperationalAssignmentOccupant: what preview and apply take for a
\* duplicate in slot s, besides the ignored assignments.
Occupies(a) == Effective(a) \/ Suspended(a) \/ FutureScheduled(a)

Occupants(s, ignored) ==
  LET x == slot[s] IN
  {a \in Ids \ ignored :
     /\ Occupies(a)
     /\ IF x.status = "absent" THEN place[a] = s
        ELSE HolderAt(x, now) # None /\ a \in {HolderAt(x, now), x.succ}}

-----------------------------------------------------------------------------
(* The commands of the administrators.                                     *)

Insert(a, s, st, b, e) ==
  /\ state' = [state EXCEPT ![a] = st]
  /\ place' = [place EXCEPT ![a] = s]
  /\ from' = [from EXCEPT ![a] = b]
  /\ until' = [until EXCEPT ![a] = e]

\* Assign the role from b to e.  (To begin in the past is to begin now.)
Apply(a, s, b, e) ==
  /\ state[a] = "none" /\ now <= b /\ b <= now + Ahead /\ b < e
  /\ Occupants(s, {}) = {}
  /\ CanReserve(slot[s], None)
  /\ slot' = [slot EXCEPT ![s] = Reserve(slot[s], a, None, b, e)]
  /\ Insert(a, s, "ACTIVE", b, e)
  /\ UNCHANGED <<now, overdue, links>>

\* Faulty variant: the predecessor ends at once.
LinkNow(p, a, c) ==
  next' = [next EXCEPT ![p] = a] /\ nextAt' = [nextAt EXCEPT ![p] = now]

Link(p, a, c) ==
  next' = [next EXCEPT ![p] = a] /\ nextAt' = [nextAt EXCEPT ![p] = c]

\* Insert a, which succeeds p at c.  The time c was chosen when the request
\* was made, so it may be past, but not before p began.
Succeed(a, p, s, c, e) ==
  /\ state[a] = "none" /\ next[p] = None
  /\ from[p] <= c /\ c < e /\ now < e /\ e \in Times
  /\ Occupants(s, {p}) = {}
  /\ Insert(a, s, "SCHEDULED", c, e)
  /\ Link(p, a, c)
  /\ UNCHANGED <<now, overdue>>

\* Faulty variant: a gap may be left after the predecessor.
AnyTime(p, c) == TRUE

\* SUCCESSOR_EFFECTIVE_AT_EXCEEDS_PREDECESSOR_AUTHORITY_END, of the expiry.
WithinAuthority(p, c) == c <= until[p]

\* A renewal needs an expiry to renew.
Renew(a, p, c, e) ==
  /\ Effective(p) /\ until[p] # Never /\ WithinAuthority(p, c)
  /\ CanReserve(slot[place[p]], p)
  /\ Succeed(a, p, place[p], c, e)
  /\ slot' = [slot EXCEPT ![place[p]] = Reserve(slot[place[p]], a, p, c, e)]

\* A suspended assignment is restored as a successor of its own.
Restore(a, p, c, e) ==
  /\ Suspended(p)
  /\ CanReserve(slot[place[p]], p)
  /\ Succeed(a, p, place[p], c, e)
  /\ slot' = [slot EXCEPT ![place[p]] = Reserve(slot[place[p]], a, p, c, e)]

\* A replacement has another role or scope, and so another slot.
Replace(a, p, s, c, e) ==
  /\ Effective(p) /\ WithinAuthority(p, c) /\ s # place[p]
  /\ CanReserve(slot[s], None)
  /\ CanScheduleRelease(slot[place[p]], p)
  /\ Succeed(a, p, s, c, e)
  /\ slot' = [slot EXCEPT ![s] = Reserve(slot[s], a, None, c, e),
                          ![place[p]] = ScheduleRelease(slot[place[p]], p, c)]

Revoke(a) ==
  /\ Manageable(a)
  /\ state' = [state EXCEPT ![a] = "REVOKED"]
  /\ slot' = [slot EXCEPT ![place[a]] = Release(slot[place[a]], a)]
  /\ UNCHANGED <<now, terms, overdue, links>>

-----------------------------------------------------------------------------
(* Reviews, the deadline worker, time.                                     *)

\* A review is rejected, or the deadline worker finds the assignment expired
\* or overdue.  Neither touches the slot.
Suspend(a) ==
  /\ state[a] \in {"ACTIVE", "SCHEDULED"} /\ Begun(a) /\ ~Superseded(a)
  /\ state' = [state EXCEPT ![a] = "SUSPENDED"]
  /\ UNCHANGED <<now, slot, terms, overdue, links>>

\* The review authority end passes, or is moved by an approved review, a
\* grace exception or an edit of the role.
MoveReview(a) ==
  /\ state[a] \in Live
  /\ overdue' = [overdue EXCEPT ![a] = ~overdue[a]]
  /\ UNCHANGED <<now, slot, state, terms, links>>

Tick ==
  /\ now < MaxTime
  /\ now' = now + 1
  /\ UNCHANGED <<slot, state, terms, overdue, links>>

Next ==
  \/ \E a \in Ids, s \in Slots, b \in Times, e \in 1..Never : Apply(a, s, b, e)
  \/ \E a, p \in Ids, c \in Times, e \in Times :
       \/ Renew(a, p, c, e) \/ Restore(a, p, c, e)
       \/ \E s \in Slots : Replace(a, p, s, c, e)
  \/ \E a \in Ids : Revoke(a) \/ Suspend(a) \/ MoveReview(a)
  \/ Tick

Spec == Init /\ [][Next]_vars

-----------------------------------------------------------------------------
\* Assignments and slots are well formed: a slot names a successor together
\* with its cutover.
TypeOK ==
  /\ now \in Times
  /\ slot \in [Slots -> Record]
  /\ \A s \in Slots : slot[s].succ = None <=> slot[s].cutover = Never
  /\ state \in [Ids -> Live \cup {"none", "REVOKED"}]
  /\ place \in [Ids -> Slots]
  /\ from \in [Ids -> Times] /\ until \in [Ids -> 0..Never]
  /\ overdue \in [Ids -> BOOLEAN]
  /\ next \in [Ids -> Ids \cup {None}] /\ nextAt \in [Ids -> 0..Never]

\* As things stand, a has a claim to its slot at time t: to grant authority
\* or, suspended, to be restored.
Claims(a, t) ==
  state[a] \in Live /\ from[a] <= t /\ t < until[a] /\ t < nextAt[a]

\* The record of a slot foretells its assignments: whichever of them has a
\* claim at a time from now on is the holder the slot gives for that time.
\* So no two assignments of one role and scope have effect together, although
\* nothing happens in the slot at a cutover or an expiry.
SlotForetells ==
  \A a \in Ids : \A t \in now..MaxTime :
    Claims(a, t) => HolderAt(slot[place[a]], t) = a

\* No slot is, or ever comes to be, held by an assignment that was revoked,
\* whether it was revoked before its cutover, as a predecessor or after it.
RevokedHoldsNothing ==
  \A s \in Slots : \A t \in now..MaxTime :
    \A a \in Ids : HolderAt(slot[s], t) = a => state[a] # "REVOKED"

\* "exact-boundary different-slot handoff has no slot gap": from the start of
\* an assignment to the end of its successor exactly one of the two has a
\* claim.  (A restored assignment has had its gap.)
HandoverHasNoGap ==
  \A p, a \in Ids :
    /\ next[p] = a /\ state[p] \in {"ACTIVE", "SCHEDULED"} /\ state[a] \in Live
    => \A t \in Times :
         from[p] <= t /\ t < until[a] /\ t < nextAt[a]
         => (Claims(p, t) <=> ~Claims(a, t))

\* "Shared preview/apply duplicate occupancy contract": where no occupant is
\* found, an assignment can be applied.
FreeIsReservable ==
  \A s \in Slots : Occupants(s, {}) = {} => CanReserve(slot[s], None)

\* retainsAuthoritySlot, of the "canonical operational interpretation of
\* RoleAssignment persistence": a slot is held for an assignment that retains
\* it, now or as the scheduled successor.
HolderRetains ==
  \A s \in Slots : HolderAt(slot[s], now) # None =>
    \E a \in {HolderAt(slot[s], now), slot[s].succ} \ {None} : Retains(a)
=============================================================================
