------------------------ MODULE AuthoritySlotProofs ------------------------
(***************************************************************************)
(* The invariants of AuthoritySlot for any number of assignments and       *)
(* slots, any clock and any notice an assignment is given ahead.           *)
(***************************************************************************)
EXTENDS AuthoritySlot, TLAPS

-----------------------------------------------------------------------------
(* Type correctness.                                                       *)

\* A record names a successor together with its cutover.
Paired(x) == x.succ = None <=> x.cutover = Never

\* The times of the actions are times of the variables.
LEMMA TimeType ==
  /\ Never \in 0..Never /\ 0 \in Times
  /\ \A t \in Times : t \in 0..Never /\ t # Never
  /\ \A t \in 1..Never : t \in 0..Never
BY SlotAssumption DEF Never, Times

\* A record without a successor is well formed.
LEMMA AloneType ==
  ASSUME NEW st \in {"absent", "RESERVED", "RELEASED"},
         NEW h \in Ids \cup {None}, NEW e \in 0..Never
  PROVE  Alone(st, h, e) \in Record /\ Paired(Alone(st, h, e))
BY TimeType DEF Alone, Record, Paired

\* So is a reservation.
LEMMA ReserveType ==
  ASSUME NEW x \in Record, NEW a \in Ids, NEW p \in Ids \cup {None},
         NEW c \in Times, NEW e \in 0..Never
  PROVE  Reserve(x, a, p, c, e) \in Record /\ Paired(Reserve(x, a, p, c, e))
BY TimeType, SlotAssumption DEF Reserve, Record, Paired

\* So is what a revocation leaves.
LEMMA ReleaseType ==
  ASSUME NEW x \in Record, Paired(x), NEW a \in Ids, now \in Times
  PROVE  Release(x, a) \in Record /\ Paired(Release(x, a))
<1>1. /\ x.cur \in Ids \cup {None} /\ x.succ \in Ids \cup {None}
      /\ x.releaseAt \in 0..Never /\ x.predReleaseAt \in 0..Never
      /\ now \in 0..Never
  BY TimeType DEF Record
<1> DEFINE Kept(y) == y \in Record /\ Paired(y)
<1>2. /\ Kept(x) /\ Kept(Alone("RELEASED", x.cur, x.releaseAt))
      /\ Kept(Alone("RELEASED", a, now))
      /\ Kept(Alone("RESERVED", x.cur, x.predReleaseAt))
      /\ Kept(Alone("RESERVED", x.succ, x.releaseAt))
  BY <1>1, AloneType
<1> QED
  BY <1>2 DEF Release

\* The initial state is well formed.
LEMMA InitType == Init => TypeOK
<1> SUFFICES ASSUME Init PROVE TypeOK
  OBVIOUS
<1>1. Absent \in Record /\ Paired(Absent)
  BY AloneType, TimeType DEF Absent
<1>2. (CHOOSE s \in Slots : TRUE) \in Slots
  BY SlotAssumption
<1> QED
  BY <1>1, <1>2, TimeType DEF Init, TypeOK, Record, Paired, Live

\* An insertion keeps the assignments well formed.
LEMMA InsertType ==
  ASSUME TypeOK, NEW a \in Ids, NEW s \in Slots, NEW b \in Times,
         NEW e \in 0..Never, NEW st \in Live, Insert(a, s, st, b, e)
  PROVE  /\ state' \in [Ids -> Live \cup {"none", "REVOKED"}]
         /\ place' \in [Ids -> Slots]
         /\ from' \in [Ids -> Times] /\ until' \in [Ids -> 0..Never]
BY DEF TypeOK, Insert

\* A slot that gets a well-formed record leaves the slots well formed.
LEMMA SlotType ==
  ASSUME TypeOK, NEW s \in Slots, NEW x \in Record, Paired(x),
         slot' = [slot EXCEPT ![s] = x]
  PROVE  /\ slot' \in [Slots -> Record]
         /\ \A r \in Slots : slot'[r].succ = None <=> slot'[r].cutover = Never
BY DEF TypeOK, Paired

\* A succession keeps the assignments well formed.
LEMMA SucceedType ==
  ASSUME TypeOK, NEW a \in Ids, NEW p \in Ids, NEW s \in Slots,
         NEW c \in Times, NEW e \in Times, Succeed(a, p, s, c, e),
         slot' \in [Slots -> Record],
         \A r \in Slots : slot'[r].succ = None <=> slot'[r].cutover = Never
  PROVE  TypeOK'
<1>1. Insert(a, s, "SCHEDULED", c, e) /\ Link(p, a, c) /\ UNCHANGED <<now, overdue>>
  BY DEF Succeed
<1>2. /\ state' \in [Ids -> Live \cup {"none", "REVOKED"}]
      /\ place' \in [Ids -> Slots]
      /\ from' \in [Ids -> Times] /\ until' \in [Ids -> 0..Never]
  BY <1>1, TimeType, InsertType DEF Live
<1>3. next' \in [Ids -> Ids \cup {None}] /\ nextAt' \in [Ids -> 0..Never]
  BY <1>1, TimeType DEF TypeOK, Link
<1> QED
  BY <1>1, <1>2, <1>3 DEF TypeOK

\* Every step keeps the state well formed.
LEMMA NextType == TypeOK /\ [Next]_vars => TypeOK'
<1> SUFFICES ASSUME TypeOK, [Next]_vars PROVE TypeOK'
  OBVIOUS
<1>0. \A s \in Slots : slot[s] \in Record /\ Paired(slot[s])
  BY DEF TypeOK, Paired
<1>1. ASSUME NEW a \in Ids, NEW s \in Slots, NEW b \in Times, NEW e \in 1..Never,
             Apply(a, s, b, e)
      PROVE  TypeOK'
  <2> DEFINE x == Reserve(slot[s], a, None, b, e)
  <2>1. x \in Record /\ Paired(x)
    BY <1>0, TimeType, ReserveType
  <2>2. slot' = [slot EXCEPT ![s] = x] /\ Insert(a, s, "ACTIVE", b, e)
    BY <1>1 DEF Apply
  <2> HIDE DEF x
  <2>3. /\ slot' \in [Slots -> Record]
        /\ \A r \in Slots : slot'[r].succ = None <=> slot'[r].cutover = Never
    BY <2>1, <2>2, SlotType
  <2>4. /\ state' \in [Ids -> Live \cup {"none", "REVOKED"}]
        /\ place' \in [Ids -> Slots]
        /\ from' \in [Ids -> Times] /\ until' \in [Ids -> 0..Never]
    BY <2>2, TimeType, InsertType DEF Live
  <2> QED
    BY <1>1, <2>3, <2>4 DEF Apply, TypeOK, links
<1>2. ASSUME NEW a \in Ids, NEW p \in Ids, NEW c \in Times, NEW e \in Times,
             Renew(a, p, c, e) \/ Restore(a, p, c, e)
      PROVE  TypeOK'
  <2> DEFINE x == Reserve(slot[place[p]], a, p, c, e)
  <2>1. place[p] \in Slots
    BY DEF TypeOK
  <2>2. x \in Record /\ Paired(x)
    BY <1>0, <2>1, TimeType, ReserveType
  <2>3. slot' = [slot EXCEPT ![place[p]] = x] /\ Succeed(a, p, place[p], c, e)
    BY <1>2 DEF Renew, Restore
  <2> HIDE DEF x
  <2>4. /\ slot' \in [Slots -> Record]
        /\ \A r \in Slots : slot'[r].succ = None <=> slot'[r].cutover = Never
    BY <2>1, <2>2, <2>3, SlotType
  <2> QED
    BY <2>1, <2>3, <2>4, SucceedType
<1>3. ASSUME NEW a \in Ids, NEW p \in Ids, NEW s \in Slots,
             NEW c \in Times, NEW e \in Times, Replace(a, p, s, c, e)
      PROVE  TypeOK'
  <2> DEFINE x == Reserve(slot[s], a, None, c, e)
             y == ScheduleRelease(slot[place[p]], p, c)
  <2>1. x \in Record /\ Paired(x)
    BY <1>0, TimeType, ReserveType
  <2>2. y \in Record /\ Paired(y)
    BY TimeType, AloneType DEF ScheduleRelease
  <2>3. /\ slot' = [slot EXCEPT ![s] = x, ![place[p]] = y]
        /\ Succeed(a, p, s, c, e)
    BY <1>3 DEF Replace
  <2> HIDE DEF x, y
  <2>4. /\ slot' \in [Slots -> Record]
        /\ \A r \in Slots : slot'[r].succ = None <=> slot'[r].cutover = Never
    BY <2>1, <2>2, <2>3 DEF TypeOK, Paired
  <2> QED
    BY <2>3, <2>4, SucceedType
<1>4. ASSUME NEW a \in Ids, Revoke(a)
      PROVE  TypeOK'
  <2> DEFINE x == Release(slot[place[a]], a)
  <2>1. place[a] \in Slots /\ now \in Times
    BY DEF TypeOK
  <2>2. x \in Record /\ Paired(x)
    BY <1>0, <2>1, ReleaseType
  <2>3. slot' = [slot EXCEPT ![place[a]] = x]
    BY <1>4 DEF Revoke
  <2> HIDE DEF x
  <2>4. /\ slot' \in [Slots -> Record]
        /\ \A r \in Slots : slot'[r].succ = None <=> slot'[r].cutover = Never
    BY <2>1, <2>2, <2>3, SlotType
  <2> QED
    BY <1>4, <2>4 DEF Revoke, TypeOK, terms, links
<1>5. ASSUME NEW a \in Ids, Suspend(a) \/ MoveReview(a)
      PROVE  TypeOK'
  BY <1>5 DEF Suspend, MoveReview, TypeOK, terms, links, Live
<1>6. CASE Tick
  BY <1>6, SlotAssumption DEF Tick, TypeOK, terms, links, Times
<1>7. CASE UNCHANGED vars
  BY <1>7 DEF vars, TypeOK, terms, links
<1> QED
  BY <1>1, <1>2, <1>3, <1>4, <1>5, <1>6, <1>7 DEF Next

\* The state is always well formed.
THEOREM TypeCorrect == Spec => []TypeOK
BY InitType, NextType, PTL DEF Spec

-----------------------------------------------------------------------------
(* The inductive invariant.  That the slot foretells its assignments does  *)
(* not hold by itself: what a revocation leaves depends on the assignments *)
(* a record names, and a succession on the predecessor having none yet.    *)

\* A record names existing assignments of its slot, and a successor beside
\* its predecessor.
SlotNames ==
  \A s \in Slots :
    /\ slot[s].cur # None => state[slot[s].cur] # "none" /\ place[slot[s].cur] = s
    /\ slot[s].succ # None =>
         /\ state[slot[s].succ] # "none" /\ place[slot[s].succ] = s
         /\ slot[s].cur # None /\ slot[s].cur # slot[s].succ
         /\ next[slot[s].cur] = slot[s].succ
         /\ slot[s].cutover < slot[s].releaseAt

\* If the successor is cleared, the predecessor has its slot long enough.
PredecessorKept ==
  \A s \in Slots : slot[s].succ # None =>
    \A t \in now..MaxTime :
      Claims(slot[s].cur, t) => t < slot[s].predReleaseAt

\* A successor begins when its predecessor ends, and not before that began.
Linked ==
  \A p \in Ids :
    /\ next[p] = None => nextAt[p] = Never
    /\ next[p] # None =>
         /\ state[p] # "none" /\ state[next[p]] # "none"
         /\ from[next[p]] = nextAt[p] /\ from[p] <= nextAt[p]
         /\ state[p] \in {"ACTIVE", "SCHEDULED"} => nextAt[p] <= until[p]

SuspendedBegun == \A a \in Ids : state[a] = "SUSPENDED" => from[a] <= now

IInv ==
  /\ TypeOK /\ SlotNames /\ PredecessorKept /\ Linked /\ SuspendedBegun
  /\ SlotForetells /\ RevokedHoldsNothing

\* Whoever holds a slot is one of the two assignments its record names.
LEMMA HolderNamed ==
  ASSUME NEW x, NEW t
  PROVE  HolderAt(x, t) \in {None, x.cur, x.succ}
BY DEF HolderAt

\* Nobody has a claim to a slot that can be reserved by anybody.
LEMMA FreeSlot ==
  ASSUME IInv, NEW s \in Slots, CanReserve(slot[s], None),
         NEW b \in Ids, place[b] = s, NEW t \in now..MaxTime
  PROVE  ~Claims(b, t)
<1>1. slot[s].status # "RESERVED" \/ slot[s].releaseAt <= now
  BY DEF CanReserve, Continues
<1>2. slot[s].releaseAt <= now => slot[s].releaseAt <= t
  BY SlotAssumption DEF IInv, TypeOK, Record, Never, Times
<1>3. HolderAt(slot[s], t) = None
  BY <1>1, <1>2 DEF HolderAt
<1> QED
  BY <1>3, SlotAssumption DEF IInv, SlotForetells

\* A predecessor with a claim holds its slot alone.
LEMMA PredecessorAlone ==
  ASSUME IInv, NEW p \in Ids, next[p] = None, Claims(p, now)
  PROVE  /\ Continues(slot[place[p]], p)
         /\ slot[place[p]].succ \in {None, p}
         /\ \A b \in Ids : \A t \in now..MaxTime :
              place[b] = place[p] /\ Claims(b, t)
              => b = p /\ t < slot[place[p]].releaseAt
<1> DEFINE x == slot[place[p]]
<1>0. place[p] \in Slots /\ now \in now..MaxTime /\ p # None
  BY SlotAssumption DEF IInv, TypeOK, Times
<1>1. HolderAt(x, now) = p
  BY <1>0 DEF IInv, SlotForetells
<1>2. x.status = "RESERVED" /\ ~(x.releaseAt <= now)
  BY <1>0, <1>1 DEF HolderAt
<1>3. \/ x.succ = p /\ x.cutover <= now
      \/ x.cur = p /\ ~(x.succ # None /\ x.cutover <= now)
  BY <1>1, <1>2 DEF HolderAt
<1>4. x.cur = p => x.succ = None
  BY <1>0 DEF IInv, SlotNames
<1>5. Continues(x, p) /\ x.succ \in {None, p}
  BY <1>0, <1>2, <1>3, <1>4 DEF Continues
<1>6. ASSUME NEW b \in Ids, NEW t \in now..MaxTime,
             place[b] = place[p], Claims(b, t)
      PROVE  b = p /\ t < x.releaseAt
  <2>1. HolderAt(x, t) = b /\ b # None
    BY <1>6, SlotAssumption DEF IInv, SlotForetells
  <2>2. ~(x.releaseAt <= t)
    BY <2>1 DEF HolderAt
  <2>3. x.cutover <= now => x.cutover <= t
    BY <1>0, SlotAssumption DEF IInv, TypeOK, Record, Never, Times
  <2>4. b = p
    <3>1. CASE x.succ = p /\ x.cutover <= now
      BY <1>0, <2>1, <2>3, <3>1 DEF HolderAt
    <3>2. CASE x.cur = p /\ x.succ = None
      BY <2>1, <3>2, HolderNamed
    <3> QED
      BY <1>3, <1>4, <3>1, <3>2
  <2>5. t < x.releaseAt
    BY <1>0, <2>2, SlotAssumption DEF IInv, TypeOK, Record, Never, Times
  <2> QED
    BY <2>4, <2>5
<1> QED
  BY <1>5, <1>6

\* The claims of an assignment depend on its own record alone.
LEMMA SameClaims ==
  ASSUME NEW b, state'[b] = state[b], from'[b] = from[b],
         until'[b] = until[b], nextAt'[b] = nextAt[b]
  PROVE  \A t : Claims(b, t)' <=> Claims(b, t)
BY DEF Claims

\* The invariant holds initially.
LEMMA InitInv == Init => IInv
<1> SUFFICES ASSUME Init PROVE IInv
  OBVIOUS
<1>1. TypeOK
  BY InitType
<1>2. SlotNames /\ PredecessorKept
  BY DEF Init, Absent, Alone, SlotNames, PredecessorKept
<1>3. Linked /\ SuspendedBegun
  BY DEF Init, Linked, SuspendedBegun
<1>4. SlotForetells
  BY DEF Init, SlotForetells, Claims, Live
<1>5. RevokedHoldsNothing
  BY DEF Init, RevokedHoldsNothing
<1> QED
  BY <1>1, <1>2, <1>3, <1>4, <1>5 DEF IInv

-----------------------------------------------------------------------------
(* Every action keeps the invariant.                                       *)

LEMMA ApplyInv ==
  ASSUME IInv, TypeOK', NEW a \in Ids, NEW s \in Slots, NEW b \in Times,
         NEW e \in 1..Never, Apply(a, s, b, e)
  PROVE  IInv'
<1>1. /\ state[a] = "none" /\ a # None
      /\ state' = [state EXCEPT ![a] = "ACTIVE"]
      /\ place' = [place EXCEPT ![a] = s]
      /\ from' = [from EXCEPT ![a] = b] /\ until' = [until EXCEPT ![a] = e]
      /\ now' = now /\ next' = next /\ nextAt' = nextAt
  BY SlotAssumption DEF Apply, Insert, links
<1>2. /\ state'[a] = "ACTIVE" /\ place'[a] = s /\ until'[a] = e
      /\ \A i \in Ids \ {a} : /\ state'[i] = state[i] /\ place'[i] = place[i]
                              /\ from'[i] = from[i] /\ until'[i] = until[i]
  BY <1>1 DEF IInv, TypeOK
<1>3. /\ slot'[s].status = "RESERVED" /\ slot'[s].cur = a
      /\ slot'[s].succ = None /\ slot'[s].releaseAt = e
      /\ \A r \in Slots \ {s} : slot'[r] = slot[r]
  BY DEF Apply, Reserve, IInv, TypeOK
<1>4. \A r \in Slots : slot[r].cur # a /\ slot[r].succ # a
  BY <1>1 DEF IInv, SlotNames
<1>5. \A i \in Ids \ {a} : \A t : Claims(i, t)' <=> Claims(i, t)
  BY <1>1, <1>2, SameClaims
<1>6. SlotNames'
  BY <1>1, <1>2, <1>3, <1>4 DEF IInv, SlotNames, TypeOK, Record
<1>7. PredecessorKept'
  <2>1. ASSUME NEW r \in Slots, slot'[r].succ # None
        PROVE  slot'[r] = slot[r] /\ slot'[r].cur \in Ids /\ slot[r].cur # a
    <3>1. r # s
      BY <1>3, <2>1
    <3>2. slot'[r] = slot[r] /\ slot[r].cur # a
      BY <1>3, <1>4, <3>1
    <3>3. slot[r].cur # None
      BY <2>1, <3>2 DEF IInv, SlotNames
    <3>4. slot[r] \in Record
      BY DEF IInv, TypeOK
    <3> QED
      BY <3>2, <3>3, <3>4 DEF Record
  <2> SUFFICES ASSUME NEW r \in Slots, slot'[r].succ # None,
                      NEW i \in Ids, i = slot'[r].cur,
                      NEW t \in now..MaxTime, Claims(i, t)'
               PROVE  t < slot'[r].predReleaseAt
    BY <1>1, <2>1 DEF PredecessorKept, Claims
  <2>2. slot'[r] = slot[r] /\ i # a
    BY <2>1
  <2>3. Claims(i, t)
    BY <1>5, <2>2
  <2> QED
    BY <2>2, <2>3 DEF IInv, PredecessorKept
<1>8. Linked'
  BY <1>1, <1>2 DEF IInv, Linked, TypeOK
<1>9. SuspendedBegun'
  BY <1>1, <1>2 DEF IInv, SuspendedBegun
<1>10. SlotForetells'
  <2> SUFFICES ASSUME NEW i \in Ids, NEW t \in now..MaxTime, Claims(i, t)'
               PROVE  HolderAt(slot'[place'[i]], t) = i
    BY <1>1 DEF SlotForetells
  <2>1. CASE i = a
    <3>1. t < e
      BY <1>2, <2>1 DEF Claims
    <3>2. ~(e <= t)
      BY <3>1, SlotAssumption DEF IInv, TypeOK, Times, Never
    <3> QED
      BY <1>2, <1>3, <2>1, <3>2 DEF HolderAt
  <2>2. CASE i # a
    <3>1. Claims(i, t) /\ place'[i] = place[i]
      BY <1>2, <1>5, <2>2
    <3>2. place[i] # s
      BY <3>1, FreeSlot DEF Apply
    <3>3. slot'[place'[i]] = slot[place[i]]
      BY <1>3, <3>1, <3>2 DEF IInv, TypeOK
    <3> QED
      BY <3>1, <3>3 DEF IInv, SlotForetells
  <2> QED
    BY <2>1, <2>2
<1>11. RevokedHoldsNothing'
  <2> SUFFICES ASSUME NEW r \in Slots, NEW t \in now..MaxTime, NEW i \in Ids,
                      HolderAt(slot'[r], t) = i
               PROVE  state'[i] # "REVOKED"
    BY <1>1 DEF RevokedHoldsNothing
  <2>1. CASE r = s
    <3>1. i = a
      BY <1>3, <2>1, HolderNamed, SlotAssumption
    <3> QED
      BY <1>2, <3>1
  <2>2. CASE r # s
    BY <1>2, <1>3, <2>2 DEF IInv, RevokedHoldsNothing
  <2> QED
    BY <2>1, <2>2
<1> QED
  BY <1>6, <1>7, <1>8, <1>9, <1>10, <1>11 DEF IInv

\* What a succession does to the assignments, whichever slots it changes.
Succession(a, p, s, c, e) ==
  /\ a # p /\ a # None /\ p # None /\ state[a] = "none" /\ next[p] = None
  /\ from[p] <= c /\ c < e /\ now' = now
  /\ state'[a] = "SCHEDULED" /\ place'[a] = s /\ from'[a] = c /\ until'[a] = e
  /\ next'[p] = a /\ nextAt'[p] = c
  /\ \A i \in Ids \ {a} : /\ state'[i] = state[i] /\ place'[i] = place[i]
                          /\ from'[i] = from[i] /\ until'[i] = until[i]
  /\ \A i \in Ids \ {p} : next'[i] = next[i] /\ nextAt'[i] = nextAt[i]

LEMMA SucceedEffect ==
  ASSUME IInv, NEW a \in Ids, NEW p \in Ids, NEW s \in Slots, NEW c \in Times,
         NEW e \in Times, Succeed(a, p, s, c, e), state[p] # "none"
  PROVE  Succession(a, p, s, c, e)
BY SlotAssumption DEF Succession, Succeed, Insert, Link, IInv, TypeOK

\* A succession keeps assignments linked, the others' claims, and limits
\* those of the predecessor; no record names the new assignment before.
LEMMA SucceedLinks ==
  ASSUME IInv, NEW a \in Ids, NEW p \in Ids, NEW s \in Slots, NEW c \in Times,
         NEW e \in Times, Succeed(a, p, s, c, e), state[p] # "none",
         state[p] \in {"ACTIVE", "SCHEDULED"} => c <= until[p]
  PROVE  /\ Linked' /\ SuspendedBegun'
         /\ \A i \in Ids \ {a, p} : \A t : Claims(i, t)' <=> Claims(i, t)
         /\ \A t \in Times : Claims(p, t)' => Claims(p, t) /\ t < c
         /\ \A t \in Times : Claims(a, t)' => c <= t /\ t < e
         /\ \A r \in Slots : slot[r].cur # a /\ slot[r].succ # a
<1>0. Succession(a, p, s, c, e)
  BY SucceedEffect
<1> USE DEF Succession
<1>1. \A i \in Ids : next[i] # None => next[i] # a /\ next[i] \in Ids /\ i # a
  BY <1>0 DEF IInv, Linked, TypeOK
<1>2. Linked'
  BY <1>0, <1>1 DEF IInv, Linked
<1>3. SuspendedBegun'
  BY <1>0 DEF IInv, SuspendedBegun
<1>4. \A i \in Ids \ {a, p} : \A t : Claims(i, t)' <=> Claims(i, t)
  BY <1>0, SameClaims
<1>5. \A t \in Times : Claims(p, t)' => Claims(p, t) /\ t < c
  <2>1. nextAt[p] = Never
    BY <1>0 DEF IInv, Linked
  <2>2. \A t \in Times : t < Never
    BY SlotAssumption DEF Times, Never
  <2> QED
    BY <1>0, <2>1, <2>2 DEF Claims
<1>6. \A t \in Times : Claims(a, t)' => c <= t /\ t < e
  BY <1>0 DEF Claims
<1>7. \A r \in Slots : slot[r].cur # a /\ slot[r].succ # a
  BY <1>0 DEF IInv, SlotNames
<1> QED
  BY <1>2, <1>3, <1>4, <1>5, <1>6, <1>7

\* A successor in the slot of its predecessor.
LEMMA SameSlotInv ==
  ASSUME IInv, TypeOK', NEW a \in Ids, NEW p \in Ids, NEW c \in Times,
         NEW e \in Times, Succeed(a, p, place[p], c, e), Claims(p, now),
         state[p] \in {"ACTIVE", "SCHEDULED"} => c <= until[p],
         slot' = [slot EXCEPT ![place[p]] = Reserve(slot[place[p]], a, p, c, e)]
  PROVE  IInv'
<1> DEFINE s == place[p]
<1>1. s \in Slots /\ state[p] # "none" /\ state[p] # "REVOKED"
  BY DEF IInv, TypeOK, Claims, Live
<1>2. Succession(a, p, s, c, e)
  BY <1>1, SucceedEffect
<1> USE DEF Succession
<1>3. /\ Linked' /\ SuspendedBegun'
      /\ \A i \in Ids \ {a, p} : \A t : Claims(i, t)' <=> Claims(i, t)
      /\ \A t \in Times : Claims(p, t)' => Claims(p, t) /\ t < c
      /\ \A t \in Times : Claims(a, t)' => c <= t /\ t < e
      /\ \A r \in Slots : slot[r].cur # a /\ slot[r].succ # a
  BY <1>1, SucceedLinks
<1>4. /\ Continues(slot[s], p)
      /\ \A b \in Ids : \A t \in now..MaxTime :
           place[b] = s /\ Claims(b, t) => b = p /\ t < slot[s].releaseAt
  BY <1>2, PredecessorAlone
<1>5. /\ slot'[s].status = "RESERVED" /\ slot'[s].cur = p /\ slot'[s].succ = a
      /\ slot'[s].cutover = c /\ slot'[s].releaseAt = e
      /\ slot'[s].predReleaseAt = slot[s].releaseAt
      /\ \A r \in Slots \ {s} : slot'[r] = slot[r]
  BY <1>1, <1>2, <1>4 DEF Reserve, IInv, TypeOK
<1>6. \A t \in now..MaxTime : t \in Times
  BY SlotAssumption DEF IInv, TypeOK, Times
<1> HIDE DEF s
<1>7. \A r \in Slots : slot[r].succ # None => slot[r].cur # p
  BY <1>2 DEF IInv, SlotNames
<1>s. s = place[p]
  BY DEF s
<1>8. SlotNames'
  <2> SUFFICES ASSUME NEW r \in Slots
               PROVE  /\ slot'[r].cur # None =>
                           state'[slot'[r].cur] # "none" /\ place'[slot'[r].cur] = r
                      /\ slot'[r].succ # None =>
                           /\ state'[slot'[r].succ] # "none"
                           /\ place'[slot'[r].succ] = r
                           /\ slot'[r].cur # None /\ slot'[r].cur # slot'[r].succ
                           /\ next'[slot'[r].cur] = slot'[r].succ
                           /\ slot'[r].cutover < slot'[r].releaseAt
    BY DEF SlotNames
  <2>1. CASE r = s
    BY <1>1, <1>2, <1>5, <1>s, <2>1
  <2>2. CASE r # s
    <3>1. slot'[r] = slot[r] /\ slot[r] \in Record
      BY <1>5, <2>2 DEF IInv, TypeOK
    <3>2. slot[r].cur \in Ids \cup {None} /\ slot[r].succ \in Ids \cup {None}
      BY <3>1 DEF Record
    <3> QED
      BY <1>2, <1>3, <1>7, <3>1, <3>2 DEF IInv, SlotNames
  <2> QED
    BY <2>1, <2>2
<1>9. PredecessorKept'
  <2>0. ASSUME NEW r \in Slots, slot'[r].succ # None
        PROVE  slot'[r].cur \in Ids
    <3>1. slot'[r].cur # None
      BY <1>8, <2>0 DEF SlotNames
    <3>2. slot'[r] \in Record
      BY DEF TypeOK
    <3> QED
      BY <3>1, <3>2 DEF Record
  <2> SUFFICES ASSUME NEW r \in Slots, slot'[r].succ # None,
                      NEW i \in Ids, i = slot'[r].cur,
                      NEW t \in now..MaxTime, Claims(i, t)'
               PROVE  t < slot'[r].predReleaseAt
    BY <1>2, <2>0 DEF PredecessorKept, Claims
  <2>1. CASE r = s
    BY <1>3, <1>4, <1>5, <1>6, <1>s, <2>1
  <2>2. CASE r # s
    <3>1. slot'[r] = slot[r] /\ i \in Ids \ {a, p}
      BY <1>3, <1>5, <1>7, <2>2
    <3> QED
      BY <1>3, <3>1 DEF IInv, PredecessorKept
  <2> QED
    BY <2>1, <2>2
<1>10. SlotForetells'
  <2> SUFFICES ASSUME NEW i \in Ids, NEW t \in now..MaxTime, Claims(i, t)'
               PROVE  HolderAt(slot'[place'[i]], t) = i
    BY <1>2 DEF SlotForetells
  <2>0. t \in Nat /\ c \in Nat /\ e \in Nat
    BY <1>6, SlotAssumption DEF Times
  <2>1. CASE i = a
    <3>1. ~(e <= t) /\ c <= t
      BY <1>3, <1>6, <2>0, <2>1
    <3> QED
      BY <1>2, <1>5, <2>1, <3>1 DEF HolderAt
  <2>2. CASE i = p
    <3>1. ~(e <= t) /\ ~(c <= t)
      BY <1>2, <1>3, <1>6, <2>0, <2>2
    <3> QED
      BY <1>2, <1>5, <1>s, <2>2, <3>1 DEF HolderAt
  <2>3. CASE i # a /\ i # p
    <3>1. Claims(i, t) /\ place'[i] = place[i]
      BY <1>2, <1>3, <2>3
    <3>2. place[i] # s
      BY <1>4, <2>3, <3>1
    <3>3. slot'[place'[i]] = slot[place[i]]
      BY <1>5, <3>1, <3>2 DEF IInv, TypeOK
    <3> QED
      BY <3>1, <3>3 DEF IInv, SlotForetells
  <2> QED
    BY <2>1, <2>2, <2>3
<1>11. RevokedHoldsNothing'
  <2> SUFFICES ASSUME NEW r \in Slots, NEW t \in now..MaxTime, NEW i \in Ids,
                      HolderAt(slot'[r], t) = i
               PROVE  state'[i] # "REVOKED"
    BY <1>2 DEF RevokedHoldsNothing
  <2>1. CASE r = s
    <3>1. i = p \/ i = a
      BY <1>5, <2>1, HolderNamed, SlotAssumption
    <3> QED
      BY <1>1, <1>2, <3>1
  <2>2. CASE r # s
    BY <1>2, <1>5, <2>2 DEF IInv, RevokedHoldsNothing
  <2> QED
    BY <2>1, <2>2
<1> QED
  BY <1>3, <1>8, <1>9, <1>10, <1>11 DEF IInv

\* A successor in another slot, and the release of that of the predecessor.
LEMMA ReplaceInv ==
  ASSUME IInv, TypeOK', NEW a \in Ids, NEW p \in Ids, NEW s \in Slots,
         NEW c \in Times, NEW e \in Times, Replace(a, p, s, c, e)
  PROVE  IInv'
<1> DEFINE q == place[p]
<1>1. /\ q \in Slots /\ q # s /\ state[p] \in {"ACTIVE", "SCHEDULED"}
      /\ c <= until[p] /\ CanReserve(slot[s], None)
      /\ Succeed(a, p, s, c, e)
  BY DEF Replace, Effective, WithinAuthority, IInv, TypeOK
<1>2. Succession(a, p, s, c, e)
  BY <1>1, SucceedEffect
<1> USE DEF Succession
<1>3. /\ Linked' /\ SuspendedBegun'
      /\ \A i \in Ids \ {a, p} : \A t : Claims(i, t)' <=> Claims(i, t)
      /\ \A t \in Times : Claims(p, t)' => Claims(p, t) /\ t < c
      /\ \A t \in Times : Claims(a, t)' => c <= t /\ t < e
      /\ \A r \in Slots : slot[r].cur # a /\ slot[r].succ # a
  BY <1>1, SucceedLinks
<1>4. Claims(p, now)
  <2>1. from[p] <= now /\ ~(until[p] <= now) /\ ~(nextAt[p] <= now)
    BY DEF Replace, Effective, Begun, Expired, Superseded
  <2>2. now < until[p] /\ now < nextAt[p]
    BY <2>1, SlotAssumption DEF IInv, TypeOK, Times, Never
  <2> QED
    BY <1>1, <2>1, <2>2 DEF Claims, Live
<1>5. \A b \in Ids : \A t \in now..MaxTime : place[b] = q /\ Claims(b, t) => b = p
  BY <1>2, <1>4, PredecessorAlone
<1>6. /\ slot'[s].status = "RESERVED" /\ slot'[s].cur = a
      /\ slot'[s].succ = None /\ slot'[s].releaseAt = e
      /\ slot'[q].status = "RESERVED" /\ slot'[q].cur = p
      /\ slot'[q].succ = None /\ slot'[q].releaseAt = c
      /\ \A r \in Slots \ {s, q} : slot'[r] = slot[r]
  BY <1>1 DEF Replace, Reserve, ScheduleRelease, Alone, IInv, TypeOK
<1>7. \A t \in now..MaxTime : t \in Times
  BY SlotAssumption DEF IInv, TypeOK, Times
<1>8. \A r \in Slots : slot[r].succ # None => slot[r].cur # p
  BY <1>2 DEF IInv, SlotNames
<1>q. q = place[p]
  OBVIOUS
<1> HIDE DEF q
<1>9. SlotNames'
  <2> SUFFICES ASSUME NEW r \in Slots
               PROVE  /\ slot'[r].cur # None =>
                           state'[slot'[r].cur] # "none" /\ place'[slot'[r].cur] = r
                      /\ slot'[r].succ # None =>
                           /\ state'[slot'[r].succ] # "none"
                           /\ place'[slot'[r].succ] = r
                           /\ slot'[r].cur # None /\ slot'[r].cur # slot'[r].succ
                           /\ next'[slot'[r].cur] = slot'[r].succ
                           /\ slot'[r].cutover < slot'[r].releaseAt
    BY DEF SlotNames
  <2>1. CASE r = s
    BY <1>2, <1>6, <2>1
  <2>2. CASE r = q
    BY <1>1, <1>2, <1>6, <1>q, <2>2
  <2>3. CASE r # s /\ r # q
    <3>1. slot'[r] = slot[r] /\ slot[r] \in Record
      BY <1>6, <2>3 DEF IInv, TypeOK
    <3>2. slot[r].cur \in Ids \cup {None} /\ slot[r].succ \in Ids \cup {None}
      BY <3>1 DEF Record
    <3> QED
      BY <1>2, <1>3, <1>8, <3>1, <3>2 DEF IInv, SlotNames
  <2> QED
    BY <2>1, <2>2, <2>3
<1>10. PredecessorKept'
  <2>0. \A r \in Slots : slot'[r].succ # None => slot'[r].cur \in Ids
    BY <1>9 DEF SlotNames, TypeOK, Record
  <2> SUFFICES ASSUME NEW r \in Slots, slot'[r].succ # None,
                      NEW i \in Ids, i = slot'[r].cur,
                      NEW t \in now..MaxTime, Claims(i, t)'
               PROVE  t < slot'[r].predReleaseAt
    BY <1>2, <2>0 DEF PredecessorKept, Claims
  <2>1. slot'[r] = slot[r]
    BY <1>6
  <2>2. i \in Ids \ {a, p}
    BY <1>3, <1>8, <2>1
  <2> QED
    BY <1>3, <2>1, <2>2 DEF IInv, PredecessorKept
<1>11. SlotForetells'
  <2> SUFFICES ASSUME NEW i \in Ids, NEW t \in now..MaxTime, Claims(i, t)'
               PROVE  HolderAt(slot'[place'[i]], t) = i
    BY <1>2 DEF SlotForetells
  <2>0. t \in Nat /\ c \in Nat /\ e \in Nat
    BY <1>7, SlotAssumption DEF Times
  <2>1. CASE i = a
    <3>1. ~(e <= t)
      BY <1>3, <1>7, <2>0, <2>1
    <3> QED
      BY <1>2, <1>6, <2>1, <3>1 DEF HolderAt
  <2>2. CASE i = p
    <3>1. ~(c <= t)
      BY <1>3, <1>7, <2>0, <2>2
    <3> QED
      BY <1>2, <1>6, <1>q, <2>2, <3>1 DEF HolderAt
  <2>3. CASE i # a /\ i # p
    <3>1. Claims(i, t) /\ place'[i] = place[i]
      BY <1>2, <1>3, <2>3
    <3>2. place[i] # s
      BY <1>1, <3>1, FreeSlot
    <3>3. place[i] # q
      BY <1>5, <2>3, <3>1
    <3>4. slot'[place'[i]] = slot[place[i]]
      BY <1>6, <3>1, <3>2, <3>3 DEF IInv, TypeOK
    <3> QED
      BY <3>1, <3>4 DEF IInv, SlotForetells
  <2> QED
    BY <2>1, <2>2, <2>3
<1>12. RevokedHoldsNothing'
  <2> SUFFICES ASSUME NEW r \in Slots, NEW t \in now..MaxTime, NEW i \in Ids,
                      HolderAt(slot'[r], t) = i
               PROVE  state'[i] # "REVOKED"
    BY <1>2 DEF RevokedHoldsNothing
  <2>1. CASE r \in {s, q}
    <3>1. i = p \/ i = a
      BY <1>6, <2>1, HolderNamed, SlotAssumption
    <3> QED
      BY <1>1, <1>2, <3>1
  <2>2. CASE r \notin {s, q}
    BY <1>2, <1>6, <2>2 DEF IInv, RevokedHoldsNothing
  <2> QED
    BY <2>1, <2>2
<1> QED
  BY <1>3, <1>9, <1>10, <1>11, <1>12 DEF IInv

\* What a revocation may leave of a record.
LEMMA ReleaseCases ==
  ASSUME NEW x, NEW a
  PROVE  \/ /\ Release(x, a) = x
            /\ \/ x.status # "RESERVED"
               \/ x.cur = a /\ x.succ # None /\ x.cutover <= now
               \/ x.cur # a /\ x.succ # a
         \/ /\ \E h \in {x.cur, a} : \E end : Release(x, a) = Alone("RELEASED", h, end)
            /\ \/ x.releaseAt <= now
               \/ x.succ = a /\ x.cutover <= now
               \/ x.cur = a /\ x.succ = None
         \/ /\ Release(x, a) = Alone("RESERVED", x.cur, x.predReleaseAt)
            /\ x.status = "RESERVED" /\ ~(x.releaseAt <= now)
            /\ x.succ = a /\ ~(x.cutover <= now)
         \/ /\ Release(x, a) = Alone("RESERVED", x.succ, x.releaseAt)
            /\ x.status = "RESERVED" /\ ~(x.releaseAt <= now)
            /\ x.cur = a /\ x.succ # None /\ ~(x.cutover <= now)
<1>1. CASE x.status # "RESERVED"
  BY <1>1 DEF Release
<1>2. CASE x.status = "RESERVED" /\ x.releaseAt <= now
  BY <1>2 DEF Release
<1>3. CASE x.status = "RESERVED" /\ ~(x.releaseAt <= now) /\ x.succ = a
  BY <1>3 DEF Release
<1>4. CASE x.status = "RESERVED" /\ ~(x.releaseAt <= now) /\ x.succ # a
  BY <1>4 DEF Release
<1> QED
  BY <1>1, <1>2, <1>3, <1>4

LEMMA RevokeInv ==
  ASSUME IInv, TypeOK', NEW a \in Ids, Revoke(a)
  PROVE  IInv'
<1> DEFINE s == place[a]
           x == slot[s]
           y == slot'[s]
<1>1. /\ s \in Slots /\ x \in Record /\ y \in Record /\ y = Release(x, a)
      /\ \A r \in Slots \ {s} : slot'[r] = slot[r]
      /\ now' = now /\ now \in Times /\ a # None /\ place' = place
      /\ next' = next
  BY SlotAssumption DEF Revoke, IInv, TypeOK, terms, links
<1>2. /\ state'[a] = "REVOKED" /\ \A i \in Ids \ {a} : state'[i] = state[i]
      /\ place' = place /\ from' = from /\ until' = until /\ nextAt' = nextAt
  BY DEF Revoke, terms, links, IInv, TypeOK
<1>3. /\ \A t : ~Claims(a, t)'
      /\ \A i \in Ids \ {a} : \A t : Claims(i, t)' <=> Claims(i, t)
  BY <1>2, SameClaims DEF Claims, Live
<1>4. /\ x.cur \in Ids \cup {None} /\ x.succ \in Ids \cup {None}
      /\ x.cutover \in Nat /\ x.releaseAt \in Nat /\ x.predReleaseAt \in Nat
      /\ now \in Nat
  BY <1>1, SlotAssumption DEF Record, Never, Times
<1>5. /\ x.cur # None => state[x.cur] # "none" /\ place[x.cur] = s
      /\ x.succ # None =>
           /\ state[x.succ] # "none" /\ place[x.succ] = s
           /\ x.cur # None /\ x.cur # x.succ /\ next[x.cur] = x.succ
           /\ x.cutover < x.releaseAt
  BY <1>1 DEF IInv, SlotNames
<1>6. \/ /\ y = x
         /\ \/ x.status # "RESERVED"
            \/ x.cur = a /\ x.succ # None /\ x.cutover <= now
            \/ x.cur # a /\ x.succ # a
      \/ /\ y.status = "RELEASED" /\ y.cur \in {x.cur, a} /\ y.succ = None
         /\ \/ x.releaseAt <= now
            \/ x.succ = a /\ x.cutover <= now
            \/ x.cur = a /\ x.succ = None
      \/ /\ y.status = "RESERVED" /\ y.cur = x.cur /\ y.succ = None
         /\ y.releaseAt = x.predReleaseAt
         /\ x.status = "RESERVED" /\ ~(x.releaseAt <= now)
         /\ x.succ = a /\ ~(x.cutover <= now)
      \/ /\ y.status = "RESERVED" /\ y.cur = x.succ /\ y.succ = None
         /\ y.releaseAt = x.releaseAt
         /\ x.status = "RESERVED" /\ ~(x.releaseAt <= now)
         /\ x.cur = a /\ x.succ # None /\ ~(x.cutover <= now)
  BY <1>1, ReleaseCases DEF Alone
<1>7. \A i \in Ids : \A t \in now..MaxTime :
        place[i] = s /\ Claims(i, t) => HolderAt(x, t) = i
  BY <1>1 DEF IInv, SlotForetells
<1>8. \A i \in Ids : \A t \in now..MaxTime :
        HolderAt(x, t) = i => state[i] # "REVOKED"
  BY <1>1 DEF IInv, RevokedHoldsNothing
<1>9. \A t \in now..MaxTime :
        x.succ # None /\ Claims(x.cur, t) => t < x.predReleaseAt
  BY <1>1 DEF IInv, PredecessorKept
<1>s. s = place[a]
  OBVIOUS
<1> HIDE DEF s, x, y
<1>10. SlotNames'
  <2> SUFFICES ASSUME NEW r \in Slots
               PROVE  /\ slot'[r].cur # None =>
                           state'[slot'[r].cur] # "none" /\ place'[slot'[r].cur] = r
                      /\ slot'[r].succ # None =>
                           /\ state'[slot'[r].succ] # "none"
                           /\ place'[slot'[r].succ] = r
                           /\ slot'[r].cur # None /\ slot'[r].cur # slot'[r].succ
                           /\ next'[slot'[r].cur] = slot'[r].succ
                           /\ slot'[r].cutover < slot'[r].releaseAt
    BY DEF SlotNames
  <2>1. CASE r = s
    <3>1. slot'[r] = y
      BY <2>1 DEF y
    <3>2. \A i \in Ids : state[i] # "none" => state'[i] # "none"
      BY <1>2
    <3>3. y.cur # None => state'[y.cur] # "none" /\ place'[y.cur] = s
      BY <1>2, <1>4, <1>5, <1>6, <1>s, <3>2
    <3>4. y.succ # None => y = x
      BY <1>6
    <3>5. y.succ # None =>
            /\ state'[y.succ] # "none" /\ place'[y.succ] = s
            /\ y.cur # None /\ y.cur # y.succ
            /\ next'[y.cur] = y.succ /\ y.cutover < y.releaseAt
      BY <1>1, <1>2, <1>4, <1>5, <3>2, <3>4
    <3> QED
      BY <2>1, <3>1, <3>3, <3>5
  <2>2. CASE r # s
    <3>1. slot'[r] = slot[r] /\ slot[r] \in Record
      BY <1>1, <2>2 DEF IInv, TypeOK
    <3>2. slot[r].cur \in Ids \cup {None} /\ slot[r].succ \in Ids \cup {None}
      BY <3>1 DEF Record
    <3> QED
      BY <1>1, <1>2, <3>1, <3>2 DEF IInv, SlotNames
  <2> QED
    BY <2>1, <2>2
<1>11. PredecessorKept'
  <2>0. \A r \in Slots : slot'[r].succ # None => slot'[r].cur \in Ids
    BY <1>10 DEF SlotNames, TypeOK, Record
  <2> SUFFICES ASSUME NEW r \in Slots, slot'[r].succ # None,
                      NEW i \in Ids, i = slot'[r].cur,
                      NEW t \in now..MaxTime, Claims(i, t)'
               PROVE  t < slot'[r].predReleaseAt
    BY <1>1, <2>0 DEF PredecessorKept, Claims
  <2>1. slot'[r] = slot[r]
    BY <1>1, <1>6 DEF x, y
  <2>2. Claims(i, t)
    BY <1>3
  <2> QED
    BY <2>1, <2>2 DEF IInv, PredecessorKept
<1>12. Linked' /\ SuspendedBegun'
  BY <1>1, <1>2 DEF IInv, Linked, SuspendedBegun, TypeOK
<1>13. SlotForetells'
  <2> SUFFICES ASSUME NEW i \in Ids, NEW t \in now..MaxTime, Claims(i, t)'
               PROVE  HolderAt(slot'[place[i]], t) = i
    BY <1>1 DEF SlotForetells
  <2>1. i # a /\ Claims(i, t) /\ i # None
    BY <1>3, SlotAssumption
  <2>2. t \in Nat /\ now <= t
    BY <1>4, SlotAssumption
  <2>3. CASE place[i] # s
    <3>1. slot'[place[i]] = slot[place[i]]
      BY <1>1, <2>3 DEF IInv, TypeOK
    <3> QED
      BY <2>1, <3>1 DEF IInv, SlotForetells
  <2>4. CASE place[i] = s
    <3>1. HolderAt(x, t) = i
      BY <1>7, <2>1, <2>4
    <3>2. x.status = "RESERVED" /\ ~(x.releaseAt <= t)
      BY <2>1, <3>1 DEF HolderAt
    <3>3. ~(x.releaseAt <= now)
      BY <1>4, <2>2, <3>2
    <3>4. \/ x.succ # None /\ x.cutover <= t /\ i = x.succ
          \/ ~(x.succ # None /\ x.cutover <= t) /\ i = x.cur
      BY <3>1, <3>2 DEF HolderAt
    <3>5. HolderAt(y, t) = i
      <4>1. CASE y = x
        BY <3>1, <4>1
      <4>2. CASE /\ y.status = "RESERVED" /\ y.cur = x.cur /\ y.succ = None
                 /\ y.releaseAt = x.predReleaseAt /\ x.succ = a
        <5>1. i = x.cur
          BY <2>1, <3>4, <4>2
        <5>2. ~(x.predReleaseAt <= t)
          BY <1>1, <1>4, <1>9, <2>1, <2>2, <4>2, <5>1
        <5> QED
          BY <4>2, <5>1, <5>2 DEF HolderAt
      <4>3. CASE /\ y.status = "RESERVED" /\ y.cur = x.succ /\ y.succ = None
                 /\ y.releaseAt = x.releaseAt /\ x.cur = a
        BY <2>1, <3>2, <3>4, <4>3 DEF HolderAt
      <4>4. \/ y = x
            \/ /\ y.status = "RESERVED" /\ y.cur = x.cur /\ y.succ = None
               /\ y.releaseAt = x.predReleaseAt /\ x.succ = a
            \/ /\ y.status = "RESERVED" /\ y.cur = x.succ /\ y.succ = None
               /\ y.releaseAt = x.releaseAt /\ x.cur = a
        <5>1. x.cutover <= now => x.cutover <= t
          BY <1>4, <2>2
        <5> QED
          BY <1>1, <1>6, <2>1, <3>3, <3>4, <5>1
      <4> QED
        BY <4>1, <4>2, <4>3, <4>4
    <3> QED
      BY <2>4, <3>5 DEF y
  <2> QED
    BY <2>3, <2>4
<1>14. RevokedHoldsNothing'
  <2> SUFFICES ASSUME NEW r \in Slots, NEW t \in now..MaxTime, NEW i \in Ids,
                      HolderAt(slot'[r], t) = i
               PROVE  i # a /\ state[i] # "REVOKED"
    BY <1>1, <1>2 DEF RevokedHoldsNothing
  <2>0. t \in Nat /\ now <= t /\ i # None /\ now \in now..MaxTime
    BY <1>1, <1>4, SlotAssumption DEF Times
  <2>1. CASE r # s
    <3>1. HolderAt(slot[r], t) = i /\ i \in {slot[r].cur, slot[r].succ}
      BY <1>1, <2>0, <2>1, HolderNamed
    <3>2. place[i] = r
      BY <2>0, <3>1 DEF IInv, SlotNames
    <3> QED
      BY <1>s, <2>1, <3>1, <3>2 DEF IInv, RevokedHoldsNothing
  <2>2. CASE r = s
    <3>0. HolderAt(y, t) = i
      BY <2>2 DEF y
    <3>1. /\ y.status = "RESERVED" /\ ~(y.releaseAt <= t)
          /\ \/ y.succ # None /\ y.cutover <= t /\ i = y.succ
             \/ ~(y.succ # None /\ y.cutover <= t) /\ i = y.cur
      BY <2>0, <3>0 DEF HolderAt
    <3>2. CASE /\ y = x
               /\ \/ x.status # "RESERVED"
                  \/ x.cur = a /\ x.succ # None /\ x.cutover <= now
                  \/ x.cur # a /\ x.succ # a
      <4>1. x.cutover <= now => x.cutover <= t
        BY <1>4, <2>0
      <4>2. i # a
        BY <1>5, <3>1, <3>2, <4>1
      <4> QED
        BY <1>8, <3>0, <3>2, <4>2
    <3>3. CASE /\ y.cur = x.cur /\ y.succ = None /\ x.succ = a
               /\ x.status = "RESERVED" /\ ~(x.releaseAt <= now)
               /\ ~(x.cutover <= now)
      <4>1. i = x.cur /\ i # a
        BY <1>1, <1>5, <3>1, <3>3
      <4>2. HolderAt(x, now) = i
        BY <3>3, <4>1 DEF HolderAt
      <4> QED
        BY <1>8, <2>0, <4>1, <4>2
    <3>4. CASE /\ y.cur = x.succ /\ y.succ = None /\ x.cur = a
               /\ y.releaseAt = x.releaseAt
               /\ x.status = "RESERVED" /\ ~(x.releaseAt <= now)
               /\ x.succ # None /\ ~(x.cutover <= now)
      <4>1. i = x.succ /\ i # a
        BY <1>5, <3>1, <3>4
      <4>2. x.cutover \in now..MaxTime
        <5>1. x \in Record /\ s \in Slots /\ (x.succ = None <=> x.cutover = Never)
          BY <1>1 DEF x, IInv, TypeOK
        <5>2. x.cutover \in 0..Never /\ x.cutover # Never
          BY <3>4, <5>1 DEF Record
        <5> QED
          BY <1>4, <3>4, <5>2, SlotAssumption DEF Never
      <4>3. ~(x.releaseAt <= x.cutover) /\ x.cutover <= x.cutover
        BY <1>4, <1>5, <3>4
      <4>4. HolderAt(x, x.cutover) = i
        BY <3>4, <4>1, <4>3 DEF HolderAt
      <4> QED
        BY <1>8, <4>1, <4>2, <4>4
    <3> QED
      BY <1>6, <3>1, <3>2, <3>3, <3>4
  <2> QED
    BY <2>1, <2>2
<1> QED
  BY <1>10, <1>11, <1>12, <1>13, <1>14 DEF IInv

\* A suspension keeps the claims, and needs an assignment that has begun.
LEMMA SuspendInv ==
  ASSUME IInv, TypeOK', NEW a \in Ids, Suspend(a)
  PROVE  IInv'
<1>1. /\ state[a] \in {"ACTIVE", "SCHEDULED"} /\ from[a] <= now
      /\ state'[a] = "SUSPENDED" /\ \A i \in Ids \ {a} : state'[i] = state[i]
      /\ now' = now /\ slot' = slot /\ place' = place /\ from' = from
      /\ until' = until /\ next' = next /\ nextAt' = nextAt
  BY DEF Suspend, Begun, IInv, TypeOK, terms, links
<1>2. \A i \in Ids : \A t : Claims(i, t)' <=> Claims(i, t)
  BY <1>1 DEF Claims, Live
<1>3. SlotNames'
  BY <1>1 DEF IInv, SlotNames, TypeOK, Record
<1>4. PredecessorKept'
  <2>1. \A r \in Slots : slot[r].succ # None => slot[r].cur \in Ids
    BY DEF IInv, SlotNames, TypeOK, Record
  <2> SUFFICES ASSUME NEW r \in Slots, slot[r].succ # None,
                      NEW i \in Ids, i = slot[r].cur,
                      NEW t \in now..MaxTime, Claims(i, t)'
               PROVE  t < slot[r].predReleaseAt
    BY <1>1, <2>1 DEF PredecessorKept, Claims
  <2> QED
    BY <1>2 DEF IInv, PredecessorKept
<1>5. Linked' /\ SuspendedBegun'
  BY <1>1 DEF IInv, Linked, SuspendedBegun, TypeOK
<1>6. SlotForetells'
  BY <1>1, <1>2 DEF IInv, SlotForetells
<1>7. RevokedHoldsNothing'
  BY <1>1 DEF IInv, RevokedHoldsNothing
<1> QED
  BY <1>3, <1>4, <1>5, <1>6, <1>7 DEF IInv

\* When time passes, there are only fewer times to come.
LEMMA TickInv ==
  ASSUME IInv, TypeOK', Tick
  PROVE  IInv'
<1>1. /\ now \in Nat /\ now' \in Nat /\ now <= now'
      /\ \A t \in now'..MaxTime : t \in now..MaxTime
      /\ slot' = slot /\ state' = state /\ place' = place /\ from' = from
      /\ until' = until /\ next' = next /\ nextAt' = nextAt
  BY SlotAssumption DEF Tick, IInv, TypeOK, Times, terms, links
<1>2. SlotNames' /\ Linked'
  BY <1>1 DEF IInv, SlotNames, Linked
<1>3. PredecessorKept' /\ SlotForetells'
  BY <1>1 DEF IInv, PredecessorKept, SlotForetells, Claims
<1>4. SuspendedBegun'
  <2>1. \A a \in Ids : from[a] \in Nat
    BY SlotAssumption DEF IInv, TypeOK, Times
  <2> QED
    BY <1>1, <2>1 DEF IInv, SuspendedBegun
<1>5. RevokedHoldsNothing'
  BY <1>1 DEF IInv, RevokedHoldsNothing
<1> QED
  BY <1>2, <1>3, <1>4, <1>5 DEF IInv

\* Every step keeps the invariant.
LEMMA NextInv == IInv /\ [Next]_vars => IInv'
<1> SUFFICES ASSUME IInv, [Next]_vars PROVE IInv'
  OBVIOUS
<1>0. TypeOK'
  BY NextType DEF IInv
<1>1. ASSUME NEW a \in Ids, NEW s \in Slots, NEW b \in Times, NEW e \in 1..Never,
             Apply(a, s, b, e)
      PROVE  IInv'
  BY <1>0, <1>1, ApplyInv
<1>2. ASSUME NEW a \in Ids, NEW p \in Ids, NEW c \in Times, NEW e \in Times,
             Renew(a, p, c, e)
      PROVE  IInv'
  <2>1. /\ Effective(p) /\ c <= until[p] /\ Succeed(a, p, place[p], c, e)
        /\ slot' = [slot EXCEPT ![place[p]] = Reserve(slot[place[p]], a, p, c, e)]
    BY <1>2 DEF Renew, WithinAuthority
  <2>2. Claims(p, now)
    BY <2>1, SlotAssumption
       DEF Effective, Begun, Expired, Superseded, Claims, Live, IInv, TypeOK, Times, Never
  <2> QED
    BY <1>0, <2>1, <2>2, SameSlotInv
<1>3. ASSUME NEW a \in Ids, NEW p \in Ids, NEW c \in Times, NEW e \in Times,
             Restore(a, p, c, e)
      PROVE  IInv'
  <2>1. /\ state[p] = "SUSPENDED" /\ ~(until[p] <= now)
        /\ Succeed(a, p, place[p], c, e) /\ next[p] = None
        /\ slot' = [slot EXCEPT ![place[p]] = Reserve(slot[place[p]], a, p, c, e)]
    BY <1>3 DEF Restore, Suspended, Expired, Succeed
  <2>2. from[p] <= now /\ nextAt[p] = Never
    BY <2>1 DEF IInv, SuspendedBegun, Linked
  <2>3. now < until[p] /\ now < Never
    BY <2>1, SlotAssumption DEF IInv, TypeOK, Times, Never
  <2>4. Claims(p, now)
    BY <2>1, <2>2, <2>3 DEF Claims, Live
  <2> QED
    BY <1>0, <2>1, <2>4, SameSlotInv
<1>4. ASSUME NEW a \in Ids, NEW p \in Ids, NEW s \in Slots,
             NEW c \in Times, NEW e \in Times, Replace(a, p, s, c, e)
      PROVE  IInv'
  BY <1>0, <1>4, ReplaceInv
<1>5. ASSUME NEW a \in Ids, Revoke(a)
      PROVE  IInv'
  BY <1>0, <1>5, RevokeInv
<1>6. ASSUME NEW a \in Ids, Suspend(a)
      PROVE  IInv'
  BY <1>0, <1>6, SuspendInv
<1>7. CASE Tick
  BY <1>0, <1>7, TickInv
<1>8. ASSUME UNCHANGED <<now, slot, state, terms, links>>
      PROVE  IInv'
  BY <1>0, <1>8 DEF terms, links, IInv, SlotNames, PredecessorKept, Linked,
     SuspendedBegun, SlotForetells, RevokedHoldsNothing, Claims
<1>9. ASSUME NEW a \in Ids, MoveReview(a)
      PROVE  IInv'
  BY <1>8, <1>9 DEF MoveReview
<1>10. CASE UNCHANGED vars
  BY <1>8, <1>10 DEF vars
<1> QED
  BY <1>1, <1>2, <1>3, <1>4, <1>5, <1>6, <1>7, <1>9, <1>10 DEF Next

\* The invariant holds always.
LEMMA AlwaysInv == Spec => []IInv
BY InitInv, NextInv, PTL DEF Spec

-----------------------------------------------------------------------------
(* What follows.                                                           *)

\* Whichever assignment has a claim to a slot at a time from now on is the
\* holder that the record of the slot gives for that time.
THEOREM SlotsForetell == Spec => []SlotForetells
<1>1. IInv => SlotForetells
  BY DEF IInv
<1> QED
  BY <1>1, AlwaysInv, PTL

\* No slot is, or ever comes to be, held by a revoked assignment.
THEOREM RevokedHaveNone == Spec => []RevokedHoldsNothing
<1>1. IInv => RevokedHoldsNothing
  BY DEF IInv
<1> QED
  BY <1>1, AlwaysInv, PTL

\* Two assignments of one role and scope never have effect together.
SoleAuthority ==
  \A a, b \in Ids :
    place[a] = place[b] /\ Effective(a) /\ Effective(b) => a = b

THEOREM OneAuthority == Spec => []SoleAuthority
<1>1. IInv => SoleAuthority
  <2> SUFFICES ASSUME IInv, NEW a \in Ids, NEW b \in Ids, place[a] = place[b],
                      Effective(a), Effective(b)
               PROVE  a = b
    BY DEF SoleAuthority
  <2>1. Claims(a, now) /\ Claims(b, now)
    BY SlotAssumption
       DEF Effective, Begun, Expired, Superseded, Claims, Live, IInv, TypeOK, Times, Never
  <2>2. now \in now..MaxTime
    BY SlotAssumption DEF IInv, TypeOK, Times
  <2> QED
    BY <2>1, <2>2 DEF IInv, SlotForetells
<1> QED
  BY <1>1, AlwaysInv, PTL

\* From the start of an assignment to the end of its successor exactly one of
\* the two has a claim.
THEOREM NoGap == Spec => []HandoverHasNoGap
<1>1. IInv => HandoverHasNoGap
  <2> SUFFICES ASSUME IInv, NEW p \in Ids, NEW a \in Ids, next[p] = a,
                      state[p] \in {"ACTIVE", "SCHEDULED"}, state[a] \in Live,
                      NEW t \in Times,
                      from[p] <= t, t < until[a], t < nextAt[a]
               PROVE  Claims(p, t) <=> ~Claims(a, t)
    BY DEF HandoverHasNoGap
  <2>1. from[a] = nextAt[p] /\ nextAt[p] <= until[p]
    BY SlotAssumption DEF IInv, Linked
  <2>2. /\ t \in Nat /\ from[a] \in Nat /\ nextAt[p] \in Nat /\ until[p] \in Nat
    BY SlotAssumption DEF IInv, TypeOK, Times, Never
  <2>3. Claims(p, t) <=> t < nextAt[p]
    BY <2>1, <2>2 DEF Claims, Live
  <2>4. Claims(a, t) <=> nextAt[p] <= t
    BY <2>1, <2>2 DEF Claims
  <2>5. t < nextAt[p] <=> ~(nextAt[p] <= t)
    BY <2>2
  <2> QED
    BY <2>3, <2>4, <2>5
<1> QED
  BY <1>1, AlwaysInv, PTL
=============================================================================
