--------------------------- MODULE EventCalendar ---------------------------
(***************************************************************************)
(* Events with the people assigned to them, the studio bookings they hold  *)
(* and the platform accounts they go out on (event-assignment), together   *)
(* with the lifecycles of the people, studios and accounts (talent,        *)
(* studio-resource, platform-account), whose services refuse to take out   *)
(* of service what a live event uses.                                      *)
(*                                                                         *)
(* Every operation is a transaction (SnapshotTxn).  Bookings lock a guard  *)
(* document of the studio; nothing else is locked, so that two operations  *)
(* which overlap may each miss what the other writes.                      *)
(*                                                                         *)
(* All windows lie in the future: the guards that ask for live use compare *)
(* the end of the window with the clock.                                   *)
(***************************************************************************)
EXTENDS Integers, FiniteSets

CONSTANTS Clients,
          Events,       \* ids of events, each created at most once
          Bookings,     \* ids of studio bookings, likewise
          People,       \* talents, groups, employees
          Rooms,        \* studios
          Accounts,     \* platform accounts
          Owner,        \* account -> the person who owns it
          Windows,      \* pairs <<start, end>>
          Starts        \* sets of resources that may be in service at first

VARIABLES db, snap, missed

Resources == People \cup Rooms \cup Accounts

EventDoc(e) == <<"event", e>>
Duty(e, p) == <<"duty", e, p>>      \* an ACTIVE assignment, unique (event, p)
BookingDoc(b) == <<"booking", b>>
Lock(r) == <<"lock", r>>            \* the studio's booking guard
Resource(x) == <<"resource", x>>    \* operationalStatus

Docs == {EventDoc(e) : e \in Events}
          \cup {Duty(e, p) : e \in Events, p \in People}
          \cup {BookingDoc(b) : b \in Bookings}
          \cup {Lock(r) : r \in Rooms} \cup {Resource(x) : x \in Resources}

INSTANCE SnapshotTxn

NoEvent == [status |-> "none"]
NoBooking == [status |-> "none"]

Overlap(v, w) == v[1] < w[2] /\ v[2] > w[1]

Known(s, e) == s[EventDoc(e)] # NoEvent
Status(s, e) == s[EventDoc(e)].status
LiveEvent(s, e) == Status(s, e) \in {"PLANNED", "CONFIRMED"}
Assigned(s, e) == {p \in People : s[Duty(e, p)]}

Booked(s, b) == s[BookingDoc(b)].status \in {"HELD", "CONFIRMED"}

BookingsOf(s, e, stages) ==
  {b \in Bookings : s[BookingDoc(b)].status \in stages
                      /\ s[BookingDoc(b)].event = e}

InService(s, xs) == \A x \in xs : s[Resource(x)] = "ACTIVE"

-----------------------------------------------------------------------------
(* Events and assignments.                                                 *)

\* The overlap check of an event without drafts or a check of the accounts.
ClashOfPeople(s, e, w, ps, as) == \E f \in Events \ {e} :
  /\ Status(s, f) = "CONFIRMED"
  /\ Overlap(w, s[EventDoc(f)].win)
  /\ ps \cap Assigned(s, f) # {}

\* assertNoAssignmentOverlapConflicts and assertNoPlatformOverlapConflicts:
\* events in a live status only, drafts do not count.
Clash(s, e, w, ps, as) == \E f \in Events \ {e} :
  /\ LiveEvent(s, f)
  /\ Overlap(w, s[EventDoc(f)].win)
  /\ (ps \cap Assigned(s, f)) \cup (as \cap s[EventDoc(f)].accounts) # {}

PutEvent(s, e, status) == EventDoc(e) :> [s[EventDoc(e)] EXCEPT !.status = status]

CreateEvent(c, e, status, w, ps, as) ==
  LET s == Seen(c) IN
  /\ Ready(c)
  /\ ~Known(db, e)
  /\ InService(s, ps \cup as)
  /\ ~Clash(s, e, w, ps, as)
  /\ Commit(c, EventDoc(e) :> [status |-> status, win |-> w, rooms |-> {},
                               accounts |-> as]
                 @@ [d \in {Duty(e, p) : p \in ps} |-> TRUE])

UpdateEventCore(c, e) ==
  LET s == Seen(c) IN
  /\ Ready(c)
  /\ Status(s, e) \in {"DRAFT", "PLANNED"}
  /\ Commit(c, PutEvent(s, e, Status(s, e)))

\* The start moves and the end does not.
StartShifted(event, w) == [event EXCEPT !.win[1] = w[1]]
Shifted(event, w) == [event EXCEPT !.win = w]

RescheduleEvent(c, e, w) ==
  LET s == Seen(c) IN
  /\ Ready(c)
  /\ Status(s, e) \in {"DRAFT", "PLANNED", "CONFIRMED"}
  /\ ~Clash(s, e, w, Assigned(s, e), s[EventDoc(e)].accounts)
  /\ w # s[EventDoc(e)].win
  /\ Commit(c, EventDoc(e) :> Shifted(s[EventDoc(e)], w))

\* touchEvent.
Touched(s, e) == PutEvent(s, e, Status(s, e))

ReplaceAssignments(c, e, ps) ==
  LET s == Seen(c)
      old == Assigned(s, e)
  IN
  /\ Ready(c)
  /\ Status(s, e) \in {"DRAFT", "PLANNED"}
  /\ InService(s, ps)
  /\ ~Clash(s, e, s[EventDoc(e)].win, ps, s[EventDoc(e)].accounts)
  /\ ps # old
  /\ Commit(c, [d \in {Duty(e, p) : p \in (ps \ old) \cup (old \ ps)} |->
                  d[3] \in ps] @@ Touched(s, e))

UpdateAccounts(c, e, as) ==
  LET s == Seen(c) IN
  /\ Ready(c)
  /\ Status(s, e) \in {"DRAFT", "PLANNED"}
  /\ InService(s, as)
  /\ ~Clash(s, e, s[EventDoc(e)].win, {}, as)
  /\ as # s[EventDoc(e)].accounts
  /\ Commit(c, EventDoc(e) :> [s[EventDoc(e)] EXCEPT !.accounts = as])

\* planEvent compares the event with no other.
PlanEvent(c, e) ==
  LET s == Seen(c) IN
  /\ Ready(c)
  /\ Status(s, e) = "DRAFT"
  /\ Assigned(s, e) # {}
  /\ Commit(c, PutEvent(s, e, "PLANNED"))
-----------------------------------------------------------------------------
(* Bookings.                                                               *)

\* assertNoConfirmedBookingConflict, hasOverlappingStudioBooking.
Occupied(s, b, r, w) == \E o \in Bookings \ {b} :
  /\ s[BookingDoc(o)].status = "CONFIRMED"
  /\ s[BookingDoc(o)].room = r
  /\ Overlap(w, s[BookingDoc(o)].win)

\* lockStudioResourceBooking writes the guard, so that two holders conflict.
NotLocked(rooms) == <<>>
Locked(rooms) == [d \in {Lock(r) : r \in rooms} |-> "locked"]

\* syncEventStudioResourceIdsFromBookings, on the bookings just written.
Synced(s, e) == EventDoc(e) :>
  [s[EventDoc(e)] EXCEPT !.rooms =
     {s[BookingDoc(b)].room : b \in BookingsOf(s, e, {"HELD", "CONFIRMED"})}]

PutBooking(s, b, booking) ==
  LET t == [s EXCEPT ![BookingDoc(b)] = booking]
  IN BookingDoc(b) :> booking @@ Synced(t, booking.event)

CreateBooking(c, b, e, r, w, status) ==
  LET s == Seen(c) IN
  /\ Ready(c)
  /\ db[BookingDoc(b)] = NoBooking
  /\ \/ status = "HELD" /\ Status(s, e) \in {"DRAFT", "PLANNED"}
     \/ status = "CONFIRMED" /\ Status(s, e) = "CONFIRMED"
  /\ InService(s, {r})
  /\ status = "CONFIRMED" => ~Occupied(s, b, r, w)
  /\ Commit(c, PutBooking(s, b, [event |-> e, room |-> r, win |-> w,
                                 status |-> status]) @@ Locked({r}))

\* transitionStudioBooking: confirm, release or cancel one booking.
TransitionBooking(c, b, to) ==
  LET s == Seen(c)
      booking == s[BookingDoc(b)]
      confirming == to = "CONFIRMED"
  IN
  /\ Ready(c)
  /\ booking.status \in IF confirming THEN {"HELD"} ELSE {"HELD", "CONFIRMED"}
  /\ confirming => /\ Status(s, booking.event) = "CONFIRMED"
                   /\ InService(s, {booking.room})
                   /\ ~Occupied(s, b, booking.room, booking.win)
  /\ Commit(c, PutBooking(s, b, [booking EXCEPT !.status = to])
                 @@ IF confirming THEN Locked({booking.room}) ELSE <<>>)

Moved(s, bs, to) ==
  [d \in {BookingDoc(b) : b \in bs} |-> [s[d] EXCEPT !.status = to]]

ConfirmEvent(c, e) ==
  LET s == Seen(c)
      held == BookingsOf(s, e, {"HELD"})
  IN
  /\ Ready(c)
  /\ Status(s, e) = "PLANNED"
  /\ Assigned(s, e) # {}
  /\ \A b, o \in held :
       b # o /\ s[BookingDoc(b)].room = s[BookingDoc(o)].room =>
         ~Overlap(s[BookingDoc(b)].win, s[BookingDoc(o)].win)
  /\ \A b \in held : ~Occupied(s, b, s[BookingDoc(b)].room, s[BookingDoc(b)].win)
  /\ Commit(c, PutEvent(s, e, "CONFIRMED") @@ Moved(s, held, "CONFIRMED")
                 @@ Locked({s[BookingDoc(b)].room : b \in held}))

CompleteEvent(c, e) ==
  /\ Ready(c)
  /\ Status(Seen(c), e) = "CONFIRMED"
  /\ Commit(c, PutEvent(Seen(c), e, "COMPLETED"))

\* cancelEvent ends the bookings; it does not bring the event's list of
\* studios up to date.
CancelledHolds(s, e) == BookingsOf(s, e, {"HELD"})
CancelledBookings(s, e) == BookingsOf(s, e, {"HELD", "CONFIRMED"})

CancelEvent(c, e) ==
  LET s == Seen(c) IN
  /\ Ready(c)
  /\ Status(s, e) \in {"DRAFT", "PLANNED", "CONFIRMED"}
  /\ Commit(c, PutEvent(s, e, "CANCELLED")
                 @@ Moved(s, CancelledBookings(s, e), "ENDED"))

ArchiveEvent(c, e) ==
  /\ Ready(c)
  /\ Status(Seen(c), e) \in {"COMPLETED", "CANCELLED"}
  /\ Commit(c, PutEvent(Seen(c), e, "ARCHIVED"))
-----------------------------------------------------------------------------
(* Resources.                                                              *)

\* PAUSED is SUSPENDED for a talent and OUT_OF_SERVICE for a studio; accounts
\* do not have it.
Moves(x) ==
  {<<"ACTIVE", "INACTIVE">>, <<"INACTIVE", "ACTIVE">>, <<"INACTIVE", "ARCHIVED">>}
    \cup IF x \in Accounts THEN {}
         ELSE {<<"ACTIVE", "PAUSED">>, <<"PAUSED", "ACTIVE">>, <<"PAUSED", "INACTIVE">>}

\* A check that looks at confirmed bookings only.
InConfirmedUse(s, x) ==
  \/ \E e \in Events : LiveEvent(s, e)
       /\ (x \in Assigned(s, e) \/ x \in s[EventDoc(e)].accounts)
  \/ \E b \in Bookings : s[BookingDoc(b)].status = "CONFIRMED"
                           /\ s[BookingDoc(b)].room = x

\* assertNoLiveEventBindings, assertNoLiveDownstreamAllocations,
\* assertNoLiveEventAllocationForLifecycleMutation.
InUse(s, x) ==
  \/ \E e \in Events : LiveEvent(s, e)
       /\ (x \in Assigned(s, e) \/ x \in s[EventDoc(e)].accounts)
  \/ \E b \in Bookings : Booked(s, b) /\ s[BookingDoc(b)].room = x

\* assertNoActiveOwnedPlatformAccounts and assertNoNonArchivedOwned...: what
\* the owner's accounts may still be.
OwnedAllow(s, x, to) == \A a \in Accounts : Owner[a] = x =>
  s[Resource(a)] \in IF to = "ARCHIVED" THEN {"ARCHIVED"} ELSE {"INACTIVE", "ARCHIVED"}

\* assertRecordInvariantForTargetStatus: an account needs an active owner to
\* be activated and one that is not archived to be deactivated.
OwnerAllows(s, x, to) == x \in Accounts =>
  CASE to = "ACTIVE" -> s[Resource(Owner[x])] = "ACTIVE"
    [] to = "INACTIVE" -> s[Resource(Owner[x])] # "ARCHIVED"
    [] OTHER -> TRUE

MoveResource(c, x, to) ==
  LET s == Seen(c) IN
  /\ Ready(c)
  /\ <<s[Resource(x)], to>> \in Moves(x)
  /\ to # "ACTIVE" => ~InUse(s, x) /\ OwnedAllow(s, x, to)
  /\ OwnerAllows(s, x, to)
  /\ Commit(c, Resource(x) :> to)
-----------------------------------------------------------------------------
Init ==
  /\ \E ready \in Starts :
       db = [d \in Docs |->
         CASE d[1] = "event" -> NoEvent
           [] d[1] = "duty" -> FALSE
           [] d[1] = "booking" -> NoBooking
           [] d[1] = "lock" -> "free"
           [] d[1] = "resource" -> IF d[2] \in ready THEN "ACTIVE" ELSE "ARCHIVED"]
  /\ TxnInit

EventStep(c, e) ==
  \/ \E w \in Windows, ps \in (SUBSET People) \ {{}}, as \in SUBSET Accounts,
        status \in {"DRAFT", "PLANNED"} : CreateEvent(c, e, status, w, ps, as)
  \/ UpdateEventCore(c, e)
  \/ \E w \in Windows : RescheduleEvent(c, e, w)
  \/ \E ps \in (SUBSET People) \ {{}} : ReplaceAssignments(c, e, ps)
  \/ \E as \in SUBSET Accounts : UpdateAccounts(c, e, as)
  \/ PlanEvent(c, e) \/ ConfirmEvent(c, e) \/ CompleteEvent(c, e)
  \/ CancelEvent(c, e) \/ ArchiveEvent(c, e)

BookingStep(c, b) ==
  \/ \E e \in Events, r \in Rooms, w \in Windows, status \in {"HELD", "CONFIRMED"} :
       CreateBooking(c, b, e, r, w, status)
  \/ \E to \in {"CONFIRMED", "ENDED"} : TransitionBooking(c, b, to)

Next ==
  \/ \E c \in Clients \cup {Now} :
       \/ \E e \in Events : EventStep(c, e)
       \/ \E b \in Bookings : BookingStep(c, b)
       \/ \E x \in Resources, to \in {"ACTIVE", "PAUSED", "INACTIVE", "ARCHIVED"} :
            MoveResource(c, x, to)
  \/ \E c \in Clients : Begin(c) \/ Abort(c)

Spec == Init /\ [][Next]_txnVars
-----------------------------------------------------------------------------
(* Properties.                                                             *)

EventType == [status : {"DRAFT", "PLANNED", "CONFIRMED", "COMPLETED",
                        "CANCELLED", "ARCHIVED"},
              win : Windows, rooms : SUBSET Rooms, accounts : SUBSET Accounts]

BookingType == [event : Events, room : Rooms, win : Windows,
                status : {"HELD", "CONFIRMED", "ENDED"}]

CalendarOK(s) ==
  /\ \A e \in Events : s[EventDoc(e)] \in EventType \cup {NoEvent}
  /\ \A e \in Events, p \in People : s[Duty(e, p)] \in BOOLEAN
  /\ \A b \in Bookings : s[BookingDoc(b)] \in BookingType \cup {NoBooking}
  /\ \A x \in Resources :
       s[Resource(x)] \in {"ACTIVE", "PAUSED", "INACTIVE", "ARCHIVED"}

\* The documents, of the database and of every open snapshot.
CalendarTypeOK ==
  /\ CalendarOK(db)
  /\ \A c \in Clients : InTxn(c) => CalendarOK(snap[c])

\* "Confirmed studio booking overlaps another confirmed booking" never comes
\* true: the guard document makes the confirmations of a studio wait for each
\* other, whatever transactions overlap.
NoConfirmedOverlap == \A b, o \in Bookings :
  b # o /\ db[BookingDoc(b)].status = "CONFIRMED"
    /\ db[BookingDoc(o)].status = "CONFIRMED"
    /\ db[BookingDoc(b)].room = db[BookingDoc(o)].room
  => ~Overlap(db[BookingDoc(b)].win, db[BookingDoc(o)].win)

\* A booking is held for an event that is being planned and confirmed for one
\* that was confirmed, none outlives its event's cancellation, and the studios
\* an event lists (studioResourceIds) are those its bookings name, except that
\* a cancelled event keeps the old list.  Event and bookings are written by
\* different operations that read each other's documents.
BookingsFollowEvent ==
  /\ \A b \in Bookings : Booked(db, b) =>
       LET status == Status(db, db[BookingDoc(b)].event) IN
       IF db[BookingDoc(b)].status = "HELD" THEN status \in {"DRAFT", "PLANNED"}
       ELSE status \in {"CONFIRMED", "COMPLETED", "ARCHIVED"}
  /\ \A e \in Events : Known(db, e) /\ Status(db, e) \notin {"CANCELLED", "ARCHIVED"} =>
       db[EventDoc(e)].rooms =
         {db[BookingDoc(b)].room : b \in BookingsOf(db, e, {"HELD", "CONFIRMED"})}

\* The step is the commit of a transaction that missed another's.
LateCommit == \E c \in Clients : missed[c] # {} /\ InTxn(c) /\ ~InTxn(c)'

DoubleBooked(s, e, f) ==
  /\ LiveEvent(s, e) /\ LiveEvent(s, f)
  /\ Overlap(s[EventDoc(e)].win, s[EventDoc(f)].win)
  /\ \/ Assigned(s, e) \cap Assigned(s, f) # {}
     \/ s[EventDoc(e)].accounts \cap s[EventDoc(f)].accounts # {}

\* Two live events come to share a person or an account at the same time only
\* where the code leaves the door open: a draft is planned, which compares it
\* with nothing, or a transaction commits a comparison that another overtook.
ClashForCauseStep == \A e, f \in Events :
  e # f /\ DoubleBooked(db', e, f) /\ ~DoubleBooked(db, e, f) =>
    LateCommit \/ \E g \in {e, f} : Status(db, g) = "DRAFT"
ClashForCause == [][ClashForCauseStep]_txnVars

Unserved(s, x) ==
  /\ ~InService(s, {x})
  /\ \/ \E b \in Bookings : Booked(s, b) /\ s[BookingDoc(b)].room = x
     \/ \E a \in Accounts : s[Resource(a)] = "ACTIVE" /\ Owner[a] = x

\* A booked studio and the owner of an active account go out of service only
\* when the transactions that decide on the two overlap.
OutForCauseStep == \A x \in Resources :
  Unserved(db', x) /\ ~Unserved(db, x) => LateCommit
OutForCause == [][OutForCauseStep]_txnVars
=============================================================================
