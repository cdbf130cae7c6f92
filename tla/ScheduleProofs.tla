--------------------------- MODULE ScheduleProofs ---------------------------
(***************************************************************************)
(* Proofs about EventCalendar, ShiftRequests and MonthlyRoster, as parts   *)
(* of Records: for any events, bookings, people, studios, accounts,        *)
(* shifts, lines, batches and rosters, and any number of transactions that *)
(* overlap.                                                                *)
(*                                                                         *)
(* A transaction decides on a snapshot, so that an invariant of the        *)
(* database says little about what it decides on.  The argument is that    *)
(* two kinds of document stand for more than themselves: nobody confirms a *)
(* booking of a studio without writing its lock, and nobody writes a       *)
(* booking of an event without writing the event.  If the lock (the event) *)
(* has not been written since a snapshot, the confirmed bookings of the    *)
(* studio (all bookings of the event) are as the snapshot shows them:      *)
(* invariant GuardsHold.  Each operation is then reduced to what its       *)
(* writes do to the snapshot (EventsSound), and one lemma carries that     *)
(* over to the database.                                                   *)
(*                                                                         *)
(* People, accounts and resources have no such guard.  What is said of     *)
(* them is said of steps: a transaction that missed nothing sees the       *)
(* database (EventsSeeAll), and its comparison then holds of it            *)
(* (EventsFine).                                                           *)
(*                                                                         *)
(* Requests: the batch document stands for its lines and the counter of a  *)
(* day for the shifts it numbered, and what a decision does to a shift is  *)
(* in the transaction that decides (RequestsAged).                         *)
(*                                                                         *)
(* Rosters: a roster and its shifts are written together when it is        *)
(* published and its exceptions never again, so that the shifts stay what  *)
(* they say (RosterKeeps); what a transaction writes it knows as it is     *)
(* (WrittenKnown), which keeps a line to one place (LineStands).  Of the   *)
(* snapshots only the counters of codes are needed (RostersAged): two      *)
(* transactions that number a shift of one day cannot overlap.             *)
(***************************************************************************)
EXTENDS AccessProofs
-----------------------------------------------------------------------------
(* Events and bookings.                                                    *)

\* s with the documents puts written.
EventsAfter(s, puts) == [d \in Cal!Docs |-> IF d \in DOMAIN puts THEN puts[d] ELSE s[d]]

\* The variables are the functions SnapshotTxn takes them for.
EventsTaken ==
  /\ db = [d \in Cal!Docs |-> db[d]]
  /\ snap = [c \in Clients |-> snap[c]]
  /\ missed \in [Clients -> SUBSET Cal!Docs]
  /\ \A c \in Clients : Cal!InTxn(c) => snap[c] = [d \in Cal!Docs |-> snap[c][d]]

\* b is a booking of e; b is confirmed for the studio r.
OfEvent(s, b, e) == s[Cal!BookingDoc(b)] # Cal!NoBooking /\ s[Cal!BookingDoc(b)].event = e

Confirmed(s, b, r) ==
  s[Cal!BookingDoc(b)].status = "CONFIRMED" /\ s[Cal!BookingDoc(b)].room = r

\* s and t have the same bookings of e.
SameBookings(s, t, e) == \A b \in Bookings :
  OfEvent(s, b, e) \/ OfEvent(t, b, e) => s[Cal!BookingDoc(b)] = t[Cal!BookingDoc(b)]

\* Event and lock guard bookings: what a snapshot shows of them is still so
\* unless the guard has been written since.
GuardsHold == \A c \in Clients : Cal!InTxn(c) =>
  /\ \A e \in CalendarEvents : Cal!EventDoc(e) \notin missed[c] => SameBookings(snap[c], db, e)
  /\ \A r \in Rooms : Cal!Lock(r) \notin missed[c] =>
       \A b \in Bookings : Confirmed(db, b, r) =>
         snap[c][Cal!BookingDoc(b)] = db[Cal!BookingDoc(b)]

\* BookingsFollowEvent, of one event.
Follows(s, e) ==
  /\ \A b \in Bookings : OfEvent(s, b, e) /\ Cal!Booked(s, b) =>
       IF s[Cal!BookingDoc(b)].status = "HELD" THEN Cal!Status(s, e) \in {"DRAFT", "PLANNED"}
       ELSE Cal!Status(s, e) \in {"CONFIRMED", "COMPLETED", "ARCHIVED"}
  /\ Cal!Known(s, e) /\ Cal!Status(s, e) \notin {"CANCELLED", "ARCHIVED"} =>
       s[Cal!EventDoc(e)].rooms =
         {s[Cal!BookingDoc(b)].room : b \in Cal!BookingsOf(s, e, {"HELD", "CONFIRMED"})}

\* Whoever is assigned is assigned to an event that was created.
DutiesKnown(s) == \A e \in CalendarEvents, p \in People :
  s[Cal!Duty(e, p)] => Cal!Known(s, e)

\* The inductive invariant.
EventsInv ==
  /\ EventsTaken
  /\ Cal!CalendarTypeOK
  /\ Cal!SnapshotCurrent
  /\ GuardsHold
  /\ Cal!NoConfirmedOverlap
  /\ \A e \in CalendarEvents : Follows(db, e)
  /\ DutiesKnown(db)

\* What the writes of an operation that reads s have to be like.
EventsSound(s, puts) ==
  /\ DOMAIN puts \subseteq Cal!Docs
  /\ Cal!CalendarOK(EventsAfter(s, puts))
  /\ \A b \in Bookings : Cal!BookingDoc(b) \in DOMAIN puts =>
       /\ puts[Cal!BookingDoc(b)] \in Cal!BookingType
       /\ Cal!EventDoc(puts[Cal!BookingDoc(b)].event) \in DOMAIN puts
       /\ s[Cal!BookingDoc(b)] # Cal!NoBooking =>
            s[Cal!BookingDoc(b)].event = puts[Cal!BookingDoc(b)].event
       /\ puts[Cal!BookingDoc(b)].status = "CONFIRMED" =>
            /\ Cal!Lock(puts[Cal!BookingDoc(b)].room) \in DOMAIN puts
            /\ \A o \in Bookings \ {b} :
                 Confirmed(EventsAfter(s, puts), o, puts[Cal!BookingDoc(b)].room) =>
                   ~Cal!Overlap(puts[Cal!BookingDoc(b)].win,
                            EventsAfter(s, puts)[Cal!BookingDoc(o)].win)
  /\ \A e \in CalendarEvents : Cal!EventDoc(e) \in DOMAIN puts /\ Follows(s, e) =>
       Follows(EventsAfter(s, puts), e)
  /\ \A e \in CalendarEvents : Cal!EventDoc(e) \in DOMAIN puts =>
       puts[Cal!EventDoc(e)] # Cal!NoEvent
  /\ \A e \in CalendarEvents, p \in People : Cal!Duty(e, p) \in DOMAIN puts =>
       Cal!EventDoc(e) \in DOMAIN puts
-----------------------------------------------------------------------------
(* Documents.                                                              *)

\* The documents of events, assignments, bookings, studios and resources.
LEMMA EventsDocs ==
  /\ \A e \in CalendarEvents : Cal!EventDoc(e) \in Cal!Docs
  /\ \A e \in CalendarEvents, p \in People : Cal!Duty(e, p) \in Cal!Docs
  /\ \A b \in Bookings : Cal!BookingDoc(b) \in Cal!Docs
  /\ \A r \in Rooms : Cal!Lock(r) \in Cal!Docs
  /\ \A x \in Cal!Resources : Cal!Resource(x) \in Cal!Docs
  BY DEF Cal!Docs
-----------------------------------------------------------------------------
\* A commit writes what its transaction would write to its snapshot to the
\* database, and of what it writes its snapshot is right.
LEMMA EventsRight ==
  ASSUME EventsTaken, Cal!SnapshotCurrent, NEW c \in Clients \cup {Cal!Now}, Cal!Ready(c),
         NEW puts, DOMAIN puts \subseteq Cal!Docs, Cal!Commit(c, puts)
  PROVE  /\ db' = EventsAfter(db, puts)
         /\ \A d \in DOMAIN puts : Cal!Seen(c)[d] = db[d]
  BY DEF EventsTaken, Cal!SnapshotCurrent, Cal!Ready, Cal!Commit, EventsAfter, Cal!Seen, Cal!Now

\* Whether the bookings of an event follow it is seen from the two alone.
LEMMA FollowsSame ==
  ASSUME NEW s, NEW t, NEW e \in CalendarEvents, SameBookings(s, t, e),
         s[Cal!EventDoc(e)] = t[Cal!EventDoc(e)], Follows(s, e),
         \A b \in Bookings : t[Cal!BookingDoc(b)] = Cal!NoBooking =>
           t[Cal!BookingDoc(b)].status \notin {"HELD", "CONFIRMED"},
         \A b \in Bookings : s[Cal!BookingDoc(b)] = Cal!NoBooking =>
           s[Cal!BookingDoc(b)].status \notin {"HELD", "CONFIRMED"}
  PROVE  Follows(t, e)
<1>1. \A b \in Bookings : OfEvent(t, b, e) => s[Cal!BookingDoc(b)] = t[Cal!BookingDoc(b)]
  BY DEF SameBookings
<1>2. Cal!BookingsOf(s, e, {"HELD", "CONFIRMED"}) = Cal!BookingsOf(t, e, {"HELD", "CONFIRMED"})
  BY DEF Cal!BookingsOf, SameBookings, OfEvent
<1>3. \A b \in Cal!BookingsOf(t, e, {"HELD", "CONFIRMED"}) :
        s[Cal!BookingDoc(b)] = t[Cal!BookingDoc(b)]
  BY <1>1 DEF Cal!BookingsOf, OfEvent
<1>4. {s[Cal!BookingDoc(b)].room : b \in Cal!BookingsOf(s, e, {"HELD", "CONFIRMED"})}
        = {t[Cal!BookingDoc(b)].room : b \in Cal!BookingsOf(t, e, {"HELD", "CONFIRMED"})}
  BY <1>2, <1>3
<1> QED BY <1>1, <1>4 DEF Follows, OfEvent, Cal!Booked, Cal!Status, Cal!Known

\* EventsSound writes keep the invariant.
LEMMA EventsCommit ==
  ASSUME EventsInv, NEW c \in Clients \cup {Cal!Now}, Cal!Ready(c),
         NEW puts, EventsSound(Cal!Seen(c), puts), Cal!Commit(c, puts)
  PROVE  EventsInv'
<1> DEFINE s == Cal!Seen(c)
<1>1. db' = EventsAfter(db, puts) /\ \A d \in DOMAIN puts : s[d] = db[d]
  BY EventsRight DEF EventsInv, EventsSound
<1>2. \A o \in Clients : Cal!InTxn(o)' =>
        /\ Cal!InTxn(o) /\ snap'[o] = snap[o]
        /\ missed'[o] = missed[o] \cup DOMAIN puts
  BY DEF Cal!Commit, EventsInv, EventsTaken, Cal!InTxn, Cal!NoSnapshot
<1>3. EventsTaken'
  BY <1>1, <1>2 DEF Cal!Commit, EventsTaken, EventsAfter, EventsInv, EventsSound, Cal!InTxn, Cal!NoSnapshot
<1>4. Cal!SnapshotCurrent'
  BY <1>1, <1>2 DEF Cal!SnapshotCurrent, EventsInv, EventsAfter
<1>5. Cal!CalendarTypeOK'
  <2>1. \A d \in Cal!Docs : db'[d] \in {db[d], EventsAfter(s, puts)[d]}
    BY <1>1 DEF EventsAfter
  <2>2. Cal!CalendarOK(db)'
    BY <2>1, EventsDocs DEF Cal!CalendarOK, EventsInv, Cal!CalendarTypeOK, EventsSound
  <2> QED BY <2>2, <1>2 DEF Cal!CalendarTypeOK, EventsInv, Cal!CalendarOK
<1>6. \A b \in Bookings : Cal!BookingDoc(b) \notin DOMAIN puts =>
        db'[Cal!BookingDoc(b)] = db[Cal!BookingDoc(b)]
  BY <1>1, EventsDocs DEF EventsAfter
<1>7. \A b \in Bookings : Cal!BookingDoc(b) \in DOMAIN puts =>
        /\ db'[Cal!BookingDoc(b)] = puts[Cal!BookingDoc(b)]
        /\ s[Cal!BookingDoc(b)] = db[Cal!BookingDoc(b)]
  BY <1>1, EventsDocs DEF EventsAfter
<1>8. \A e \in CalendarEvents : Cal!EventDoc(e) \notin DOMAIN puts =>
        \A b \in Bookings : OfEvent(db, b, e) \/ OfEvent(db', b, e) =>
          Cal!BookingDoc(b) \notin DOMAIN puts
  BY <1>7 DEF EventsSound, OfEvent, Cal!BookingType, Cal!NoBooking
<1>9. \A r \in Rooms : Cal!Lock(r) \notin DOMAIN puts =>
        \A b \in Bookings : Confirmed(db', b, r) => Cal!BookingDoc(b) \notin DOMAIN puts
  BY <1>7 DEF EventsSound, Confirmed, Cal!BookingType
<1>10. GuardsHold'
  <2> SUFFICES ASSUME NEW o \in Clients, Cal!InTxn(o)'
               PROVE  /\ \A e \in CalendarEvents : Cal!EventDoc(e) \notin missed'[o] =>
                           SameBookings(snap'[o], db', e)
                      /\ \A r \in Rooms : Cal!Lock(r) \notin missed'[o] =>
                           \A b \in Bookings : Confirmed(db', b, r) =>
                             snap'[o][Cal!BookingDoc(b)] = db'[Cal!BookingDoc(b)]
    BY DEF GuardsHold
  <2>1. Cal!InTxn(o) /\ snap'[o] = snap[o] /\ missed'[o] = missed[o] \cup DOMAIN puts
    BY <1>2
  <2>2. ASSUME NEW e \in CalendarEvents, Cal!EventDoc(e) \notin missed'[o]
        PROVE  SameBookings(snap'[o], db', e)
    <3>1. SameBookings(snap[o], db, e) /\ Cal!EventDoc(e) \notin DOMAIN puts
      BY <2>1, <2>2 DEF EventsInv, GuardsHold
    <3> SUFFICES ASSUME NEW b \in Bookings, OfEvent(snap[o], b, e) \/ OfEvent(db', b, e)
                 PROVE  snap[o][Cal!BookingDoc(b)] = db'[Cal!BookingDoc(b)]
      BY <2>1 DEF SameBookings
    <3>2. Cal!BookingDoc(b) \notin DOMAIN puts
      BY <3>1, <1>8 DEF SameBookings, OfEvent
    <3> QED BY <3>1, <3>2, <1>6 DEF SameBookings, OfEvent
  <2>3. ASSUME NEW r \in Rooms, Cal!Lock(r) \notin missed'[o],
               NEW b \in Bookings, Confirmed(db', b, r)
        PROVE  snap'[o][Cal!BookingDoc(b)] = db'[Cal!BookingDoc(b)]
    BY <2>1, <2>3, <1>6, <1>9 DEF EventsInv, GuardsHold, Confirmed
  <2> QED BY <2>2, <2>3
<1>11. \A e \in CalendarEvents : Cal!EventDoc(e) \in DOMAIN puts => SameBookings(s, db, e)
  BY DEF Cal!Commit, GuardsHold, EventsInv, Cal!Seen, Cal!Ready, SameBookings, Cal!Now
<1>12. \A r \in Rooms : Cal!Lock(r) \in DOMAIN puts =>
         \A b \in Bookings : Confirmed(db, b, r) => s[Cal!BookingDoc(b)] = db[Cal!BookingDoc(b)]
  BY DEF Cal!Commit, GuardsHold, EventsInv, Cal!Seen, Cal!Ready, Cal!Now
<1>13. Cal!NoConfirmedOverlap'
  <2> SUFFICES ASSUME NEW b \in Bookings, NEW o \in Bookings, b # o,
                      Confirmed(db', b, db'[Cal!BookingDoc(b)].room),
                      Confirmed(db', o, db'[Cal!BookingDoc(b)].room)
               PROVE  ~Cal!Overlap(db'[Cal!BookingDoc(b)].win, db'[Cal!BookingDoc(o)].win)
    BY DEF Cal!NoConfirmedOverlap, Confirmed
  <2>1. \A x, y \in Bookings :
          /\ x # y /\ Cal!BookingDoc(x) \in DOMAIN puts
          /\ Confirmed(db', x, db'[Cal!BookingDoc(x)].room)
          /\ Confirmed(db', y, db'[Cal!BookingDoc(x)].room)
          => ~Cal!Overlap(db'[Cal!BookingDoc(x)].win, db'[Cal!BookingDoc(y)].win)
    <3> SUFFICES ASSUME NEW x \in Bookings, NEW y \in Bookings, x # y,
                        Cal!BookingDoc(x) \in DOMAIN puts,
                        Confirmed(db', x, db'[Cal!BookingDoc(x)].room),
                        Confirmed(db', y, db'[Cal!BookingDoc(x)].room)
                 PROVE  ~Cal!Overlap(db'[Cal!BookingDoc(x)].win, db'[Cal!BookingDoc(y)].win)
      OBVIOUS
    <3>1. /\ puts[Cal!BookingDoc(x)].status = "CONFIRMED"
          /\ puts[Cal!BookingDoc(x)] = db'[Cal!BookingDoc(x)]
          /\ puts[Cal!BookingDoc(x)].room \in Rooms
          /\ Cal!Lock(puts[Cal!BookingDoc(x)].room) \in DOMAIN puts
      BY <1>7 DEF EventsSound, Confirmed, Cal!BookingType
    <3>2. EventsAfter(s, puts)[Cal!BookingDoc(y)] = db'[Cal!BookingDoc(y)]
      BY <3>1, <1>1, <1>12, <1>6, EventsDocs DEF EventsAfter, Confirmed
    <3> QED BY <3>1, <3>2 DEF EventsSound, Confirmed
  <2>2. CASE Cal!BookingDoc(b) \in DOMAIN puts
    BY <2>1, <2>2
  <2>3. CASE Cal!BookingDoc(o) \in DOMAIN puts
    <3>1. ~Cal!Overlap(db'[Cal!BookingDoc(o)].win, db'[Cal!BookingDoc(b)].win)
      BY <2>1, <2>3 DEF Confirmed
    <3> QED BY <3>1 DEF Cal!Overlap
  <2>4. CASE Cal!BookingDoc(b) \notin DOMAIN puts /\ Cal!BookingDoc(o) \notin DOMAIN puts
    BY <2>4, <1>6 DEF EventsInv, Cal!NoConfirmedOverlap, Confirmed
  <2> QED BY <2>2, <2>3, <2>4
<1>14. ASSUME NEW e \in CalendarEvents PROVE Follows(db', e)
  <2>1. \A b \in Bookings :
          /\ db[Cal!BookingDoc(b)] = Cal!NoBooking =>
               db[Cal!BookingDoc(b)].status \notin {"HELD", "CONFIRMED"}
          /\ db'[Cal!BookingDoc(b)] = Cal!NoBooking =>
               db'[Cal!BookingDoc(b)].status \notin {"HELD", "CONFIRMED"}
          /\ s[Cal!BookingDoc(b)] = Cal!NoBooking =>
               s[Cal!BookingDoc(b)].status \notin {"HELD", "CONFIRMED"}
          /\ EventsAfter(s, puts)[Cal!BookingDoc(b)] = Cal!NoBooking =>
               EventsAfter(s, puts)[Cal!BookingDoc(b)].status \notin {"HELD", "CONFIRMED"}
    BY DEF Cal!NoBooking
  <2>2. CASE Cal!EventDoc(e) \in DOMAIN puts
    <3>1. SameBookings(s, db, e) /\ s[Cal!EventDoc(e)] = db[Cal!EventDoc(e)]
      BY <2>2, <1>1, <1>11
    <3>2. Follows(s, e)
      BY <3>1, <2>1, FollowsSame DEF EventsInv, SameBookings
    <3>3. Follows(EventsAfter(s, puts), e)
      BY <3>2, <2>2 DEF EventsSound
    <3>4. SameBookings(EventsAfter(s, puts), db', e)
      BY <3>1, <1>1, <1>6, <1>7, EventsDocs DEF SameBookings, OfEvent, EventsAfter
    <3>5. EventsAfter(s, puts)[Cal!EventDoc(e)] = db'[Cal!EventDoc(e)]
      BY <2>2, <1>1, EventsDocs DEF EventsAfter
    <3> QED BY <3>3, <3>4, <3>5, <2>1, FollowsSame
  <2>3. CASE Cal!EventDoc(e) \notin DOMAIN puts
    <3>1. SameBookings(db, db', e)
      BY <2>3, <1>6, <1>8 DEF SameBookings
    <3>2. db[Cal!EventDoc(e)] = db'[Cal!EventDoc(e)]
      BY <2>3, <1>1, EventsDocs DEF EventsAfter
    <3> QED BY <3>1, <3>2, <2>1, FollowsSame DEF EventsInv
  <2> QED BY <2>2, <2>3
<1>15. DutiesKnown(db')
  <2>1. \A e \in CalendarEvents, p \in People :
          /\ Cal!EventDoc(e) \in Cal!Docs /\ Cal!Duty(e, p) \in Cal!Docs
          /\ Cal!Duty(e, p) \in DOMAIN puts => Cal!EventDoc(e) \in DOMAIN puts
          /\ Cal!EventDoc(e) \in DOMAIN puts => puts[Cal!EventDoc(e)] # Cal!NoEvent
    BY EventsDocs DEF EventsSound
  <2> QED BY <2>1, <1>1 DEF DutiesKnown, EventsInv, EventsAfter, Cal!Known
<1> QED BY <1>3, <1>4, <1>5, <1>10, <1>13, <1>14, <1>15 DEF EventsInv, Follows, OfEvent, Cal!Booked,
          Cal!BookingsOf, Cal!Status, Cal!Known, DutiesKnown
-----------------------------------------------------------------------------
(* Operations on the event and its assignments.                            *)

\* Every snapshot is well formed.
LEMMA EventsSeen ==
  ASSUME EventsInv, NEW c \in Clients \cup {Cal!Now}, Cal!Ready(c)
  PROVE  /\ Cal!CalendarOK(Cal!Seen(c))
         /\ Cal!Seen(c) = [d \in Cal!Docs |-> Cal!Seen(c)[d]]
  BY DEF EventsInv, Cal!CalendarTypeOK, EventsTaken, Cal!Seen, Cal!Ready, Cal!Now

\* An event is something.
LEMMA EventIsKnown == \A event \in Cal!EventType : event # Cal!NoEvent
  BY DEF Cal!EventType, Cal!NoEvent

\* The moves of an event that leave its bookings alone.
Onward ==
  {<<st, st>> : st \in {"DRAFT", "PLANNED", "CONFIRMED"}}
    \cup {<<"none", "DRAFT">>, <<"none", "PLANNED">>, <<"DRAFT", "PLANNED">>,
          <<"CONFIRMED", "COMPLETED">>, <<"COMPLETED", "ARCHIVED">>,
          <<"CANCELLED", "ARCHIVED">>}

\* They are sound.
LEMMA EventWritten ==
  ASSUME NEW s, Cal!CalendarOK(s), NEW e \in CalendarEvents, NEW puts,
         Cal!EventDoc(e) \in DOMAIN puts, puts[Cal!EventDoc(e)] \in Cal!EventType,
         \A d \in DOMAIN puts : \/ d = Cal!EventDoc(e)
                                \/ /\ \E p \in People : d = Cal!Duty(e, p)
                                   /\ puts[d] \in BOOLEAN,
         puts[Cal!EventDoc(e)].rooms = IF Cal!Known(s, e) THEN s[Cal!EventDoc(e)].rooms ELSE {},
         <<Cal!Status(s, e), puts[Cal!EventDoc(e)].status>> \in Onward
  PROVE  EventsSound(s, puts)
<1> DEFINE t == EventsAfter(s, puts)
<1>1. DOMAIN puts \subseteq Cal!Docs
  BY EventsDocs
<1>2. /\ \A b \in Bookings : Cal!BookingDoc(b) \notin DOMAIN puts
      /\ \A x \in Cal!Resources : Cal!Resource(x) \notin DOMAIN puts
      /\ \A f \in CalendarEvents : Cal!EventDoc(f) \in DOMAIN puts => f = e
  BY DEF Cal!EventDoc, Cal!BookingDoc, Cal!Resource, Cal!Duty
<1>3. /\ \A b \in Bookings : t[Cal!BookingDoc(b)] = s[Cal!BookingDoc(b)]
      /\ \A x \in Cal!Resources : t[Cal!Resource(x)] = s[Cal!Resource(x)]
      /\ t[Cal!EventDoc(e)] = puts[Cal!EventDoc(e)]
      /\ \A f \in CalendarEvents : f # e => t[Cal!EventDoc(f)] = s[Cal!EventDoc(f)]
  BY <1>2, EventsDocs DEF EventsAfter
<1>4. \A f \in CalendarEvents, p \in People : t[Cal!Duty(f, p)] \in BOOLEAN
  <2> SUFFICES ASSUME NEW f \in CalendarEvents, NEW p \in People
               PROVE  t[Cal!Duty(f, p)] \in BOOLEAN
    OBVIOUS
  <2>1. Cal!Duty(f, p) \in Cal!Docs /\ Cal!Duty(f, p) # Cal!EventDoc(e)
    BY EventsDocs DEF Cal!Duty, Cal!EventDoc
  <2> QED BY <2>1 DEF EventsAfter, Cal!CalendarOK
<1>5. Cal!CalendarOK(t)
  BY <1>3, <1>4 DEF Cal!CalendarOK
<1>6. Follows(s, e) => Follows(t, e)
  <2> SUFFICES ASSUME Follows(s, e) PROVE Follows(t, e)
    OBVIOUS
  <2>1. \A b \in Bookings :
          /\ OfEvent(t, b, e) <=> OfEvent(s, b, e)
          /\ Cal!Booked(t, b) <=> Cal!Booked(s, b)
    BY <1>3 DEF OfEvent, Cal!Booked
  <2>2. /\ Cal!Status(t, e) = puts[Cal!EventDoc(e)].status
        /\ t[Cal!EventDoc(e)].rooms = puts[Cal!EventDoc(e)].rooms
        /\ t[Cal!EventDoc(e)] = puts[Cal!EventDoc(e)]
    BY <1>3 DEF Cal!Status
  <2>3. \A b \in Bookings : OfEvent(t, b, e) /\ Cal!Booked(t, b) =>
          IF t[Cal!BookingDoc(b)].status = "HELD" THEN Cal!Status(t, e) \in {"DRAFT", "PLANNED"}
          ELSE Cal!Status(t, e) \in {"CONFIRMED", "COMPLETED", "ARCHIVED"}
    BY <2>1, <2>2, <1>3 DEF Follows, Onward
  <2>4. Cal!BookingsOf(t, e, {"HELD", "CONFIRMED"})
          = Cal!BookingsOf(s, e, {"HELD", "CONFIRMED"})
    BY <1>3 DEF Cal!BookingsOf
  <2>5. {t[Cal!BookingDoc(b)].room : b \in Cal!BookingsOf(t, e, {"HELD", "CONFIRMED"})}
          = {s[Cal!BookingDoc(b)].room : b \in Cal!BookingsOf(s, e, {"HELD", "CONFIRMED"})}
    BY <2>4, <1>3 DEF Cal!BookingsOf
  <2>6. CASE Cal!Known(s, e)
    <3>1. Cal!Status(t, e) \notin {"CANCELLED", "ARCHIVED"} =>
            Cal!Status(s, e) \notin {"CANCELLED", "ARCHIVED"}
      BY <2>2 DEF Onward
    <3> QED BY <3>1, <2>2, <2>3, <2>5, <2>6 DEF Follows
  <2>7. CASE ~Cal!Known(s, e)
    <3>1. Cal!Status(s, e) = "none"
      BY <2>7 DEF Cal!Known, Cal!Status, Cal!NoEvent
    <3>2. Cal!BookingsOf(s, e, {"HELD", "CONFIRMED"}) = {}
      BY <3>1 DEF Follows, Cal!BookingsOf, OfEvent, Cal!Booked, Cal!NoBooking
    <3> QED BY <3>2, <2>2, <2>3, <2>5, <2>7 DEF Follows
  <2> QED BY <2>6, <2>7
<1>7. /\ \A f \in CalendarEvents : Cal!EventDoc(f) \in DOMAIN puts =>
           puts[Cal!EventDoc(f)] # Cal!NoEvent
      /\ \A f \in CalendarEvents, p \in People : Cal!Duty(f, p) \in DOMAIN puts =>
           Cal!EventDoc(f) \in DOMAIN puts
  BY <1>2, EventIsKnown DEF Cal!Duty, Cal!EventDoc
<1> QED BY <1>1, <1>2, <1>5, <1>6, <1>7 DEF EventsSound

\* An event that exists has the type of events.
LEMMA KnownEvent ==
  ASSUME NEW s, Cal!CalendarOK(s), NEW e \in CalendarEvents, Cal!Status(s, e) # "none"
  PROVE  s[Cal!EventDoc(e)] \in Cal!EventType /\ Cal!Known(s, e)
  BY DEF Cal!CalendarOK, Cal!Known, Cal!Status, Cal!NoEvent

\* createEvent writes the event, without studios, and its assignments.
LEMMA CreateEventKeeps ==
  ASSUME EventsInv, NEW c \in Clients \cup {Cal!Now}, NEW e \in CalendarEvents,
         NEW w \in EventWindows, NEW ps \in SUBSET People, NEW as \in SUBSET PlatformAccounts,
         NEW status \in {"DRAFT", "PLANNED"}, Cal!CreateEvent(c, e, status, w, ps, as)
  PROVE  EventsInv'
<1> DEFINE s == Cal!Seen(c)
           event == [status |-> status, win |-> w, rooms |-> {}, accounts |-> as]
           duties == [d \in {Cal!Duty(e, p) : p \in ps} |-> TRUE]
           puts == Cal!@@(Cal!:>(Cal!EventDoc(e), event), duties)
<1>1. Cal!Ready(c) /\ Cal!Commit(c, puts) /\ ~Cal!Known(db, e)
  BY DEF Cal!CreateEvent
<1>2. DOMAIN puts = {Cal!EventDoc(e)} \cup {Cal!Duty(e, p) : p \in ps}
  BY DEF Cal!@@, Cal!:>
<1>3. /\ puts[Cal!EventDoc(e)] = event
      /\ \A d \in DOMAIN puts : d # Cal!EventDoc(e) => puts[d] = TRUE
  BY DEF Cal!@@, Cal!:>
<1>4. DOMAIN puts \subseteq Cal!Docs
  BY <1>2, EventsDocs
<1> HIDE DEF puts
<1>5. ~Cal!Known(s, e) /\ Cal!Status(s, e) = "none"
  BY <1>1, <1>2, <1>4, EventsRight DEF EventsInv, Cal!Known, Cal!NoEvent, Cal!Status
<1>6. event \in Cal!EventType
  BY DEF Cal!EventType
<1>7. EventsSound(s, puts)
  <2>1. <<Cal!Status(s, e), puts[Cal!EventDoc(e)].status>> \in Onward
    BY <1>3, <1>5 DEF Onward
  <2>2. \A d \in DOMAIN puts : \/ d = Cal!EventDoc(e)
                               \/ (\E p \in People : d = Cal!Duty(e, p)) /\ puts[d] \in BOOLEAN
    BY <1>2, <1>3
  <2>3. Cal!EventDoc(e) \in DOMAIN puts /\ puts[Cal!EventDoc(e)].rooms = {}
    BY <1>2, <1>3
  <2>4. puts[Cal!EventDoc(e)] \in Cal!EventType /\ Cal!CalendarOK(s)
    BY <1>1, <1>3, <1>6, EventsSeen
  <2> HIDE DEF s
  <2> QED BY <2>1, <2>2, <2>3, <2>4, <1>5, EventWritten
<1> QED BY <1>1, <1>7, EventsCommit

\* Operations that write an event and none of its bookings.
LEMMA EventPut ==
  ASSUME EventsInv, NEW c \in Clients \cup {Cal!Now}, Cal!Ready(c), NEW e \in CalendarEvents,
         NEW event \in Cal!EventType, event.rooms = Cal!Seen(c)[Cal!EventDoc(e)].rooms,
         <<Cal!Status(Cal!Seen(c), e), event.status>> \in Onward, Cal!Known(Cal!Seen(c), e),
         Cal!Commit(c, Cal!:>(Cal!EventDoc(e), event))
  PROVE  EventsInv'
<1> DEFINE puts == Cal!:>(Cal!EventDoc(e), event)
<1>1. DOMAIN puts = {Cal!EventDoc(e)} /\ puts[Cal!EventDoc(e)] = event
  BY DEF Cal!:>
<1>2. EventsSound(Cal!Seen(c), puts)
  BY <1>1, EventsSeen, EventWritten
<1> QED BY <1>2, EventsCommit

\* Operations that write nothing but the status of an event.
LEMMA StatusPut ==
  ASSUME EventsInv, NEW c \in Clients \cup {Cal!Now}, Cal!Ready(c), NEW e \in CalendarEvents,
         NEW status, <<Cal!Status(Cal!Seen(c), e), status>> \in Onward,
         Cal!Status(Cal!Seen(c), e) # "none",
         Cal!Commit(c, Cal!PutEvent(Cal!Seen(c), e, status))
  PROVE  EventsInv'
<1> DEFINE s == Cal!Seen(c)
           event == [s[Cal!EventDoc(e)] EXCEPT !.status = status]
<1>1. s[Cal!EventDoc(e)] \in Cal!EventType /\ Cal!Known(s, e)
  BY EventsSeen, KnownEvent
<1>2. event \in Cal!EventType /\ event.rooms = s[Cal!EventDoc(e)].rooms /\ event.status = status
  BY <1>1 DEF Cal!EventType, Onward
<1> QED BY <1>1, <1>2, EventPut DEF Cal!PutEvent

\* replaceAssignments writes assignments and touches the event.
LEMMA ReplaceAssignmentsKeeps ==
  ASSUME EventsInv, NEW c \in Clients \cup {Cal!Now}, NEW e \in CalendarEvents,
         NEW ps \in SUBSET People, Cal!ReplaceAssignments(c, e, ps)
  PROVE  EventsInv'
<1> DEFINE s == Cal!Seen(c)
           old == Cal!Assigned(s, e)
           changed == {Cal!Duty(e, p) : p \in (ps \ old) \cup (old \ ps)}
           duties == [d \in changed |-> d[3] \in ps]
           puts == Cal!@@(duties, Cal!Touched(s, e))
           event == [s[Cal!EventDoc(e)] EXCEPT !.status = Cal!Status(s, e)]
<1>1. /\ Cal!Ready(c) /\ Cal!Commit(c, puts) /\ Cal!Status(s, e) \in {"DRAFT", "PLANNED"}
  BY DEF Cal!ReplaceAssignments
<1>2. s[Cal!EventDoc(e)] \in Cal!EventType /\ Cal!Known(s, e)
  BY <1>1, EventsSeen, KnownEvent
<1>3. DOMAIN puts = changed \cup {Cal!EventDoc(e)}
  BY DEF Cal!Touched, Cal!PutEvent, Cal!@@, Cal!:>
<1>4. Cal!EventDoc(e) \notin changed
  BY DEF Cal!EventDoc, Cal!Duty
<1>5. puts[Cal!EventDoc(e)] = event /\ \A d \in changed : puts[d] = (d[3] \in ps)
  BY <1>3, <1>4 DEF Cal!Touched, Cal!PutEvent, Cal!@@, Cal!:>
<1>6. /\ event \in Cal!EventType /\ event.rooms = s[Cal!EventDoc(e)].rooms
      /\ <<Cal!Status(s, e), event.status>> \in Onward
  BY <1>1, <1>2 DEF Cal!EventType, Onward, Cal!Status
<1>7. \A d \in DOMAIN puts : \/ d = Cal!EventDoc(e)
                             \/ (\E p \in People : d = Cal!Duty(e, p)) /\ puts[d] \in BOOLEAN
  <2>1. ASSUME NEW d \in changed PROVE puts[d] \in BOOLEAN
    <3>1. puts[d] = (d[3] \in ps)
      BY <1>5
    <3> HIDE DEF puts
    <3> QED BY <3>1
  <2>2. \A d \in changed : \E p \in People : d = Cal!Duty(e, p)
    BY DEF Cal!Assigned
  <2> QED BY <2>1, <2>2, <1>3
<1> HIDE DEF puts, event
<1>8. EventsSound(s, puts)
  <2>1. Cal!EventDoc(e) \in DOMAIN puts /\ Cal!CalendarOK(s)
    BY <1>1, <1>3, EventsSeen
  <2> HIDE DEF s, changed
  <2> QED BY <2>1, <1>2, <1>5, <1>6, <1>7, EventWritten
<1> QED BY <1>1, <1>8, EventsCommit

\* The other operations that leave the bookings alone.
LEMMA EventOperationsKeep ==
  ASSUME EventsInv, NEW c \in Clients \cup {Cal!Now}, NEW e \in CalendarEvents,
         \/ Cal!UpdateEventCore(c, e) \/ Cal!PlanEvent(c, e)
         \/ Cal!CompleteEvent(c, e) \/ Cal!ArchiveEvent(c, e)
         \/ \E w \in EventWindows : Cal!RescheduleEvent(c, e, w)
         \/ \E as \in SUBSET PlatformAccounts : Cal!UpdateAccounts(c, e, as)
  PROVE  EventsInv'
<1> DEFINE s == Cal!Seen(c)
<1>1. CASE Cal!UpdateEventCore(c, e)
  <2>1. /\ Cal!Ready(c) /\ Cal!Status(s, e) \in {"DRAFT", "PLANNED"}
        /\ Cal!Commit(c, Cal!PutEvent(s, e, Cal!Status(s, e)))
    BY <1>1 DEF Cal!UpdateEventCore
  <2> QED BY <2>1, StatusPut DEF Onward
<1>2. CASE Cal!PlanEvent(c, e)
  <2>1. /\ Cal!Ready(c) /\ Cal!Status(s, e) = "DRAFT"
        /\ Cal!Commit(c, Cal!PutEvent(s, e, "PLANNED"))
    BY <1>2 DEF Cal!PlanEvent
  <2> QED BY <2>1, StatusPut DEF Onward
<1>3. CASE Cal!CompleteEvent(c, e)
  <2>1. /\ Cal!Ready(c) /\ Cal!Status(s, e) = "CONFIRMED"
        /\ Cal!Commit(c, Cal!PutEvent(s, e, "COMPLETED"))
    BY <1>3 DEF Cal!CompleteEvent
  <2> QED BY <2>1, StatusPut DEF Onward
<1>4. CASE Cal!ArchiveEvent(c, e)
  <2>1. /\ Cal!Ready(c) /\ Cal!Status(s, e) \in {"COMPLETED", "CANCELLED"}
        /\ Cal!Commit(c, Cal!PutEvent(s, e, "ARCHIVED"))
    BY <1>4 DEF Cal!ArchiveEvent
  <2> QED BY <2>1, StatusPut DEF Onward
<1>5. ASSUME NEW w \in EventWindows, Cal!RescheduleEvent(c, e, w) PROVE EventsInv'
  <2> DEFINE event == [s[Cal!EventDoc(e)] EXCEPT !.win = w]
  <2>1. /\ Cal!Ready(c) /\ Cal!Status(s, e) \in {"DRAFT", "PLANNED", "CONFIRMED"}
        /\ Cal!Commit(c, Cal!:>(Cal!EventDoc(e), event))
    BY <1>5 DEF Cal!RescheduleEvent, Cal!Shifted
  <2>2. s[Cal!EventDoc(e)] \in Cal!EventType /\ Cal!Known(s, e)
    BY <2>1, EventsSeen, KnownEvent
  <2>3. event \in Cal!EventType /\ event.rooms = s[Cal!EventDoc(e)].rooms
        /\ <<Cal!Status(s, e), event.status>> \in Onward
    BY <2>1, <2>2 DEF Cal!EventType, Onward, Cal!Status
  <2> QED BY <2>1, <2>2, <2>3, EventPut
<1>6. ASSUME NEW as \in SUBSET PlatformAccounts, Cal!UpdateAccounts(c, e, as) PROVE EventsInv'
  <2> DEFINE event == [s[Cal!EventDoc(e)] EXCEPT !.accounts = as]
  <2>1. /\ Cal!Ready(c) /\ Cal!Status(s, e) \in {"DRAFT", "PLANNED"}
        /\ Cal!Commit(c, Cal!:>(Cal!EventDoc(e), event))
    BY <1>6 DEF Cal!UpdateAccounts
  <2>2. s[Cal!EventDoc(e)] \in Cal!EventType /\ Cal!Known(s, e)
    BY <2>1, EventsSeen, KnownEvent
  <2>3. event \in Cal!EventType /\ event.rooms = s[Cal!EventDoc(e)].rooms
        /\ <<Cal!Status(s, e), event.status>> \in Onward
    BY <2>1, <2>2 DEF Cal!EventType, Onward, Cal!Status
  <2> QED BY <2>1, <2>2, <2>3, EventPut
<1> QED BY <1>1, <1>2, <1>3, <1>4, <1>5, <1>6
-----------------------------------------------------------------------------
(* Operations on bookings and resources.                                   *)

\* A booking written together with the studios of its event is sound, if it
\* is held or confirmed as the event is, and confirmed under the lock.
LEMMA BookingWritten ==
  ASSUME NEW s, Cal!CalendarOK(s), s = [d \in Cal!Docs |-> s[d]],
         NEW b \in Bookings, NEW booking \in Cal!BookingType, NEW locks,
         Cal!Known(s, booking.event),
         s[Cal!BookingDoc(b)] # Cal!NoBooking => s[Cal!BookingDoc(b)].event = booking.event,
         booking.status = "HELD" => Cal!Status(s, booking.event) \in {"DRAFT", "PLANNED"},
         booking.status = "CONFIRMED" =>
           /\ Cal!Status(s, booking.event) = "CONFIRMED"
           /\ Cal!Lock(booking.room) \in DOMAIN locks
           /\ ~Cal!Occupied(s, b, booking.room, booking.win),
         \A d \in DOMAIN locks : \E r \in Rooms : d = Cal!Lock(r)
  PROVE  EventsSound(s, Cal!@@(Cal!PutBooking(s, b, booking), locks))
<1> DEFINE e == booking.event
           t == [s EXCEPT ![Cal!BookingDoc(b)] = booking]
           rooms == {t[Cal!BookingDoc(o)].room : o \in Cal!BookingsOf(t, e, {"HELD", "CONFIRMED"})}
           event == [s[Cal!EventDoc(e)] EXCEPT !.rooms = rooms]
           puts == Cal!@@(Cal!PutBooking(s, b, booking), locks)
           u == EventsAfter(s, puts)
<1>1. e \in CalendarEvents /\ booking.room \in Rooms
  BY DEF Cal!BookingType
<1>2. s[Cal!EventDoc(e)] \in Cal!EventType
  BY <1>1 DEF Cal!CalendarOK, Cal!Known
<1>3. Cal!BookingDoc(b) # Cal!EventDoc(e)
  BY DEF Cal!BookingDoc, Cal!EventDoc
<1>4. DOMAIN puts = {Cal!BookingDoc(b), Cal!EventDoc(e)} \cup DOMAIN locks
  BY DEF Cal!PutBooking, Cal!Synced, Cal!@@, Cal!:>
<1>5. puts[Cal!BookingDoc(b)] = booking /\ puts[Cal!EventDoc(e)] = event
  <2>1. t[Cal!EventDoc(e)] = s[Cal!EventDoc(e)]
    BY <1>1, <1>3, EventsDocs
  <2> HIDE DEF t
  <2>2. Cal!Synced(t, e) = Cal!:>(Cal!EventDoc(e), event)
    BY <2>1 DEF Cal!Synced
  <2> HIDE DEF event
  <2>3. Cal!PutBooking(s, b, booking)
          = Cal!@@(Cal!:>(Cal!BookingDoc(b), booking), Cal!:>(Cal!EventDoc(e), event))
    BY <2>2 DEF Cal!PutBooking, t
  <2> QED BY <1>3, <2>3 DEF Cal!@@, Cal!:>
<1>6. /\ \A o \in Bookings : Cal!BookingDoc(o) \in DOMAIN puts => o = b
      /\ \A f \in CalendarEvents : Cal!EventDoc(f) \in DOMAIN puts => f = e
      /\ \A f \in CalendarEvents, p \in People : Cal!Duty(f, p) \notin DOMAIN puts
      /\ \A x \in Cal!Resources : Cal!Resource(x) \notin DOMAIN puts
  BY <1>4 DEF Cal!BookingDoc, Cal!EventDoc, Cal!Duty, Cal!Resource, Cal!Lock
<1> HIDE DEF puts
<1>7. DOMAIN puts \subseteq Cal!Docs
  BY <1>1, <1>4, EventsDocs
<1>8. /\ u[Cal!BookingDoc(b)] = booking
      /\ \A o \in Bookings \ {b} : u[Cal!BookingDoc(o)] = s[Cal!BookingDoc(o)]
      /\ u[Cal!EventDoc(e)] = event
      /\ \A f \in CalendarEvents \ {e} : u[Cal!EventDoc(f)] = s[Cal!EventDoc(f)]
      /\ \A f \in CalendarEvents, p \in People : u[Cal!Duty(f, p)] = s[Cal!Duty(f, p)]
      /\ \A x \in Cal!Resources : u[Cal!Resource(x)] = s[Cal!Resource(x)]
  BY <1>1, <1>4, <1>5, <1>6, EventsDocs DEF EventsAfter
<1>9. \A o \in Bookings : t[Cal!BookingDoc(o)] = u[Cal!BookingDoc(o)]
  <2>1. \A o \in Bookings : Cal!BookingDoc(o) = Cal!BookingDoc(b) => o = b
    BY DEF Cal!BookingDoc
  <2> HIDE DEF u
  <2> QED BY <2>1, <1>8, EventsDocs
<1> HIDE DEF t, u
<1>10. \A o \in Bookings : u[Cal!BookingDoc(o)] \in Cal!BookingType \cup {Cal!NoBooking}
  BY <1>8 DEF Cal!CalendarOK
<1>11. rooms \in SUBSET Rooms
  BY <1>9, <1>10 DEF Cal!BookingsOf, Cal!BookingType, Cal!NoBooking
<1>12. event \in Cal!EventType /\ event.rooms = rooms /\ event.status = Cal!Status(s, e)
  <2> HIDE DEF rooms
  <2> QED BY <1>2, <1>11 DEF Cal!EventType, Cal!Status
<1>13. Cal!CalendarOK(u)
  <2> HIDE DEF event
  <2> QED BY <1>8, <1>10, <1>12 DEF Cal!CalendarOK
<1>14. rooms = {u[Cal!BookingDoc(o)].room : o \in Cal!BookingsOf(u, e, {"HELD", "CONFIRMED"})}
  BY <1>9 DEF Cal!BookingsOf
<1> HIDE DEF rooms, event
<1>15. Follows(s, e) => Follows(u, e)
  <2> SUFFICES ASSUME Follows(s, e) PROVE Follows(u, e)
    OBVIOUS
  <2>1. Cal!Status(u, e) = Cal!Status(s, e) /\ u[Cal!EventDoc(e)].rooms = rooms
    BY <1>8, <1>12 DEF Cal!Status
  <2>2. \A o \in Bookings : OfEvent(u, o, e) /\ Cal!Booked(u, o) =>
          IF u[Cal!BookingDoc(o)].status = "HELD" THEN Cal!Status(u, e) \in {"DRAFT", "PLANNED"}
          ELSE Cal!Status(u, e) \in {"CONFIRMED", "COMPLETED", "ARCHIVED"}
    BY <2>1, <1>8 DEF Follows, OfEvent, Cal!Booked
  <2> QED BY <2>1, <2>2, <1>14 DEF Follows
<1>16. booking.status = "CONFIRMED" =>
         \A o \in Bookings \ {b} : Confirmed(u, o, booking.room) =>
           ~Cal!Overlap(booking.win, u[Cal!BookingDoc(o)].win)
  BY <1>8 DEF Cal!Occupied, Confirmed
<1>17. event # Cal!NoEvent
  BY <1>12, EventIsKnown
<1>18. EventsSound(s, puts)
  BY <1>1, <1>4, <1>5, <1>6, <1>7, <1>13, <1>15, <1>16, <1>17 DEF EventsSound, u
<1> QED BY <1>18 DEF puts

\* A new booking is held for an event being planned, or confirmed under the
\* lock for one that is confirmed.
LEMMA CreateBookingKeeps ==
  ASSUME EventsInv, NEW c \in Clients \cup {Cal!Now}, NEW b \in Bookings,
         NEW e \in CalendarEvents, NEW r \in Rooms, NEW w \in EventWindows,
         NEW status \in {"HELD", "CONFIRMED"}, Cal!CreateBooking(c, b, e, r, w, status)
  PROVE  EventsInv'
<1> DEFINE s == Cal!Seen(c)
           booking == [event |-> e, room |-> r, win |-> w, status |-> status]
           puts == Cal!@@(Cal!PutBooking(s, b, booking), Cal!Locked({r}))
<1>1. /\ Cal!Ready(c) /\ Cal!Commit(c, puts) /\ db[Cal!BookingDoc(b)] = Cal!NoBooking
      /\ status = "HELD" => Cal!Status(s, e) \in {"DRAFT", "PLANNED"}
      /\ status = "CONFIRMED" => Cal!Status(s, e) = "CONFIRMED" /\ ~Cal!Occupied(s, b, r, w)
  BY DEF Cal!CreateBooking
<1>2. booking \in Cal!BookingType /\ booking.event = e /\ booking.room = r
      /\ booking.win = w /\ booking.status = status
  BY DEF Cal!BookingType
<1>3. DOMAIN puts = {Cal!BookingDoc(b), Cal!EventDoc(e)} \cup DOMAIN Cal!Locked({r})
  BY DEF Cal!PutBooking, Cal!Synced, Cal!@@, Cal!:>
<1>4. DOMAIN Cal!Locked({r}) = {Cal!Lock(r)}
  BY DEF Cal!Locked
<1>5. DOMAIN puts \subseteq Cal!Docs
  BY <1>3, <1>4, EventsDocs
<1>6. Cal!Known(s, e)
  BY <1>1, EventsSeen, KnownEvent
<1> HIDE DEF puts
<1>7. s[Cal!BookingDoc(b)] = Cal!NoBooking
  BY <1>1, <1>3, <1>5, EventsRight DEF EventsInv
<1>8. EventsSound(s, puts)
  <2>1. Cal!CalendarOK(s) /\ s = [d \in Cal!Docs |-> s[d]]
    BY <1>1, EventsSeen
  <2>2. \A d \in DOMAIN Cal!Locked({r}) : \E x \in Rooms : d = Cal!Lock(x)
    BY <1>4
  <2> HIDE DEF s, booking
  <2> QED BY <2>1, <2>2, <1>1, <1>2, <1>4, <1>6, <1>7, BookingWritten DEF puts
<1> QED BY <1>1, <1>8, EventsCommit

\* transitionStudioBooking ends a booking, or confirms it under the lock.
LEMMA TransitionBookingKeeps ==
  ASSUME EventsInv, NEW c \in Clients \cup {Cal!Now}, NEW b \in Bookings,
         NEW to \in {"CONFIRMED", "ENDED"}, Cal!TransitionBooking(c, b, to)
  PROVE  EventsInv'
<1> DEFINE s == Cal!Seen(c)
           old == s[Cal!BookingDoc(b)]
           booking == [old EXCEPT !.status = to]
           locks == IF to = "CONFIRMED" THEN Cal!Locked({old.room}) ELSE <<>>
           puts == Cal!@@(Cal!PutBooking(s, b, booking), locks)
<1>1. /\ Cal!Ready(c) /\ Cal!Commit(c, puts) /\ old.status \in {"HELD", "CONFIRMED"}
      /\ to = "CONFIRMED" => /\ Cal!Status(s, old.event) = "CONFIRMED"
                             /\ ~Cal!Occupied(s, b, old.room, old.win)
  BY DEF Cal!TransitionBooking
<1>2. old \in Cal!BookingType
  BY <1>1, EventsSeen DEF Cal!CalendarOK, Cal!NoBooking
<1>3. /\ booking \in Cal!BookingType /\ booking.event = old.event
      /\ booking.room = old.room /\ booking.win = old.win /\ booking.status = to
  BY <1>2 DEF Cal!BookingType
<1>4. old.event \in CalendarEvents /\ old.room \in Rooms
  BY <1>2 DEF Cal!BookingType
<1>5. DOMAIN locks = IF to = "CONFIRMED" THEN {Cal!Lock(old.room)} ELSE {}
  BY DEF Cal!Locked
<1> HIDE DEF locks, booking
<1>6. DOMAIN puts = {Cal!BookingDoc(b), Cal!EventDoc(old.event)} \cup DOMAIN locks
  BY <1>3 DEF Cal!PutBooking, Cal!Synced, Cal!@@, Cal!:>
<1>7. DOMAIN puts \subseteq Cal!Docs
  BY <1>4, <1>5, <1>6, EventsDocs
<1> HIDE DEF puts
<1>8. s[Cal!EventDoc(old.event)] = db[Cal!EventDoc(old.event)] /\ old = db[Cal!BookingDoc(b)]
  BY <1>1, <1>6, <1>7, EventsRight DEF EventsInv
<1>9. Cal!Known(s, old.event)
  <2>1. Follows(db, old.event)
    BY <1>4 DEF EventsInv
  <2>2. OfEvent(db, b, old.event) /\ Cal!Booked(db, b)
    BY <1>1, <1>8 DEF OfEvent, Cal!Booked, Cal!NoBooking
  <2>3. Cal!Status(db, old.event) # "none"
    BY <2>1, <2>2 DEF Follows
  <2> QED BY <2>3, <1>8 DEF Cal!Status, Cal!Known, Cal!NoEvent
<1>10. EventsSound(s, puts)
  <2>1. Cal!CalendarOK(s) /\ s = [d \in Cal!Docs |-> s[d]]
    BY <1>1, EventsSeen
  <2>2. \A d \in DOMAIN locks : \E x \in Rooms : d = Cal!Lock(x)
    BY <1>4, <1>5
  <2> HIDE DEF s
  <2> QED BY <2>1, <2>2, <1>1, <1>3, <1>5, <1>9, BookingWritten DEF puts
<1> QED BY <1>1, <1>10, EventsCommit
\* An event written together with bookings of it, and locks.
MovesBookings(s, e, status, bs, to, puts) ==
  /\ DOMAIN puts \subseteq
       {Cal!EventDoc(e)} \cup {Cal!BookingDoc(b) : b \in bs} \cup {Cal!Lock(r) : r \in Rooms}
  /\ Cal!EventDoc(e) \in DOMAIN puts
  /\ puts[Cal!EventDoc(e)] = [s[Cal!EventDoc(e)] EXCEPT !.status = status]
  /\ \A b \in bs : /\ Cal!BookingDoc(b) \in DOMAIN puts
                   /\ puts[Cal!BookingDoc(b)] = [s[Cal!BookingDoc(b)] EXCEPT !.status = to]
                   /\ s[Cal!BookingDoc(b)] \in Cal!BookingType /\ s[Cal!BookingDoc(b)].event = e

\* What the snapshot becomes then.
BookingsMoved(s, u, e, status, bs, to, puts) ==
  /\ DOMAIN puts \subseteq Cal!Docs
  /\ \A b \in Bookings : Cal!BookingDoc(b) \in DOMAIN puts => b \in bs
  /\ \A f \in CalendarEvents : Cal!EventDoc(f) \in DOMAIN puts => f = e
  /\ u[Cal!EventDoc(e)] = [s[Cal!EventDoc(e)] EXCEPT !.status = status]
  /\ \A f \in CalendarEvents \ {e} : u[Cal!EventDoc(f)] = s[Cal!EventDoc(f)]
  /\ \A b \in bs : u[Cal!BookingDoc(b)] = [s[Cal!BookingDoc(b)] EXCEPT !.status = to]
  /\ \A b \in Bookings \ bs : u[Cal!BookingDoc(b)] = s[Cal!BookingDoc(b)]
  /\ \A f \in CalendarEvents, p \in People : u[Cal!Duty(f, p)] = s[Cal!Duty(f, p)]
  /\ \A x \in Cal!Resources : u[Cal!Resource(x)] = s[Cal!Resource(x)]

\* The writes make it so.
LEMMA MovedAfter ==
  ASSUME NEW s, NEW e \in CalendarEvents, NEW status, NEW bs \in SUBSET Bookings, NEW to,
         NEW puts, MovesBookings(s, e, status, bs, to, puts)
  PROVE  BookingsMoved(s, EventsAfter(s, puts), e, status, bs, to, puts)
<1>1. /\ \A b \in Bookings : Cal!BookingDoc(b) \in DOMAIN puts => b \in bs
      /\ \A f \in CalendarEvents : Cal!EventDoc(f) \in DOMAIN puts => f = e
      /\ \A f \in CalendarEvents, p \in People : Cal!Duty(f, p) \notin DOMAIN puts
      /\ \A x \in Cal!Resources : Cal!Resource(x) \notin DOMAIN puts
  BY DEF MovesBookings, Cal!BookingDoc, Cal!EventDoc, Cal!Duty, Cal!Resource, Cal!Lock
<1>2. DOMAIN puts \subseteq Cal!Docs
  BY EventsDocs DEF MovesBookings
<1> QED BY <1>1, <1>2, EventsDocs DEF BookingsMoved, MovesBookings, EventsAfter

\* It is sound if the bookings confirmed are locked and overlap neither a
\* confirmed one nor each other, and the bookings follow the event.
LEMMA MoveSound ==
  ASSUME NEW s, Cal!CalendarOK(s), NEW e \in CalendarEvents, NEW status,
         s[Cal!EventDoc(e)] \in Cal!EventType,
         [s[Cal!EventDoc(e)] EXCEPT !.status = status] \in Cal!EventType,
         NEW bs \in SUBSET Bookings, NEW to \in {"CONFIRMED", "ENDED"},
         NEW puts, MovesBookings(s, e, status, bs, to, puts),
         Follows(s, e) => Follows(EventsAfter(s, puts), e),
         to = "CONFIRMED" => \A b \in bs :
           /\ Cal!Lock(s[Cal!BookingDoc(b)].room) \in DOMAIN puts
           /\ ~Cal!Occupied(s, b, s[Cal!BookingDoc(b)].room, s[Cal!BookingDoc(b)].win)
           /\ \A o \in bs : b # o /\ s[Cal!BookingDoc(b)].room = s[Cal!BookingDoc(o)].room
                => ~Cal!Overlap(s[Cal!BookingDoc(b)].win, s[Cal!BookingDoc(o)].win)
  PROVE  EventsSound(s, puts)
<1> DEFINE u == EventsAfter(s, puts)
<1>1. BookingsMoved(s, u, e, status, bs, to, puts)
  BY MovedAfter
<1>2. \A b \in bs : /\ Cal!BookingDoc(b) \in DOMAIN puts
                    /\ puts[Cal!BookingDoc(b)] = [s[Cal!BookingDoc(b)] EXCEPT !.status = to]
                    /\ s[Cal!BookingDoc(b)] \in Cal!BookingType /\ s[Cal!BookingDoc(b)].event = e
  BY DEF MovesBookings
<1>3. Cal!EventDoc(e) \in DOMAIN puts
  BY DEF MovesBookings
<1> HIDE DEF u
<1>4. ASSUME NEW b \in bs
      PROVE  /\ puts[Cal!BookingDoc(b)] = u[Cal!BookingDoc(b)] /\ u[Cal!BookingDoc(b)] \in Cal!BookingType
             /\ u[Cal!BookingDoc(b)].event = e /\ u[Cal!BookingDoc(b)].status = to
             /\ u[Cal!BookingDoc(b)].room = s[Cal!BookingDoc(b)].room
             /\ u[Cal!BookingDoc(b)].win = s[Cal!BookingDoc(b)].win
  <2>1. /\ u[Cal!BookingDoc(b)] = [s[Cal!BookingDoc(b)] EXCEPT !.status = to]
        /\ puts[Cal!BookingDoc(b)] = u[Cal!BookingDoc(b)]
        /\ s[Cal!BookingDoc(b)] \in Cal!BookingType /\ s[Cal!BookingDoc(b)].event = e
    BY <1>1, <1>2 DEF BookingsMoved
  <2> QED BY <2>1 DEF Cal!BookingType
<1>5. Cal!CalendarOK(u)
  <2>1. \A f \in CalendarEvents : u[Cal!EventDoc(f)] \in Cal!EventType \cup {Cal!NoEvent}
    BY <1>1 DEF Cal!CalendarOK, BookingsMoved
  <2>2. \A b \in Bookings : u[Cal!BookingDoc(b)] \in Cal!BookingType \cup {Cal!NoBooking}
    BY <1>1, <1>4 DEF Cal!CalendarOK, BookingsMoved
  <2> QED BY <2>1, <2>2, <1>1 DEF Cal!CalendarOK, BookingsMoved
<1>6. ASSUME to = "CONFIRMED", NEW b \in bs, NEW o \in Bookings \ {b},
             Confirmed(u, o, s[Cal!BookingDoc(b)].room)
      PROVE  ~Cal!Overlap(s[Cal!BookingDoc(b)].win, u[Cal!BookingDoc(o)].win)
  <2>1. CASE o \in bs
    <3>1. /\ s[Cal!BookingDoc(o)].room = s[Cal!BookingDoc(b)].room
          /\ u[Cal!BookingDoc(o)].win = s[Cal!BookingDoc(o)].win
      BY <2>1, <1>4, <1>6 DEF Confirmed
    <3> QED BY <3>1, <2>1, <1>6
  <2>2. CASE o \notin bs
    <3>1. u[Cal!BookingDoc(o)] = s[Cal!BookingDoc(o)]
      BY <2>2, <1>1 DEF BookingsMoved
    <3> QED BY <3>1, <1>6 DEF Confirmed, Cal!Occupied
  <2> QED BY <2>1, <2>2
<1>7. ASSUME NEW b \in Bookings, Cal!BookingDoc(b) \in DOMAIN puts
      PROVE  /\ puts[Cal!BookingDoc(b)] \in Cal!BookingType
             /\ Cal!EventDoc(puts[Cal!BookingDoc(b)].event) \in DOMAIN puts
             /\ s[Cal!BookingDoc(b)].event = puts[Cal!BookingDoc(b)].event
             /\ puts[Cal!BookingDoc(b)].status = "CONFIRMED" =>
                  /\ Cal!Lock(puts[Cal!BookingDoc(b)].room) \in DOMAIN puts
                  /\ \A o \in Bookings \ {b} : Confirmed(u, o, puts[Cal!BookingDoc(b)].room) =>
                       ~Cal!Overlap(puts[Cal!BookingDoc(b)].win, u[Cal!BookingDoc(o)].win)
  <2>1. b \in bs
    BY <1>1, <1>7 DEF BookingsMoved
  <2>2. s[Cal!BookingDoc(b)].event = e
    BY <2>1, <1>2
  <2> QED BY <2>1, <2>2, <1>3, <1>4, <1>6
<1>8. \A f \in CalendarEvents : Cal!EventDoc(f) \in DOMAIN puts /\ Follows(s, f) => Follows(u, f)
  BY <1>1 DEF BookingsMoved, u
<1>9. /\ \A f \in CalendarEvents : Cal!EventDoc(f) \in DOMAIN puts =>
           puts[Cal!EventDoc(f)] # Cal!NoEvent
      /\ \A f \in CalendarEvents, p \in People : Cal!Duty(f, p) \notin DOMAIN puts
  <2>1. puts[Cal!EventDoc(e)] \in Cal!EventType
    BY DEF MovesBookings
  <2>2. \A f \in CalendarEvents, p \in People : Cal!Duty(f, p) \notin DOMAIN puts
    BY DEF MovesBookings, Cal!Duty, Cal!EventDoc, Cal!BookingDoc, Cal!Lock
  <2> QED BY <1>1, <2>1, <2>2, EventIsKnown DEF BookingsMoved
<1> QED BY <1>1, <1>5, <1>7, <1>8, <1>9 DEF BookingsMoved, EventsSound, u

\* confirmEvent confirms the bookings held for the event, under their locks.
LEMMA ConfirmEventKeeps ==
  ASSUME EventsInv, NEW c \in Clients \cup {Cal!Now}, NEW e \in CalendarEvents,
         Cal!ConfirmEvent(c, e)
  PROVE  EventsInv'
<1> DEFINE s == Cal!Seen(c)
           held == Cal!BookingsOf(s, e, {"HELD"})
           rooms == {s[Cal!BookingDoc(b)].room : b \in held}
           puts == Cal!@@(Cal!@@(Cal!PutEvent(s, e, "CONFIRMED"),
                                  Cal!Moved(s, held, "CONFIRMED")), Cal!Locked(rooms))
           event == [s[Cal!EventDoc(e)] EXCEPT !.status = "CONFIRMED"]
           u == EventsAfter(s, puts)
<1>1. /\ Cal!Ready(c) /\ Cal!Commit(c, puts) /\ Cal!Status(s, e) = "PLANNED"
      /\ \A b, o \in held :
           b # o /\ s[Cal!BookingDoc(b)].room = s[Cal!BookingDoc(o)].room =>
             ~Cal!Overlap(s[Cal!BookingDoc(b)].win, s[Cal!BookingDoc(o)].win)
      /\ \A b \in held : ~Cal!Occupied(s, b, s[Cal!BookingDoc(b)].room, s[Cal!BookingDoc(b)].win)
  BY DEF Cal!ConfirmEvent
<1>2. Cal!CalendarOK(s) /\ s[Cal!EventDoc(e)] \in Cal!EventType
  BY <1>1, EventsSeen, KnownEvent
<1>3. event \in Cal!EventType /\ event.rooms = s[Cal!EventDoc(e)].rooms /\ event.status = "CONFIRMED"
  BY <1>2 DEF Cal!EventType
<1>4. held \in SUBSET Bookings /\ \A b \in held :
        /\ s[Cal!BookingDoc(b)] \in Cal!BookingType /\ s[Cal!BookingDoc(b)].event = e
        /\ s[Cal!BookingDoc(b)].status = "HELD" /\ s[Cal!BookingDoc(b)].room \in Rooms
  BY <1>2 DEF Cal!BookingsOf, Cal!CalendarOK, Cal!NoBooking, Cal!BookingType
<1> HIDE DEF held, s
<1>5. DOMAIN puts = {Cal!EventDoc(e)}
                      \cup {Cal!BookingDoc(b) : b \in held} \cup {Cal!Lock(r) : r \in rooms}
  BY DEF Cal!PutEvent, Cal!Moved, Cal!Locked, Cal!@@, Cal!:>
<1>6. \A b \in held : Cal!BookingDoc(b) # Cal!EventDoc(e)
  BY DEF Cal!BookingDoc, Cal!EventDoc
<1>7. /\ puts[Cal!EventDoc(e)] = event
      /\ \A b \in held : puts[Cal!BookingDoc(b)] = [s[Cal!BookingDoc(b)] EXCEPT !.status = "CONFIRMED"]
  BY <1>6 DEF Cal!PutEvent, Cal!Moved, Cal!@@, Cal!:>
<1>8. rooms \subseteq Rooms
  BY <1>4
<1> HIDE DEF puts
<1>9. MovesBookings(s, e, "CONFIRMED", held, "CONFIRMED", puts)
  <2>1. \A b \in held : Cal!BookingDoc(b) \in DOMAIN puts
    BY <1>5
  <2> HIDE DEF rooms
  <2> QED BY <2>1, <1>4, <1>5, <1>7, <1>8 DEF MovesBookings
<1> HIDE DEF event
<1>10. Follows(s, e) => Follows(u, e)
  <2> SUFFICES ASSUME Follows(s, e) PROVE Follows(u, e)
    OBVIOUS
  <2>1. /\ u[Cal!EventDoc(e)] = event
        /\ \A b \in held : u[Cal!BookingDoc(b)] = [s[Cal!BookingDoc(b)] EXCEPT !.status = "CONFIRMED"]
        /\ \A b \in Bookings \ held : u[Cal!BookingDoc(b)] = s[Cal!BookingDoc(b)]
    <3>1. BookingsMoved(s, u, e, "CONFIRMED", held, "CONFIRMED", puts)
      BY <1>4, <1>9, MovedAfter
    <3> HIDE DEF u
    <3> QED BY <3>1 DEF BookingsMoved, event
  <2> HIDE DEF u
  <2>2. \A b \in held : /\ u[Cal!BookingDoc(b)].event = e
                        /\ u[Cal!BookingDoc(b)].room = s[Cal!BookingDoc(b)].room
                        /\ u[Cal!BookingDoc(b)].status = "CONFIRMED"
                        /\ u[Cal!BookingDoc(b)] # Cal!NoBooking
    BY <2>1, <1>4 DEF Cal!BookingType, Cal!NoBooking
  <2>3. \A b \in Bookings \ held : OfEvent(s, b, e) => ~Cal!Booked(s, b)
    BY <1>1 DEF Follows, held, Cal!BookingsOf, Cal!Booked, OfEvent
  <2>4. Cal!BookingsOf(u, e, {"HELD", "CONFIRMED"}) = held
    BY <2>1, <2>2, <2>3, <1>4 DEF Cal!BookingsOf, Cal!Booked, OfEvent, Cal!NoBooking
  <2>5. Cal!BookingsOf(s, e, {"HELD", "CONFIRMED"}) = held
    BY <2>3, <1>4 DEF Cal!BookingsOf, Cal!Booked, OfEvent, Cal!NoBooking
  <2>6. {u[Cal!BookingDoc(b)].room : b \in held} = {s[Cal!BookingDoc(b)].room : b \in held}
    BY <2>2
  <2>7. Cal!Status(u, e) = "CONFIRMED" /\ u[Cal!EventDoc(e)].rooms = s[Cal!EventDoc(e)].rooms
    BY <2>1, <1>3 DEF Cal!Status
  <2>8. s[Cal!EventDoc(e)].rooms = {s[Cal!BookingDoc(b)].room : b \in held}
    BY <1>1, <2>5 DEF Follows, Cal!Known, Cal!Status, Cal!NoEvent
  <2>9. \A b \in Bookings : OfEvent(u, b, e) /\ Cal!Booked(u, b) =>
          u[Cal!BookingDoc(b)].status = "CONFIRMED"
    BY <2>1, <2>2, <2>3 DEF OfEvent, Cal!Booked
  <2> QED BY <2>4, <2>6, <2>7, <2>8, <2>9 DEF Follows
<1>11. \A b \in held : Cal!Lock(s[Cal!BookingDoc(b)].room) \in DOMAIN puts
  BY <1>5
<1>12. EventsSound(s, puts)
  BY <1>1, <1>2, <1>3, <1>4, <1>9, <1>10, <1>11, MoveSound DEF event
<1> QED BY <1>1, <1>12, EventsCommit DEF s

\* cancelEvent ends every booking of the event that is held or confirmed.
LEMMA CancelEventKeeps ==
  ASSUME EventsInv, NEW c \in Clients \cup {Cal!Now}, NEW e \in CalendarEvents, Cal!CancelEvent(c, e)
  PROVE  EventsInv'
<1> DEFINE s == Cal!Seen(c)
           bs == Cal!BookingsOf(s, e, {"HELD", "CONFIRMED"})
           puts == Cal!@@(Cal!PutEvent(s, e, "CANCELLED"), Cal!Moved(s, bs, "ENDED"))
           event == [s[Cal!EventDoc(e)] EXCEPT !.status = "CANCELLED"]
           u == EventsAfter(s, puts)
<1>1. /\ Cal!Ready(c) /\ Cal!Commit(c, puts)
      /\ Cal!Status(s, e) \in {"DRAFT", "PLANNED", "CONFIRMED"}
  BY DEF Cal!CancelEvent, Cal!CancelledBookings
<1>2. Cal!CalendarOK(s) /\ s[Cal!EventDoc(e)] \in Cal!EventType
  BY <1>1, EventsSeen, KnownEvent
<1>3. event \in Cal!EventType /\ event.status = "CANCELLED"
  BY <1>2 DEF Cal!EventType
<1>4. bs \in SUBSET Bookings /\ \A b \in bs :
        s[Cal!BookingDoc(b)] \in Cal!BookingType /\ s[Cal!BookingDoc(b)].event = e
  BY <1>2 DEF Cal!BookingsOf, Cal!CalendarOK, Cal!NoBooking, Cal!BookingType
<1> HIDE DEF bs, s
<1>5. DOMAIN puts = {Cal!EventDoc(e)} \cup {Cal!BookingDoc(b) : b \in bs}
  BY DEF Cal!PutEvent, Cal!Moved, Cal!@@, Cal!:>
<1>6. \A b \in bs : Cal!BookingDoc(b) # Cal!EventDoc(e)
  BY DEF Cal!BookingDoc, Cal!EventDoc
<1>7. /\ puts[Cal!EventDoc(e)] = event
      /\ \A b \in bs : puts[Cal!BookingDoc(b)] = [s[Cal!BookingDoc(b)] EXCEPT !.status = "ENDED"]
  BY <1>6 DEF Cal!PutEvent, Cal!Moved, Cal!@@, Cal!:>
<1> HIDE DEF puts
<1>8. MovesBookings(s, e, "CANCELLED", bs, "ENDED", puts)
  <2>1. \A b \in bs : Cal!BookingDoc(b) \in DOMAIN puts
    BY <1>5
  <2> QED BY <2>1, <1>4, <1>5, <1>7 DEF MovesBookings
<1> HIDE DEF event
<1>9. Follows(u, e)
  <2>1. /\ u[Cal!EventDoc(e)] = event
        /\ \A b \in bs : u[Cal!BookingDoc(b)] = [s[Cal!BookingDoc(b)] EXCEPT !.status = "ENDED"]
        /\ \A b \in Bookings \ bs : u[Cal!BookingDoc(b)] = s[Cal!BookingDoc(b)]
    <3>1. BookingsMoved(s, u, e, "CANCELLED", bs, "ENDED", puts)
      BY <1>4, <1>8, MovedAfter
    <3> HIDE DEF u
    <3> QED BY <3>1 DEF BookingsMoved, event
  <2> HIDE DEF u
  <2>2. \A b \in bs : u[Cal!BookingDoc(b)].status = "ENDED"
    BY <2>1, <1>4 DEF Cal!BookingType
  <2>3. \A b \in Bookings : OfEvent(u, b, e) => ~Cal!Booked(u, b)
    BY <2>1, <2>2 DEF OfEvent, Cal!Booked, bs, Cal!BookingsOf
  <2>4. Cal!Status(u, e) = "CANCELLED"
    BY <2>1, <1>3 DEF Cal!Status
  <2> QED BY <2>3, <2>4 DEF Follows
<1>10. EventsSound(s, puts)
  BY <1>2, <1>3, <1>4, <1>8, <1>9, MoveSound DEF event
<1> QED BY <1>1, <1>10, EventsCommit DEF s

\* The lifecycle of a resource touches no event and no booking.
LEMMA MoveResourceKeeps ==
  ASSUME EventsInv, NEW c \in Clients \cup {Cal!Now}, NEW x \in Cal!Resources,
         NEW to \in {"ACTIVE", "PAUSED", "INACTIVE", "ARCHIVED"}, Cal!MoveResource(c, x, to)
  PROVE  EventsInv'
<1> DEFINE s == Cal!Seen(c)
           puts == Cal!:>(Cal!Resource(x), to)
           u == EventsAfter(s, puts)
<1>1. Cal!Ready(c) /\ Cal!Commit(c, puts)
  BY DEF Cal!MoveResource
<1>2. Cal!CalendarOK(s)
  BY <1>1, EventsSeen
<1>3. DOMAIN puts = {Cal!Resource(x)} /\ puts[Cal!Resource(x)] = to
  BY DEF Cal!:>
<1> HIDE DEF s, puts
<1>4. /\ DOMAIN puts \subseteq Cal!Docs
      /\ \A b \in Bookings : Cal!BookingDoc(b) \notin DOMAIN puts
      /\ \A e \in CalendarEvents : Cal!EventDoc(e) \notin DOMAIN puts
      /\ \A e \in CalendarEvents, p \in People : Cal!Duty(e, p) \notin DOMAIN puts
  BY <1>3, EventsDocs DEF Cal!BookingDoc, Cal!EventDoc, Cal!Duty, Cal!Resource
<1>5. /\ \A b \in Bookings : u[Cal!BookingDoc(b)] = s[Cal!BookingDoc(b)]
      /\ \A e \in CalendarEvents : u[Cal!EventDoc(e)] = s[Cal!EventDoc(e)]
      /\ \A e \in CalendarEvents, p \in People : u[Cal!Duty(e, p)] = s[Cal!Duty(e, p)]
      /\ \A y \in Cal!Resources : u[Cal!Resource(y)] \in {s[Cal!Resource(y)], to}
  BY <1>3, <1>4, EventsDocs DEF EventsAfter
<1>6. Cal!CalendarOK(u)
  <2> HIDE DEF u
  <2> QED BY <1>2, <1>5 DEF Cal!CalendarOK
<1>7. EventsSound(s, puts)
  BY <1>4, <1>6 DEF EventsSound
<1> QED BY <1>1, <1>7, EventsCommit DEF s
-----------------------------------------------------------------------------
(* The specification.                                                      *)

\* It holds at first: there are neither events nor bookings.
LEMMA EventsInit == Cal!Init => EventsInv
<1> SUFFICES ASSUME Cal!Init PROVE EventsInv
  OBVIOUS
<1>1. PICK ready \in Starts : db = [d \in Cal!Docs |->
         CASE d[1] = "event" -> Cal!NoEvent
           [] d[1] = "duty" -> FALSE
           [] d[1] = "booking" -> Cal!NoBooking
           [] d[1] = "lock" -> "free"
           [] d[1] = "resource" -> IF d[2] \in ready THEN "ACTIVE" ELSE "ARCHIVED"]
  BY DEF Cal!Init
<1>2. /\ \A e \in CalendarEvents : db[Cal!EventDoc(e)] = Cal!NoEvent
      /\ \A e \in CalendarEvents, p \in People : db[Cal!Duty(e, p)] = FALSE
      /\ \A b \in Bookings : db[Cal!BookingDoc(b)] = Cal!NoBooking
      /\ \A x \in Cal!Resources : db[Cal!Resource(x)] \in {"ACTIVE", "ARCHIVED"}
  BY <1>1, EventsDocs DEF Cal!EventDoc, Cal!Duty, Cal!BookingDoc, Cal!Resource
<1>3. \A c \in Clients : ~Cal!InTxn(c) /\ missed[c] = {}
  BY DEF Cal!Init, Cal!TxnInit, Cal!InTxn
<1>4. EventsTaken
  <2> DEFINE content(d) == CASE d[1] = "event" -> Cal!NoEvent
                             [] d[1] = "duty" -> FALSE
                             [] d[1] = "booking" -> Cal!NoBooking
                             [] d[1] = "lock" -> "free"
                             [] d[1] = "resource" -> IF d[2] \in ready THEN "ACTIVE"
                                                     ELSE "ARCHIVED"
  <2>1. db = [d \in Cal!Docs |-> content(d)]
    BY <1>1
  <2> HIDE DEF content
  <2>2. db = [d \in Cal!Docs |-> db[d]]
    BY <2>1
  <2> QED BY <2>2, <1>3 DEF EventsTaken, Cal!Init, Cal!TxnInit
<1>5. Cal!CalendarTypeOK
  BY <1>2, <1>3 DEF Cal!CalendarTypeOK, Cal!CalendarOK
<1>6. Cal!SnapshotCurrent /\ GuardsHold
  BY <1>3 DEF Cal!SnapshotCurrent, GuardsHold
<1>7. Cal!NoConfirmedOverlap
  BY <1>2 DEF Cal!NoConfirmedOverlap, Cal!NoBooking
<1>8. \A e \in CalendarEvents : Follows(db, e)
  BY <1>2 DEF Follows, OfEvent, Cal!Known
<1>9. DutiesKnown(db)
  BY <1>2 DEF DutiesKnown
<1> QED BY <1>4, <1>5, <1>6, <1>7, <1>8, <1>9 DEF EventsInv

\* A transaction that begins sees the database as it is.
LEMMA EventsBegin == ASSUME EventsInv, NEW c \in Clients, Cal!Begin(c) PROVE EventsInv'
<1>1. db' = db /\ missed' = missed
  BY DEF Cal!Begin
<1>2. snap' = [o \in Clients |-> IF o = c THEN db ELSE snap[o]]
  BY DEF Cal!Begin, EventsInv, EventsTaken
<1>3. \A o \in Clients : \/ Cal!InTxn(o) /\ snap'[o] = snap[o]
                         \/ ~Cal!InTxn(o)' /\ snap'[o] = snap[o]
                         \/ snap'[o] = db
  BY <1>2 DEF Cal!InTxn
<1>4. EventsTaken'
  BY <1>1, <1>2 DEF EventsTaken, EventsInv, Cal!InTxn
<1>5. Cal!CalendarTypeOK'
  <2>1. \A o \in Clients : Cal!InTxn(o)' => Cal!CalendarOK(snap'[o])
    BY <1>3 DEF EventsInv, Cal!CalendarTypeOK
  <2> QED BY <2>1, <1>1 DEF EventsInv, Cal!CalendarTypeOK, Cal!CalendarOK
<1>6. Cal!SnapshotCurrent'
  BY <1>1, <1>3 DEF EventsInv, Cal!SnapshotCurrent
<1>7. GuardsHold'
  BY <1>1, <1>3 DEF EventsInv, GuardsHold, SameBookings
<1>8. Cal!NoConfirmedOverlap' /\ \A e \in CalendarEvents : Follows(db', e)
  BY <1>1 DEF EventsInv, Cal!NoConfirmedOverlap
<1> QED BY <1>1, <1>4, <1>5, <1>6, <1>7, <1>8 DEF EventsInv

\* One that ends without a commit takes its snapshot away.
LEMMA EventsAbort == ASSUME EventsInv, NEW c \in Clients, Cal!Abort(c) PROVE EventsInv'
<1>1. db' = db
  BY DEF Cal!Abort
<1>2. \A o \in Clients : Cal!InTxn(o)' => Cal!InTxn(o) /\ snap'[o] = snap[o] /\ missed'[o] = missed[o]
  BY DEF Cal!Abort, Cal!InTxn, Cal!NoSnapshot, EventsInv, EventsTaken
<1>3. EventsTaken'
  BY <1>1, <1>2 DEF EventsTaken, EventsInv, Cal!Abort
<1>4. Cal!CalendarTypeOK'
  BY <1>1, <1>2 DEF EventsInv, Cal!CalendarTypeOK, Cal!CalendarOK
<1>5. Cal!SnapshotCurrent' /\ GuardsHold'
  BY <1>1, <1>2 DEF EventsInv, Cal!SnapshotCurrent, GuardsHold
<1>6. Cal!NoConfirmedOverlap' /\ \A e \in CalendarEvents : Follows(db', e)
  BY <1>1 DEF EventsInv, Cal!NoConfirmedOverlap
<1> QED BY <1>1, <1>3, <1>4, <1>5, <1>6 DEF EventsInv

\* Every step keeps the invariant.
LEMMA EventsNext == EventsInv /\ [Cal!Next]_(Cal!txnVars) => EventsInv'
<1> SUFFICES ASSUME EventsInv, [Cal!Next]_(Cal!txnVars) PROVE EventsInv'
  OBVIOUS
<1>1. ASSUME NEW c \in Clients \cup {Cal!Now}, NEW e \in CalendarEvents, Cal!EventStep(c, e)
      PROVE  EventsInv'
  BY <1>1, CreateEventKeeps, EventOperationsKeep, ReplaceAssignmentsKeeps,
     ConfirmEventKeeps, CancelEventKeeps DEF Cal!EventStep
<1>2. ASSUME NEW c \in Clients \cup {Cal!Now}, NEW b \in Bookings, Cal!BookingStep(c, b)
      PROVE  EventsInv'
  BY <1>2, CreateBookingKeeps, TransitionBookingKeeps DEF Cal!BookingStep
<1>3. ASSUME NEW c \in Clients \cup {Cal!Now}, NEW x \in Cal!Resources,
             NEW to \in {"ACTIVE", "PAUSED", "INACTIVE", "ARCHIVED"}, Cal!MoveResource(c, x, to)
      PROVE  EventsInv'
  BY <1>3, MoveResourceKeeps
<1>4. ASSUME NEW c \in Clients, Cal!Begin(c) \/ Cal!Abort(c) PROVE EventsInv'
  BY <1>4, EventsBegin, EventsAbort
<1>5. CASE UNCHANGED Cal!txnVars
  BY <1>5 DEF Cal!txnVars, EventsInv, EventsTaken, Cal!CalendarTypeOK, Cal!CalendarOK, Cal!SnapshotCurrent,
       GuardsHold, SameBookings, Cal!NoConfirmedOverlap, Cal!InTxn
<1> QED BY <1>1, <1>2, <1>3, <1>4, <1>5 DEF Cal!Next

\* Of every behaviour.
LEMMA EventsAlways == Cal!Spec => []EventsInv
  BY EventsInit, EventsNext, PTL DEF Cal!Spec

-----------------------------------------------------------------------------
(* Steps that miss nothing.                                                *)

\* Who has missed nothing sees the database.
LEMMA EventsSeeAll ==
  ASSUME EventsInv, NEW c \in Clients \cup {Cal!Now}, Cal!Ready(c), ~Cal!LateCommit,
         NEW puts, Cal!Commit(c, puts)
  PROVE  Cal!Seen(c) = db
<1>1. CASE c = Cal!Now
  BY <1>1 DEF Cal!Seen
<1>2. CASE c # Cal!Now
  <2>1. c \in Clients /\ Cal!InTxn(c)
    BY <1>2 DEF Cal!Ready
  <2>2. ~Cal!InTxn(c)'
    BY <2>1 DEF Cal!Commit, Cal!InTxn
  <2>3. missed[c] = {}
    BY <2>1, <2>2 DEF Cal!LateCommit
  <2>4. \A d \in Cal!Docs : snap[c][d] = db[d]
    BY <2>1, <2>3 DEF EventsInv, Cal!SnapshotCurrent
  <2>5. snap[c] = [d \in Cal!Docs |-> snap[c][d]] /\ db = [d \in Cal!Docs |-> db[d]]
    BY <2>1 DEF EventsInv, EventsTaken
  <2>6. snap[c] = db
    BY <2>4, <2>5
  <2> QED BY <1>2, <2>6 DEF Cal!Seen
<1> QED BY <1>1, <1>2

\* No two events come to share a person or an account, unless one is a draft.
ClashFine(s, t) == \A e, f \in CalendarEvents :
  e # f /\ Cal!DoubleBooked(t, e, f) =>
    Cal!DoubleBooked(s, e, f) \/ \E g \in {e, f} : Cal!Status(s, g) = "DRAFT"

\* Nothing in use comes to be out of service.
OutFine(s, t) == \A x \in Cal!Resources : Cal!Unserved(t, x) => Cal!Unserved(s, x)

EventsFine(s, t) == ClashFine(s, t) /\ OutFine(s, t)

\* Two events are double booked whichever comes first.
LEMMA EitherWay ==
  ASSUME NEW s, NEW e, NEW f, Cal!DoubleBooked(s, e, f)
  PROVE  Cal!DoubleBooked(s, f, e)
<1>1. /\ Cal!LiveEvent(s, f) /\ Cal!LiveEvent(s, e)
      /\ Cal!Overlap(s[Cal!EventDoc(f)].win, s[Cal!EventDoc(e)].win)
  BY DEF Cal!DoubleBooked, Cal!Overlap
<1>2. \/ Cal!Assigned(s, f) \cap Cal!Assigned(s, e) # {}
      \/ s[Cal!EventDoc(f)].accounts \cap s[Cal!EventDoc(e)].accounts # {}
  BY DEF Cal!DoubleBooked
<1> QED BY <1>1, <1>2 DEF Cal!DoubleBooked

\* What is written of one event and its assignments is fine, if the event was
\* a draft or shares nothing that it did not.
LEMMA EventFine ==
  ASSUME NEW s, NEW e \in CalendarEvents, NEW puts,
         \A d \in DOMAIN puts : d = Cal!EventDoc(e) \/ \E p \in People : d = Cal!Duty(e, p),
         \A f \in CalendarEvents \ {e} :
           Cal!DoubleBooked(EventsAfter(s, puts), e, f) =>
             Cal!DoubleBooked(s, e, f) \/ Cal!Status(s, e) = "DRAFT"
  PROVE  EventsFine(s, EventsAfter(s, puts))
<1> DEFINE t == EventsAfter(s, puts)
<1>1. /\ \A b \in Bookings : Cal!BookingDoc(b) \notin DOMAIN puts
      /\ \A x \in Cal!Resources : Cal!Resource(x) \notin DOMAIN puts
      /\ \A f \in CalendarEvents \ {e} : Cal!EventDoc(f) \notin DOMAIN puts
      /\ \A f \in CalendarEvents \ {e}, p \in People : Cal!Duty(f, p) \notin DOMAIN puts
  BY DEF Cal!EventDoc, Cal!BookingDoc, Cal!Resource, Cal!Duty
<1>2. /\ \A b \in Bookings : t[Cal!BookingDoc(b)] = s[Cal!BookingDoc(b)]
      /\ \A x \in Cal!Resources : t[Cal!Resource(x)] = s[Cal!Resource(x)]
      /\ \A f \in CalendarEvents \ {e} : t[Cal!EventDoc(f)] = s[Cal!EventDoc(f)]
      /\ \A f \in CalendarEvents \ {e}, p \in People :
           t[Cal!Duty(f, p)] = s[Cal!Duty(f, p)]
  BY <1>1, EventsDocs DEF EventsAfter
<1>3. \A f \in CalendarEvents \ {e} :
        Cal!DoubleBooked(t, e, f) => Cal!DoubleBooked(s, e, f) \/ Cal!Status(s, e) = "DRAFT"
  OBVIOUS
<1> HIDE DEF t
<1>4. OutFine(s, t)
  BY <1>2 DEF OutFine, Cal!Unserved, Cal!InService, Cal!Booked, Cal!Resources
<1>5. ClashFine(s, t)
  <2> SUFFICES ASSUME NEW f \in CalendarEvents, NEW g \in CalendarEvents, f # g,
                      Cal!DoubleBooked(t, f, g)
               PROVE  Cal!DoubleBooked(s, f, g)
                        \/ \E h \in {f, g} : Cal!Status(s, h) = "DRAFT"
    BY DEF ClashFine
  <2>1. CASE f = e
    BY <1>3, <2>1
  <2>2. CASE g = e
    <3>1. Cal!DoubleBooked(s, e, f) \/ Cal!Status(s, e) = "DRAFT"
      BY <1>3, <2>2, EitherWay
    <3> QED BY <3>1, <2>2, EitherWay
  <2>3. CASE f # e /\ g # e
    <3>1. /\ t[Cal!EventDoc(f)] = s[Cal!EventDoc(f)] /\ t[Cal!EventDoc(g)] = s[Cal!EventDoc(g)]
          /\ Cal!Assigned(t, f) = Cal!Assigned(s, f)
          /\ Cal!Assigned(t, g) = Cal!Assigned(s, g)
      BY <1>2, <2>3 DEF Cal!Assigned
    <3> QED BY <3>1 DEF Cal!DoubleBooked, Cal!LiveEvent, Cal!Status
  <2> QED BY <2>1, <2>2, <2>3
<1> QED BY <1>4, <1>5 DEF EventsFine, t

\* Where assignments and resources stay, events keep window and accounts or are
\* live no more, and bookings end or are of studios in service, all is fine.
LEMMA StaysFine ==
  ASSUME NEW s, NEW t,
         \A f \in CalendarEvents, p \in People : t[Cal!Duty(f, p)] = s[Cal!Duty(f, p)],
         \A x \in Cal!Resources : t[Cal!Resource(x)] = s[Cal!Resource(x)],
         \A f \in CalendarEvents : Cal!LiveEvent(t, f) =>
           /\ Cal!LiveEvent(s, f) \/ Cal!Status(s, f) = "DRAFT"
           /\ t[Cal!EventDoc(f)].win = s[Cal!EventDoc(f)].win
           /\ t[Cal!EventDoc(f)].accounts = s[Cal!EventDoc(f)].accounts,
         \A b \in Bookings : Cal!Booked(t, b) =>
           \/ Cal!Booked(s, b) /\ s[Cal!BookingDoc(b)].room = t[Cal!BookingDoc(b)].room
           \/ Cal!InService(s, {t[Cal!BookingDoc(b)].room})
  PROVE  EventsFine(s, t)
<1>1. ClashFine(s, t)
  <2> SUFFICES ASSUME NEW f \in CalendarEvents, NEW g \in CalendarEvents,
                      Cal!DoubleBooked(t, f, g), f # g,
                      Cal!Status(s, f) # "DRAFT", Cal!Status(s, g) # "DRAFT"
               PROVE  Cal!DoubleBooked(s, f, g)
    BY DEF ClashFine
  <2>1. Cal!LiveEvent(t, f) /\ Cal!LiveEvent(t, g)
    BY DEF Cal!DoubleBooked
  <2>2. Cal!Assigned(t, f) = Cal!Assigned(s, f) /\ Cal!Assigned(t, g) = Cal!Assigned(s, g)
    BY DEF Cal!Assigned
  <2> QED BY <2>1, <2>2 DEF Cal!DoubleBooked
<1>2. OutFine(s, t)
  <2> SUFFICES ASSUME NEW x \in Cal!Resources, Cal!Unserved(t, x) PROVE Cal!Unserved(s, x)
    BY DEF OutFine
  <2>1. ~Cal!InService(s, {x})
    BY DEF Cal!Unserved, Cal!InService
  <2>2. ASSUME NEW b \in Bookings, Cal!Booked(t, b), t[Cal!BookingDoc(b)].room = x
        PROVE  Cal!Booked(s, b) /\ s[Cal!BookingDoc(b)].room = x
    BY <2>1, <2>2
  <2>3. \A a \in PlatformAccounts : t[Cal!Resource(a)] = s[Cal!Resource(a)]
    BY DEF Cal!Resources
  <2> QED BY <2>1, <2>2, <2>3 DEF Cal!Unserved
<1> QED BY <1>1, <1>2 DEF EventsFine

\* So it decides on the database, and writes to it.
LEMMA EventsTimely ==
  ASSUME EventsInv, NEW c \in Clients \cup {Cal!Now}, Cal!Ready(c), ~Cal!LateCommit,
         NEW puts, Cal!Commit(c, puts)
  PROVE  /\ Cal!Seen(c) = db /\ db' = EventsAfter(db, puts) /\ Cal!CalendarOK(db)
  BY EventsSeeAll DEF Cal!Commit, EventsAfter, EventsInv, Cal!CalendarTypeOK

\* createEvent compares what it writes with every event in a live status.
LEMMA CreateEventFine ==
  ASSUME EventsInv, NEW c \in Clients \cup {Cal!Now}, NEW e \in CalendarEvents, ~Cal!LateCommit,
         NEW w \in EventWindows, NEW ps \in SUBSET People, NEW as \in SUBSET PlatformAccounts,
         NEW status \in {"DRAFT", "PLANNED"}, Cal!CreateEvent(c, e, status, w, ps, as)
  PROVE  EventsFine(db, db')
<1> DEFINE event == [status |-> status, win |-> w, rooms |-> {}, accounts |-> as]
           duties == [d \in {Cal!Duty(e, p) : p \in ps} |-> TRUE]
           puts == Cal!@@(Cal!:>(Cal!EventDoc(e), event), duties)
           t == EventsAfter(db, puts)
<1>1. Cal!Ready(c) /\ Cal!Commit(c, puts) /\ ~Cal!Known(db, e)
      /\ ~Cal!Clash(Cal!Seen(c), e, w, ps, as)
  BY DEF Cal!CreateEvent
<1>2. DOMAIN puts = {Cal!EventDoc(e)} \cup {Cal!Duty(e, p) : p \in ps}
  BY DEF Cal!@@, Cal!:>
<1>3. puts[Cal!EventDoc(e)] = event
  BY DEF Cal!@@, Cal!:>
<1> HIDE DEF puts
<1>4. ~Cal!Clash(db, e, w, ps, as) /\ db' = t
  BY <1>1, EventsTimely
<1>5. /\ t[Cal!EventDoc(e)] = event
      /\ \A f \in CalendarEvents \ {e} : t[Cal!EventDoc(f)] = db[Cal!EventDoc(f)]
      /\ \A f \in CalendarEvents \ {e}, p \in People :
           t[Cal!Duty(f, p)] = db[Cal!Duty(f, p)]
  BY <1>2, <1>3, EventsDocs DEF EventsAfter, Cal!EventDoc, Cal!Duty
<1>6. Cal!Assigned(t, e) \subseteq ps
  <2>1. ASSUME NEW p \in People, p \notin ps PROVE ~t[Cal!Duty(e, p)]
    <3>1. Cal!Duty(e, p) \notin DOMAIN puts
      BY <1>2, <2>1 DEF Cal!Duty, Cal!EventDoc
    <3>2. t[Cal!Duty(e, p)] = db[Cal!Duty(e, p)]
      BY <3>1, EventsDocs DEF EventsAfter
    <3> QED BY <3>2, <1>1 DEF EventsInv, DutiesKnown
  <2> HIDE DEF t
  <2> QED BY <2>1 DEF Cal!Assigned
<1>7. ASSUME NEW f \in CalendarEvents \ {e}, Cal!DoubleBooked(t, e, f)
      PROVE  FALSE
  <2> HIDE DEF t
  <2>1. /\ Cal!LiveEvent(db, f) /\ Cal!Overlap(w, db[Cal!EventDoc(f)].win)
    BY <1>5, <1>7 DEF Cal!DoubleBooked, Cal!LiveEvent, Cal!Status
  <2>2. Cal!Assigned(t, f) = Cal!Assigned(db, f)
    BY <1>5 DEF Cal!Assigned
  <2>3. \/ ps \cap Cal!Assigned(db, f) # {}
        \/ as \cap db[Cal!EventDoc(f)].accounts # {}
    <3>1. \/ Cal!Assigned(t, e) \cap Cal!Assigned(t, f) # {}
          \/ t[Cal!EventDoc(e)].accounts \cap t[Cal!EventDoc(f)].accounts # {}
      BY <1>7 DEF Cal!DoubleBooked
    <3>2. t[Cal!EventDoc(e)].accounts = as
      BY <1>5
    <3>3. t[Cal!EventDoc(f)] = db[Cal!EventDoc(f)]
      BY <1>5
    <3> QED BY <3>1, <3>2, <3>3, <1>6, <2>2
  <2> QED BY <1>4, <2>1, <2>3 DEF Cal!Clash
<1>8. \A d \in DOMAIN puts : d = Cal!EventDoc(e) \/ \E p \in People : d = Cal!Duty(e, p)
  BY <1>2
<1> QED BY <1>4, <1>7, <1>8, EventFine

\* replaceAssignments compares the people, rescheduleEvent people and accounts.
LEMMA ReplaceAssignmentsFine ==
  ASSUME EventsInv, NEW c \in Clients \cup {Cal!Now}, NEW e \in CalendarEvents, ~Cal!LateCommit,
         NEW ps \in SUBSET People, Cal!ReplaceAssignments(c, e, ps)
  PROVE  EventsFine(db, db')
<1> DEFINE old == Cal!Assigned(Cal!Seen(c), e)
           changed == {Cal!Duty(e, p) : p \in (ps \ old) \cup (old \ ps)}
           duties == [d \in changed |-> d[3] \in ps]
           puts == Cal!@@(duties, Cal!Touched(Cal!Seen(c), e))
           t == EventsAfter(db, puts)
           event == [db[Cal!EventDoc(e)] EXCEPT !.status = Cal!Status(db, e)]
<1>1. /\ Cal!Ready(c) /\ Cal!Commit(c, puts)
      /\ Cal!Status(Cal!Seen(c), e) \in {"DRAFT", "PLANNED"}
      /\ ~Cal!Clash(Cal!Seen(c), e, Cal!Seen(c)[Cal!EventDoc(e)].win, ps,
                    Cal!Seen(c)[Cal!EventDoc(e)].accounts)
  BY DEF Cal!ReplaceAssignments
<1>2. DOMAIN puts = changed \cup {Cal!EventDoc(e)} /\ Cal!EventDoc(e) \notin changed
  BY DEF Cal!Touched, Cal!PutEvent, Cal!@@, Cal!:>, Cal!EventDoc, Cal!Duty
<1>3. \A d \in changed : puts[d] = (d[3] \in ps)
  BY DEF Cal!@@
<1>4. puts[Cal!EventDoc(e)] = Cal!Touched(Cal!Seen(c), e)[Cal!EventDoc(e)]
  BY <1>2 DEF Cal!@@, Cal!Touched, Cal!PutEvent, Cal!:>
<1> HIDE DEF puts
<1>5. Cal!Seen(c) = db /\ db' = t /\ Cal!CalendarOK(db)
  BY <1>1, EventsTimely
<1>6. puts[Cal!EventDoc(e)] = event
  BY <1>4, <1>5 DEF Cal!Touched, Cal!PutEvent, Cal!:>
<1>7. db[Cal!EventDoc(e)] \in Cal!EventType
  BY <1>1, <1>5, KnownEvent
<1>8. event.win = db[Cal!EventDoc(e)].win /\ event.accounts = db[Cal!EventDoc(e)].accounts
  BY <1>7 DEF Cal!EventType
<1> HIDE DEF event
<1>9. /\ t[Cal!EventDoc(e)] = event
      /\ \A f \in CalendarEvents \ {e} : t[Cal!EventDoc(f)] = db[Cal!EventDoc(f)]
      /\ \A f \in CalendarEvents \ {e}, p \in People :
           t[Cal!Duty(f, p)] = db[Cal!Duty(f, p)]
  BY <1>2, <1>6, EventsDocs DEF EventsAfter, Cal!EventDoc, Cal!Duty
<1>10. Cal!Assigned(t, e) \subseteq ps
  <2>1. ASSUME NEW p \in People, p \notin ps PROVE ~t[Cal!Duty(e, p)]
    <3>1. CASE p \in old
      <4>1. Cal!Duty(e, p) \in changed /\ Cal!Duty(e, p)[3] = p
        BY <2>1, <3>1 DEF Cal!Duty
      <4> HIDE DEF changed
      <4>2. t[Cal!Duty(e, p)] = puts[Cal!Duty(e, p)]
        BY <4>1, <1>2, EventsDocs DEF EventsAfter
      <4> QED BY <4>1, <4>2, <1>3, <2>1
    <3>2. CASE p \notin old
      <4>1. Cal!Duty(e, p) \notin DOMAIN puts
        BY <1>2, <2>1, <3>2 DEF Cal!Duty, Cal!EventDoc
      <4>2. t[Cal!Duty(e, p)] = db[Cal!Duty(e, p)]
        BY <4>1, EventsDocs DEF EventsAfter
      <4>3. p \notin Cal!Assigned(db, e)
        BY <3>2, <1>5
      <4> HIDE DEF t
      <4> QED BY <4>2, <4>3 DEF Cal!Assigned
    <3> QED BY <3>1, <3>2
  <2> HIDE DEF t
  <2> QED BY <2>1 DEF Cal!Assigned
<1>11. ~Cal!Clash(db, e, db[Cal!EventDoc(e)].win, ps, db[Cal!EventDoc(e)].accounts)
  BY <1>1, <1>5
<1>12. ASSUME NEW f \in CalendarEvents \ {e}, Cal!DoubleBooked(t, e, f)
       PROVE  FALSE
  <2> HIDE DEF t
  <2>1. /\ Cal!LiveEvent(db, f)
        /\ Cal!Overlap(db[Cal!EventDoc(e)].win, db[Cal!EventDoc(f)].win)
    BY <1>8, <1>9, <1>12 DEF Cal!DoubleBooked, Cal!LiveEvent, Cal!Status
  <2>2. Cal!Assigned(t, f) = Cal!Assigned(db, f)
    BY <1>9 DEF Cal!Assigned
  <2>3. \/ ps \cap Cal!Assigned(db, f) # {}
        \/ db[Cal!EventDoc(e)].accounts \cap db[Cal!EventDoc(f)].accounts # {}
    BY <1>8, <1>9, <1>10, <1>12, <2>2 DEF Cal!DoubleBooked
  <2> QED BY <1>11, <2>1, <2>3 DEF Cal!Clash
<1>13. \A d \in DOMAIN puts : d = Cal!EventDoc(e) \/ \E p \in People : d = Cal!Duty(e, p)
  BY <1>2 DEF Cal!Assigned
<1> QED BY <1>5, <1>12, <1>13, EventFine

\* Operations that write an event and none of its assignments.
LEMMA EventPutFine ==
  ASSUME EventsInv, NEW c \in Clients \cup {Cal!Now}, NEW e \in CalendarEvents, ~Cal!LateCommit,
         Cal!Ready(c), NEW event, Cal!Commit(c, Cal!:>(Cal!EventDoc(e), event)),
         \A f \in CalendarEvents \ {e} :
           /\ event.status \in {"PLANNED", "CONFIRMED"} /\ Cal!LiveEvent(db, f)
           /\ Cal!Overlap(event.win, db[Cal!EventDoc(f)].win)
           /\ \/ Cal!Assigned(db, e) \cap Cal!Assigned(db, f) # {}
              \/ event.accounts \cap db[Cal!EventDoc(f)].accounts # {}
           => Cal!DoubleBooked(db, e, f) \/ Cal!Status(db, e) = "DRAFT"
  PROVE  EventsFine(db, db')
<1> DEFINE puts == Cal!:>(Cal!EventDoc(e), event)
           t == EventsAfter(db, puts)
<1>1. DOMAIN puts = {Cal!EventDoc(e)} /\ puts[Cal!EventDoc(e)] = event /\ Cal!Commit(c, puts)
  BY DEF Cal!:>
<1> HIDE DEF puts
<1>2. db' = t
  BY <1>1, EventsTimely
<1>3. /\ t[Cal!EventDoc(e)] = event
      /\ \A f \in CalendarEvents \ {e} : t[Cal!EventDoc(f)] = db[Cal!EventDoc(f)]
      /\ \A f \in CalendarEvents, p \in People : t[Cal!Duty(f, p)] = db[Cal!Duty(f, p)]
  BY <1>1, EventsDocs DEF EventsAfter, Cal!EventDoc, Cal!Duty
<1>4. ASSUME NEW f \in CalendarEvents \ {e}, Cal!DoubleBooked(t, e, f)
      PROVE  Cal!DoubleBooked(db, e, f) \/ Cal!Status(db, e) = "DRAFT"
  <2> HIDE DEF t
  <2>1. Cal!Assigned(t, e) = Cal!Assigned(db, e) /\ Cal!Assigned(t, f) = Cal!Assigned(db, f)
    BY <1>3 DEF Cal!Assigned
  <2>2. /\ event.status \in {"PLANNED", "CONFIRMED"} /\ Cal!LiveEvent(db, f)
        /\ Cal!Overlap(event.win, db[Cal!EventDoc(f)].win)
        /\ \/ Cal!Assigned(db, e) \cap Cal!Assigned(db, f) # {}
           \/ event.accounts \cap db[Cal!EventDoc(f)].accounts # {}
    BY <1>3, <1>4, <2>1 DEF Cal!DoubleBooked, Cal!LiveEvent, Cal!Status
  <2> QED BY <2>2
<1> QED BY <1>1, <1>2, <1>4, EventFine

\* They are a reschedule, a change of the accounts, and those that write a
\* status.
LEMMA EventOperationsFine ==
  ASSUME EventsInv, NEW c \in Clients \cup {Cal!Now}, NEW e \in CalendarEvents, ~Cal!LateCommit,
         \/ Cal!UpdateEventCore(c, e) \/ Cal!PlanEvent(c, e)
         \/ Cal!CompleteEvent(c, e) \/ Cal!ArchiveEvent(c, e)
         \/ \E w \in EventWindows : Cal!RescheduleEvent(c, e, w)
         \/ \E as \in SUBSET PlatformAccounts : Cal!UpdateAccounts(c, e, as)
  PROVE  EventsFine(db, db')
<1> DEFINE s == Cal!Seen(c)
           was == db[Cal!EventDoc(e)]
<1>1. ASSUME NEW status, Cal!Ready(c), Cal!Commit(c, Cal!PutEvent(s, e, status)),
             Cal!Status(s, e) # "none",
             \/ status = Cal!Status(s, e) \/ Cal!Status(s, e) = "DRAFT"
             \/ status \in {"COMPLETED", "ARCHIVED"}
      PROVE  EventsFine(db, db')
  <2> DEFINE event == [was EXCEPT !.status = status]
  <2>1. s = db /\ Cal!CalendarOK(db)
    BY <1>1, EventsTimely
  <2>2. was \in Cal!EventType
    BY <1>1, <2>1, KnownEvent
  <2>3. event.status = status /\ event.win = was.win /\ event.accounts = was.accounts
    BY <2>2 DEF Cal!EventType
  <2>4. Cal!Commit(c, Cal!:>(Cal!EventDoc(e), event))
    BY <1>1, <2>1 DEF Cal!PutEvent
  <2> HIDE DEF event
  <2>5. \A f \in CalendarEvents \ {e} :
          /\ event.status \in {"PLANNED", "CONFIRMED"} /\ Cal!LiveEvent(db, f)
          /\ Cal!Overlap(event.win, db[Cal!EventDoc(f)].win)
          /\ \/ Cal!Assigned(db, e) \cap Cal!Assigned(db, f) # {}
             \/ event.accounts \cap db[Cal!EventDoc(f)].accounts # {}
          => Cal!DoubleBooked(db, e, f) \/ Cal!Status(db, e) = "DRAFT"
    BY <1>1, <2>1, <2>3 DEF Cal!DoubleBooked, Cal!LiveEvent
  <2> QED BY <1>1, <2>4, <2>5, EventPutFine
<1>2. CASE Cal!UpdateEventCore(c, e)
  <2>1. /\ Cal!Ready(c) /\ Cal!Status(s, e) \in {"DRAFT", "PLANNED"}
        /\ Cal!Commit(c, Cal!PutEvent(s, e, Cal!Status(s, e)))
    BY <1>2 DEF Cal!UpdateEventCore
  <2> QED BY <2>1, <1>1
<1>3. CASE Cal!PlanEvent(c, e)
  <2>1. /\ Cal!Ready(c) /\ Cal!Status(s, e) = "DRAFT"
        /\ Cal!Commit(c, Cal!PutEvent(s, e, "PLANNED"))
    BY <1>3 DEF Cal!PlanEvent
  <2> QED BY <2>1, <1>1
<1>4. CASE Cal!CompleteEvent(c, e)
  <2>1. /\ Cal!Ready(c) /\ Cal!Status(s, e) = "CONFIRMED"
        /\ Cal!Commit(c, Cal!PutEvent(s, e, "COMPLETED"))
    BY <1>4 DEF Cal!CompleteEvent
  <2> QED BY <2>1, <1>1
<1>5. CASE Cal!ArchiveEvent(c, e)
  <2>1. /\ Cal!Ready(c) /\ Cal!Status(s, e) \in {"COMPLETED", "CANCELLED"}
        /\ Cal!Commit(c, Cal!PutEvent(s, e, "ARCHIVED"))
    BY <1>5 DEF Cal!ArchiveEvent
  <2> QED BY <2>1, <1>1
<1>6. ASSUME NEW w \in EventWindows, Cal!RescheduleEvent(c, e, w) PROVE EventsFine(db, db')
  <2> DEFINE event == [s[Cal!EventDoc(e)] EXCEPT !.win = w]
  <2>1. /\ Cal!Ready(c) /\ Cal!Status(s, e) \in {"DRAFT", "PLANNED", "CONFIRMED"}
        /\ ~Cal!Clash(s, e, w, Cal!Assigned(s, e), s[Cal!EventDoc(e)].accounts)
        /\ Cal!Commit(c, Cal!:>(Cal!EventDoc(e), event))
    BY <1>6 DEF Cal!RescheduleEvent, Cal!Shifted
  <2>2. s = db /\ Cal!CalendarOK(db)
    BY <2>1, EventsTimely
  <2>3. s[Cal!EventDoc(e)] \in Cal!EventType
    BY <2>1, <2>2, KnownEvent
  <2>4. event.win = w /\ event.accounts = was.accounts
    BY <2>2, <2>3 DEF Cal!EventType
  <2> HIDE DEF event
  <2>5. \A f \in CalendarEvents \ {e} :
          ~ /\ Cal!LiveEvent(db, f) /\ Cal!Overlap(event.win, db[Cal!EventDoc(f)].win)
            /\ \/ Cal!Assigned(db, e) \cap Cal!Assigned(db, f) # {}
               \/ event.accounts \cap db[Cal!EventDoc(f)].accounts # {}
    BY <2>1, <2>2, <2>4 DEF Cal!Clash
  <2> QED BY <2>1, <2>5, EventPutFine
<1>7. ASSUME NEW as \in SUBSET PlatformAccounts, Cal!UpdateAccounts(c, e, as)
      PROVE  EventsFine(db, db')
  <2> DEFINE event == [s[Cal!EventDoc(e)] EXCEPT !.accounts = as]
  <2>1. /\ Cal!Ready(c) /\ Cal!Status(s, e) \in {"DRAFT", "PLANNED"}
        /\ ~Cal!Clash(s, e, s[Cal!EventDoc(e)].win, {}, as)
        /\ Cal!Commit(c, Cal!:>(Cal!EventDoc(e), event))
    BY <1>7 DEF Cal!UpdateAccounts
  <2>2. s = db /\ Cal!CalendarOK(db)
    BY <2>1, EventsTimely
  <2>3. s[Cal!EventDoc(e)] \in Cal!EventType
    BY <2>1, <2>2, KnownEvent
  <2>4. event.win = was.win /\ event.accounts = as
    BY <2>2, <2>3 DEF Cal!EventType
  <2> HIDE DEF event
  <2>5. \A f \in CalendarEvents \ {e} :
          /\ Cal!LiveEvent(db, f) /\ Cal!Overlap(event.win, db[Cal!EventDoc(f)].win)
          /\ \/ Cal!Assigned(db, e) \cap Cal!Assigned(db, f) # {}
             \/ event.accounts \cap db[Cal!EventDoc(f)].accounts # {}
          => Cal!DoubleBooked(db, e, f) \/ Cal!Status(db, e) = "DRAFT"
    BY <2>1, <2>2, <2>4 DEF Cal!Clash, Cal!DoubleBooked, Cal!LiveEvent
  <2> QED BY <2>1, <2>5, EventPutFine
<1> QED BY <1>2, <1>3, <1>4, <1>5, <1>6, <1>7

\* confirmEvent and cancelEvent move bookings that were held or confirmed.
LEMMA MovesFine ==
  ASSUME NEW s, NEW e \in CalendarEvents, NEW status, NEW bs \in SUBSET Bookings,
         NEW to \in {"CONFIRMED", "ENDED"}, NEW puts,
         s[Cal!EventDoc(e)] \in Cal!EventType,
         MovesBookings(s, e, status, bs, to, puts),
         \A b \in bs : Cal!Booked(s, b),
         Cal!Status(s, e) \in {"DRAFT", "PLANNED", "CONFIRMED"}
  PROVE  EventsFine(s, EventsAfter(s, puts))
<1> DEFINE t == EventsAfter(s, puts)
<1>1. BookingsMoved(s, t, e, status, bs, to, puts)
  BY MovedAfter
<1>2. \A b \in bs : s[Cal!BookingDoc(b)] \in Cal!BookingType
  BY DEF MovesBookings
<1> HIDE DEF t
<1>3. \A f \in CalendarEvents : Cal!LiveEvent(t, f) =>
        /\ Cal!LiveEvent(s, f) \/ Cal!Status(s, f) = "DRAFT"
        /\ t[Cal!EventDoc(f)].win = s[Cal!EventDoc(f)].win
        /\ t[Cal!EventDoc(f)].accounts = s[Cal!EventDoc(f)].accounts
  <2>1. /\ t[Cal!EventDoc(e)].win = s[Cal!EventDoc(e)].win
        /\ t[Cal!EventDoc(e)].accounts = s[Cal!EventDoc(e)].accounts
    BY <1>1 DEF BookingsMoved, Cal!EventType
  <2>2. \A f \in CalendarEvents \ {e} : t[Cal!EventDoc(f)] = s[Cal!EventDoc(f)]
    BY <1>1 DEF BookingsMoved
  <2> QED BY <2>1, <2>2 DEF Cal!LiveEvent, Cal!Status
<1>4. ASSUME NEW b \in Bookings, Cal!Booked(t, b)
      PROVE  Cal!Booked(s, b) /\ s[Cal!BookingDoc(b)].room = t[Cal!BookingDoc(b)].room
  <2>1. CASE b \in bs
    <3>1. t[Cal!BookingDoc(b)] = [s[Cal!BookingDoc(b)] EXCEPT !.status = to]
      BY <1>1, <2>1 DEF BookingsMoved
    <3> QED BY <3>1, <2>1, <1>2 DEF Cal!BookingType
  <2>2. CASE b \notin bs
    BY <1>1, <1>4, <2>2 DEF BookingsMoved, Cal!Booked
  <2> QED BY <2>1, <2>2
<1>5. /\ \A f \in CalendarEvents, p \in People : t[Cal!Duty(f, p)] = s[Cal!Duty(f, p)]
      /\ \A x \in Cal!Resources : t[Cal!Resource(x)] = s[Cal!Resource(x)]
  BY <1>1 DEF BookingsMoved
<1>6. EventsFine(s, t)
  BY <1>3, <1>4, <1>5, StaysFine
<1> QED BY <1>6 DEF t

\* confirmEvent.
LEMMA ConfirmEventFine ==
  ASSUME EventsInv, NEW c \in Clients \cup {Cal!Now}, NEW e \in CalendarEvents, ~Cal!LateCommit,
         Cal!ConfirmEvent(c, e)
  PROVE  EventsFine(db, db')
<1> DEFINE s == Cal!Seen(c)
           held == Cal!BookingsOf(s, e, {"HELD"})
           rooms == {s[Cal!BookingDoc(b)].room : b \in held}
           puts == Cal!@@(Cal!@@(Cal!PutEvent(s, e, "CONFIRMED"),
                                  Cal!Moved(s, held, "CONFIRMED")), Cal!Locked(rooms))
<1>1. Cal!Ready(c) /\ Cal!Commit(c, puts) /\ Cal!Status(s, e) = "PLANNED"
  BY DEF Cal!ConfirmEvent
<1>2. Cal!CalendarOK(s) /\ s[Cal!EventDoc(e)] \in Cal!EventType
  BY <1>1, EventsSeen, KnownEvent
<1>3. s = db /\ db' = EventsAfter(db, puts)
  BY <1>1, EventsTimely
<1>4. held \in SUBSET Bookings /\ \A b \in held :
        /\ s[Cal!BookingDoc(b)] \in Cal!BookingType /\ s[Cal!BookingDoc(b)].event = e
        /\ s[Cal!BookingDoc(b)].room \in Rooms /\ Cal!Booked(s, b)
  BY <1>2 DEF Cal!BookingsOf, Cal!CalendarOK, Cal!NoBooking, Cal!BookingType, Cal!Booked
<1> HIDE DEF held, s
<1>5. DOMAIN puts = {Cal!EventDoc(e)} \cup {Cal!BookingDoc(b) : b \in held}
                      \cup {Cal!Lock(r) : r \in rooms}
  BY DEF Cal!PutEvent, Cal!Moved, Cal!Locked, Cal!@@, Cal!:>
<1>6. \A b \in held : Cal!BookingDoc(b) # Cal!EventDoc(e)
  BY DEF Cal!BookingDoc, Cal!EventDoc
<1>7. /\ puts[Cal!EventDoc(e)] = [s[Cal!EventDoc(e)] EXCEPT !.status = "CONFIRMED"]
      /\ \A b \in held :
           puts[Cal!BookingDoc(b)] = [s[Cal!BookingDoc(b)] EXCEPT !.status = "CONFIRMED"]
  BY <1>6 DEF Cal!PutEvent, Cal!Moved, Cal!@@, Cal!:>
<1>8. rooms \subseteq Rooms
  BY <1>4
<1> HIDE DEF puts
<1>9. MovesBookings(s, e, "CONFIRMED", held, "CONFIRMED", puts)
  <2>1. \A b \in held : Cal!BookingDoc(b) \in DOMAIN puts
    BY <1>5
  <2> HIDE DEF rooms
  <2> QED BY <2>1, <1>4, <1>5, <1>7, <1>8 DEF MovesBookings
<1> QED BY <1>1, <1>2, <1>3, <1>4, <1>9, MovesFine

\* cancelEvent.
LEMMA CancelEventFine ==
  ASSUME EventsInv, NEW c \in Clients \cup {Cal!Now}, NEW e \in CalendarEvents, ~Cal!LateCommit,
         Cal!CancelEvent(c, e)
  PROVE  EventsFine(db, db')
<1> DEFINE s == Cal!Seen(c)
           bs == Cal!BookingsOf(s, e, {"HELD", "CONFIRMED"})
           puts == Cal!@@(Cal!PutEvent(s, e, "CANCELLED"), Cal!Moved(s, bs, "ENDED"))
<1>1. /\ Cal!Ready(c) /\ Cal!Commit(c, puts)
      /\ Cal!Status(s, e) \in {"DRAFT", "PLANNED", "CONFIRMED"}
  BY DEF Cal!CancelEvent, Cal!CancelledBookings
<1>2. Cal!CalendarOK(s) /\ s[Cal!EventDoc(e)] \in Cal!EventType
  BY <1>1, EventsSeen, KnownEvent
<1>3. s = db /\ db' = EventsAfter(db, puts)
  BY <1>1, EventsTimely
<1>4. bs \in SUBSET Bookings /\ \A b \in bs :
        /\ s[Cal!BookingDoc(b)] \in Cal!BookingType /\ s[Cal!BookingDoc(b)].event = e
        /\ Cal!Booked(s, b)
  BY <1>2 DEF Cal!BookingsOf, Cal!CalendarOK, Cal!NoBooking, Cal!BookingType, Cal!Booked
<1> HIDE DEF bs, s
<1>5. DOMAIN puts = {Cal!EventDoc(e)} \cup {Cal!BookingDoc(b) : b \in bs}
  BY DEF Cal!PutEvent, Cal!Moved, Cal!@@, Cal!:>
<1>6. \A b \in bs : Cal!BookingDoc(b) # Cal!EventDoc(e)
  BY DEF Cal!BookingDoc, Cal!EventDoc
<1>7. /\ puts[Cal!EventDoc(e)] = [s[Cal!EventDoc(e)] EXCEPT !.status = "CANCELLED"]
      /\ \A b \in bs :
           puts[Cal!BookingDoc(b)] = [s[Cal!BookingDoc(b)] EXCEPT !.status = "ENDED"]
  BY <1>6 DEF Cal!PutEvent, Cal!Moved, Cal!@@, Cal!:>
<1> HIDE DEF puts
<1>8. MovesBookings(s, e, "CANCELLED", bs, "ENDED", puts)
  <2>1. \A b \in bs : Cal!BookingDoc(b) \in DOMAIN puts
    BY <1>5
  <2> QED BY <2>1, <1>4, <1>5, <1>7 DEF MovesBookings
<1> QED BY <1>1, <1>2, <1>3, <1>4, <1>8, MovesFine

\* A booking is of a studio in service, or was one already.
LEMMA BookingPutFine ==
  ASSUME EventsInv, NEW c \in Clients \cup {Cal!Now}, Cal!Ready(c), ~Cal!LateCommit,
         NEW b \in Bookings, NEW booking, booking.event \in CalendarEvents,
         db[Cal!EventDoc(booking.event)] \in Cal!EventType,
         NEW rooms \in SUBSET Rooms, NEW locks, DOMAIN locks = {Cal!Lock(r) : r \in rooms},
         Cal!Commit(c, Cal!@@(Cal!PutBooking(db, b, booking), locks)),
         \/ Cal!Booked(db, b) /\ db[Cal!BookingDoc(b)].room = booking.room
         \/ Cal!InService(db, {booking.room})
  PROVE  EventsFine(db, db')
<1> DEFINE e == booking.event
           u == [db EXCEPT ![Cal!BookingDoc(b)] = booking]
           list == {u[Cal!BookingDoc(o)].room : o \in Cal!BookingsOf(u, e, {"HELD", "CONFIRMED"})}
           event == [db[Cal!EventDoc(e)] EXCEPT !.rooms = list]
           puts == Cal!@@(Cal!PutBooking(db, b, booking), locks)
           t == EventsAfter(db, puts)
<1>1. Cal!BookingDoc(b) # Cal!EventDoc(e)
  BY DEF Cal!BookingDoc, Cal!EventDoc
<1>2. DOMAIN puts = {Cal!BookingDoc(b), Cal!EventDoc(e)} \cup {Cal!Lock(r) : r \in rooms}
  BY DEF Cal!PutBooking, Cal!Synced, Cal!@@, Cal!:>
<1>3. puts[Cal!BookingDoc(b)] = booking /\ puts[Cal!EventDoc(e)] = event
  <2>1. u[Cal!EventDoc(e)] = db[Cal!EventDoc(e)]
    BY <1>1, EventsDocs DEF EventsInv, EventsTaken
  <2> HIDE DEF u
  <2>2. Cal!Synced(u, e) = Cal!:>(Cal!EventDoc(e), event)
    BY <2>1 DEF Cal!Synced
  <2> HIDE DEF event
  <2>3. Cal!PutBooking(db, b, booking)
          = Cal!@@(Cal!:>(Cal!BookingDoc(b), booking), Cal!:>(Cal!EventDoc(e), event))
    BY <2>2 DEF Cal!PutBooking, u
  <2> QED BY <1>1, <2>3 DEF Cal!@@, Cal!:>
<1>4. db' = t
  BY EventsTimely
<1> HIDE DEF puts, u, list
<1>5. /\ event.win = db[Cal!EventDoc(e)].win /\ event.status = db[Cal!EventDoc(e)].status
      /\ event.accounts = db[Cal!EventDoc(e)].accounts
  BY DEF Cal!EventType
<1> HIDE DEF event
<1>6. /\ \A o \in Bookings : Cal!BookingDoc(o) \in DOMAIN puts => o = b
      /\ \A f \in CalendarEvents : Cal!EventDoc(f) \in DOMAIN puts => f = e
      /\ \A f \in CalendarEvents, p \in People : Cal!Duty(f, p) \notin DOMAIN puts
      /\ \A x \in Cal!Resources : Cal!Resource(x) \notin DOMAIN puts
  BY <1>2 DEF Cal!BookingDoc, Cal!EventDoc, Cal!Duty, Cal!Resource, Cal!Lock
<1>7. /\ t[Cal!BookingDoc(b)] = booking
      /\ \A o \in Bookings \ {b} : t[Cal!BookingDoc(o)] = db[Cal!BookingDoc(o)]
      /\ t[Cal!EventDoc(e)] = event
      /\ \A f \in CalendarEvents \ {e} : t[Cal!EventDoc(f)] = db[Cal!EventDoc(f)]
      /\ \A f \in CalendarEvents, p \in People : t[Cal!Duty(f, p)] = db[Cal!Duty(f, p)]
      /\ \A x \in Cal!Resources : t[Cal!Resource(x)] = db[Cal!Resource(x)]
  BY <1>2, <1>3, <1>6, EventsDocs DEF EventsAfter
<1> HIDE DEF t
<1>8. \A f \in CalendarEvents : Cal!LiveEvent(t, f) =>
        /\ Cal!LiveEvent(db, f) \/ Cal!Status(db, f) = "DRAFT"
        /\ t[Cal!EventDoc(f)].win = db[Cal!EventDoc(f)].win
        /\ t[Cal!EventDoc(f)].accounts = db[Cal!EventDoc(f)].accounts
  BY <1>5, <1>7 DEF Cal!LiveEvent, Cal!Status
<1>9. \A o \in Bookings : Cal!Booked(t, o) =>
        \/ Cal!Booked(db, o) /\ db[Cal!BookingDoc(o)].room = t[Cal!BookingDoc(o)].room
        \/ Cal!InService(db, {t[Cal!BookingDoc(o)].room})
  BY <1>7 DEF Cal!Booked
<1> QED BY <1>4, <1>7, <1>8, <1>9, StaysFine

\* createStudioBooking, and the moves of one booking.
LEMMA BookingStepFine ==
  ASSUME EventsInv, NEW c \in Clients \cup {Cal!Now}, NEW b \in Bookings, ~Cal!LateCommit,
         Cal!BookingStep(c, b)
  PROVE  EventsFine(db, db')
<1> DEFINE s == Cal!Seen(c)
<1>1. ASSUME NEW e \in CalendarEvents, NEW r \in Rooms, NEW w \in EventWindows,
             NEW status \in {"HELD", "CONFIRMED"}, Cal!CreateBooking(c, b, e, r, w, status)
      PROVE  EventsFine(db, db')
  <2> DEFINE booking == [event |-> e, room |-> r, win |-> w, status |-> status]
  <2>1. /\ Cal!Ready(c) /\ Cal!Status(s, e) # "none" /\ Cal!InService(s, {r})
        /\ Cal!Commit(c, Cal!@@(Cal!PutBooking(s, b, booking), Cal!Locked({r})))
    BY <1>1 DEF Cal!CreateBooking
  <2>2. s = db /\ Cal!CalendarOK(db)
    BY <2>1, EventsTimely
  <2>3. db[Cal!EventDoc(e)] \in Cal!EventType
    BY <2>1, <2>2, KnownEvent
  <2>4. booking.event = e /\ booking.room = r
    OBVIOUS
  <2>5. DOMAIN Cal!Locked({r}) = {Cal!Lock(x) : x \in {r}}
    BY DEF Cal!Locked
  <2>6. Cal!Commit(c, Cal!@@(Cal!PutBooking(db, b, booking), Cal!Locked({r})))
    BY <2>1, <2>2
  <2>7. Cal!InService(db, {r})
    BY <2>1, <2>2
  <2> DEFINE locks == Cal!Locked({r})
             rooms == {r}
  <2>8. DOMAIN locks = {Cal!Lock(x) : x \in rooms} /\ rooms \in SUBSET Rooms
        /\ Cal!Commit(c, Cal!@@(Cal!PutBooking(db, b, booking), locks))
    BY <2>5, <2>6
  <2> HIDE DEF booking, s, locks, rooms
  <2> QED BY <2>1, <2>3, <2>4, <2>7, <2>8, BookingPutFine
<1>2. ASSUME NEW to \in {"CONFIRMED", "ENDED"}, Cal!TransitionBooking(c, b, to)
      PROVE  EventsFine(db, db')
  <2> DEFINE old == s[Cal!BookingDoc(b)]
             booking == [old EXCEPT !.status = to]
             locks == IF to = "CONFIRMED" THEN Cal!Locked({old.room}) ELSE <<>>
             rooms == IF to = "CONFIRMED" THEN {old.room} ELSE {}
  <2>1. /\ Cal!Ready(c) /\ old.status \in {"HELD", "CONFIRMED"}
        /\ Cal!Commit(c, Cal!@@(Cal!PutBooking(s, b, booking), locks))
    BY <1>2 DEF Cal!TransitionBooking
  <2>2. s = db /\ Cal!CalendarOK(db)
    BY <2>1, EventsTimely
  <2>3. old \in Cal!BookingType
    BY <2>1, <2>2 DEF Cal!CalendarOK, Cal!NoBooking
  <2>4. booking.event = old.event /\ booking.room = old.room
        /\ old.event \in CalendarEvents /\ old.room \in Rooms
    BY <2>3 DEF Cal!BookingType
  <2>5. DOMAIN locks = {Cal!Lock(x) : x \in rooms} /\ rooms \in SUBSET Rooms
    BY <2>4 DEF Cal!Locked
  <2>6. db[Cal!EventDoc(old.event)] \in Cal!EventType
    <3>1. Follows(db, old.event)
      BY <2>4 DEF EventsInv
    <3>2. OfEvent(db, b, old.event) /\ Cal!Booked(db, b)
      BY <2>1, <2>2 DEF OfEvent, Cal!Booked, Cal!NoBooking
    <3>3. Cal!Status(db, old.event) # "none"
      BY <3>1, <3>2 DEF Follows
    <3> QED BY <3>3, <2>2, <2>4, KnownEvent
  <2>7. Cal!Booked(db, b) /\ db[Cal!BookingDoc(b)].room = old.room
    BY <2>1, <2>2 DEF Cal!Booked
  <2>8. Cal!Commit(c, Cal!@@(Cal!PutBooking(db, b, booking), locks))
    BY <2>1, <2>2
  <2> HIDE DEF booking, s, locks, rooms, old
  <2> QED BY <2>1, <2>4, <2>5, <2>6, <2>7, <2>8, BookingPutFine
<1> QED BY <1>1, <1>2 DEF Cal!BookingStep

\* What goes out of service is not in use, and an account needs its owner.
LEMMA MoveResourceFine ==
  ASSUME EventsInv, NEW c \in Clients \cup {Cal!Now}, NEW x \in Cal!Resources, ~Cal!LateCommit,
         NEW to \in {"ACTIVE", "PAUSED", "INACTIVE", "ARCHIVED"}, Cal!MoveResource(c, x, to)
  PROVE  EventsFine(db, db')
<1> DEFINE puts == Cal!:>(Cal!Resource(x), to)
           t == EventsAfter(db, puts)
<1>1. Cal!Ready(c) /\ Cal!Commit(c, puts)
  BY DEF Cal!MoveResource
<1>2. Cal!Seen(c) = db /\ db' = t
  BY <1>1, EventsTimely
<1>3. /\ to # "ACTIVE" => ~Cal!InUse(db, x) /\ Cal!OwnedAllow(db, x, to)
      /\ Cal!OwnerAllows(db, x, to)
  BY <1>2 DEF Cal!MoveResource
<1>4. DOMAIN puts = {Cal!Resource(x)} /\ puts[Cal!Resource(x)] = to
  BY DEF Cal!:>
<1> HIDE DEF puts
<1>5. /\ \A b \in Bookings : t[Cal!BookingDoc(b)] = db[Cal!BookingDoc(b)]
      /\ \A e \in CalendarEvents : t[Cal!EventDoc(e)] = db[Cal!EventDoc(e)]
      /\ \A e \in CalendarEvents, p \in People : t[Cal!Duty(e, p)] = db[Cal!Duty(e, p)]
      /\ \A y \in Cal!Resources : t[Cal!Resource(y)] = IF y = x THEN to ELSE db[Cal!Resource(y)]
  BY <1>4, EventsDocs DEF EventsAfter, Cal!BookingDoc, Cal!EventDoc, Cal!Duty, Cal!Resource
<1> HIDE DEF t
<1>6. ClashFine(db, t)
  <2>1. \A f \in CalendarEvents : Cal!Assigned(t, f) = Cal!Assigned(db, f)
    BY <1>5 DEF Cal!Assigned
  <2> QED BY <2>1, <1>5 DEF ClashFine, Cal!DoubleBooked, Cal!LiveEvent, Cal!Status
<1>7. OutFine(db, t)
  <2> SUFFICES ASSUME NEW y \in Cal!Resources, Cal!Unserved(t, y) PROVE Cal!Unserved(db, y)
    BY DEF OutFine
  <2>1. \A a \in PlatformAccounts : a \in Cal!Resources
    BY DEF Cal!Resources
  <2>2. CASE y = x
    <3>1. to # "ACTIVE"
      BY <2>2, <1>5 DEF Cal!Unserved, Cal!InService
    <3>2. ~Cal!InUse(db, x) /\ Cal!OwnedAllow(db, x, to)
      BY <3>1, <1>3
    <3>3. \A b \in Bookings : ~(Cal!Booked(t, b) /\ t[Cal!BookingDoc(b)].room = x)
      BY <3>2, <1>5 DEF Cal!InUse, Cal!Booked
    <3>4. \A a \in PlatformAccounts : AccountOwner[a] = x => db[Cal!Resource(a)] # "ACTIVE"
      BY <3>2 DEF Cal!OwnedAllow
    <3>5. \A a \in PlatformAccounts : AccountOwner[a] = x => t[Cal!Resource(a)] # "ACTIVE"
      BY <3>1, <3>4, <2>1, <1>5
    <3> QED BY <3>3, <3>5, <2>2 DEF Cal!Unserved
  <2>3. CASE y # x
    <3>1. t[Cal!Resource(y)] = db[Cal!Resource(y)] /\ t[Cal!Resource(y)] # "ACTIVE"
      BY <2>3, <1>5 DEF Cal!Unserved, Cal!InService
    <3>2. \A b \in Bookings : Cal!Booked(t, b) => Cal!Booked(db, b)
      BY <1>5 DEF Cal!Booked
    <3>3. \A a \in PlatformAccounts : t[Cal!Resource(a)] = "ACTIVE" /\ AccountOwner[a] = y =>
            db[Cal!Resource(a)] = "ACTIVE"
      <4> SUFFICES ASSUME NEW a \in PlatformAccounts, t[Cal!Resource(a)] = "ACTIVE",
                          AccountOwner[a] = y, db[Cal!Resource(a)] # "ACTIVE"
                   PROVE  FALSE
        OBVIOUS
      <4>1. a = x /\ to = "ACTIVE"
        BY <2>1, <1>5
      <4> QED BY <4>1, <3>1, <1>3 DEF Cal!OwnerAllows
    <3> QED BY <3>1, <3>2, <3>3, <1>5 DEF Cal!Unserved, Cal!InService
  <2> QED BY <2>2, <2>3
<1> QED BY <1>2, <1>6, <1>7 DEF EventsFine

\* A step that does not end a transaction which missed a commit is fine.
LEMMA EventsNextFine ==
  ASSUME EventsInv, [Cal!Next]_(Cal!txnVars), ~Cal!LateCommit
  PROVE  EventsFine(db, db')
<1>1. ASSUME NEW c \in Clients \cup {Cal!Now}, NEW e \in CalendarEvents, Cal!EventStep(c, e)
      PROVE  EventsFine(db, db')
  BY <1>1, CreateEventFine, EventOperationsFine, ReplaceAssignmentsFine, ConfirmEventFine,
     CancelEventFine DEF Cal!EventStep
<1>2. ASSUME NEW c \in Clients \cup {Cal!Now}, NEW b \in Bookings, Cal!BookingStep(c, b)
      PROVE  EventsFine(db, db')
  BY <1>2, BookingStepFine
<1>3. ASSUME NEW c \in Clients \cup {Cal!Now}, NEW x \in Cal!Resources,
             NEW to \in {"ACTIVE", "PAUSED", "INACTIVE", "ARCHIVED"},
             Cal!MoveResource(c, x, to)
      PROVE  EventsFine(db, db')
  BY <1>3, MoveResourceFine
<1>4. CASE db' = db
  BY <1>4 DEF EventsFine, ClashFine, OutFine
<1>5. ASSUME NEW c \in Clients, Cal!Begin(c) \/ Cal!Abort(c) PROVE db' = db
  BY <1>5 DEF Cal!Begin, Cal!Abort
<1>6. CASE UNCHANGED Cal!txnVars
  BY <1>4, <1>6 DEF Cal!txnVars
<1> QED BY <1>1, <1>2, <1>3, <1>4, <1>5, <1>6 DEF Cal!Next
-----------------------------------------------------------------------------
(* The part of the records.                                                *)

\* As long as it is events the records hold, they are in order.
LEMMA PartIsEvents == Spec => [](part = "events" => EventsInv)
<1> DEFINE I == part = "events" => EventsInv
<1>1. Init => I
  BY EventsInit DEF Init
<1>2. I /\ [Next]_vars => I'
  <2> SUFFICES ASSUME I, [Next]_vars, part' = "events" PROVE EventsInv'
    OBVIOUS
  <2>1. part = "events" /\ [Cal!Next]_(Cal!txnVars)
    BY DEF Next, vars, Cal!txnVars
  <2> QED BY <2>1, EventsNext
<1> QED BY <1>1, <1>2, PTL DEF Spec

\* Documents have the form the code gives them, in the database and in every
\* snapshot a transaction still decides on.
THEOREM CalendarType == Spec => [](part = "events" => Cal!CalendarTypeOK)
<1>1. (part = "events" => EventsInv) => (part = "events" => Cal!CalendarTypeOK)
  BY DEF EventsInv
<1> QED BY <1>1, PartIsEvents, PTL

\* No two confirmed bookings of a studio overlap, however many transactions
\* confirm bookings at once: the lock of the studio (lockStudioResourceBooking)
\* is written by each of them.  And bookings are held and confirmed as their
\* event is, end with its cancellation, and are the ones its list of studios
\* names, although bookings and event are written by operations of their own:
\* each writes the event.
THEOREM BookingsAreKept == Spec => []BookingsKept
<1>1. EventsInv => Cal!NoConfirmedOverlap
  BY DEF EventsInv
<1>2. EventsInv => Cal!BookingsFollowEvent
  <2> SUFFICES ASSUME EventsInv PROVE Cal!BookingsFollowEvent
    OBVIOUS
  <2>1. \A b \in Bookings : Cal!Booked(db, b) =>
          /\ db[Cal!BookingDoc(b)].event \in CalendarEvents
          /\ OfEvent(db, b, db[Cal!BookingDoc(b)].event)
          /\ db[Cal!BookingDoc(b)].status \in {"HELD", "CONFIRMED"}
    BY DEF EventsInv, Cal!CalendarTypeOK, Cal!CalendarOK, Cal!Booked, OfEvent,
           Cal!BookingType, Cal!NoBooking
  <2> QED BY <2>1 DEF EventsInv, Follows, Cal!BookingsFollowEvent
<1>3. (part = "events" => EventsInv) => BookingsKept
  BY <1>1, <1>2 DEF BookingsKept
<1> QED BY <1>3, PartIsEvents, PTL

\* Nothing but a draft that is planned, which planEvent compares with no other
\* event, and the commit of a transaction that missed another's makes two live
\* events share a person or an account; only such a commit leaves a booked
\* studio or the owner of an active account out of service.
THEOREM CalendarErrs == Spec => CalendarErrsForCause
<1> DEFINE ForCause == Cal!ClashForCauseStep /\ Cal!OutForCauseStep
<1>1. (part = "events" => EventsInv) /\ [Next]_vars => [part = "events" => ForCause]_vars
  <2> SUFFICES ASSUME part = "events", EventsInv, [Next]_vars, ~Cal!LateCommit PROVE ForCause
    BY DEF Cal!ClashForCauseStep, Cal!OutForCauseStep
  <2>1. [Cal!Next]_(Cal!txnVars)
    BY DEF Next, vars, Cal!txnVars
  <2>2. ClashFine(db, db') /\ OutFine(db, db')
    BY <2>1, EventsNextFine DEF EventsFine
  <2>3. Cal!ClashForCauseStep
    BY <2>2 DEF ClashFine, Cal!ClashForCauseStep
  <2>4. Cal!OutForCauseStep
    BY <2>2 DEF OutFine, Cal!OutForCauseStep
  <2> QED BY <2>3, <2>4
<1> HIDE DEF ForCause
<1>2. Spec => [][part = "events" => ForCause]_vars
  BY <1>1, PartIsEvents, PTL DEF Spec
<1> QED BY <1>2 DEF ForCause, CalendarErrsForCause
-----------------------------------------------------------------------------
(* Shifts and the requests for them.                                       *)

ShiftType ==
  [status : {"ACTIVE", "CANCELLED", "ARCHIVED"}, person : Staff, win : ShiftWindows,
   rev : Nat, code : {"generated", "own"}]

Off == {"CANCELLED", "ARCHIVED"}

\* The approved line took its shift away.
Takes(line) ==
  /\ line.status = "APPROVED"
  /\ \/ line.kind = "CANCEL"
     \/ line.kind = "RESCHEDULE" /\ line.applied # line.shift

LineOK(line) ==
  /\ line = [x \in DOMAIN line |-> line[x]]
  /\ {"status", "applied", "kind", "person"} \subseteq DOMAIN line
  /\ line.status \in {"PENDING", "APPROVED", "REJECTED", "CANCELLED", "FAILED"}
  /\ line.kind \in {"CREATE", "RESCHEDULE", "CANCEL"}
  /\ line.status = "APPROVED" <=> line.applied \in Shifts
  /\ line.person \in Staff
  /\ line.kind # "CREATE" => "shift" \in DOMAIN line /\ line.shift \in Shifts
  /\ line.kind # "CANCEL" => "win" \in DOMAIN line /\ line.win \in ShiftWindows

\* What is said of one state of the documents.
RequestsOK(s) ==
  /\ \A k \in Shifts : s[Req!ShiftDoc(k)] \in ShiftType \cup {Req!Nothing}
  /\ \A l \in RequestLines : s[Req!LineDoc(l)] # Req!Nothing =>
       LET line == s[Req!LineDoc(l)] IN
       /\ LineOK(line)
       /\ line.status = "APPROVED" => s[Req!ShiftDoc(line.applied)] # Req!Nothing
       /\ Takes(line) => s[Req!ShiftDoc(line.shift)].status \in Off
  /\ \A b \in Req!Batches : s[Req!BatchDoc(b)] # Req!Nothing =>
       s[Req!BatchDoc(b)] = Req!Summary(s, b)

\* A shift as it was created, with a generated code of the day.
Fresh(s, k, day) ==
  /\ s[Req!ShiftDoc(k)] # Req!Nothing
  /\ s[Req!ShiftDoc(k)].rev = 0 /\ s[Req!ShiftDoc(k)].code = "generated"
  /\ DayOf[s[Req!ShiftDoc(k)].win[1]] = day

\* What is known of a snapshot: a shift it shows is there, a batch stands for its
\* lines and the counter of a day for the shifts it numbered.
RequestsAged(c) ==
  /\ \A k \in Shifts : snap[c][Req!ShiftDoc(k)] # Req!Nothing =>
       db[Req!ShiftDoc(k)] # Req!Nothing
  /\ \A l \in RequestLines : Req!LineDoc(l) \in missed[c] =>
       Req!BatchDoc(RequestBatch[l]) \in missed[c]
  /\ \A day \in Req!Days : Req!Sequence(day) \notin missed[c] =>
       \A k \in Shifts : Fresh(db, k, day) =>
         snap[c][Req!ShiftDoc(k)] = db[Req!ShiftDoc(k)]

\* The inductive invariant.
RequestsInv ==
  /\ Taken(Req!Docs)
  /\ RequestsOK(db)
  /\ \A c \in Clients :
       IF Open(c) THEN RequestsOK(snap[c]) /\ RequestsAged(c) ELSE missed[c] = {}
  /\ Req!SameDayNeverClashes

RequestsAfter(s, puts) == [d \in Req!Docs |-> IF d \in DOMAIN puts THEN puts[d] ELSE s[d]]

\* What an operation that reads s may write to a shift: back on duty comes only
\* who was, and who is numbered clashes with nobody.
ShiftWriteOK(s, puts, k) ==
  LET shift == puts[Req!ShiftDoc(k)] IN
  /\ shift \in ShiftType
  /\ shift.status = "ACTIVE" =>
       s[Req!ShiftDoc(k)] = Req!Nothing \/ s[Req!ShiftDoc(k)].status = "ACTIVE"
  /\ shift.rev = 0 /\ shift.code = "generated" =>
       /\ Req!Sequence(DayOf[shift.win[1]]) \in DOMAIN puts
       /\ \A j \in Shifts \ {k} :
            LET other == RequestsAfter(s, puts)[Req!ShiftDoc(j)] IN
            other.status = "ACTIVE" /\ other.person = shift.person =>
              ~Req!Overlap(other.win, shift.win)

\* And to a line.
LineWriteOK(s, puts, l) ==
  LET line == puts[Req!LineDoc(l)] IN
  /\ Req!BatchDoc(RequestBatch[l]) \in DOMAIN puts
  /\ LineOK(line)
  /\ line.status = "APPROVED" =>
       \/ Req!ShiftDoc(line.applied) \in DOMAIN puts
       \/ s[Req!ShiftDoc(line.applied)] # Req!Nothing
  /\ Takes(line) =>
       /\ Req!ShiftDoc(line.shift) \in DOMAIN puts
       /\ puts[Req!ShiftDoc(line.shift)].status \in Off

RequestsSound(s, puts) ==
  /\ DOMAIN puts \subseteq Req!Docs
  /\ \A k \in Shifts : Req!ShiftDoc(k) \in DOMAIN puts => ShiftWriteOK(s, puts, k)
  /\ \A l \in RequestLines : Req!LineDoc(l) \in DOMAIN puts => LineWriteOK(s, puts, l)
  /\ \A b \in Req!Batches : Req!BatchDoc(b) \in DOMAIN puts =>
       puts[Req!BatchDoc(b)] = Req!Summary(RequestsAfter(s, puts), b)

LEMMA RequestsDocs ==
  /\ \A k \in Shifts : Req!ShiftDoc(k) \in Req!Docs
  /\ \A w \in ShiftWindows : DayOf[w[1]] \in Req!Days
  /\ \A day \in Req!Days : Req!Sequence(day) \in Req!Docs
  /\ \A l \in RequestLines : /\ Req!LineDoc(l) \in Req!Docs
                             /\ RequestBatch[l] \in Req!Batches
  /\ \A b \in Req!Batches : Req!BatchDoc(b) \in Req!Docs
  /\ \A x, y : Req!ShiftDoc(x) = Req!ShiftDoc(y) => x = y
  /\ \A x, y : Req!LineDoc(x) = Req!LineDoc(y) => x = y
  /\ \A x, y : Req!BatchDoc(x) = Req!BatchDoc(y) => x = y
  /\ \A x, y : /\ Req!ShiftDoc(x) # Req!Sequence(y) /\ Req!ShiftDoc(x) # Req!LineDoc(y)
               /\ Req!ShiftDoc(x) # Req!BatchDoc(y) /\ Req!Sequence(x) # Req!LineDoc(y)
               /\ Req!Sequence(x) # Req!BatchDoc(y) /\ Req!LineDoc(x) # Req!BatchDoc(y)
  BY DEF Req!Docs, Req!Days, Req!Batches, Req!ShiftDoc, Req!Sequence, Req!LineDoc,
         Req!BatchDoc

LEMMA RequestsTxn ==
  /\ \A c : Req!Ready(c) <=> Able(c)
  /\ \A c : Req!Seen(c) = Sees(c)
  /\ \A c, puts : Req!Commit(c, puts) <=> Committed(Req!Docs, c, puts)
  /\ \A c : Req!Begin(c) <=> Begun(c)
  /\ \A c : Req!Abort(c) <=> Aborted(c)
  /\ Req!LateCommit <=> Late
  /\ Req!Now = "now"
  BY DEF Req!Ready, Req!Seen, Req!Commit, Req!Begin, Req!Abort, Req!LateCommit,
         Req!InTxn, Req!NoSnapshot, Req!Now, Able, Sees, Committed, Begun, Aborted,
         Late, Open

LEMMA RequestsPut ==
  ASSUME NEW d, NEW x
  PROVE  DOMAIN Req!:>(d, x) = {d} /\ Req!:>(d, x)[d] = x
  BY DEF Req!:>

\* The state of a batch is a matter of the states of its lines.
LEMMA SummarySame ==
  ASSUME NEW s, NEW t, NEW b,
         \A l \in Req!LinesOf(b) : s[Req!LineDoc(l)].status = t[Req!LineDoc(l)].status
  PROVE  Req!Summary(s, b) = Req!Summary(t, b)
<1>1. \A status : Req!Having(s, b, status) = Req!Having(t, b, status)
  BY DEF Req!Having, Req!Line
<1>2. Req!Outcome(s, b) = Req!Outcome(t, b)
  BY <1>1 DEF Req!Outcome
<1> QED BY <1>1, <1>2 DEF Req!Summary

LEMMA RequestsSees ==
  ASSUME RequestsInv, NEW c \in Clients \cup {"now"}, Able(c)
  PROVE  /\ RequestsOK(Sees(c))
         /\ Sees(c) = [d \in Req!Docs |-> Sees(c)[d]]
         /\ \A k \in Shifts : Sees(c)[Req!ShiftDoc(k)] # Req!Nothing =>
              db[Req!ShiftDoc(k)] # Req!Nothing
<1>1. CASE c = "now"
  BY <1>1 DEF RequestsInv, Sees, Taken
<1>2. CASE c # "now"
  <2>1. c \in Clients /\ Open(c) /\ Sees(c) = snap[c]
    BY <1>2 DEF Able, Sees
  <2> QED BY <2>1 DEF RequestsInv, Taken, RequestsAged
<1> QED BY <1>1, <1>2

\* Sound writes keep the invariant.
LEMMA RequestsCommit ==
  ASSUME RequestsInv, NEW c \in Clients \cup {"now"}, Able(c),
         NEW puts, Committed(Req!Docs, c, puts), RequestsSound(Sees(c), puts)
  PROVE  /\ RequestsInv'
         /\ \A d \in Req!Docs : db'[d] = IF d \in DOMAIN puts THEN puts[d] ELSE db[d]
         /\ \A d \in DOMAIN puts : Sees(c)[d] = db[d]
<1> DEFINE s == Sees(c)
           old(k) == db[Req!ShiftDoc(k)]
           new(k) == db'[Req!ShiftDoc(k)]
           written(d) == d \in DOMAIN puts
           here == IF c = "now" THEN {} ELSE missed[c]
<1>1. /\ Taken(Req!Docs)'
      /\ \A d \in Req!Docs : db'[d] = IF d \in DOMAIN puts THEN puts[d] ELSE db[d]
      /\ \A d \in DOMAIN puts : s[d] = db[d]
      /\ \A o \in Clients : Open(o)' =>
           /\ Open(o) /\ snap'[o] = snap[o]
           /\ missed'[o] = missed[o] \cup DOMAIN puts
  BY CommitTaken DEF RequestsInv, RequestsSound
<1>2. \A d \in Req!Docs : d \notin here => s[d] = db[d]
  BY DEF RequestsInv, Taken, Sees, Able
<1>3. \A d \in DOMAIN puts : d \notin here
  BY DEF Committed
<1>4. \A d \in Req!Docs : RequestsAfter(s, puts)[d] = IF d \in DOMAIN puts THEN puts[d] ELSE s[d]
  BY DEF RequestsAfter
<1> HIDE DEF s, here
<1>5. \A k \in Shifts :
        /\ new(k) = IF written(Req!ShiftDoc(k)) THEN puts[Req!ShiftDoc(k)] ELSE old(k)
        /\ written(Req!ShiftDoc(k)) => ShiftWriteOK(s, puts, k)
  BY <1>1, RequestsDocs DEF RequestsSound, s
<1>6. \A k \in Shifts :
        /\ new(k) \in ShiftType \cup {Req!Nothing}
        /\ old(k) # Req!Nothing => new(k) # Req!Nothing
        /\ old(k).status \in Off => new(k).status \in Off
        /\ written(Req!ShiftDoc(k)) => new(k) # Req!Nothing
  <2> SUFFICES ASSUME NEW k \in Shifts
               PROVE  /\ new(k) \in ShiftType \cup {Req!Nothing}
                      /\ old(k) # Req!Nothing => new(k) # Req!Nothing
                      /\ old(k).status \in Off => new(k).status \in Off
                      /\ written(Req!ShiftDoc(k)) => new(k) # Req!Nothing
    OBVIOUS
  <2>1. CASE written(Req!ShiftDoc(k))
    <3>1. /\ new(k) = puts[Req!ShiftDoc(k)] /\ s[Req!ShiftDoc(k)] = old(k)
          /\ ShiftWriteOK(s, puts, k)
      BY <2>1, <1>1, <1>5
    <3>2. /\ new(k) \in ShiftType
          /\ new(k).status = "ACTIVE" => old(k) = Req!Nothing \/ old(k).status = "ACTIVE"
      BY <3>1 DEF ShiftWriteOK
    <3> QED BY <3>2 DEF ShiftType, Req!Nothing, Off
  <2>2. CASE ~written(Req!ShiftDoc(k))
    BY <2>2, <1>5 DEF RequestsInv, RequestsOK
  <2> QED BY <2>1, <2>2
<1>7. \A l \in RequestLines : written(Req!LineDoc(l)) =>
        written(Req!BatchDoc(RequestBatch[l]))
  BY DEF RequestsSound, LineWriteOK
<1>8. ASSUME NEW l \in RequestLines, db'[Req!LineDoc(l)] # Req!Nothing
      PROVE  LET line == db'[Req!LineDoc(l)] IN
             /\ LineOK(line)
             /\ line.status = "APPROVED" => new(line.applied) # Req!Nothing
             /\ Takes(line) => new(line.shift).status \in Off
  <2> DEFINE line == db'[Req!LineDoc(l)]
  <2>1. CASE written(Req!LineDoc(l))
    <3>1. line = puts[Req!LineDoc(l)] /\ LineWriteOK(s, puts, l)
      BY <2>1, <1>1, RequestsDocs DEF RequestsSound, s
    <3> HIDE DEF line
    <3>2. /\ LineOK(line)
          /\ line.status = "APPROVED" =>
               \/ written(Req!ShiftDoc(line.applied))
               \/ s[Req!ShiftDoc(line.applied)] # Req!Nothing
          /\ Takes(line) => /\ written(Req!ShiftDoc(line.shift))
                            /\ puts[Req!ShiftDoc(line.shift)].status \in Off
      BY <3>1 DEF LineWriteOK
    <3>3. /\ line.status = "APPROVED" => line.applied \in Shifts
          /\ Takes(line) => line.shift \in Shifts
      BY <3>2 DEF LineOK, Takes
    <3>4. \A k \in Shifts : s[Req!ShiftDoc(k)] # Req!Nothing => old(k) # Req!Nothing
      BY RequestsSees DEF s
    <3>5. line.status = "APPROVED" => new(line.applied) # Req!Nothing
      BY <3>2, <3>3, <3>4, <1>6
    <3>6. Takes(line) => new(line.shift).status \in Off
      BY <3>2, <3>3, <1>5
    <3> QED BY <3>2, <3>5, <3>6 DEF line
  <2>2. CASE ~written(Req!LineDoc(l))
    <3>1. line = db[Req!LineDoc(l)] /\ line # Req!Nothing
      BY <2>2, <1>1, <1>8, RequestsDocs
    <3> HIDE DEF line
    <3>2. /\ LineOK(line)
          /\ line.status = "APPROVED" => old(line.applied) # Req!Nothing
          /\ Takes(line) => old(line.shift).status \in Off
      BY <3>1 DEF RequestsInv, RequestsOK
    <3>3. /\ line.status = "APPROVED" => line.applied \in Shifts
          /\ Takes(line) => line.shift \in Shifts
      BY <3>2 DEF LineOK, Takes
    <3> QED BY <3>2, <3>3, <1>6 DEF line
  <2> QED BY <2>1, <2>2
<1>9. ASSUME NEW b \in Req!Batches, db'[Req!BatchDoc(b)] # Req!Nothing
      PROVE  db'[Req!BatchDoc(b)] = Req!Summary(db', b)
  <2>1. \A l \in Req!LinesOf(b) : l \in RequestLines /\ RequestBatch[l] = b
    BY DEF Req!LinesOf
  <2>2. CASE written(Req!BatchDoc(b))
    <3>1. db'[Req!BatchDoc(b)] = Req!Summary(RequestsAfter(s, puts), b)
      BY <2>2, <1>1, RequestsDocs DEF RequestsSound, s
    <3>2. \A l \in RequestLines : Req!LineDoc(l) \in here =>
            Req!BatchDoc(RequestBatch[l]) \in here
      BY DEF RequestsInv, RequestsAged, Able, here
    <3>3. \A l \in Req!LinesOf(b) : s[Req!LineDoc(l)] = db[Req!LineDoc(l)]
      BY <2>1, <2>2, <3>2, <1>2, <1>3, RequestsDocs
    <3>4. \A l \in Req!LinesOf(b) :
            RequestsAfter(s, puts)[Req!LineDoc(l)] = db'[Req!LineDoc(l)]
      BY <2>1, <3>3, <1>1, <1>4, RequestsDocs
    <3> QED BY <3>1, <3>4, SummarySame
  <2>3. CASE ~written(Req!BatchDoc(b))
    <3>1. db'[Req!BatchDoc(b)] = db[Req!BatchDoc(b)]
      BY <2>3, <1>1, RequestsDocs
    <3>2. \A l \in Req!LinesOf(b) : db'[Req!LineDoc(l)] = db[Req!LineDoc(l)]
      BY <2>1, <2>3, <1>1, <1>7, RequestsDocs
    <3>3. Req!Summary(db', b) = Req!Summary(db, b)
      BY <3>2, SummarySame
    <3> QED BY <3>1, <3>3, <1>9 DEF RequestsInv, RequestsOK
  <2> QED BY <2>2, <2>3
<1>10. RequestsOK(db')
  <2> HIDE DEF written
  <2> QED BY <1>6, <1>8, <1>9 DEF RequestsOK
<1>11. \A k \in Shifts : written(Req!ShiftDoc(k)) =>
         \A day : Fresh(db', k, day) => written(Req!Sequence(day))
  BY <1>5 DEF ShiftWriteOK, Fresh
<1>12. \A k \in Shifts : ~written(Req!ShiftDoc(k)) =>
         \A day : Fresh(db', k, day) <=> Fresh(db, k, day)
  BY <1>5 DEF Fresh
<1>13. ASSUME NEW o \in Clients, Open(o)' PROVE RequestsOK(snap'[o]) /\ RequestsAged(o)'
  <2>1. /\ Open(o) /\ snap'[o] = snap[o]
        /\ missed'[o] = missed[o] \cup DOMAIN puts
    BY <1>1, <1>13
  <2>2. RequestsOK(snap[o]) /\ RequestsAged(o)
    BY <2>1 DEF RequestsInv
  <2>3. \A k \in Shifts : snap[o][Req!ShiftDoc(k)] # Req!Nothing => new(k) # Req!Nothing
    BY <2>2, <1>6 DEF RequestsAged
  <2>4. \A l \in RequestLines : Req!LineDoc(l) \in missed'[o] =>
          Req!BatchDoc(RequestBatch[l]) \in missed'[o]
    BY <2>1, <2>2, <1>7 DEF RequestsAged
  <2>5. ASSUME NEW day \in Req!Days, Req!Sequence(day) \notin missed'[o],
               NEW k \in Shifts, Fresh(db', k, day)
        PROVE  snap[o][Req!ShiftDoc(k)] = new(k)
    <3>1. Req!Sequence(day) \notin missed[o] /\ ~written(Req!ShiftDoc(k))
      BY <2>1, <2>5, <1>11
    <3>2. Fresh(db, k, day) /\ new(k) = old(k)
      BY <3>1, <2>5, <1>5, <1>12
    <3> QED BY <3>1, <3>2, <2>2 DEF RequestsAged
  <2>6. RequestsAged(o)'
    BY <2>1, <2>3, <2>4, <2>5 DEF RequestsAged, Fresh
  <2> QED BY <2>1, <2>2, <2>6
<1>14. ASSUME NEW j \in Shifts, NEW k \in Shifts, j # k, written(Req!ShiftDoc(k)),
              Req!ClashingPair(db', j, k), new(j).rev = 0, new(k).rev = 0,
              new(j).code = "generated", new(k).code = "generated",
              DayOf[new(j).win[1]] = DayOf[new(k).win[1]]
       PROVE  FALSE
  <2> DEFINE day == DayOf[new(k).win[1]]
  <2>1. /\ new(j).status = "ACTIVE" /\ new(k).status = "ACTIVE"
        /\ new(j).person = new(k).person
        /\ Req!Overlap(new(j).win, new(k).win)
    BY <1>14 DEF Req!ClashingPair, Req!OnDuty, Req!Shift
  <2>2. new(k) = puts[Req!ShiftDoc(k)] /\ ShiftWriteOK(s, puts, k)
    BY <1>5, <1>14
  <2>3. /\ written(Req!Sequence(day))
        /\ LET other == RequestsAfter(s, puts)[Req!ShiftDoc(j)] IN
           other.status = "ACTIVE" /\ other.person = new(k).person =>
             ~Req!Overlap(other.win, new(k).win)
    BY <2>2, <1>14 DEF ShiftWriteOK
  <2>4. RequestsAfter(s, puts)[Req!ShiftDoc(j)] = new(j)
    <3>1. CASE written(Req!ShiftDoc(j))
      BY <3>1, <1>4, <1>5, RequestsDocs
    <3>2. CASE ~written(Req!ShiftDoc(j))
      <4>1. new(k) \in ShiftType /\ day \in Req!Days
        BY <2>2, RequestsDocs DEF ShiftWriteOK, ShiftType
      <4>2. old(j) = new(j) /\ Fresh(db, j, day)
        BY <3>2, <1>5, <1>14, <2>1 DEF Fresh, Req!Nothing
      <4>3. Req!Sequence(day) \notin here
        BY <2>3, <1>3
      <4> HIDE DEF day, old, new
      <4>4. s[Req!ShiftDoc(j)] = db[Req!ShiftDoc(j)]
        BY <4>1, <4>2, <4>3 DEF RequestsInv, RequestsAged, Able, here, s, Sees
      <4> QED BY <3>2, <4>2, <4>4, <1>4, RequestsDocs DEF old
    <3> QED BY <3>1, <3>2
  <2> QED BY <2>1, <2>3, <2>4
<1>15. Req!SameDayNeverClashes'
  <2> SUFFICES ASSUME NEW j \in Shifts, NEW k \in Shifts, Req!ClashingPair(db', j, k),
                      new(j).rev = 0, new(k).rev = 0,
                      "own" \notin {new(j).code, new(k).code},
                      DayOf[new(j).win[1]] = DayOf[new(k).win[1]]
               PROVE  FALSE
    BY DEF Req!SameDayNeverClashes, Req!ClashingPair, Req!OnDuty, Req!Shift
  <2>1. j # k /\ new(j).status = "ACTIVE" /\ new(k).status = "ACTIVE"
    BY DEF Req!ClashingPair, Req!OnDuty, Req!Shift
  <2>2. new(j) \in ShiftType /\ new(k) \in ShiftType
    BY <2>1, <1>6 DEF Req!Nothing
  <2>3. new(j).code = "generated" /\ new(k).code = "generated"
    BY <2>2 DEF ShiftType
  <2>4. Req!ClashingPair(db', k, j)
    BY DEF Req!ClashingPair, Req!Overlap
  <2>5. CASE written(Req!ShiftDoc(k)) \/ written(Req!ShiftDoc(j))
    BY <2>1, <2>3, <2>4, <2>5, <1>14
  <2>6. CASE ~written(Req!ShiftDoc(k)) /\ ~written(Req!ShiftDoc(j))
    <3>1. new(j) = old(j) /\ new(k) = old(k)
      BY <2>6, <1>5
    <3>2. Req!ClashingPair(db, j, k)
      BY <3>1 DEF Req!ClashingPair, Req!OnDuty, Req!Shift
    <3> QED BY <2>3, <3>1, <3>2 DEF RequestsInv, Req!SameDayNeverClashes, Req!Shift
  <2> QED BY <2>5, <2>6
<1>16. RequestsInv'
  <2>1. \A o \in Clients : Open(o)' => (RequestsOK(snap[o]) /\ RequestsAged(o))'
    BY <1>13 DEF RequestsOK
  <2>2. RequestsOK(db)'
    BY <1>10 DEF RequestsOK
  <2>3. \A o \in Clients : ~Open(o)' => missed'[o] = {}
    BY DEF Committed, Open
  <2> QED BY <1>1, <1>15, <2>1, <2>2, <2>3 DEF RequestsInv
<1> QED BY <1>1, <1>16 DEF s
-----------------------------------------------------------------------------
(* The operations on shifts.                                               *)

RequestsFine == Req!AppliedToWhatWasSeenStep

\* The documents of both.
LEMMA RequestsOver ==
  ASSUME NEW p, NEW q
  PROVE  /\ DOMAIN Req!@@(p, q) = DOMAIN p \cup DOMAIN q
         /\ \A d \in DOMAIN p : Req!@@(p, q)[d] = p[d]
         /\ \A d \in DOMAIN q : d \notin DOMAIN p => Req!@@(p, q)[d] = q[d]
  BY DEF Req!@@

\* A transaction that writes one shift, and a counter.
LEMMA OneShift ==
  ASSUME RequestsInv, NEW c \in Clients \cup {"now"}, Req!Ready(c), NEW k \in Shifts,
         NEW puts, Req!Commit(c, puts), Req!ShiftDoc(k) \in DOMAIN puts,
         DOMAIN puts \subseteq {Req!ShiftDoc(k)} \cup {Req!Sequence(day) : day \in Req!Days},
         ShiftWriteOK(Req!Seen(c), puts, k)
  PROVE  RequestsInv' /\ RequestsFine
<1>1. Able(c) /\ Committed(Req!Docs, c, puts) /\ Req!Seen(c) = Sees(c)
  BY RequestsTxn
<1>0. /\ DOMAIN puts \subseteq Req!Docs
      /\ \A j \in Shifts : Req!ShiftDoc(j) \in DOMAIN puts => j = k
      /\ \A l \in RequestLines : Req!LineDoc(l) \notin DOMAIN puts
      /\ \A b \in Req!Batches : Req!BatchDoc(b) \notin DOMAIN puts
  BY RequestsDocs
<1>2. RequestsSound(Sees(c), puts)
  BY <1>0, <1>1 DEF RequestsSound
<1>3. /\ RequestsInv'
      /\ \A d \in Req!Docs : db'[d] = IF d \in DOMAIN puts THEN puts[d] ELSE db[d]
  BY <1>1, <1>2, RequestsCommit
<1>4. \A l \in RequestLines : db'[Req!LineDoc(l)] = db[Req!LineDoc(l)]
  BY <1>0, <1>3, RequestsDocs
<1> QED BY <1>3, <1>4 DEF RequestsFine, Req!AppliedToWhatWasSeenStep, Req!Line

\* Who writes a document sees it.
LEMMA RequestsRight ==
  ASSUME RequestsInv, NEW c \in Clients \cup {"now"}, Req!Ready(c),
         NEW puts, DOMAIN puts \subseteq Req!Docs, Req!Commit(c, puts)
  PROVE  \A d \in DOMAIN puts : Req!Seen(c)[d] = db[d]
  BY RequestsTxn, CommitTaken DEF RequestsInv

LEMMA ShiftKnown ==
  ASSUME RequestsInv, NEW c \in Clients \cup {"now"}, Req!Ready(c), NEW k \in Shifts
  PROVE  Req!Seen(c)[Req!ShiftDoc(k)] \in ShiftType \cup {Req!Nothing}
  BY RequestsTxn, RequestsSees DEF RequestsOK

\* Nobody has a shift that clashes with one that passed the comparison.
LEMMA NoClash ==
  ASSUME NEW s, NEW but, NEW p, NEW w, ~Req!Clash(s, but, p, w),
         NEW j \in Shifts, j # but, s[Req!ShiftDoc(j)].status = "ACTIVE",
         s[Req!ShiftDoc(j)].person = p
  PROVE  ~Req!Overlap(s[Req!ShiftDoc(j)].win, w)
  BY DEF Req!Clash, Req!OnDuty, Req!Shift

LEMMA CreateShiftKeeps ==
  ASSUME RequestsInv, NEW c \in Clients \cup {"now"}, NEW k \in Shifts, NEW p \in Staff,
         NEW w \in ShiftWindows, NEW code \in {"generated", "own"},
         Req!CreateShift(c, k, p, w, code)
  PROVE  RequestsInv' /\ RequestsFine
<1> DEFINE s == Req!Seen(c)
           shift == Req!NewShift(p, w, code)
           numbered == IF code = "generated" THEN Req!Numbered(w) ELSE <<>>
           first == Req!:>(Req!ShiftDoc(k), shift)
           puts == Req!@@(first, numbered)
<1>1. /\ Req!Ready(c) /\ db[Req!ShiftDoc(k)] = Req!Nothing
      /\ ~Req!Clash(s, k, p, w) /\ Req!Commit(c, puts)
  BY DEF Req!CreateShift
<1>2. shift \in ShiftType /\ shift.win = w /\ shift.person = p /\ shift.code = code
  BY DEF Req!NewShift, ShiftType
<1>3. /\ code = "generated" => DOMAIN numbered = {Req!Sequence(DayOf[w[1]])}
      /\ code # "generated" => DOMAIN numbered = {}
  <2>1. DOMAIN Req!:>(Req!Sequence(DayOf[w[1]]), "next") = {Req!Sequence(DayOf[w[1]])}
    BY RequestsPut
  <2>2. code = "generated" => numbered = Req!:>(Req!Sequence(DayOf[w[1]]), "next")
    BY DEF Req!Numbered
  <2>3. code # "generated" => numbered = <<>>
    OBVIOUS
  <2> HIDE DEF numbered
  <2> QED BY <2>1, <2>2, <2>3
<1>4. DOMAIN first = {Req!ShiftDoc(k)} /\ first[Req!ShiftDoc(k)] = shift
  BY RequestsPut
<1> HIDE DEF shift, numbered, first
<1>5. /\ DOMAIN puts = DOMAIN first \cup DOMAIN numbered
      /\ \A d \in DOMAIN first : puts[d] = first[d]
  BY RequestsOver
<1> HIDE DEF puts, s
<1>6. /\ Req!ShiftDoc(k) \in DOMAIN puts /\ puts[Req!ShiftDoc(k)] = shift
      /\ DOMAIN puts \subseteq {Req!ShiftDoc(k)} \cup {Req!Sequence(day) : day \in Req!Days}
      /\ DOMAIN puts \subseteq Req!Docs
      /\ code = "generated" => Req!Sequence(DayOf[w[1]]) \in DOMAIN puts
  BY <1>3, <1>4, <1>5, RequestsDocs
<1>7. s[Req!ShiftDoc(k)] = Req!Nothing
  BY <1>1, <1>6, RequestsRight DEF s
<1>8. \A j \in Shifts \ {k} : RequestsAfter(s, puts)[Req!ShiftDoc(j)] = s[Req!ShiftDoc(j)]
  BY <1>6, RequestsDocs DEF RequestsAfter
<1>9. ShiftWriteOK(s, puts, k)
  BY <1>1, <1>2, <1>6, <1>7, <1>8, NoClash DEF ShiftWriteOK
<1> QED BY <1>1, <1>6, <1>9, OneShift DEF s

\* A shift on duty, or off, is edited.
LEMMA EditShiftKeeps ==
  ASSUME RequestsInv, NEW c \in Clients \cup {"now"}, Req!Ready(c), NEW k \in Shifts,
         NEW shift, shift \in ShiftType,
         Req!Seen(c)[Req!ShiftDoc(k)].status = "ACTIVE" \/ shift.status # "ACTIVE",
         Req!Commit(c, Req!:>(Req!ShiftDoc(k), Req!Edited(shift)))
  PROVE  RequestsInv' /\ RequestsFine
<1> DEFINE puts == Req!:>(Req!ShiftDoc(k), Req!Edited(shift))
<1>1. DOMAIN puts = {Req!ShiftDoc(k)} /\ puts[Req!ShiftDoc(k)] = Req!Edited(shift)
  BY RequestsPut
<1>2. Req!Commit(c, puts)
  OBVIOUS
<1> HIDE DEF puts
<1>3. /\ Req!Edited(shift) \in ShiftType
      /\ Req!Edited(shift).rev = shift.rev + 1 /\ shift.rev \in Nat
      /\ Req!Edited(shift).status = shift.status
  BY DEF Req!Edited, ShiftType
<1>4. ShiftWriteOK(Req!Seen(c), puts, k)
  <2>1. Req!Edited(shift).rev # 0
    BY <1>3
  <2> QED BY <1>1, <1>3, <2>1 DEF ShiftWriteOK
<1> QED BY <1>1, <1>2, <1>4, OneShift

LEMMA ShiftStepKeeps ==
  ASSUME RequestsInv, NEW c \in Clients \cup {"now"}, NEW k \in Shifts, Req!ShiftStep(c, k)
  PROVE  RequestsInv' /\ RequestsFine
<1> DEFINE shift == Req!Shift(Req!Seen(c), k)
<1>1. Req!Ready(c) /\ shift.status # "none" => shift \in ShiftType
  BY ShiftKnown DEF Req!Shift, Req!Nothing
<1>2. shift = Req!Seen(c)[Req!ShiftDoc(k)]
  BY DEF Req!Shift
<1> HIDE DEF shift
<1>3. ASSUME NEW p \in Staff, NEW w \in ShiftWindows, NEW code \in {"generated", "own"},
             Req!CreateShift(c, k, p, w, code)
      PROVE  RequestsInv' /\ RequestsFine
  BY <1>3, CreateShiftKeeps
<1>4. CASE Req!UpdateShiftCore(c, k)
  <2>1. /\ Req!Ready(c) /\ shift.status = "ACTIVE"
        /\ Req!Commit(c, Req!:>(Req!ShiftDoc(k), Req!Edited(shift)))
    BY <1>4 DEF Req!UpdateShiftCore, Req!OnDuty, shift
  <2> QED BY <2>1, <1>1, <1>2, EditShiftKeeps
<1>5. ASSUME NEW w \in ShiftWindows, Req!RescheduleShift(c, k, w)
      PROVE  RequestsInv' /\ RequestsFine
  <2>1. /\ Req!Ready(c) /\ shift.status = "ACTIVE"
        /\ Req!Commit(c, Req!:>(Req!ShiftDoc(k), Req!Edited([shift EXCEPT !.win = w])))
    BY <1>5 DEF Req!RescheduleShift, Req!OnDuty, shift
  <2>2. [shift EXCEPT !.win = w] \in ShiftType
    BY <2>1, <1>1 DEF ShiftType
  <2> QED BY <2>1, <2>2, <1>2, EditShiftKeeps
<1>6. ASSUME NEW p \in Staff, Req!ReassignShift(c, k, p)
      PROVE  RequestsInv' /\ RequestsFine
  <2>1. /\ Req!Ready(c) /\ shift.status = "ACTIVE"
        /\ Req!Commit(c, Req!:>(Req!ShiftDoc(k), Req!Edited([shift EXCEPT !.person = p])))
    BY <1>6 DEF Req!ReassignShift, Req!OnDuty, shift
  <2>2. [shift EXCEPT !.person = p] \in ShiftType
    BY <2>1, <1>1 DEF ShiftType
  <2> QED BY <2>1, <2>2, <1>2, EditShiftKeeps
<1>7. ASSUME NEW to \in {"CANCELLED", "ARCHIVED"}, Req!EndShift(c, k, to)
      PROVE  RequestsInv' /\ RequestsFine
  <2>1. /\ Req!Ready(c) /\ shift.status # "none"
        /\ Req!Commit(c, Req!:>(Req!ShiftDoc(k), Req!Edited([shift EXCEPT !.status = to])))
    BY <1>7 DEF Req!EndShift, shift
  <2>2. [shift EXCEPT !.status = to] \in ShiftType /\ [shift EXCEPT !.status = to].status # "ACTIVE"
    BY <2>1, <1>1 DEF ShiftType
  <2> QED BY <2>1, <2>2, <1>2, EditShiftKeeps
<1> QED BY <1>3, <1>4, <1>5, <1>6, <1>7 DEF Req!ShiftStep
-----------------------------------------------------------------------------
(* The operations on lines.                                                *)

\* s with one line changed.
WithLine(s, l, line) == [s EXCEPT ![Req!LineDoc(l)] = line]

\* The line is written, and the batch with it.
LineWritten(puts, s, l, line) ==
  /\ puts[Req!LineDoc(l)] = line
  /\ puts[Req!BatchDoc(RequestBatch[l])] = Req!Summary(WithLine(s, l, line), RequestBatch[l])

LEMMA PutLineDocs ==
  ASSUME NEW s, NEW l \in RequestLines, NEW line, NEW puts, puts = Req!PutLine(s, l, line)
  PROVE  /\ DOMAIN puts = {Req!LineDoc(l), Req!BatchDoc(RequestBatch[l])}
         /\ LineWritten(puts, s, l, line)
<1> DEFINE b == RequestBatch[l]
           sum == Req!Summary(WithLine(s, l, line), b)
           p == Req!:>(Req!LineDoc(l), line)
           q == Req!:>(Req!BatchDoc(b), sum)
<1>1. Req!PutLine(s, l, line) = Req!@@(p, q)
  BY DEF Req!PutLine, WithLine
<1> HIDE DEF sum
<1>2. /\ DOMAIN p = {Req!LineDoc(l)} /\ p[Req!LineDoc(l)] = line
      /\ DOMAIN q = {Req!BatchDoc(b)} /\ q[Req!BatchDoc(b)] = sum
  BY RequestsPut
<1> HIDE DEF p, q
<1>3. /\ DOMAIN Req!@@(p, q) = DOMAIN p \cup DOMAIN q
      /\ \A d \in DOMAIN p : Req!@@(p, q)[d] = p[d]
      /\ \A d \in DOMAIN q : d \notin DOMAIN p => Req!@@(p, q)[d] = q[d]
  BY RequestsOver
<1>4. Req!LineDoc(l) # Req!BatchDoc(b)
  BY RequestsDocs
<1> QED BY <1>1, <1>2, <1>3, <1>4 DEF sum, LineWritten

LEMMA LineKnown ==
  ASSUME RequestsInv, NEW c \in Clients \cup {"now"}, Req!Ready(c), NEW l \in RequestLines,
         Req!Line(Req!Seen(c), l).status # "none"
  PROVE  LineOK(Req!Line(Req!Seen(c), l))
  BY RequestsTxn, RequestsSees DEF RequestsOK, Req!Line, Req!Nothing

\* A transaction that decides one line, with what it does to shifts.
LEMMA LineCommit ==
  ASSUME RequestsInv, NEW c \in Clients \cup {"now"}, Req!Ready(c), NEW l \in RequestLines,
         NEW line, NEW puts, Req!Commit(c, puts),
         {Req!LineDoc(l), Req!BatchDoc(RequestBatch[l])} \subseteq DOMAIN puts,
         DOMAIN puts \subseteq {Req!LineDoc(l), Req!BatchDoc(RequestBatch[l])}
           \cup {Req!ShiftDoc(k) : k \in Shifts} \cup {Req!Sequence(day) : day \in Req!Days},
         LineWritten(puts, Req!Seen(c), l, line),
         \A k \in Shifts : Req!ShiftDoc(k) \in DOMAIN puts =>
           ShiftWriteOK(Req!Seen(c), puts, k),
         LineWriteOK(Req!Seen(c), puts, l)
  PROVE  /\ RequestsInv'
         /\ \A d \in Req!Docs : db'[d] = IF d \in DOMAIN puts THEN puts[d] ELSE db[d]
         /\ \A d \in DOMAIN puts : Req!Seen(c)[d] = db[d]
         /\ \A o \in RequestLines : o # l => Req!Line(db', o) = Req!Line(db, o)
         /\ Req!Line(db', l) = line
<1> DEFINE s == Req!Seen(c)
           b == RequestBatch[l]
           docs == DOMAIN puts
<1>1. Able(c) /\ Committed(Req!Docs, c, puts) /\ s = Sees(c)
  BY RequestsTxn
<1>2. s = [d \in Req!Docs |-> s[d]]
  BY <1>1, RequestsSees
<1> HIDE DEF s
<1>3. docs \subseteq Req!Docs
  <2>1. {Req!ShiftDoc(k) : k \in Shifts} \subseteq Req!Docs
    BY RequestsDocs
  <2>2. {Req!Sequence(day) : day \in Req!Days} \subseteq Req!Docs
    BY RequestsDocs
  <2>3. {Req!LineDoc(l), Req!BatchDoc(b)} \subseteq Req!Docs
    BY RequestsDocs
  <2> QED BY <2>1, <2>2, <2>3
<1>4. /\ \A o \in RequestLines : Req!LineDoc(o) \in docs => o = l
      /\ \A a \in Req!Batches : Req!BatchDoc(a) \in docs => a = b
  <2>1. \A x : /\ Req!LineDoc(x) \notin {Req!ShiftDoc(k) : k \in Shifts}
               /\ Req!LineDoc(x) \notin {Req!Sequence(day) : day \in Req!Days}
               /\ Req!BatchDoc(x) \notin {Req!ShiftDoc(k) : k \in Shifts}
               /\ Req!BatchDoc(x) \notin {Req!Sequence(day) : day \in Req!Days}
    BY RequestsDocs
  <2>2. \A x : /\ Req!LineDoc(x) \in {Req!LineDoc(l), Req!BatchDoc(b)} => x = l
               /\ Req!BatchDoc(x) \in {Req!LineDoc(l), Req!BatchDoc(b)} => x = b
    BY RequestsDocs
  <2> QED BY <2>1, <2>2
<1>5. Req!Summary(WithLine(s, l, line), b) = Req!Summary(RequestsAfter(s, puts), b)
  <2>1. Req!LineDoc(l) \in Req!Docs /\ b \in Req!Batches
    BY RequestsDocs
  <2>2. ASSUME NEW o \in Req!LinesOf(b)
        PROVE  WithLine(s, l, line)[Req!LineDoc(o)] = RequestsAfter(s, puts)[Req!LineDoc(o)]
    <3>1. o \in RequestLines /\ Req!LineDoc(o) \in Req!Docs
      BY RequestsDocs DEF Req!LinesOf
    <3>2. Req!LineDoc(o) = Req!LineDoc(l) => o = l
      BY RequestsDocs
    <3>3. Req!LineDoc(o) \in DOMAIN s
      BY <1>2, <3>1
    <3> QED BY <1>4, <3>1, <3>2, <3>3 DEF RequestsAfter, WithLine, LineWritten
  <2> DEFINE t == WithLine(s, l, line)
             u == RequestsAfter(s, puts)
  <2> HIDE DEF b, t, u
  <2>3. \A o \in Req!LinesOf(b) : t[Req!LineDoc(o)].status = u[Req!LineDoc(o)].status
    BY <2>2 DEF t, u
  <2>4. Req!Summary(t, b) = Req!Summary(u, b)
    BY <2>3, SummarySame
  <2> QED BY <2>4 DEF t, u
<1>6. RequestsSound(s, puts)
  BY <1>3, <1>4, <1>5 DEF RequestsSound, LineWritten, s
<1>7. /\ RequestsInv'
      /\ \A d \in Req!Docs : db'[d] = IF d \in DOMAIN puts THEN puts[d] ELSE db[d]
      /\ \A d \in DOMAIN puts : s[d] = db[d]
  BY <1>1, <1>6, RequestsCommit
<1>8. \A o \in RequestLines : o # l => Req!Line(db', o) = Req!Line(db, o)
  BY <1>4, <1>7, RequestsDocs DEF Req!Line
<1>9. Req!Line(db', l) = line
  BY <1>7, RequestsDocs DEF LineWritten, Req!Line
<1> QED BY <1>7, <1>8, <1>9 DEF s

\* x, approved for k.
ApprovedLine(x, k) == [x EXCEPT !.status = "APPROVED", !.applied = k]

\* It is what it was but for the decision.
Decides(line, x, k) ==
  /\ LineOK(line) /\ line.status = "APPROVED" /\ line.applied = k
  /\ line.kind = x.kind
  /\ x.kind # "CREATE" => line.shift = x.shift

LEMMA DecidedLine ==
  ASSUME NEW x, LineOK(x), NEW k \in Shifts
  PROVE  Decides(ApprovedLine(x, k), x, k)
  BY DEF LineOK, ApprovedLine, Decides

LEMMA RefusedLine ==
  ASSUME NEW x, LineOK(x), x.status = "PENDING", NEW to \in {"REJECTED", "CANCELLED", "FAILED"}
  PROVE  LineOK([x EXCEPT !.status = to]) /\ [x EXCEPT !.status = to].status = to
  BY DEF LineOK

\* A line that is refused, or whose failure is marked.
LEMMA RefuseKeeps ==
  ASSUME RequestsInv, NEW c \in Clients \cup {"now"}, Req!Ready(c), NEW l \in RequestLines,
         Req!Undecided(Req!Seen(c), l), NEW to \in {"REJECTED", "CANCELLED", "FAILED"},
         Req!Commit(c, Req!PutLine(Req!Seen(c), l,
                         [Req!Line(Req!Seen(c), l) EXCEPT !.status = to]))
  PROVE  RequestsInv' /\ RequestsFine
<1> DEFINE s == Req!Seen(c)
           x == Req!Line(s, l)
           line == [x EXCEPT !.status = to]
           puts == Req!PutLine(s, l, line)
<1>1. x.status = "PENDING"
  BY DEF Req!Undecided
<1>2. LineOK(x)
  BY <1>1, LineKnown
<1> HIDE DEF x
<1>3. LineOK(line) /\ line.status = to
  BY <1>1, <1>2, RefusedLine
<1>4. Req!Commit(c, puts)
  BY DEF x
<1> HIDE DEF line, s
<1>5. /\ DOMAIN puts = {Req!LineDoc(l), Req!BatchDoc(RequestBatch[l])}
      /\ LineWritten(puts, s, l, line)
  <2>1. puts = Req!PutLine(s, l, line)
    OBVIOUS
  <2> HIDE DEF puts
  <2> QED BY <2>1, PutLineDocs
<1> HIDE DEF puts
<1>6. \A k : Req!ShiftDoc(k) \notin DOMAIN puts
  BY <1>5, RequestsDocs
<1>7. LineWriteOK(s, puts, l)
  BY <1>3, <1>5 DEF LineWriteOK, LineWritten, Takes
<1>8. /\ RequestsInv'
      /\ \A o \in RequestLines : o # l => Req!Line(db', o) = Req!Line(db, o)
      /\ Req!Line(db', l) = line
  BY <1>4, <1>5, <1>6, <1>7, LineCommit DEF s
<1> QED BY <1>3, <1>8 DEF RequestsFine, Req!AppliedToWhatWasSeenStep

LEMMA ApprovedDocs ==
  ASSUME NEW s, NEW l \in RequestLines, NEW k \in Shifts, NEW x, x = Req!Line(s, l),
         LineOK(x), NEW puts, puts = Req!Approved(s, l, k)
  PROVE  /\ DOMAIN puts = {Req!LineDoc(l), Req!BatchDoc(RequestBatch[l])}
         /\ LineWritten(puts, s, l, ApprovedLine(x, k))
         /\ Decides(ApprovedLine(x, k), x, k)
<1> DEFINE line == ApprovedLine(x, k)
<1>1. puts = Req!PutLine(s, l, line)
  BY DEF Req!Approved, ApprovedLine
<1>2. Decides(line, x, k)
  BY DecidedLine
<1> HIDE DEF line
<1>3. /\ DOMAIN puts = {Req!LineDoc(l), Req!BatchDoc(RequestBatch[l])}
      /\ LineWritten(puts, s, l, line)
  BY <1>1, PutLineDocs
<1> QED BY <1>2, <1>3 DEF line

\* The documents of an approval that gives a number to a shift of the window w,
\* and writes others.
LEMMA NumberedDocs ==
  ASSUME NEW w \in ShiftWindows
  PROVE  DOMAIN Req!Numbered(w) = {Req!Sequence(DayOf[w[1]])}
<1>1. Req!Numbered(w) = Req!:>(Req!Sequence(DayOf[w[1]]), "next")
  BY DEF Req!Numbered
<1> QED BY <1>1, RequestsPut

LEMMA ApproveCreateKeeps ==
  ASSUME RequestsInv, NEW c \in Clients \cup {"now"}, NEW l \in RequestLines,
         NEW k \in Shifts, Req!ApproveCreate(c, l, k)
  PROVE  RequestsInv' /\ RequestsFine
<1> DEFINE s == Req!Seen(c)
           x == Req!Line(s, l)
           line == ApprovedLine(x, k)
           shift == Req!NewShift(x.person, x.win, "generated")
           first == Req!Approved(s, l, k)
           second == Req!Numbered(x.win)
           two == Req!@@(first, second)
           third == Req!:>(Req!ShiftDoc(k), shift)
           puts == Req!@@(two, third)
<1>1. /\ Req!Ready(c) /\ Req!Undecided(s, l) /\ x.kind = "CREATE"
      /\ db[Req!ShiftDoc(k)] = Req!Nothing
      /\ ~Req!Clash(s, k, x.person, x.win)
      /\ Req!Commit(c, puts)
  BY DEF Req!ApproveCreate
<1>2. LineOK(x)
  BY <1>1, LineKnown DEF Req!Undecided
<1>0. x = Req!Line(s, l) /\ first = Req!Approved(s, l, k)
  OBVIOUS
<1> HIDE DEF s, x, first
<1>3. /\ DOMAIN first = {Req!LineDoc(l), Req!BatchDoc(RequestBatch[l])}
      /\ LineWritten(first, s, l, line)
      /\ Decides(line, x, k)
  BY <1>0, <1>2, ApprovedDocs
<1>4. x.win \in ShiftWindows /\ x.person \in Staff
  BY <1>1, <1>2 DEF LineOK
<1>5. DOMAIN second = {Req!Sequence(DayOf[x.win[1]])}
  BY <1>4, NumberedDocs
<1>6. shift \in ShiftType /\ shift.win = x.win /\ shift.person = x.person
  BY <1>4 DEF Req!NewShift, ShiftType
<1>7. DOMAIN third = {Req!ShiftDoc(k)} /\ third[Req!ShiftDoc(k)] = shift
  BY RequestsPut
<1> HIDE DEF second, third, shift, line
<1>8. /\ DOMAIN two = DOMAIN first \cup DOMAIN second
      /\ \A d \in DOMAIN first : two[d] = first[d]
  BY RequestsOver
<1> HIDE DEF two
<1>9. /\ DOMAIN puts = DOMAIN two \cup DOMAIN third
      /\ \A d \in DOMAIN two : puts[d] = two[d]
      /\ \A d \in DOMAIN third : d \notin DOMAIN two => puts[d] = third[d]
  BY RequestsOver
<1> HIDE DEF puts
<1>10. DayOf[x.win[1]] \in Req!Days
  BY <1>4, RequestsDocs
<1>11. /\ DOMAIN puts = {Req!LineDoc(l), Req!BatchDoc(RequestBatch[l]),
                         Req!Sequence(DayOf[x.win[1]]), Req!ShiftDoc(k)}
       /\ DOMAIN puts \subseteq Req!Docs
  BY <1>3, <1>5, <1>7, <1>8, <1>9, <1>10, RequestsDocs
<1>12. LineWritten(puts, s, l, line)
  BY <1>3, <1>8, <1>9 DEF LineWritten
<1>13. puts[Req!ShiftDoc(k)] = shift
  <2>1. Req!ShiftDoc(k) \notin DOMAIN two
    <3>1. Req!ShiftDoc(k) \notin {Req!LineDoc(l), Req!BatchDoc(RequestBatch[l])}
      BY RequestsDocs
    <3>2. Req!ShiftDoc(k) \notin {Req!Sequence(DayOf[x.win[1]])}
      BY RequestsDocs
    <3> QED BY <3>1, <3>2, <1>3, <1>5, <1>8
  <2> QED BY <2>1, <1>7, <1>9
<1>14. s[Req!ShiftDoc(k)] = Req!Nothing
  BY <1>1, <1>11, RequestsRight DEF s
<1>15. \A j \in Shifts : Req!ShiftDoc(j) \in DOMAIN puts => j = k
  BY <1>11, RequestsDocs
<1>16. \A j \in Shifts \ {k} : RequestsAfter(s, puts)[Req!ShiftDoc(j)] = s[Req!ShiftDoc(j)]
  BY <1>15, RequestsDocs DEF RequestsAfter
<1>17. ShiftWriteOK(s, puts, k)
  BY <1>1, <1>6, <1>11, <1>13, <1>14, <1>16, NoClash DEF ShiftWriteOK
<1>18. LineWriteOK(s, puts, l)
  BY <1>1, <1>3, <1>11, <1>12 DEF LineWriteOK, LineWritten, Decides, Takes
<1>19. DOMAIN puts \subseteq {Req!LineDoc(l), Req!BatchDoc(RequestBatch[l])}
         \cup {Req!ShiftDoc(j) : j \in Shifts} \cup {Req!Sequence(day) : day \in Req!Days}
  BY <1>10, <1>11
<1>20. /\ RequestsInv'
       /\ \A d \in DOMAIN puts : s[d] = db[d]
       /\ \A o \in RequestLines : o # l => Req!Line(db', o) = Req!Line(db, o)
  BY <1>1, <1>11, <1>12, <1>15, <1>17, <1>18, <1>19, LineCommit DEF s
<1>21. Req!Line(db, l).kind = "CREATE"
  BY <1>1, <1>11, <1>20 DEF x, Req!Line
<1> QED BY <1>20, <1>21 DEF RequestsFine, Req!AppliedToWhatWasSeenStep

\* The shift taken off duty.
LEMMA CancelledDocs ==
  ASSUME NEW s, NEW k \in Shifts, NEW puts, puts = Req!Cancelled(s, k),
         s[Req!ShiftDoc(k)] \in ShiftType
  PROVE  /\ DOMAIN puts = {Req!ShiftDoc(k)}
         /\ puts[Req!ShiftDoc(k)] \in ShiftType
         /\ puts[Req!ShiftDoc(k)].status = "CANCELLED"
         /\ puts[Req!ShiftDoc(k)].rev # 0
<1> DEFINE shift == s[Req!ShiftDoc(k)]
           off == [shift EXCEPT !.status = "CANCELLED"]
           new == Req!Edited(off)
<1>1. puts = Req!:>(Req!ShiftDoc(k), new)
  BY DEF Req!Cancelled, Req!Shift
<1>2. off \in ShiftType /\ off.status = "CANCELLED"
  BY DEF ShiftType
<1> HIDE DEF off
<1>3. new \in ShiftType /\ new.status = "CANCELLED" /\ new.rev # 0
  BY <1>2 DEF Req!Edited, ShiftType
<1> HIDE DEF new
<1>4. DOMAIN puts = {Req!ShiftDoc(k)} /\ puts[Req!ShiftDoc(k)] = new
  BY <1>1, RequestsPut
<1> QED BY <1>3, <1>4

LEMMA ApproveCancelKeeps ==
  ASSUME RequestsInv, NEW c \in Clients \cup {"now"}, NEW l \in RequestLines,
         Req!ApproveCancel(c, l)
  PROVE  RequestsInv' /\ RequestsFine
<1> DEFINE s == Req!Seen(c)
           x == Req!Line(s, l)
           k == x.shift
           line == ApprovedLine(x, k)
           first == Req!Approved(s, l, k)
           second == Req!Cancelled(s, k)
           puts == Req!@@(first, second)
<1>1. /\ Req!Ready(c) /\ Req!Undecided(s, l) /\ x.kind = "CANCEL"
      /\ Req!Unchanged(s, x)
      /\ Req!Commit(c, puts)
  BY DEF Req!ApproveCancel
<1>2. LineOK(x)
  BY <1>1, LineKnown DEF Req!Undecided
<1>3. k \in Shifts /\ s[Req!ShiftDoc(k)].status = "ACTIVE"
  BY <1>1, <1>2 DEF LineOK, Req!Unchanged, Req!OnDuty, Req!Shift
<1>4. s[Req!ShiftDoc(k)] \in ShiftType
  BY <1>1, <1>3, ShiftKnown DEF Req!Nothing
<1>5. /\ k = x.shift /\ x = Req!Line(s, l)
      /\ first = Req!Approved(s, l, k) /\ second = Req!Cancelled(s, k)
  OBVIOUS
<1> HIDE DEF s, x, k, first, second
<1>6. /\ DOMAIN first = {Req!LineDoc(l), Req!BatchDoc(RequestBatch[l])}
      /\ LineWritten(first, s, l, line)
      /\ Decides(line, x, k)
  BY <1>2, <1>3, <1>5, ApprovedDocs
<1>7. /\ DOMAIN second = {Req!ShiftDoc(k)}
      /\ second[Req!ShiftDoc(k)] \in ShiftType
      /\ second[Req!ShiftDoc(k)].status = "CANCELLED"
      /\ second[Req!ShiftDoc(k)].rev # 0
  BY <1>3, <1>4, <1>5, CancelledDocs
<1> HIDE DEF line
<1>8. /\ DOMAIN puts = DOMAIN first \cup DOMAIN second
      /\ \A d \in DOMAIN first : puts[d] = first[d]
      /\ \A d \in DOMAIN second : d \notin DOMAIN first => puts[d] = second[d]
  BY RequestsOver
<1> HIDE DEF puts
<1>9. DOMAIN puts = {Req!LineDoc(l), Req!BatchDoc(RequestBatch[l]), Req!ShiftDoc(k)}
  BY <1>6, <1>7, <1>8
<1>10. LineWritten(puts, s, l, line)
  BY <1>6, <1>8 DEF LineWritten
<1>11. puts[Req!ShiftDoc(k)] = second[Req!ShiftDoc(k)]
  <2>1. Req!ShiftDoc(k) \notin {Req!LineDoc(l), Req!BatchDoc(RequestBatch[l])}
    BY RequestsDocs
  <2> QED BY <2>1, <1>6, <1>7, <1>8
<1>12. \A j \in Shifts : Req!ShiftDoc(j) \in DOMAIN puts => j = k
  BY <1>9, RequestsDocs
<1>13. ShiftWriteOK(s, puts, k)
  BY <1>7, <1>11 DEF ShiftWriteOK
<1>14. LineWriteOK(s, puts, l)
  BY <1>1, <1>5, <1>6, <1>7, <1>9, <1>10, <1>11
     DEF LineWriteOK, LineWritten, Decides, Takes, Off
<1>15. DOMAIN puts \subseteq {Req!LineDoc(l), Req!BatchDoc(RequestBatch[l])}
         \cup {Req!ShiftDoc(j) : j \in Shifts} \cup {Req!Sequence(day) : day \in Req!Days}
  BY <1>3, <1>9
<1>16. /\ RequestsInv'
       /\ \A d \in DOMAIN puts : s[d] = db[d]
       /\ \A o \in RequestLines : o # l => Req!Line(db', o) = Req!Line(db, o)
  BY <1>1, <1>9, <1>10, <1>12, <1>13, <1>14, <1>15, LineCommit DEF s
<1>17. Req!Line(db, l) = x /\ Req!Shift(db, k) = Req!Shift(s, k)
  BY <1>5, <1>9, <1>16 DEF Req!Line, Req!Shift
<1>18. Req!Unchanged(db, x)
  BY <1>1, <1>5, <1>17 DEF Req!Unchanged, Req!OnDuty
<1> QED BY <1>16, <1>17, <1>18 DEF RequestsFine, Req!AppliedToWhatWasSeenStep

\* Nothing is written that the shift could conflict with.
LEMMA ApproveAsItIsKeeps ==
  ASSUME RequestsInv, NEW c \in Clients \cup {"now"}, NEW l \in RequestLines,
         Req!ApproveAsItIs(c, l)
  PROVE  RequestsInv' /\ RequestsFine
<1> DEFINE s == Req!Seen(c)
           x == Req!Line(s, l)
           k == x.shift
           line == ApprovedLine(x, k)
           puts == Req!Approved(s, l, k)
<1>1. /\ Req!Ready(c) /\ Req!Undecided(s, l) /\ x.kind = "RESCHEDULE"
      /\ Req!Unchanged(s, x)
      /\ Req!Commit(c, puts)
  BY DEF Req!ApproveAsItIs
<1>2. LineOK(x)
  BY <1>1, LineKnown DEF Req!Undecided
<1>3. k \in Shifts /\ s[Req!ShiftDoc(k)].status = "ACTIVE"
  BY <1>1, <1>2 DEF LineOK, Req!Unchanged, Req!OnDuty, Req!Shift
<1>4. k = x.shift /\ x = Req!Line(s, l) /\ puts = Req!Approved(s, l, k)
  OBVIOUS
<1> HIDE DEF s, x, k, puts
<1>5. /\ DOMAIN puts = {Req!LineDoc(l), Req!BatchDoc(RequestBatch[l])}
      /\ LineWritten(puts, s, l, line)
      /\ Decides(line, x, k)
  BY <1>2, <1>3, <1>4, ApprovedDocs
<1> HIDE DEF line
<1>6. \A j : Req!ShiftDoc(j) \notin DOMAIN puts
  BY <1>5, RequestsDocs
<1>7. LineWriteOK(s, puts, l)
  BY <1>1, <1>3, <1>4, <1>5 DEF LineWriteOK, LineWritten, Decides, Takes, Req!Nothing
<1>8. /\ RequestsInv'
      /\ \A d \in Req!Docs : db'[d] = IF d \in DOMAIN puts THEN puts[d] ELSE db[d]
      /\ \A d \in DOMAIN puts : s[d] = db[d]
      /\ \A o \in RequestLines : o # l => Req!Line(db', o) = Req!Line(db, o)
  BY <1>1, <1>5, <1>6, <1>7, LineCommit DEF s
<1>9. Req!Line(db, l) = x
  BY <1>4, <1>5, <1>8 DEF Req!Line
<1>10. db'[Req!ShiftDoc(k)] = db[Req!ShiftDoc(k)]
  BY <1>3, <1>6, <1>8, RequestsDocs
<1>11. Able(c) /\ Committed(Req!Docs, c, puts) /\ s = Sees(c)
  BY <1>1, RequestsTxn DEF s
<1>12. ~Late => s = db
  BY <1>11, SeesAll, CommitEnds DEF RequestsInv
<1>13. Req!Unchanged(db, x) \/ Req!LateCommit
  BY <1>1, <1>12, RequestsTxn
<1> QED BY <1>1, <1>4, <1>8, <1>9, <1>10, <1>13 DEF RequestsFine, Req!AppliedToWhatWasSeenStep

\* Another shift takes the place of the shift.
LEMMA ApproveRescheduleKeeps ==
  ASSUME RequestsInv, NEW c \in Clients \cup {"now"}, NEW l \in RequestLines,
         NEW k \in Shifts, Req!ApproveReschedule(c, l, k)
  PROVE  RequestsInv' /\ RequestsFine
<1> DEFINE s == Req!Seen(c)
           x == Req!Line(s, l)
           o == x.shift
           line == ApprovedLine(x, k)
           shift == [Req!Shift(s, o) EXCEPT !.win = x.win, !.rev = 0, !.code = "generated"]
           first == Req!Approved(s, l, k)
           second == Req!Numbered(x.win)
           two == Req!@@(first, second)
           third == Req!Cancelled(s, o)
           three == Req!@@(two, third)
           fourth == Req!:>(Req!ShiftDoc(k), shift)
           puts == Req!@@(three, fourth)
<1>1. /\ Req!Ready(c) /\ Req!Undecided(s, l) /\ x.kind = "RESCHEDULE"
      /\ Req!Unchanged(s, x)
      /\ db[Req!ShiftDoc(k)] = Req!Nothing
      /\ ~Req!Clash(s, o, x.person, x.win)
      /\ Req!Commit(c, puts)
  BY DEF Req!ApproveReschedule
<1>2. LineOK(x)
  BY <1>1, LineKnown DEF Req!Undecided
<1>3. /\ o \in Shifts /\ x.win \in ShiftWindows /\ x.person \in Staff
      /\ s[Req!ShiftDoc(o)].status = "ACTIVE" /\ s[Req!ShiftDoc(o)].person = x.person
  BY <1>1, <1>2 DEF LineOK, Req!Unchanged, Req!OnDuty, Req!Shift
<1>4. s[Req!ShiftDoc(o)] \in ShiftType
  BY <1>1, <1>3, ShiftKnown DEF Req!Nothing
<1>5. /\ o = x.shift /\ x = Req!Line(s, l)
      /\ first = Req!Approved(s, l, k) /\ third = Req!Cancelled(s, o)
  OBVIOUS
<1>6. shift \in ShiftType /\ shift.win = x.win /\ shift.person = x.person
  BY <1>3, <1>4 DEF ShiftType, Req!Shift
<1> HIDE DEF s, x, o, first, third, shift
<1>7. /\ DOMAIN first = {Req!LineDoc(l), Req!BatchDoc(RequestBatch[l])}
      /\ LineWritten(first, s, l, line)
      /\ Decides(line, x, k)
  BY <1>2, <1>5, ApprovedDocs
<1>8. DOMAIN second = {Req!Sequence(DayOf[x.win[1]])} /\ DayOf[x.win[1]] \in Req!Days
  BY <1>3, NumberedDocs, RequestsDocs
<1>9. /\ DOMAIN third = {Req!ShiftDoc(o)}
      /\ third[Req!ShiftDoc(o)] \in ShiftType
      /\ third[Req!ShiftDoc(o)].status = "CANCELLED"
      /\ third[Req!ShiftDoc(o)].rev # 0
  <2>1. o \in Shifts /\ third = Req!Cancelled(s, o)
    BY <1>3, <1>5
  <2> QED BY ONLY <2>1, <1>4, CancelledDocs
<1>10. DOMAIN fourth = {Req!ShiftDoc(k)} /\ fourth[Req!ShiftDoc(k)] = shift
  BY RequestsPut
<1> HIDE DEF line, second, fourth
<1>11. /\ DOMAIN two = DOMAIN first \cup DOMAIN second
       /\ \A d \in DOMAIN first : two[d] = first[d]
  BY RequestsOver
<1> HIDE DEF two
<1>12. /\ DOMAIN three = DOMAIN two \cup DOMAIN third
       /\ \A d \in DOMAIN two : three[d] = two[d]
       /\ \A d \in DOMAIN third : d \notin DOMAIN two => three[d] = third[d]
  BY RequestsOver
<1> HIDE DEF three
<1>13. /\ DOMAIN puts = DOMAIN three \cup DOMAIN fourth
       /\ \A d \in DOMAIN three : puts[d] = three[d]
       /\ \A d \in DOMAIN fourth : d \notin DOMAIN three => puts[d] = fourth[d]
  BY RequestsOver
<1> HIDE DEF puts
<1>14. /\ DOMAIN puts = {Req!LineDoc(l), Req!BatchDoc(RequestBatch[l]),
                         Req!Sequence(DayOf[x.win[1]]), Req!ShiftDoc(o), Req!ShiftDoc(k)}
       /\ DOMAIN puts \subseteq Req!Docs
  BY <1>3, <1>7, <1>8, <1>9, <1>10, <1>11, <1>12, <1>13, RequestsDocs
<1>15. s[Req!ShiftDoc(k)] = Req!Nothing
  BY <1>1, <1>14, RequestsRight DEF s
<1>16. k # o
  BY <1>3, <1>15 DEF Req!Nothing
<1>17. LineWritten(puts, s, l, line)
  BY <1>7, <1>11, <1>12, <1>13 DEF LineWritten
<1>18. \A j : Req!ShiftDoc(j) \notin DOMAIN two
  <2> SUFFICES ASSUME NEW j PROVE Req!ShiftDoc(j) \notin DOMAIN two
    OBVIOUS
  <2>1. Req!ShiftDoc(j) \notin {Req!LineDoc(l), Req!BatchDoc(RequestBatch[l])}
    BY RequestsDocs
  <2>2. Req!ShiftDoc(j) \notin {Req!Sequence(DayOf[x.win[1]])}
    BY RequestsDocs
  <2> QED BY <2>1, <2>2, <1>7, <1>8, <1>11
<1>19. Req!ShiftDoc(k) # Req!ShiftDoc(o)
  BY <1>16, RequestsDocs
<1>20. puts[Req!ShiftDoc(o)] = third[Req!ShiftDoc(o)] /\ puts[Req!ShiftDoc(k)] = shift
  BY <1>9, <1>10, <1>12, <1>13, <1>18, <1>19
<1>21. \A j \in Shifts : Req!ShiftDoc(j) \in DOMAIN puts => j \in {o, k}
  BY <1>14, RequestsDocs
<1>22. /\ \A j \in Shifts \ {o, k} :
            RequestsAfter(s, puts)[Req!ShiftDoc(j)] = s[Req!ShiftDoc(j)]
       /\ RequestsAfter(s, puts)[Req!ShiftDoc(o)] = puts[Req!ShiftDoc(o)]
  BY <1>3, <1>14, <1>21, RequestsDocs DEF RequestsAfter
<1>23. ShiftWriteOK(s, puts, k)
  BY <1>1, <1>6, <1>9, <1>14, <1>15, <1>20, <1>22, NoClash DEF ShiftWriteOK
<1>24. ShiftWriteOK(s, puts, o)
  BY <1>9, <1>20 DEF ShiftWriteOK
<1>25. LineWriteOK(s, puts, l)
  BY <1>1, <1>5, <1>7, <1>9, <1>14, <1>17, <1>20
     DEF LineWriteOK, LineWritten, Decides, Takes, Off
<1>26. DOMAIN puts \subseteq {Req!LineDoc(l), Req!BatchDoc(RequestBatch[l])}
         \cup {Req!ShiftDoc(j) : j \in Shifts} \cup {Req!Sequence(day) : day \in Req!Days}
  BY <1>3, <1>8, <1>14
<1>27. /\ RequestsInv'
       /\ \A d \in DOMAIN puts : s[d] = db[d]
       /\ \A e \in RequestLines : e # l => Req!Line(db', e) = Req!Line(db, e)
  BY <1>1, <1>14, <1>17, <1>21, <1>23, <1>24, <1>25, <1>26, LineCommit DEF s
<1>28. Req!Line(db, l) = x /\ Req!Shift(db, o) = Req!Shift(s, o)
  BY <1>5, <1>14, <1>27 DEF Req!Line, Req!Shift
<1>29. Req!Unchanged(db, x)
  BY <1>1, <1>5, <1>28 DEF Req!Unchanged, Req!OnDuty
<1> QED BY <1>27, <1>28, <1>29 DEF RequestsFine, Req!AppliedToWhatWasSeenStep

LEMMA LineStepKeeps ==
  ASSUME RequestsInv, NEW c \in Clients \cup {"now"}, NEW l \in RequestLines,
         Req!LineStep(c, l) \/ Req!MarkFailed(c, l)
  PROVE  RequestsInv' /\ RequestsFine
<1>1. ASSUME NEW to \in {"REJECTED", "CANCELLED"}, Req!Refuse(c, l, to)
      PROVE  RequestsInv' /\ RequestsFine
  BY <1>1, RefuseKeeps DEF Req!Refuse
<1>2. CASE Req!MarkFailed(c, l)
  BY <1>2, RefuseKeeps DEF Req!MarkFailed
<1> QED BY <1>1, <1>2, ApproveCreateKeeps, ApproveRescheduleKeeps, ApproveAsItIsKeeps,
           ApproveCancelKeeps DEF Req!LineStep

\* A line as it is submitted.
LEMMA NotedOK ==
  ASSUME NEW s, NEW request \in Req!Requests,
         request.kind # "CREATE" => s[Req!ShiftDoc(request.shift)] \in ShiftType
  PROVE  LineOK(Req!Noted(s, request)) /\ Req!Noted(s, request).status = "PENDING"
<1> DEFINE base == [status |-> "PENDING", applied |-> "none"]
           shift == s[Req!ShiftDoc(request.shift)]
           extra == [person |-> shift.person, saw |-> shift.rev]
           more == Req!@@(request, extra)
           body == IF request.kind = "CREATE" THEN request ELSE more
           line == Req!@@(base, body)
<1>1. Req!Noted(s, request) = line
  BY DEF Req!Noted, Req!Shift
<1>2. /\ request.kind \in {"CREATE", "RESCHEDULE", "CANCEL"}
      /\ {"kind"} \subseteq DOMAIN request
      /\ "status" \notin DOMAIN request /\ "applied" \notin DOMAIN request
      /\ request.kind = "CREATE" => "person" \in DOMAIN request /\ request.person \in Staff
      /\ request.kind # "CREATE" => /\ "shift" \in DOMAIN request /\ request.shift \in Shifts
                                    /\ "person" \notin DOMAIN request
      /\ request.kind # "CANCEL" => "win" \in DOMAIN request /\ request.win \in ShiftWindows
  BY DEF Req!Requests
<1>3. /\ DOMAIN extra = {"person", "saw"}
      /\ request.kind # "CREATE" => extra.person \in Staff
  BY DEF ShiftType
<1> HIDE DEF extra
<1>4. /\ DOMAIN more = DOMAIN request \cup DOMAIN extra
      /\ \A d \in DOMAIN request : more[d] = request[d]
      /\ \A d \in DOMAIN extra : d \notin DOMAIN request => more[d] = extra[d]
  BY RequestsOver
<1> HIDE DEF more
<1>5. /\ "kind" \in DOMAIN body /\ body.kind = request.kind
      /\ "person" \in DOMAIN body /\ body.person \in Staff
      /\ request.kind # "CREATE" => "shift" \in DOMAIN body /\ body.shift \in Shifts
      /\ request.kind # "CANCEL" => "win" \in DOMAIN body /\ body.win \in ShiftWindows
  BY <1>2, <1>3, <1>4
<1>6. DOMAIN base = {"status", "applied"} /\ base.status = "PENDING" /\ base.applied = "none"
  OBVIOUS
<1> HIDE DEF base, body
<1>7. /\ line = [d \in DOMAIN line |-> line[d]]
      /\ DOMAIN line = DOMAIN base \cup DOMAIN body
      /\ \A d \in DOMAIN base : line[d] = base[d]
      /\ \A d \in DOMAIN body : d \notin DOMAIN base => line[d] = body[d]
  BY DEF Req!@@
<1> HIDE DEF line
<1>8. LineOK(line) /\ line.status = "PENDING"
  BY <1>2, <1>5, <1>6, <1>7, NoneIsNoShift DEF LineOK
<1> QED BY <1>1, <1>8

LEMMA SubmitKeeps ==
  ASSUME RequestsInv, NEW c \in Clients \cup {"now"}, NEW b \in Req!Batches,
         NEW requests \in [Req!LinesOf(b) -> Req!Requests], Req!SubmitBatch(c, b, requests)
  PROVE  RequestsInv' /\ RequestsFine
<1> DEFINE s == Req!Seen(c)
           docs == {Req!LineDoc(l) : l \in Req!LinesOf(b)}
           first == [d \in docs |-> Req!Noted(s, requests[d[2]])]
           batch == [status |-> "PENDING", pending |-> Req!Cardinality(Req!LinesOf(b))]
           second == Req!:>(Req!BatchDoc(b), batch)
           puts == Req!@@(first, second)
<1>1. /\ Req!Ready(c) /\ Req!Commit(c, puts)
      /\ \A l \in Req!LinesOf(b) : requests[l].kind # "CREATE" =>
           s[Req!ShiftDoc(requests[l].shift)].status = "ACTIVE"
  BY DEF Req!SubmitBatch, Req!OnDuty, Req!Shift
<1>2. \A l \in Req!LinesOf(b) : l \in RequestLines /\ RequestBatch[l] = b
  BY DEF Req!LinesOf
<1>3. ASSUME NEW l \in Req!LinesOf(b)
      PROVE  LineOK(Req!Noted(s, requests[l])) /\ Req!Noted(s, requests[l]).status = "PENDING"
  <2>1. requests[l] \in Req!Requests
    OBVIOUS
  <2>2. requests[l].kind # "CREATE" => requests[l].shift \in Shifts
    BY <2>1 DEF Req!Requests
  <2>3. requests[l].kind # "CREATE" => s[Req!ShiftDoc(requests[l].shift)] \in ShiftType
    BY <1>1, <2>2, ShiftKnown DEF Req!Nothing
  <2> HIDE DEF s
  <2> QED BY <2>1, <2>3, NotedOK
<1>4. \A l \in Req!LinesOf(b) : /\ Req!LineDoc(l) \in docs
                                /\ first[Req!LineDoc(l)] = Req!Noted(s, requests[l])
  BY DEF Req!LineDoc
<1>5. DOMAIN first = docs
  OBVIOUS
<1>6. DOMAIN second = {Req!BatchDoc(b)} /\ second[Req!BatchDoc(b)] = batch
  BY RequestsPut
<1> HIDE DEF s, first, second, batch
<1>7. /\ DOMAIN puts = DOMAIN first \cup DOMAIN second
      /\ \A d \in DOMAIN first : puts[d] = first[d]
      /\ \A d \in DOMAIN second : d \notin DOMAIN first => puts[d] = second[d]
  BY RequestsOver
<1> HIDE DEF puts
<1>8. \A l \in Req!LinesOf(b) : /\ Req!LineDoc(l) \in DOMAIN puts
                                /\ LineOK(puts[Req!LineDoc(l)])
                                /\ puts[Req!LineDoc(l)].status = "PENDING"
  BY <1>3, <1>4, <1>5, <1>7
<1>9. /\ \A x : Req!ShiftDoc(x) \notin docs /\ Req!BatchDoc(x) \notin docs
      /\ \A l : Req!LineDoc(l) \in docs => l \in Req!LinesOf(b)
      /\ docs \subseteq Req!Docs
  BY <1>2, RequestsDocs
<1> HIDE DEF docs
<1>10. /\ DOMAIN puts \subseteq Req!Docs
       /\ Req!BatchDoc(b) \in DOMAIN puts /\ puts[Req!BatchDoc(b)] = batch
  BY <1>5, <1>6, <1>7, <1>9, RequestsDocs
<1>11. /\ \A k \in Shifts : Req!ShiftDoc(k) \notin DOMAIN puts
       /\ \A l \in RequestLines : Req!LineDoc(l) \in DOMAIN puts => l \in Req!LinesOf(b)
       /\ \A a \in Req!Batches : Req!BatchDoc(a) \in DOMAIN puts => a = b
  BY <1>5, <1>6, <1>7, <1>9, RequestsDocs
<1>12. Req!Summary(RequestsAfter(s, puts), b) = batch
  <2> DEFINE t == RequestsAfter(s, puts)
  <2>1. \A l \in Req!LinesOf(b) : t[Req!LineDoc(l)].status = "PENDING"
    BY <1>2, <1>8, RequestsDocs DEF RequestsAfter
  <2> HIDE DEF t
  <2>2. Req!LinesOf(b) # {}
    BY DEF Req!LinesOf, Req!Batches
  <2>3. /\ Req!Having(t, b, "PENDING") = Req!LinesOf(b)
        /\ Req!Having(t, b, "CANCELLED") = {} /\ Req!Having(t, b, "APPROVED") = {}
        /\ Req!Having(t, b, "REJECTED") = {} /\ Req!Having(t, b, "FAILED") = {}
    BY <2>1 DEF Req!Having, Req!Line
  <2>4. Req!Outcome(t, b) = "PENDING"
    BY <2>2, <2>3 DEF Req!Outcome
  <2> QED BY <2>3, <2>4 DEF Req!Summary, batch, t
<1>13. RequestsSound(s, puts)
  BY <1>2, <1>8, <1>10, <1>11, <1>12 DEF RequestsSound, LineWriteOK, Takes
<1>14. /\ RequestsInv'
       /\ \A d \in Req!Docs : db'[d] = IF d \in DOMAIN puts THEN puts[d] ELSE db[d]
  <2>1. Able(c) /\ Committed(Req!Docs, c, puts) /\ s = Sees(c)
    BY <1>1, RequestsTxn DEF s
  <2> QED BY <2>1, <1>13, RequestsCommit
<1>15. \A l \in RequestLines : \/ Req!Line(db', l) = Req!Line(db, l)
                               \/ Req!Line(db', l).status = "PENDING"
  BY <1>8, <1>11, <1>14, RequestsDocs DEF Req!Line
<1> QED BY <1>14, <1>15 DEF RequestsFine, Req!AppliedToWhatWasSeenStep
-----------------------------------------------------------------------------
(* What requests leave on record.                                          *)

LEMMA RequestsSame ==
  ASSUME RequestsInv, Taken(Req!Docs)', db' = db,
         \A c \in Clients :
           /\ Open(c)' => RequestsOK(snap'[c]) /\ RequestsAged(c)'
           /\ ~Open(c)' => missed'[c] = {}
  PROVE  RequestsInv' /\ RequestsFine
<1>1. RequestsOK(db)' /\ Req!SameDayNeverClashes'
  BY DEF RequestsInv, RequestsOK, Req!SameDayNeverClashes, Req!ClashingPair
<1>2. \A c \in Clients : Open(c)' => RequestsOK(snap[c])'
  BY DEF RequestsOK
<1>3. RequestsFine
  BY DEF RequestsFine, Req!AppliedToWhatWasSeenStep, Req!Line
<1> QED BY <1>1, <1>2, <1>3 DEF RequestsInv

LEMMA RequestsNext ==
  ASSUME RequestsInv, [Req!Next]_(Req!vars)
  PROVE  RequestsInv' /\ RequestsFine
<1>1. ASSUME NEW c \in Clients \cup {"now"}, NEW k \in Shifts, Req!ShiftStep(c, k)
      PROVE  RequestsInv' /\ RequestsFine
  BY <1>1, ShiftStepKeeps
<1>2. ASSUME NEW c \in Clients, Req!Begin(c)
      PROVE  RequestsInv' /\ RequestsFine
  <2>1. Begun(c)
    BY <1>2, RequestsTxn
  <2>2. /\ Taken(Req!Docs)' /\ db' = db
        /\ \A o \in Clients : Open(o)' => snap'[o] = IF o = c THEN db ELSE snap[o]
        /\ \A o \in Clients : Open(o)' /\ o # c => Open(o) /\ missed'[o] = missed[o]
    BY <2>1, BeginTaken DEF RequestsInv
  <2>3. missed' = missed /\ missed[c] = {} /\ \A o \in Clients : ~Open(o)' => ~Open(o)
    BY <2>1 DEF Begun, RequestsInv, Open, Taken
  <2>4. ASSUME NEW o \in Clients, Open(o)' PROVE RequestsOK(snap'[o]) /\ RequestsAged(o)'
    <3>1. CASE o = c
      <4>1. snap'[c] = db /\ missed'[c] = {}
        BY <2>2, <2>3, <2>4, <3>1
      <4> QED BY <4>1, <3>1, <2>2 DEF RequestsInv, RequestsAged
    <3>2. CASE o # c
      BY <3>2, <2>2, <2>4 DEF RequestsInv, RequestsAged, Fresh
    <3> QED BY <3>1, <3>2
  <2>5. \A o \in Clients : ~Open(o)' => missed'[o] = {}
    BY <2>3 DEF RequestsInv
  <2> QED BY <2>2, <2>4, <2>5, RequestsSame
<1>3. CASE UNCHANGED <<db, snap, missed>>
  <2>1. /\ Taken(Req!Docs)'
        /\ \A o \in Clients : Open(o)' =>
             Open(o) /\ snap'[o] = snap[o] /\ missed'[o] = missed[o]
    BY <1>3, IdleTaken DEF RequestsInv
  <2>2. \A o \in Clients : Open(o)' => RequestsOK(snap'[o]) /\ RequestsAged(o)'
    BY <2>1, <1>3 DEF RequestsInv, RequestsAged, Fresh
  <2>3. \A o \in Clients : ~Open(o)' => missed'[o] = {}
    BY <1>3 DEF RequestsInv, Open
  <2> QED BY <2>1, <2>2, <2>3, <1>3, RequestsSame
<1>4. ASSUME NEW c \in Clients, Req!Abort(c)
      PROVE  RequestsInv' /\ RequestsFine
  <2>1. Aborted(c)
    BY <1>4, RequestsTxn
  <2>2. /\ Taken(Req!Docs)' /\ db' = db
        /\ \A o \in Clients : Open(o)' =>
             Open(o) /\ snap'[o] = snap[o] /\ missed'[o] = missed[o]
    BY <2>1, AbortTaken DEF RequestsInv
  <2>3. \A o \in Clients : Open(o)' => RequestsOK(snap'[o]) /\ RequestsAged(o)'
    BY <2>2 DEF RequestsInv, RequestsAged, Fresh
  <2>4. \A o \in Clients : ~Open(o)' => missed'[o] = {}
    BY <2>1 DEF Aborted, RequestsInv, Open, Taken
  <2> QED BY <2>2, <2>3, <2>4, RequestsSame
<1> QED BY <1>1, <1>2, <1>3, <1>4, SubmitKeeps, LineStepKeeps, RequestsTxn
        DEF Req!Next, Req!vars

LEMMA RequestsInit == Req!Init => RequestsInv
<1> SUFFICES ASSUME Req!Init PROVE RequestsInv
  OBVIOUS
<1>1. /\ db = [d \in Req!Docs |-> IF d[1] = "sequence" THEN "next" ELSE Req!Nothing]
      /\ snap = [c \in Clients |-> <<>>] /\ missed = [c \in Clients |-> {}]
  BY DEF Req!Init, Req!TxnInit, Req!NoSnapshot
<1>2. Taken(Req!Docs)
  BY <1>1 DEF Taken, Open
<1>3. /\ \A k \in Shifts : db[Req!ShiftDoc(k)] = Req!Nothing
      /\ \A l \in RequestLines : db[Req!LineDoc(l)] = Req!Nothing
      /\ \A b \in Req!Batches : db[Req!BatchDoc(b)] = Req!Nothing
  <2>1. \A x : /\ Req!ShiftDoc(x)[1] = "shift" /\ Req!LineDoc(x)[1] = "line"
               /\ Req!BatchDoc(x)[1] = "batch"
    BY DEF Req!ShiftDoc, Req!LineDoc, Req!BatchDoc
  <2> QED BY <2>1, <1>1, RequestsDocs
<1>4. RequestsOK(db)
  BY <1>3 DEF RequestsOK
<1>5. Req!SameDayNeverClashes
  BY <1>3 DEF Req!SameDayNeverClashes, Req!ClashingPair, Req!OnDuty, Req!Shift, Req!Nothing
<1>6. \A c \in Clients : ~Open(c) /\ missed[c] = {}
  BY <1>1 DEF Open
<1> QED BY <1>2, <1>4, <1>5, <1>6 DEF RequestsInv

LEMMA PartIsRequests == Spec => [](part = "requests" => RequestsInv)
<1>1. Init => (part = "requests" => RequestsInv)
  BY RequestsInit DEF Init
<1>2. (part = "requests" => RequestsInv) /\ [Next]_vars => (part = "requests" => RequestsInv)'
  <2> SUFFICES ASSUME part = "requests" => RequestsInv, [Next]_vars, (part = "requests")'
               PROVE  RequestsInv'
    OBVIOUS
  <2>1. part = "requests" /\ [Req!Next]_(Req!vars)
    BY DEF Next, vars, Req!vars
  <2> QED BY <2>1, RequestsNext
<1> QED BY <1>1, <1>2, PTL DEF Spec

LEMMA RequestsTell ==
  ASSUME RequestsInv
  PROVE  Req!BatchTellsLines /\ Req!SameDayNeverClashes
<1>1. \A b \in Req!Batches : db[Req!BatchDoc(b)] # Req!Nothing =>
        db[Req!BatchDoc(b)] = Req!Summary(db, b)
  BY DEF RequestsInv, RequestsOK
<1>2. ASSUME NEW l \in RequestLines, Req!Line(db, l) # Req!Nothing
      PROVE  Req!Applied(l)
  <2> DEFINE line == Req!Line(db, l)
  <2>1. /\ LineOK(line)
        /\ line.status = "APPROVED" => Req!Shift(db, line.applied) # Req!Nothing
        /\ Takes(line) => Req!Shift(db, line.shift).status \in Off
    BY <1>2 DEF RequestsInv, RequestsOK, Req!Line, Req!Shift
  <2> HIDE DEF line
  <2>2. line.status = "APPROVED" <=> line.applied \in Shifts
    BY <2>1 DEF LineOK
  <2>3. Takes(line) => ~Req!OnDuty(db, line.shift)
    BY <2>1 DEF Req!OnDuty, Off
  <2> QED BY <2>1, <2>2, <2>3 DEF Req!Applied, Takes, line
<1> QED BY <1>1, <1>2 DEF Req!BatchTellsLines, RequestsInv

\* Whatever shifts, lines and batches there are and however many decisions
\* overlap: the batch a decision brings up to date (updateDerivedBatchState)
\* counts its lines as they are, what an approved line names was done to the
\* shifts, and the counter of the day (allocateGeneratedShiftCode) keeps shifts
\* of one person apart that begin on it.
THEOREM RequestsHold == Spec => []RequestsKept
<1>1. (part = "requests" => RequestsInv) => RequestsKept
  BY RequestsTell DEF RequestsKept
<1> QED BY <1>1, PartIsRequests, PTL

\* A line is approved only when its shift is as its maker saw it
\* (assertRequestSourceUnchanged), however the decision is overtaken, unless it
\* asks for the window the shift has.
THEOREM RequestsApplied == Spec => AppliedToWhatWasSeen
<1>1. (part = "requests" => RequestsInv) /\ [Next]_vars =>
        [part = "requests" => RequestsFine]_vars
  <2> SUFFICES ASSUME part = "requests", RequestsInv, [Next]_vars PROVE RequestsFine
    OBVIOUS
  <2>1. [Req!Next]_(Req!vars)
    BY DEF Next, vars, Req!vars
  <2> QED BY <2>1, RequestsNext
<1>2. Spec => [][part = "requests" => RequestsFine]_vars
  BY <1>1, PartIsRequests, PTL DEF Spec
<1> QED BY <1>2 DEF RequestsFine, AppliedToWhatWasSeen
-----------------------------------------------------------------------------
(* Rosters, their shifts, and the lines applied to them.                   *)

RosterWindows == {Hours[k] : k \in DOMAIN Hours}
Kinds == {"WORKING_TO_OFF", "CHANGE_TIME", "ADD_SPECIAL_SHIFT"}

DutyType ==
  [status : {"ACTIVE", "CANCELLED"}, member : Members, day : RosterDays,
   win : RosterWindows, code : {"generated", "own"}]

ExceptionType ==
  [member : Members, day : RosterDays, kind : Kinds, active : BOOLEAN,
   line : RosterLines \cup {"none"}]

RosterType ==
  [status : {"DRAFT", "PUBLISHED", "ARCHIVED"}, pattern : Ros!Patterns,
   exceptions : {x \in Seq(ExceptionType) : Len(x) <= MaxExceptions}]

\* Where the line stands in the roster.
Places(roster, l) ==
  IF roster = Ros!Nothing THEN {}
  ELSE {i \in DOMAIN roster.exceptions : roster.exceptions[i].line = l}

\* A shift of the roster, of the i-th exception for i # 0, is what its exceptions
\* say of the day.
Fits(roster, win, m, d, i) ==
  /\ Ros!About(roster, m, d, {"WORKING_TO_OFF"}) = {} \/ i # 0
  /\ i = 0 => win = Hours[IF Ros!About(roster, m, d, {"CHANGE_TIME"}) # {}
                          THEN "CHANGE_TIME" ELSE "STANDARD"]
  /\ i # 0 => i \in Ros!About(roster, m, d, {"ADD_SPECIAL_SHIFT"})

\* The shift an active exception asks for.
ShiftOf(r, roster, i) ==
  LET e == roster.exceptions[i]
  IN  Ros!Generated(r, e.member, e.day, IF Ros!Standard(e) THEN 0 ELSE i)

\* The roster and its shifts, in s.
RosterKeeps(s, r) ==
  LET roster == s[Ros!RosterDoc(r)] IN
  /\ \A m \in Members, d \in RosterDays, i \in Ros!Slots :
       s[Ros!Generated(r, m, d, i)] # Ros!Nothing =>
         /\ roster.status \in {"PUBLISHED", "ARCHIVED"}
         /\ Fits(roster, s[Ros!Generated(r, m, d, i)].win, m, d, i)
  /\ roster.status = "PUBLISHED" => \A i \in Ros!Active(roster) :
       roster.exceptions[i].kind # "WORKING_TO_OFF" => s[ShiftOf(r, roster, i)] # Ros!Nothing

\* A line that is approved stands in one place, any other in none.
LineStands(s, l) ==
  IF s[Ros!LineDoc(l)].status = "APPROVED"
  THEN \E r \in Rosters, i \in 1..MaxExceptions :
         \A q \in Rosters : Places(s[Ros!RosterDoc(q)], l) = IF q = r THEN {i} ELSE {}
  ELSE \A q \in Rosters : Places(s[Ros!RosterDoc(q)], l) = {}

RosterLineOK(line) ==
  /\ line = [x \in DOMAIN line |-> line[x]]
  /\ {"status", "member", "days", "kind"} \subseteq DOMAIN line
  /\ line.status \in {"PENDING", "APPROVED", "REJECTED", "CANCELLED"}
  /\ line.kind \in {"WORKING_TO_OFF", "CHANGE_TIME"}
  /\ line.days \in Ranges
  /\ line.status = "APPROVED" => Ros!Cardinality(line.days) = 1

\* What is said of the database.
RostersOK(s) ==
  /\ \A x \in Ros!ShiftDocs : s[x] \in DutyType \cup {Ros!Nothing}
  /\ \A r \in Rosters : /\ s[Ros!RosterDoc(r)] \in RosterType \cup {Ros!Nothing}
                        /\ RosterKeeps(s, r)
  /\ \A l \in RosterLines :
       /\ s[Ros!LineDoc(l)] # Ros!Nothing =>
            RosterLineOK(s[Ros!LineDoc(l)]) /\ s[Ros!BatchDoc(RosterBatch[l])] # Ros!Nothing
       /\ LineStands(s, l)
  /\ \A b \in Ros!Batches : s[Ros!BatchDoc(b)] # Ros!Nothing =>
       s[Ros!BatchDoc(b)] = Ros!Summary(s, b)

\* On duty under a generated code of the bucket.
Counted(s, x, bucket) ==
  /\ s[x].status = "ACTIVE" /\ s[x].code = "generated"
  /\ Ros!Bucket(s[x].day, s[x].win) = bucket

\* What is known of a snapshot: a batch stands for its lines and the counter of
\* a day for the shifts it numbered.
RostersAged(c) ==
  /\ \A l \in RosterLines : Ros!LineDoc(l) \in missed[c] =>
       Ros!BatchDoc(RosterBatch[l]) \in missed[c]
  /\ \A bucket \in Ros!Buckets : Ros!Sequence(bucket) \notin missed[c] =>
       \A x \in Ros!ShiftDocs : Counted(db, x, bucket) => snap[c][x] = db[x]

\* The inductive invariant.
RostersInv ==
  /\ Taken(Ros!Docs)
  /\ RostersOK(db)
  /\ \A c \in Clients : IF Open(c) THEN RostersAged(c) ELSE missed[c] = {}

RostersAfter(s, puts) == [d \in Ros!Docs |-> IF d \in DOMAIN puts THEN puts[d] ELSE s[d]]

\* What an operation that reads s may write to a shift: one that is new and
\* clashes with nobody, numbered if it has a generated code, or the end of one.
DutyWriteOK(s, puts, x) ==
  /\ puts[x] \in DutyType
  /\ IF puts[x].status = "ACTIVE"
     THEN /\ s[x] = Ros!Nothing
          /\ puts[x].code = "generated" =>
               Ros!Sequence(Ros!Bucket(puts[x].day, puts[x].win)) \in DOMAIN puts
          /\ \A y \in Ros!ShiftDocs \ {x} :
               LET other == RostersAfter(s, puts)[y] IN
               other.status = "ACTIVE" /\ other.member = puts[x].member
                 /\ other.day = puts[x].day => ~Ros!Overlap(other.win, puts[x].win)
     ELSE s[x] # Ros!Nothing /\ puts[x].win = s[x].win

\* A roster is contradictory after a write only if the write hit another
\* exception than was meant.
Calm(old, new) ==
  old # Ros!Nothing /\ ~Ros!Contradictory(old) /\ Ros!Contradictory(new) =>
    /\ DOMAIN new.exceptions = DOMAIN old.exceptions
    /\ \E i, j \in Ros!Active(old) :
         /\ i # j /\ j \in Ros!Hit(old, i)
         /\ \A o \in DOMAIN old.exceptions \ {j} : new.exceptions[o] = old.exceptions[o]

\* And to a roster: drafts are edited and published with their shifts, what is
\* published is archived as it is.
RosterWriteOK(s, puts, r) ==
  LET old == s[Ros!RosterDoc(r)]
      new == puts[Ros!RosterDoc(r)]
  IN
  /\ new \in RosterType
  /\ Calm(old, new)
  /\ \A l \in RosterLines : Ros!LineDoc(l) \notin DOMAIN puts => Places(new, l) = Places(old, l)
  /\ new.status # "PUBLISHED" => \A m \in Members, d \in RosterDays, i \in Ros!Slots :
       Ros!Generated(r, m, d, i) \notin DOMAIN puts
  /\ \/ old.status = "PUBLISHED" /\ new.status = "ARCHIVED" /\ new.exceptions = old.exceptions
     \/ old.status \in {"none", "DRAFT"} /\ new.status \in {"DRAFT", "ARCHIVED"}
     \/ /\ old.status = "DRAFT" /\ new.status = "PUBLISHED"
        /\ \A m \in Members, d \in RosterDays, i \in Ros!Slots :
             Ros!Generated(r, m, d, i) \in DOMAIN puts =>
               Fits(new, puts[Ros!Generated(r, m, d, i)].win, m, d, i)
        /\ \A i \in Ros!Active(new) : new.exceptions[i].kind # "WORKING_TO_OFF" =>
             ShiftOf(r, new, i) \in DOMAIN puts

\* And to a line: it is pending, and stands in one roster when it is approved.
RosterLineWriteOK(s, puts, l) ==
  LET old == s[Ros!LineDoc(l)]
      new == puts[Ros!LineDoc(l)]
  IN
  /\ Ros!BatchDoc(RosterBatch[l]) \in DOMAIN puts
  /\ old.status # "APPROVED"
  /\ RosterLineOK(new)
  /\ IF new.status = "APPROVED"
     THEN \E r \in Rosters :
            /\ Ros!RosterDoc(r) \in DOMAIN puts
            /\ \A q \in Rosters : Ros!RosterDoc(q) \in DOMAIN puts => q = r
            /\ Places(s[Ros!RosterDoc(r)], l) = {} =>
                 \E i \in 1..MaxExceptions : Places(puts[Ros!RosterDoc(r)], l) = {i}
     ELSE \A q \in Rosters : Ros!RosterDoc(q) \notin DOMAIN puts

RostersSound(s, puts) ==
  /\ DOMAIN puts \subseteq Ros!Docs
  /\ \A x \in Ros!ShiftDocs : x \in DOMAIN puts => DutyWriteOK(s, puts, x)
  /\ \A r \in Rosters, m \in Members, d \in RosterDays, i \in Ros!Slots :
       Ros!Generated(r, m, d, i) \in DOMAIN puts
         /\ s[Ros!Generated(r, m, d, i)] = Ros!Nothing => Ros!RosterDoc(r) \in DOMAIN puts
  /\ \A r \in Rosters : Ros!RosterDoc(r) \in DOMAIN puts => RosterWriteOK(s, puts, r)
  /\ \A l \in RosterLines : Ros!LineDoc(l) \in DOMAIN puts => RosterLineWriteOK(s, puts, l)
  /\ \A b \in Ros!Batches : Ros!BatchDoc(b) \in DOMAIN puts =>
       puts[Ros!BatchDoc(b)] = Ros!Summary(RostersAfter(s, puts), b)

\* What the steps are said to do.
RostersFine == Ros!ContradictsByMishitStep /\ Ros!DoubleDutyLateStep
-----------------------------------------------------------------------------
(* Documents.                                                              *)

LEMMA RostersDocs ==
  /\ \A r \in Rosters : Ros!RosterDoc(r) \in Ros!Docs
  /\ \A r \in Rosters, m \in Members, d \in RosterDays, i \in Ros!Slots :
       Ros!Generated(r, m, d, i) \in Ros!ShiftDocs
  /\ \A k \in OwnShifts : Ros!OwnShift(k) \in Ros!ShiftDocs
  /\ Ros!ShiftDocs \subseteq Ros!Docs
  /\ \A m \in Members : Ros!MemberDoc(m) \in Ros!Docs
  /\ \A bucket \in Ros!Buckets : Ros!Sequence(bucket) \in Ros!Docs
  /\ \A l \in RosterLines : /\ Ros!LineDoc(l) \in Ros!Docs
                            /\ RosterBatch[l] \in Ros!Batches
  /\ \A b \in Ros!Batches : Ros!BatchDoc(b) \in Ros!Docs
  /\ Ros!Target \in Ros!Docs /\ Ros!Calendar \in Ros!Docs
  BY DEF Ros!Docs, Ros!ShiftDocs, Ros!GeneratedDocs, Ros!Batches

LEMMA RosterNames ==
  /\ \A x, y : Ros!RosterDoc(x) = Ros!RosterDoc(y) => x = y
  /\ \A x, y : Ros!LineDoc(x) = Ros!LineDoc(y) => x = y
  /\ \A x, y : Ros!BatchDoc(x) = Ros!BatchDoc(y) => x = y
  /\ \A r, m, d, i, q, n, e, j : Ros!Generated(r, m, d, i) = Ros!Generated(q, n, e, j) =>
       r = q /\ m = n /\ d = e /\ i = j
  BY DEF Ros!RosterDoc, Ros!LineDoc, Ros!BatchDoc, Ros!Generated

\* The kind of a document.
LEMMA RosterTags ==
  /\ \A x : /\ Ros!RosterDoc(x)[1] = "roster" /\ Ros!LineDoc(x)[1] = "line"
            /\ Ros!BatchDoc(x)[1] = "batch" /\ Ros!Sequence(x)[1] = "sequence"
            /\ Ros!OwnShift(x)[1] = "own" /\ Ros!MemberDoc(x)[1] = "member"
  /\ \A r, m, d, i : Ros!Generated(r, m, d, i)[1] = "generated"
  /\ Ros!Target[1] = "target" /\ Ros!Calendar[1] = "calendar"
  /\ \A x \in Ros!ShiftDocs : x[1] \in {"own", "generated"}
<1>1. /\ \A x : /\ Ros!RosterDoc(x)[1] = "roster" /\ Ros!LineDoc(x)[1] = "line"
                /\ Ros!BatchDoc(x)[1] = "batch" /\ Ros!Sequence(x)[1] = "sequence"
                /\ Ros!OwnShift(x)[1] = "own" /\ Ros!MemberDoc(x)[1] = "member"
      /\ \A r, m, d, i : Ros!Generated(r, m, d, i)[1] = "generated"
      /\ Ros!Target[1] = "target" /\ Ros!Calendar[1] = "calendar"
  BY DEF Ros!RosterDoc, Ros!LineDoc, Ros!BatchDoc, Ros!Generated, Ros!Sequence,
         Ros!OwnShift, Ros!MemberDoc, Ros!Target, Ros!Calendar
<1> QED BY <1>1 DEF Ros!ShiftDocs, Ros!GeneratedDocs

LEMMA RostersTxn ==
  /\ \A c : Ros!Ready(c) <=> Able(c)
  /\ \A c : Ros!Seen(c) = Sees(c)
  /\ \A c, puts : Ros!Commit(c, puts) <=> Committed(Ros!Docs, c, puts)
  /\ \A c : Ros!Begin(c) <=> Begun(c)
  /\ \A c : Ros!Abort(c) <=> Aborted(c)
  /\ Ros!LateCommit <=> Late
  /\ Ros!Now = "now"
  BY DEF Ros!Ready, Ros!Seen, Ros!Commit, Ros!Begin, Ros!Abort, Ros!LateCommit,
         Ros!InTxn, Ros!NoSnapshot, Ros!Now, Able, Sees, Committed, Begun, Aborted,
         Late, Open

LEMMA RostersPut ==
  ASSUME NEW d, NEW x
  PROVE  DOMAIN Ros!:>(d, x) = {d} /\ Ros!:>(d, x)[d] = x
  BY DEF Ros!:>

LEMMA RostersOver ==
  ASSUME NEW p, NEW q
  PROVE  /\ DOMAIN Ros!@@(p, q) = DOMAIN p \cup DOMAIN q
         /\ \A d \in DOMAIN p : Ros!@@(p, q)[d] = p[d]
         /\ \A d \in DOMAIN q : d \notin DOMAIN p => Ros!@@(p, q)[d] = q[d]
  BY DEF Ros!@@

LEMMA RosterCount == \A S : Ros!Cardinality(S) = Cardinality(S)
  BY DEF Ros!Cardinality, Cardinality

\* The state of a batch is a matter of the states of its lines.
LEMMA RosterSummarySame ==
  ASSUME NEW s, NEW t, NEW b,
         \A l \in Ros!LinesOf(b) : s[Ros!LineDoc(l)].status = t[Ros!LineDoc(l)].status
  PROVE  Ros!Summary(s, b) = Ros!Summary(t, b)
<1>1. \A status : Ros!Having(s, b, status) = Ros!Having(t, b, status)
  BY DEF Ros!Having, Ros!Line
<1>2. Ros!Outcome(s, b) = Ros!Outcome(t, b)
  BY <1>1 DEF Ros!Outcome
<1> QED BY <1>1, <1>2 DEF Ros!Summary

LEMMA SummaryIsOne == \A s, b : Ros!Summary(s, b) # Ros!Nothing
<1>1. \A s, b : Ros!Summary(s, b).status = Ros!Outcome(s, b)
  BY DEF Ros!Summary
<1>2. \A s, b : Ros!Outcome(s, b) # "none"
  BY DEF Ros!Outcome
<1> QED BY <1>1, <1>2 DEF Ros!Nothing

\* Windows are pairs of numbers, and overlap both ways.
LEMMA OverlapBoth ==
  ASSUME NEW x \in DutyType, NEW y \in DutyType
  PROVE  Ros!Overlap(x.win, y.win) <=> Ros!Overlap(y.win, x.win)
<1>1. \A w \in RosterWindows : w[1] \in Nat /\ w[2] \in Nat
  BY RostersAreTimed DEF RosterWindows
<1>2. x.win \in RosterWindows /\ y.win \in RosterWindows
  BY DEF DutyType
<1> QED BY <1>1, <1>2 DEF Ros!Overlap
-----------------------------------------------------------------------------
LEMMA RostersSees ==
  ASSUME RostersInv, NEW c \in Clients \cup {"now"}, Able(c)
  PROVE  Sees(c) = [d \in Ros!Docs |-> Sees(c)[d]]
<1>1. CASE c = "now"
  BY <1>1 DEF RostersInv, Sees, Taken
<1>2. CASE c # "now"
  <2>1. c \in Clients /\ Open(c) /\ Sees(c) = snap[c]
    BY <1>2 DEF Able, Sees
  <2> QED BY <2>1 DEF RostersInv, Taken
<1> QED BY <1>1, <1>2

\* What the writes of a commit make of the shifts.
LEMMA DutiesWritten ==
  ASSUME RostersOK(db), NEW s, NEW puts, RostersSound(s, puts),
         \A d \in Ros!Docs : db'[d] = IF d \in DOMAIN puts THEN puts[d] ELSE db[d],
         \A d \in DOMAIN puts : s[d] = db[d],
         NEW x \in Ros!ShiftDocs
  PROVE  /\ db'[x] \in DutyType \cup {Ros!Nothing}
         /\ db[x] # Ros!Nothing => db'[x] # Ros!Nothing /\ db'[x].win = db[x].win
         /\ x \in DOMAIN puts => db'[x] # Ros!Nothing
         /\ x \notin DOMAIN puts => db'[x] = db[x]
<1>1. x \in Ros!Docs /\ db'[x] = IF x \in DOMAIN puts THEN puts[x] ELSE db[x]
  BY RostersDocs
<1>2. CASE x \in DOMAIN puts
  <2>1. DutyWriteOK(s, puts, x) /\ s[x] = db[x] /\ db'[x] = puts[x]
    BY <1>1, <1>2 DEF RostersSound
  <2>2. /\ db'[x] \in DutyType
        /\ db[x] # Ros!Nothing => db'[x].win = db[x].win
    BY <2>1 DEF DutyWriteOK
  <2>3. db'[x] # Ros!Nothing
    BY <2>2 DEF DutyType, Ros!Nothing
  <2> QED BY <1>2, <2>2, <2>3
<1>3. CASE x \notin DOMAIN puts
  BY <1>1, <1>3 DEF RostersOK
<1> QED BY <1>2, <1>3

\* Of the roster only the exceptions matter to what fits.
LEMMA FitsSame ==
  ASSUME NEW old, NEW new, new.exceptions = old.exceptions, NEW win, NEW m, NEW d, NEW i
  PROVE  /\ Fits(new, win, m, d, i) <=> Fits(old, win, m, d, i)
         /\ Ros!Active(new) = Ros!Active(old)
<1>1. Ros!Active(new) = Ros!Active(old)
  BY DEF Ros!Active
<1>2. \A kinds : Ros!About(new, m, d, kinds) = Ros!About(old, m, d, kinds)
  BY <1>1 DEF Ros!About
<1> QED BY <1>1, <1>2 DEF Fits

\* A commit leaves each roster what its exceptions say.
LEMMA RosterKept ==
  ASSUME RostersOK(db), NEW s, NEW puts, RostersSound(s, puts),
         \A d \in Ros!Docs : db'[d] = IF d \in DOMAIN puts THEN puts[d] ELSE db[d],
         \A d \in DOMAIN puts : s[d] = db[d],
         NEW r \in Rosters
  PROVE  /\ RosterKeeps(db', r)
         /\ db'[Ros!RosterDoc(r)] \in RosterType \cup {Ros!Nothing}
         /\ Calm(db[Ros!RosterDoc(r)], db'[Ros!RosterDoc(r)])
<1> DEFINE old == db[Ros!RosterDoc(r)]
           new == db'[Ros!RosterDoc(r)]
           at(m, d, i) == Ros!Generated(r, m, d, i)
           was(m, d, i) == db[at(m, d, i)]
           now(m, d, i) == db'[at(m, d, i)]
<1>1. /\ \A m \in Members, d \in RosterDays, i \in Ros!Slots :
           was(m, d, i) # Ros!Nothing =>
             /\ old.status \in {"PUBLISHED", "ARCHIVED"}
             /\ Fits(old, was(m, d, i).win, m, d, i)
      /\ old.status = "PUBLISHED" => \A i \in Ros!Active(old) :
           old.exceptions[i].kind # "WORKING_TO_OFF" => db[ShiftOf(r, old, i)] # Ros!Nothing
      /\ old \in RosterType \cup {Ros!Nothing}
  BY DEF RostersOK, RosterKeeps
<1>2. \A m \in Members, d \in RosterDays, i \in Ros!Slots :
        /\ at(m, d, i) \in Ros!ShiftDocs
        /\ was(m, d, i) # Ros!Nothing =>
             now(m, d, i) # Ros!Nothing /\ now(m, d, i).win = was(m, d, i).win
        /\ at(m, d, i) \notin DOMAIN puts => now(m, d, i) = was(m, d, i)
  BY DutiesWritten, RostersDocs
<1>3. \A m \in Members, d \in RosterDays, i \in Ros!Slots : at(m, d, i) \in DOMAIN puts =>
        /\ now(m, d, i) = puts[at(m, d, i)] /\ now(m, d, i) # Ros!Nothing
        /\ was(m, d, i) = Ros!Nothing => Ros!RosterDoc(r) \in DOMAIN puts
  <2> SUFFICES ASSUME NEW m \in Members, NEW d \in RosterDays, NEW i \in Ros!Slots,
                      at(m, d, i) \in DOMAIN puts
               PROVE  /\ now(m, d, i) = puts[at(m, d, i)] /\ now(m, d, i) # Ros!Nothing
                      /\ was(m, d, i) = Ros!Nothing => Ros!RosterDoc(r) \in DOMAIN puts
    OBVIOUS
  <2>1. at(m, d, i) \in Ros!ShiftDocs /\ at(m, d, i) \in Ros!Docs
    BY RostersDocs
  <2>2. now(m, d, i) = puts[at(m, d, i)] /\ now(m, d, i) # Ros!Nothing
    BY <2>1, DutiesWritten
  <2>3. s[at(m, d, i)] = was(m, d, i)
    OBVIOUS
  <2> QED BY <2>2, <2>3 DEF RostersSound
<1>4. \A i \in Ros!Active(old) : old \in RosterType /\
        db[ShiftOf(r, old, i)] # Ros!Nothing => db'[ShiftOf(r, old, i)] # Ros!Nothing
  <2> SUFFICES ASSUME NEW i \in Ros!Active(old), old \in RosterType
               PROVE  db[ShiftOf(r, old, i)] # Ros!Nothing => db'[ShiftOf(r, old, i)] # Ros!Nothing
    OBVIOUS
  <2> DEFINE e == old.exceptions[i]
             slot == IF Ros!Standard(e) THEN 0 ELSE i
  <2>1. /\ old.exceptions \in Seq(ExceptionType) /\ Len(old.exceptions) <= MaxExceptions
        /\ i \in DOMAIN old.exceptions
    BY DEF RosterType, Ros!Active
  <2>2. e \in ExceptionType /\ i \in 1..Len(old.exceptions)
    BY <2>1
  <2>3. slot \in Ros!Slots
    BY <2>1, <2>2, RostersAreTimed DEF Ros!Slots
  <2>4. e.member \in Members /\ e.day \in RosterDays
    BY <2>2 DEF ExceptionType
  <2>5. ShiftOf(r, old, i) = at(e.member, e.day, slot)
    BY DEF ShiftOf
  <2> HIDE DEF e, slot, at
  <2> QED BY <2>3, <2>4, <2>5, <1>2
<1>5. Ros!RosterDoc(r) \in Ros!Docs
  BY RostersDocs
<1>6. CASE Ros!RosterDoc(r) \notin DOMAIN puts
  <2>1. new = old
    BY <1>5, <1>6
  <2>2. \A m \in Members, d \in RosterDays, i \in Ros!Slots :
          now(m, d, i) # Ros!Nothing => was(m, d, i) # Ros!Nothing
    BY <1>2, <1>3, <1>6
  <2> HIDE DEF old, new, was, now, at
  <2>3. \A m \in Members, d \in RosterDays, i \in Ros!Slots :
          now(m, d, i) # Ros!Nothing =>
            /\ new.status \in {"PUBLISHED", "ARCHIVED"}
            /\ Fits(new, now(m, d, i).win, m, d, i)
    BY <1>1, <1>2, <2>1, <2>2
  <2>4. new.status = "PUBLISHED" => new \in RosterType
    BY <1>1, <2>1 DEF Ros!Nothing
  <2>5. new.status = "PUBLISHED" => \A i \in Ros!Active(new) :
          new.exceptions[i].kind # "WORKING_TO_OFF" => db'[ShiftOf(r, new, i)] # Ros!Nothing
    BY <1>1, <1>4, <2>1, <2>4
  <2>6. RosterKeeps(db', r)
    BY <2>3, <2>5 DEF RosterKeeps, new, now, at
  <2>7. Calm(old, new)
    BY <2>1 DEF Calm
  <2> QED BY <1>1, <2>1, <2>6, <2>7 DEF new, old
<1>7. CASE Ros!RosterDoc(r) \in DOMAIN puts
  <2>1. new = puts[Ros!RosterDoc(r)] /\ s[Ros!RosterDoc(r)] = old /\ RosterWriteOK(s, puts, r)
    BY <1>5, <1>7 DEF RostersSound
  <2>2. /\ new \in RosterType /\ Calm(old, new)
        /\ new.status # "PUBLISHED" => \A m \in Members, d \in RosterDays, i \in Ros!Slots :
             at(m, d, i) \notin DOMAIN puts
        /\ \/ old.status = "PUBLISHED" /\ new.status = "ARCHIVED" /\ new.exceptions = old.exceptions
           \/ old.status \in {"none", "DRAFT"} /\ new.status \in {"DRAFT", "ARCHIVED"}
           \/ /\ old.status = "DRAFT" /\ new.status = "PUBLISHED"
              /\ \A m \in Members, d \in RosterDays, i \in Ros!Slots :
                   at(m, d, i) \in DOMAIN puts => Fits(new, puts[at(m, d, i)].win, m, d, i)
              /\ \A i \in Ros!Active(new) : new.exceptions[i].kind # "WORKING_TO_OFF" =>
                   ShiftOf(r, new, i) \in DOMAIN puts
    BY <2>1 DEF RosterWriteOK
  <2> HIDE DEF old, new, was, now, at
  <2>3. CASE old.status = "PUBLISHED" /\ new.status = "ARCHIVED" /\ new.exceptions = old.exceptions
    <3>1. \A m \in Members, d \in RosterDays, i \in Ros!Slots : now(m, d, i) = was(m, d, i)
      BY <1>2, <2>2, <2>3
    <3>2. \A m \in Members, d \in RosterDays, i \in Ros!Slots :
            now(m, d, i) # Ros!Nothing => Fits(new, now(m, d, i).win, m, d, i)
      BY <1>1, <2>3, <3>1, FitsSame
    <3> QED BY <2>2, <2>3, <3>2 DEF RosterKeeps, new, now, at, old
  <2>4. CASE old.status \in {"none", "DRAFT"} /\ new.status \in {"DRAFT", "ARCHIVED"}
    <3>1. \A m \in Members, d \in RosterDays, i \in Ros!Slots : now(m, d, i) = Ros!Nothing
      BY <1>1, <1>2, <2>2, <2>4
    <3> QED BY <2>2, <2>4, <3>1 DEF RosterKeeps, new, now, at, old
  <2>5. CASE /\ old.status = "DRAFT" /\ new.status = "PUBLISHED"
             /\ \A m \in Members, d \in RosterDays, i \in Ros!Slots :
                  at(m, d, i) \in DOMAIN puts => Fits(new, puts[at(m, d, i)].win, m, d, i)
             /\ \A i \in Ros!Active(new) : new.exceptions[i].kind # "WORKING_TO_OFF" =>
                  ShiftOf(r, new, i) \in DOMAIN puts
    <3>1. \A m \in Members, d \in RosterDays, i \in Ros!Slots : was(m, d, i) = Ros!Nothing
      BY <1>1, <2>5
    <3>2. \A m \in Members, d \in RosterDays, i \in Ros!Slots :
            now(m, d, i) # Ros!Nothing => Fits(new, now(m, d, i).win, m, d, i)
      BY <1>2, <1>3, <2>5, <3>1
    <3>3. ASSUME NEW i \in Ros!Active(new), new.exceptions[i].kind # "WORKING_TO_OFF"
          PROVE  db'[ShiftOf(r, new, i)] # Ros!Nothing
      <4> DEFINE e == new.exceptions[i]
                 slot == IF Ros!Standard(e) THEN 0 ELSE i
      <4>1. /\ new.exceptions \in Seq(ExceptionType) /\ Len(new.exceptions) <= MaxExceptions
            /\ i \in DOMAIN new.exceptions
        BY <2>2 DEF RosterType, Ros!Active
      <4>2. e \in ExceptionType /\ i \in 1..Len(new.exceptions)
        BY <4>1
      <4>3. slot \in Ros!Slots
        BY <4>1, <4>2, RostersAreTimed DEF Ros!Slots
      <4>4. e.member \in Members /\ e.day \in RosterDays
        BY <4>2 DEF ExceptionType
      <4>5. ShiftOf(r, new, i) = at(e.member, e.day, slot)
        BY DEF ShiftOf, at
      <4>6. ShiftOf(r, new, i) \in DOMAIN puts
        BY <2>5, <3>3
      <4> HIDE DEF e, slot
      <4>7. now(e.member, e.day, slot) # Ros!Nothing
        BY <4>3, <4>4, <4>5, <4>6, <1>3
      <4> QED BY <4>5, <4>7 DEF now
    <3> QED BY <2>2, <2>5, <3>2, <3>3 DEF RosterKeeps, new, now, at, old
  <2> QED BY <2>2, <2>3, <2>4, <2>5
<1> QED BY <1>6, <1>7
-----------------------------------------------------------------------------
\* Sound writes keep the invariant, and what is said of steps.
LEMMA RostersCommit ==
  ASSUME RostersInv, NEW c \in Clients \cup {"now"}, Able(c),
         NEW puts, Committed(Ros!Docs, c, puts), RostersSound(Sees(c), puts)
  PROVE  RostersInv' /\ RostersFine
<1> DEFINE s == Sees(c)
           written(d) == d \in DOMAIN puts
           here == IF c = "now" THEN {} ELSE missed[c]
<1>1. /\ Taken(Ros!Docs)'
      /\ \A d \in Ros!Docs : db'[d] = IF d \in DOMAIN puts THEN puts[d] ELSE db[d]
      /\ \A d \in DOMAIN puts : s[d] = db[d]
      /\ \A o \in Clients : Open(o)' =>
           /\ Open(o) /\ snap'[o] = snap[o]
           /\ missed'[o] = missed[o] \cup DOMAIN puts
  BY CommitTaken DEF RostersInv, RostersSound
<1>2. \A d \in Ros!Docs : d \notin here => s[d] = db[d]
  BY DEF RostersInv, Taken, Sees, Able
<1>3. \A d \in DOMAIN puts : d \notin here
  BY DEF Committed
<1>4. \A d \in Ros!Docs : RostersAfter(s, puts)[d] = IF d \in DOMAIN puts THEN puts[d] ELSE s[d]
  BY DEF RostersAfter
<1>5. RostersOK(db) /\ RostersSound(s, puts)
  BY DEF RostersInv
<1>6. ~Late => s = db
  BY SeesAll, CommitEnds DEF RostersInv
<1>7. here # {} => c \in Clients /\ Open(c) /\ s = snap[c] /\ RostersAged(c)
  BY DEF RostersInv, Able, Sees
<1>8. here = {} => s = db
  <2> SUFFICES ASSUME here = {} PROVE s = db
    OBVIOUS
  <2>1. \A d \in Ros!Docs : s[d] = db[d]
    BY <1>2
  <2>2. db = [d \in Ros!Docs |-> db[d]] /\ s = [d \in Ros!Docs |-> s[d]]
    BY RostersSees DEF RostersInv, Taken
  <2> HIDE DEF s
  <2> QED BY <2>1, <2>2
<1> HIDE DEF s, here
<1>9. \A x \in Ros!ShiftDocs :
        /\ db'[x] \in DutyType \cup {Ros!Nothing}
        /\ db[x] # Ros!Nothing => db'[x] # Ros!Nothing /\ db'[x].win = db[x].win
        /\ written(x) => db'[x] # Ros!Nothing
        /\ ~written(x) => db'[x] = db[x]
  BY <1>1, <1>5, DutiesWritten
<1>10. \A r \in Rosters :
         /\ RosterKeeps(db', r)
         /\ db'[Ros!RosterDoc(r)] \in RosterType \cup {Ros!Nothing}
         /\ Calm(db[Ros!RosterDoc(r)], db'[Ros!RosterDoc(r)])
  BY <1>1, <1>5, RosterKept
<1>11. \A l \in RosterLines :
         /\ db'[Ros!LineDoc(l)] =
              IF written(Ros!LineDoc(l)) THEN puts[Ros!LineDoc(l)] ELSE db[Ros!LineDoc(l)]
         /\ written(Ros!LineDoc(l)) =>
              RosterLineWriteOK(s, puts, l) /\ s[Ros!LineDoc(l)] = db[Ros!LineDoc(l)]
  BY <1>1, <1>5, RostersDocs DEF RostersSound
<1>12. \A q \in Rosters :
         /\ db'[Ros!RosterDoc(q)] =
              IF written(Ros!RosterDoc(q)) THEN puts[Ros!RosterDoc(q)] ELSE db[Ros!RosterDoc(q)]
         /\ written(Ros!RosterDoc(q)) =>
              RosterWriteOK(s, puts, q) /\ s[Ros!RosterDoc(q)] = db[Ros!RosterDoc(q)]
  BY <1>1, <1>5, RostersDocs DEF RostersSound
<1>13. ASSUME NEW l \in RosterLines
       PROVE  /\ db'[Ros!LineDoc(l)] # Ros!Nothing => RosterLineOK(db'[Ros!LineDoc(l)])
              /\ LineStands(db', l)
  <2> DEFINE line == db'[Ros!LineDoc(l)]
             old == db[Ros!LineDoc(l)]
             was(q) == Places(db[Ros!RosterDoc(q)], l)
             now(q) == Places(db'[Ros!RosterDoc(q)], l)
  <2>1. /\ old # Ros!Nothing => RosterLineOK(old)
        /\ IF old.status = "APPROVED"
           THEN \E r \in Rosters, i \in 1..MaxExceptions :
                  \A q \in Rosters : was(q) = IF q = r THEN {i} ELSE {}
           ELSE \A q \in Rosters : was(q) = {}
    BY <1>5 DEF RostersOK, LineStands
  <2>2. CASE ~written(Ros!LineDoc(l))
    <3>1. line = old
      BY <2>2, <1>11
    <3>2. \A q \in Rosters : now(q) = was(q)
      BY <2>2, <1>12 DEF RosterWriteOK
    <3> HIDE DEF line, old, was, now
    <3>3. IF line.status = "APPROVED"
          THEN \E r \in Rosters, i \in 1..MaxExceptions :
                 \A q \in Rosters : now(q) = IF q = r THEN {i} ELSE {}
          ELSE \A q \in Rosters : now(q) = {}
      BY <3>1, <3>2, <2>1
    <3>4. LineStands(db', l)
      BY <3>3 DEF LineStands, line, now
    <3> QED BY <2>1, <3>1, <3>4 DEF line
  <2>3. CASE written(Ros!LineDoc(l))
    <3>1. /\ RosterLineWriteOK(s, puts, l) /\ line = puts[Ros!LineDoc(l)]
          /\ s[Ros!LineDoc(l)] = old
      BY <2>3, <1>11
    <3>2. /\ old.status # "APPROVED" /\ RosterLineOK(line)
          /\ IF line.status = "APPROVED"
             THEN \E r \in Rosters :
                    /\ written(Ros!RosterDoc(r))
                    /\ \A q \in Rosters : written(Ros!RosterDoc(q)) => q = r
                    /\ Places(s[Ros!RosterDoc(r)], l) = {} =>
                         \E i \in 1..MaxExceptions : Places(puts[Ros!RosterDoc(r)], l) = {i}
             ELSE \A q \in Rosters : ~written(Ros!RosterDoc(q))
      BY <3>1 DEF RosterLineWriteOK
    <3>3. \A q \in Rosters : was(q) = {}
      BY <2>1, <3>2
    <3>4. \A q \in Rosters :
            /\ ~written(Ros!RosterDoc(q)) => now(q) = was(q)
            /\ written(Ros!RosterDoc(q)) => /\ now(q) = Places(puts[Ros!RosterDoc(q)], l)
                                            /\ was(q) = Places(s[Ros!RosterDoc(q)], l)
      BY <1>12
    <3> HIDE DEF line, old, was, now, written
    <3>5. CASE line.status = "APPROVED"
      <4>1. PICK r \in Rosters :
                    /\ written(Ros!RosterDoc(r))
                    /\ \A q \in Rosters : written(Ros!RosterDoc(q)) => q = r
                    /\ Places(s[Ros!RosterDoc(r)], l) = {} =>
                         \E i \in 1..MaxExceptions : Places(puts[Ros!RosterDoc(r)], l) = {i}
        BY <3>2, <3>5
      <4>2. PICK i \in 1..MaxExceptions : now(r) = {i}
        BY <4>1, <3>3, <3>4
      <4>3. \A q \in Rosters : now(q) = IF q = r THEN {i} ELSE {}
        BY <4>1, <4>2, <3>3, <3>4
      <4>4. LineStands(db', l)
        BY <4>3, <3>5 DEF LineStands, line, now
      <4> QED BY <3>2, <4>4 DEF line
    <3>6. CASE line.status # "APPROVED"
      <4>1. \A q \in Rosters : now(q) = {}
        BY <3>2, <3>3, <3>4, <3>6
      <4>2. LineStands(db', l)
        BY <4>1, <3>6 DEF LineStands, line, now
      <4> QED BY <3>2, <4>2 DEF line
    <3> QED BY <3>5, <3>6
  <2> QED BY <2>2, <2>3
<1>14. \A l \in RosterLines : written(Ros!LineDoc(l)) => written(Ros!BatchDoc(RosterBatch[l]))
  BY <1>11 DEF RosterLineWriteOK
<1>15. ASSUME NEW b \in Ros!Batches, db'[Ros!BatchDoc(b)] # Ros!Nothing
       PROVE  db'[Ros!BatchDoc(b)] = Ros!Summary(db', b)
  <2>1. \A l \in Ros!LinesOf(b) : l \in RosterLines /\ RosterBatch[l] = b
    BY DEF Ros!LinesOf
  <2>2. CASE written(Ros!BatchDoc(b))
    <3>1. db'[Ros!BatchDoc(b)] = Ros!Summary(RostersAfter(s, puts), b)
      BY <2>2, <1>1, <1>5, RostersDocs DEF RostersSound
    <3>2. \A l \in RosterLines : Ros!LineDoc(l) \in here =>
            Ros!BatchDoc(RosterBatch[l]) \in here
      BY <1>7 DEF RostersAged, here
    <3>3. \A l \in Ros!LinesOf(b) : s[Ros!LineDoc(l)] = db[Ros!LineDoc(l)]
      BY <2>1, <2>2, <3>2, <1>2, <1>3, RostersDocs
    <3>4. \A l \in Ros!LinesOf(b) :
            RostersAfter(s, puts)[Ros!LineDoc(l)] = db'[Ros!LineDoc(l)]
      BY <2>1, <3>3, <1>1, <1>4, RostersDocs
    <3> QED BY <3>1, <3>4, RosterSummarySame
  <2>3. CASE ~written(Ros!BatchDoc(b))
    <3>1. db'[Ros!BatchDoc(b)] = db[Ros!BatchDoc(b)]
      BY <2>3, <1>1, RostersDocs
    <3>2. \A l \in Ros!LinesOf(b) : db'[Ros!LineDoc(l)] = db[Ros!LineDoc(l)]
      BY <2>1, <2>3, <1>11, <1>14
    <3>3. Ros!Summary(db', b) = Ros!Summary(db, b)
      BY <3>2, RosterSummarySame
    <3> QED BY <3>1, <3>3, <1>15, <1>5 DEF RostersOK
  <2> QED BY <2>2, <2>3
<1>24. ASSUME NEW l \in RosterLines, db'[Ros!LineDoc(l)] # Ros!Nothing
       PROVE  db'[Ros!BatchDoc(RosterBatch[l])] # Ros!Nothing
  <2> DEFINE b == RosterBatch[l]
  <2>1. b \in Ros!Batches
    BY RostersDocs
  <2>2. CASE written(Ros!BatchDoc(b))
    <3>1. db'[Ros!BatchDoc(b)] = Ros!Summary(RostersAfter(s, puts), b)
      BY <2>1, <2>2, <1>1, <1>5, RostersDocs DEF RostersSound
    <3> QED BY <3>1, SummaryIsOne
  <2>3. CASE ~written(Ros!BatchDoc(b))
    <3>1. db'[Ros!BatchDoc(b)] = db[Ros!BatchDoc(b)]
      BY <2>1, <2>3, <1>1, RostersDocs
    <3>2. db'[Ros!LineDoc(l)] = db[Ros!LineDoc(l)]
      BY <2>3, <1>11, <1>14
    <3> QED BY <3>1, <3>2, <1>24, <1>5 DEF RostersOK
  <2> QED BY <2>2, <2>3
<1>16. RostersOK(db')
  <2> HIDE DEF written
  <2> QED BY <1>9, <1>10, <1>13, <1>15, <1>24 DEF RostersOK
<1>17. \A x \in Ros!ShiftDocs : written(x) =>
         /\ db'[x] = puts[x] /\ DutyWriteOK(s, puts, x)
         /\ \A bucket : Counted(db', x, bucket) => written(Ros!Sequence(bucket))
  <2> SUFFICES ASSUME NEW x \in Ros!ShiftDocs, written(x)
               PROVE  /\ db'[x] = puts[x] /\ DutyWriteOK(s, puts, x)
                      /\ \A bucket : Counted(db', x, bucket) => written(Ros!Sequence(bucket))
    OBVIOUS
  <2>1. db'[x] = puts[x] /\ DutyWriteOK(s, puts, x)
    BY <1>1, <1>5, RostersDocs DEF RostersSound
  <2> QED BY <2>1 DEF DutyWriteOK, Counted
<1>18. \A x \in Ros!ShiftDocs : ~written(x) =>
         /\ db'[x] = db[x]
         /\ \A bucket : Counted(db', x, bucket) <=> Counted(db, x, bucket)
  BY <1>9 DEF Counted
<1>19. ASSUME NEW o \in Clients, Open(o)' PROVE RostersAged(o)'
  <2>1. /\ Open(o) /\ snap'[o] = snap[o]
        /\ missed'[o] = missed[o] \cup DOMAIN puts
    BY <1>1, <1>19
  <2>2. RostersAged(o)
    BY <2>1 DEF RostersInv
  <2>3. \A l \in RosterLines : Ros!LineDoc(l) \in missed'[o] =>
          Ros!BatchDoc(RosterBatch[l]) \in missed'[o]
    BY <2>1, <2>2, <1>14 DEF RostersAged
  <2>4. ASSUME NEW bucket \in Ros!Buckets, Ros!Sequence(bucket) \notin missed'[o],
               NEW x \in Ros!ShiftDocs, Counted(db', x, bucket)
        PROVE  snap'[o][x] = db'[x]
    <3>1. Ros!Sequence(bucket) \notin missed[o] /\ ~written(x)
      BY <2>1, <2>4, <1>17
    <3>2. Counted(db, x, bucket) /\ db'[x] = db[x]
      BY <3>1, <2>4, <1>18
    <3> QED BY <3>1, <3>2, <2>1, <2>2 DEF RostersAged
  <2> QED BY <2>3, <2>4 DEF RostersAged, Counted
<1>20. RostersInv'
  <2>1. \A o \in Clients : Open(o)' => RostersAged(o)'
    BY <1>19
  <2>2. RostersOK(db)'
    BY <1>16 DEF RostersOK, RosterKeeps, LineStands
  <2>3. \A o \in Clients : ~Open(o)' => missed'[o] = {}
    BY DEF Committed, Open
  <2> QED BY <1>1, <2>1, <2>2, <2>3 DEF RostersInv
<1>21. Ros!ContradictsByMishitStep
  BY <1>10 DEF Calm, Ros!ContradictsByMishitStep, Ros!Roster
<1>22. ASSUME NEW x \in Ros!ShiftDocs, NEW y \in Ros!ShiftDocs, written(x), x # y,
              db'[x].status = "ACTIVE", db'[y].status = "ACTIVE",
              db'[x].member = db'[y].member, db'[x].day = db'[y].day,
              Ros!Overlap(db'[y].win, db'[x].win)
       PROVE  /\ Late
              /\ \/ "own" \in {db'[x].code, db'[y].code}
                 \/ Ros!Bucket(db'[x].day, db'[x].win) # Ros!Bucket(db'[y].day, db'[y].win)
  <2>1. /\ db'[x] = puts[x] /\ DutyWriteOK(s, puts, x)
        /\ \A bucket : Counted(db', x, bucket) => written(Ros!Sequence(bucket))
    BY <1>17, <1>22
  <2>2. LET other == RostersAfter(s, puts)[y] IN
        other.status = "ACTIVE" /\ other.member = db'[x].member /\ other.day = db'[x].day =>
          ~Ros!Overlap(other.win, db'[x].win)
    BY <2>1, <1>22 DEF DutyWriteOK
  <2>3. RostersAfter(s, puts)[y] # db'[y]
    BY <2>2, <1>22
  <2>4. ~written(y)
    BY <2>3, <1>1, <1>4, RostersDocs
  <2>5. db'[y] = db[y] /\ s[y] # db[y]
    BY <2>3, <2>4, <1>4, <1>9, RostersDocs
  <2>6. Late /\ here # {}
    BY <2>5, <1>6, <1>8
  <2>7. ASSUME "own" \notin {db'[x].code, db'[y].code},
               Ros!Bucket(db'[x].day, db'[x].win) = Ros!Bucket(db'[y].day, db'[y].win)
        PROVE  FALSE
    <3> DEFINE bucket == Ros!Bucket(db'[x].day, db'[x].win)
    <3>1. db'[x] \in DutyType /\ db'[y] \in DutyType
      BY <1>9, <1>22 DEF Ros!Nothing
    <3>2. Counted(db', x, bucket) /\ Counted(db, y, bucket)
      BY <2>5, <2>7, <3>1, <1>22 DEF Counted, DutyType
    <3>3. written(Ros!Sequence(bucket))
      BY <2>1, <3>2
    <3>4. bucket \in Ros!Buckets
      BY <3>1 DEF DutyType, RosterWindows, Ros!Buckets
    <3>5. Ros!Sequence(bucket) \notin missed[c]
      BY <3>3, <1>3, <2>6 DEF here
    <3> HIDE DEF bucket
    <3>6. s[y] = db[y]
      BY <3>2, <3>4, <3>5, <2>6, <1>7 DEF RostersAged
    <3> QED BY <3>6, <2>5
  <2> QED BY <2>6, <2>7
<1>23. Ros!DoubleDutyLateStep
  <2> SUFFICES ASSUME NEW x \in Ros!ShiftDocs, NEW y \in Ros!ShiftDocs,
                      Ros!Clash(db', x, y), ~Ros!Clash(db, x, y)
               PROVE  /\ Late
                      /\ \/ "own" \in {db'[x].code, db'[y].code}
                         \/ Ros!Bucket(db'[x].day, db'[x].win) # Ros!Bucket(db'[y].day, db'[y].win)
    BY RostersTxn DEF Ros!DoubleDutyLateStep, Ros!Clash, Ros!OnDuty
  <2>1. /\ x # y /\ db'[x].status = "ACTIVE" /\ db'[y].status = "ACTIVE"
        /\ db'[x].member = db'[y].member /\ db'[x].day = db'[y].day
        /\ Ros!Overlap(db'[x].win, db'[y].win)
    BY DEF Ros!Clash, Ros!OnDuty
  <2>2. Ros!Overlap(db'[y].win, db'[x].win)
    BY <2>1, <1>9, OverlapBoth DEF Ros!Nothing
  <2>3. written(x) \/ written(y)
    BY <1>9 DEF Ros!Clash, Ros!OnDuty
  <2>4. CASE written(x)
    BY <2>1, <2>2, <2>4, <1>22
  <2>5. CASE written(y)
    BY <2>1, <2>2, <2>5, <1>22
  <2> QED BY <2>3, <2>4, <2>5
<1> QED BY <1>20, <1>21, <1>23 DEF RostersFine
-----------------------------------------------------------------------------
(* Edits of one roster.                                                    *)

LEMMA RosterRight ==
  ASSUME NEW c \in Clients \cup {"now"}, Ros!Ready(c), NEW puts, Ros!Commit(c, puts)
  PROVE  Able(c) /\ Ros!Seen(c) = Sees(c) /\ Committed(Ros!Docs, c, puts)
  BY RostersTxn

\* What a transaction writes it knows as it is.
LEMMA WrittenKnown ==
  ASSUME RostersInv, NEW c \in Clients \cup {"now"}, Able(c),
         NEW puts, Committed(Ros!Docs, c, puts), NEW d \in DOMAIN puts, d \in Ros!Docs
  PROVE  Sees(c)[d] = db[d]
  BY DEF RostersInv, Taken, Sees, Able, Committed

LEMMA SameExceptions ==
  ASSUME NEW old \in RosterType, NEW new \in RosterType, new.exceptions = old.exceptions
  PROVE  /\ Calm(old, new)
         /\ \A l \in RosterLines : Places(new, l) = Places(old, l)
<1>1. Ros!Active(new) = Ros!Active(old)
  BY DEF Ros!Active
<1>2. Ros!Contradictory(new) <=> Ros!Contradictory(old)
  BY <1>1 DEF Ros!Contradictory, Ros!Contradicts
<1>3. old # Ros!Nothing /\ new # Ros!Nothing
  BY DEF RosterType, Ros!Nothing
<1> QED BY <1>2, <1>3 DEF Calm, Places

\* An edit, or the end, of a roster.
RosterEditOK(old, new) ==
  /\ new \in RosterType
  /\ Calm(old, new)
  /\ \A l \in RosterLines : Places(new, l) = Places(old, l)
  /\ \/ old.status = "PUBLISHED" /\ new.status = "ARCHIVED" /\ new.exceptions = old.exceptions
     \/ old.status \in {"none", "DRAFT"} /\ new.status \in {"DRAFT", "ARCHIVED"}

LEMMA RosterEdit ==
  ASSUME RostersInv, NEW c \in Clients \cup {"now"}, Able(c), NEW puts,
         Committed(Ros!Docs, c, puts), NEW r \in Rosters,
         Ros!RosterDoc(r) \in DOMAIN puts,
         DOMAIN puts \subseteq {Ros!RosterDoc(r), Ros!Target},
         RosterEditOK(Sees(c)[Ros!RosterDoc(r)], puts[Ros!RosterDoc(r)])
  PROVE  RostersInv' /\ RostersFine
<1> DEFINE docs == DOMAIN puts
           doc == Ros!RosterDoc(r)
<1>1. docs \subseteq Ros!Docs
  BY RostersDocs
<1>2. /\ \A x \in Ros!ShiftDocs : x \notin docs
      /\ \A q : Ros!RosterDoc(q) \in docs => q = r
      /\ \A x : Ros!LineDoc(x) \notin docs /\ Ros!BatchDoc(x) \notin docs
      /\ \A q, m, d, i : Ros!Generated(q, m, d, i) \notin docs
  <2>1. \A x \in Ros!ShiftDocs : x[1] # "roster" /\ x[1] # "target"
    BY RosterTags
  <2>2. \A x \in docs : x[1] = "roster" \/ x[1] = "target"
    BY RosterTags
  <2>3. \A q : Ros!RosterDoc(q) \in docs => q = r
    <3>1. \A q : Ros!RosterDoc(q) # Ros!Target
      BY RosterTags
    <3> QED BY <3>1, RosterNames
  <2> QED BY <2>1, <2>2, <2>3, RosterTags
<1>3. RosterEditOK(Sees(c)[doc], puts[doc])
  OBVIOUS
<1> HIDE DEF docs
<1>4. RosterWriteOK(Sees(c), puts, r)
  BY <1>2, <1>3 DEF RosterWriteOK, RosterEditOK, docs
<1>5. RostersSound(Sees(c), puts)
  BY <1>1, <1>2, <1>4 DEF RostersSound, docs
<1> QED BY <1>5, RostersCommit

\* Steps that are about the calendar and the members.
LEMMA AsideKeeps ==
  ASSUME RostersInv, NEW c \in Clients \cup {"now"}, Able(c), NEW puts,
         Committed(Ros!Docs, c, puts),
         DOMAIN puts \subseteq {Ros!Calendar} \cup {Ros!MemberDoc(m) : m \in Members}
  PROVE  RostersInv' /\ RostersFine
<1> DEFINE docs == DOMAIN puts
<1>1. docs \subseteq Ros!Docs
  BY RostersDocs
<1>2. \A x \in docs : x[1] = "calendar" \/ x[1] = "member"
  BY RosterTags
<1>3. /\ \A x \in Ros!ShiftDocs : x \notin docs
      /\ \A x : Ros!LineDoc(x) \notin docs /\ Ros!BatchDoc(x) \notin docs
                /\ Ros!RosterDoc(x) \notin docs
      /\ \A q, m, d, i : Ros!Generated(q, m, d, i) \notin docs
  <2> HIDE DEF docs
  <2> QED BY <1>2, RosterTags
<1> HIDE DEF docs
<1>4. RostersSound(Sees(c), puts)
  BY <1>1, <1>3 DEF RostersSound, docs
<1> QED BY <1>4, RostersCommit

LEMMA CreateRosterKeeps ==
  ASSUME RostersInv, NEW c \in Clients \cup {"now"}, NEW r \in Rosters,
         NEW p \in Ros!Patterns, Ros!CreateRoster(c, r, p)
  PROVE  RostersInv' /\ RostersFine
<1> DEFINE doc == Ros!RosterDoc(r)
           new == [status |-> "DRAFT", pattern |-> p, exceptions |-> <<>>]
           one == Ros!:>(doc, new)
           two == Ros!:>(Ros!Target, r)
           puts == Ros!@@(one, two)
<1>1. Ros!Ready(c) /\ Ros!Commit(c, puts) /\ db[doc] = Ros!Nothing
  BY DEF Ros!CreateRoster
<1>2. /\ DOMAIN one = {doc} /\ one[doc] = new
      /\ DOMAIN two = {Ros!Target}
  BY RostersPut
<1> HIDE DEF one, two
<1>3. /\ DOMAIN puts = DOMAIN one \cup DOMAIN two
      /\ \A d \in DOMAIN one : puts[d] = one[d]
  BY RostersOver
<1> HIDE DEF puts
<1>4. Able(c) /\ Committed(Ros!Docs, c, puts)
  BY <1>1, RosterRight
<1>5. Sees(c)[doc] = Ros!Nothing
  BY <1>1, <1>2, <1>3, <1>4, WrittenKnown, RostersDocs
<1>6. new \in RosterType
  BY RostersAreTimed, EmptySeq DEF RosterType
<1>7. RosterEditOK(Ros!Nothing, new)
  <2>1. \A l \in RosterLines : Places(new, l) = {} /\ Places(Ros!Nothing, l) = {}
    BY DEF Places
  <2>2. Ros!Nothing.status = "none"
    BY DEF Ros!Nothing
  <2> QED BY <1>6, <2>1, <2>2 DEF RosterEditOK, Calm
<1> HIDE DEF new, doc
<1>8. RosterEditOK(Sees(c)[doc], puts[doc]) /\ doc \in DOMAIN puts
      /\ DOMAIN puts \subseteq {doc, Ros!Target}
  BY <1>2, <1>3, <1>5, <1>7
<1> QED BY <1>4, <1>8, RosterEdit DEF doc

\* A roster that has a status is one.
LEMMA RosterKnown ==
  ASSUME RostersInv, NEW c \in Clients \cup {"now"}, Able(c), NEW puts,
         Committed(Ros!Docs, c, puts), NEW r \in Rosters, Ros!RosterDoc(r) \in DOMAIN puts
  PROVE  /\ Sees(c)[Ros!RosterDoc(r)] = db[Ros!RosterDoc(r)]
         /\ Sees(c)[Ros!RosterDoc(r)].status # "none" =>
              Sees(c)[Ros!RosterDoc(r)] \in RosterType
<1>1. Sees(c)[Ros!RosterDoc(r)] = db[Ros!RosterDoc(r)]
  BY WrittenKnown, RostersDocs
<1>2. db[Ros!RosterDoc(r)] \in RosterType \cup {Ros!Nothing}
  BY DEF RostersInv, RostersOK
<1> QED BY <1>1, <1>2 DEF Ros!Nothing

LEMMA UpdateDraftKeeps ==
  ASSUME RostersInv, NEW c \in Clients \cup {"now"}, NEW r \in Rosters,
         NEW p \in Ros!Patterns, Ros!UpdateDraft(c, r, p)
  PROVE  RostersInv' /\ RostersFine
<1> DEFINE doc == Ros!RosterDoc(r)
           old == Sees(c)[doc]
           new == [old EXCEPT !.pattern = p]
           puts == Ros!:>(doc, new)
<1>1. Ros!Ready(c) /\ Ros!Commit(c, puts) /\ old.status = "DRAFT"
  BY RostersTxn DEF Ros!UpdateDraft, Ros!Draft, Ros!Roster
<1>2. DOMAIN puts = {doc} /\ puts[doc] = new
  BY RostersPut
<1> HIDE DEF puts
<1>3. Able(c) /\ Committed(Ros!Docs, c, puts)
  BY <1>1, RosterRight
<1>4. old \in RosterType
  BY <1>1, <1>2, <1>3, RosterKnown
<1> HIDE DEF old
<1>5. new \in RosterType /\ new.exceptions = old.exceptions /\ new.status = old.status
  BY <1>4 DEF RosterType
<1> HIDE DEF new
<1>6. RosterEditOK(old, new)
  BY <1>1, <1>4, <1>5, SameExceptions DEF RosterEditOK
<1> HIDE DEF doc
<1> QED BY <1>2, <1>3, <1>6, RosterEdit DEF doc, old

LEMMA ArchiveRosterKeeps ==
  ASSUME RostersInv, NEW c \in Clients \cup {"now"}, NEW r \in Rosters,
         Ros!ArchiveRoster(c, r)
  PROVE  RostersInv' /\ RostersFine
<1> DEFINE doc == Ros!RosterDoc(r)
           old == Sees(c)[doc]
           new == [old EXCEPT !.status = "ARCHIVED"]
           one == Ros!:>(doc, new)
           two == Ros!:>(Ros!Target, "free")
           puts == Ros!@@(one, two)
<1>1. Ros!Ready(c) /\ Ros!Commit(c, puts) /\ old.status \in {"DRAFT", "PUBLISHED"}
  BY RostersTxn DEF Ros!ArchiveRoster, Ros!Roster
<1>2. /\ DOMAIN one = {doc} /\ one[doc] = new
      /\ DOMAIN two = {Ros!Target}
  BY RostersPut
<1> HIDE DEF one, two
<1>3. /\ DOMAIN puts = DOMAIN one \cup DOMAIN two
      /\ \A d \in DOMAIN one : puts[d] = one[d]
  BY RostersOver
<1> HIDE DEF puts
<1>4. Able(c) /\ Committed(Ros!Docs, c, puts)
  BY <1>1, RosterRight
<1>5. old \in RosterType
  BY <1>1, <1>2, <1>3, <1>4, RosterKnown
<1> HIDE DEF old
<1>6. new \in RosterType /\ new.exceptions = old.exceptions /\ new.status = "ARCHIVED"
  BY <1>5 DEF RosterType
<1> HIDE DEF new
<1>7. RosterEditOK(old, new)
  BY <1>1, <1>5, <1>6, SameExceptions DEF RosterEditOK
<1> HIDE DEF doc
<1> QED BY <1>2, <1>3, <1>4, <1>7, RosterEdit DEF doc, old

LEMMA CalendarKeeps ==
  ASSUME RostersInv, NEW c \in Clients \cup {"now"}, NEW holidays,
         Ros!ChangeCalendar(c, holidays)
  PROVE  RostersInv' /\ RostersFine
<1> DEFINE puts == Ros!:>(Ros!Calendar, holidays)
<1>1. Ros!Ready(c) /\ Ros!Commit(c, puts)
  BY DEF Ros!ChangeCalendar
<1>2. DOMAIN puts = {Ros!Calendar}
  BY RostersPut
<1> HIDE DEF puts
<1> QED BY <1>1, <1>2, RosterRight, AsideKeeps

LEMMA MemberKeeps ==
  ASSUME RostersInv, NEW c \in Clients \cup {"now"}, NEW m \in Members,
         Ros!ChangeMember(c, m)
  PROVE  RostersInv' /\ RostersFine
<1> DEFINE puts == Ros!:>(Ros!MemberDoc(m), ~Ros!Seen(c)[Ros!MemberDoc(m)])
<1>1. Ros!Ready(c) /\ Ros!Commit(c, puts)
  BY DEF Ros!ChangeMember
<1>2. DOMAIN puts = {Ros!MemberDoc(m)}
  BY RostersPut
<1> HIDE DEF puts
<1> QED BY <1>1, <1>2, RosterRight, AsideKeeps
-----------------------------------------------------------------------------
(* Exceptions.                                                             *)

\* The exception x made for the line l.
MadeOf(x, l) == Ros!@@(x, [active |-> TRUE, line |-> l])

LEMMA MadeOfType ==
  ASSUME NEW x \in Ros!Intents, NEW l \in RosterLines \cup {"none"}
  PROVE  /\ MadeOf(x, l) \in ExceptionType
         /\ MadeOf(x, l).line = l /\ MadeOf(x, l).member = x.member
         /\ MadeOf(x, l).day = x.day /\ MadeOf(x, l).kind = x.kind
<1> DEFINE e == MadeOf(x, l)
           more == [active |-> TRUE, line |-> l]
<1>1. /\ x.member \in Members /\ x.day \in RosterDays /\ x.kind \in Kinds
      /\ DOMAIN x = {"member", "day", "kind"}
  BY DEF Ros!Intents, Kinds
<1>2. DOMAIN more = {"active", "line"} /\ more.active = TRUE /\ more.line = l
  OBVIOUS
<1>3. e = Ros!@@(x, more)
  BY DEF MadeOf
<1> HIDE DEF more, e
<1>4. /\ e = [d \in {"member", "day", "kind", "active", "line"} |-> e[d]]
      /\ e.member = x.member /\ e.day = x.day /\ e.kind = x.kind
      /\ e.active = TRUE /\ e.line = l
  BY <1>1, <1>2, <1>3 DEF Ros!@@
<1>5. e \in ExceptionType
  BY <1>1, <1>4 DEF ExceptionType
<1> QED BY <1>4, <1>5 DEF e

LEMMA AddedKeeps ==
  ASSUME NEW old \in RosterType, NEW x \in Ros!Intents, NEW l \in RosterLines \cup {"none"},
         Ros!Room(old), ~Ros!Contradicts(old, 0, x),
         NEW new, new = Ros!Added(old, x, l)
  PROVE  /\ new \in RosterType /\ new.status = old.status
         /\ Calm(old, new)
         /\ Len(old.exceptions) + 1 \in 1..MaxExceptions
         /\ \A k \in RosterLines : Places(new, k) =
              Places(old, k) \cup IF k = l THEN {Len(old.exceptions) + 1} ELSE {}
<1> DEFINE xs == old.exceptions
           e == MadeOf(x, l)
           ys == Append(xs, e)
           n == Len(xs) + 1
<1>1. new = [old EXCEPT !.exceptions = ys]
  BY DEF Ros!Added, MadeOf
<1>2. xs \in Seq(ExceptionType) /\ Len(xs) < MaxExceptions
  BY DEF RosterType, Ros!Room
<1>3. /\ e \in ExceptionType /\ e.line = l
      /\ e.member = x.member /\ e.day = x.day /\ e.kind = x.kind
  BY MadeOfType
<1> HIDE DEF xs, e
<1>4. /\ ys \in Seq(ExceptionType) /\ Len(ys) = n
      /\ \A i \in DOMAIN xs : ys[i] = xs[i]
      /\ ys[n] = e
      /\ DOMAIN xs = 1..Len(xs) /\ DOMAIN ys = 1..n
      /\ Len(xs) \in Nat
  BY <1>2, <1>3, AppendProperties
<1> HIDE DEF ys
<1>5. /\ new.exceptions = ys /\ new.status = old.status
      /\ Len(ys) <= MaxExceptions => new \in RosterType
  BY <1>1, <1>4 DEF RosterType
<1>6. n \in 1..MaxExceptions /\ Len(ys) <= MaxExceptions
  BY <1>2, <1>4, RostersAreTimed
<1>7. DOMAIN ys = DOMAIN xs \cup {n} /\ n \notin DOMAIN xs /\ 0 \notin DOMAIN ys /\ n # 0
  BY <1>4
<1> HIDE DEF n
<1>8. Ros!Active(new) \subseteq Ros!Active(old) \cup {n}
  BY <1>4, <1>5, <1>7 DEF Ros!Active, xs
<1>9. Ros!Active(old) \subseteq DOMAIN xs
  BY DEF Ros!Active, xs
<1>10. Ros!Contradictory(new) => Ros!Contradictory(old)
  <2> SUFFICES ASSUME NEW i \in Ros!Active(new), NEW j \in Ros!Active(new), i # j,
                      Ros!Standard(ys[i]), Ros!Standard(ys[j]),
                      ys[j].member = ys[i].member, ys[j].day = ys[i].day
               PROVE  Ros!Contradictory(old)
    BY <1>5 DEF Ros!Contradictory, Ros!Contradicts
  <2>1. CASE i \in Ros!Active(old) /\ j \in Ros!Active(old)
    <3>1. ys[i] = xs[i] /\ ys[j] = xs[j]
      BY <2>1, <1>4, <1>9
    <3> QED BY <2>1, <3>1 DEF Ros!Contradictory, Ros!Contradicts, xs
  <2>2. ASSUME NEW o \in Ros!Active(old), Ros!Standard(xs[o]), Ros!Standard(e),
               xs[o].member = e.member, xs[o].day = e.day
        PROVE  FALSE
    <3>1. o # 0
      BY <1>7, <1>9
    <3>2. Ros!Standard(x)
      BY <2>2, <1>3 DEF Ros!Standard
    <3> QED BY <2>2, <3>1, <3>2, <1>3 DEF Ros!Contradicts, xs
  <2>3. CASE i = n
    <3>1. j \in Ros!Active(old) /\ ys[j] = xs[j] /\ ys[i] = e
      BY <2>3, <1>4, <1>8, <1>9
    <3> QED BY <2>2, <3>1
  <2>4. CASE j = n
    <3>1. i \in Ros!Active(old) /\ ys[i] = xs[i] /\ ys[j] = e
      BY <2>4, <1>4, <1>8, <1>9
    <3> QED BY <2>2, <3>1
  <2> QED BY <2>1, <2>3, <2>4, <1>8
<1>11. old # Ros!Nothing /\ new # Ros!Nothing
  BY <1>5, <1>6 DEF RosterType, Ros!Nothing
<1>12. ASSUME NEW k \in RosterLines
       PROVE  Places(new, k) = Places(old, k) \cup IF k = l THEN {n} ELSE {}
  <2>1. Places(new, k) = {i \in DOMAIN ys : ys[i].line = k}
    BY <1>5, <1>11 DEF Places
  <2>2. Places(old, k) = {i \in DOMAIN xs : xs[i].line = k}
    BY <1>11 DEF Places, xs
  <2> QED BY <2>1, <2>2, <1>3, <1>4, <1>7
<1> QED BY <1>5, <1>6, <1>10, <1>12 DEF Calm, n, xs

LEMMA AddExceptionKeeps ==
  ASSUME RostersInv, NEW c \in Clients \cup {"now"}, NEW r \in Rosters,
         NEW x \in Ros!Intents, Ros!AddRosterException(c, r, x)
  PROVE  RostersInv' /\ RostersFine
<1> DEFINE doc == Ros!RosterDoc(r)
           old == Sees(c)[doc]
           new == Ros!Added(old, x, "none")
           puts == Ros!:>(doc, new)
<1>1. /\ Ros!Ready(c) /\ Ros!Commit(c, puts) /\ old.status = "DRAFT"
      /\ Ros!Room(old) /\ ~Ros!Contradicts(old, 0, x)
  BY RostersTxn DEF Ros!AddRosterException, Ros!Draft, Ros!Roster, Ros!Allowed
<1>2. DOMAIN puts = {doc} /\ puts[doc] = new
  BY RostersPut
<1> HIDE DEF puts
<1>3. Able(c) /\ Committed(Ros!Docs, c, puts)
  BY <1>1, RosterRight
<1>4. old \in RosterType
  BY <1>1, <1>2, <1>3, RosterKnown
<1> HIDE DEF old, new
<1>5. /\ new \in RosterType /\ new.status = old.status /\ Calm(old, new)
      /\ \A k \in RosterLines : Places(new, k) =
           Places(old, k) \cup IF k = "none" THEN {Len(old.exceptions) + 1} ELSE {}
  BY <1>1, <1>4, AddedKeeps DEF new
<1>6. \A k \in RosterLines : Places(new, k) = Places(old, k)
  BY <1>5, RostersAreTimed
<1>7. RosterEditOK(old, new)
  BY <1>1, <1>5, <1>6 DEF RosterEditOK
<1> HIDE DEF doc
<1> QED BY <1>2, <1>3, <1>7, RosterEdit DEF doc, old

\* A write to one exception, which stays what it is for a line, may hit another
\* than was meant.
LEMMA HitKeeps ==
  ASSUME NEW old \in RosterType, old.status = "DRAFT",
         NEW i \in Ros!Active(old), NEW j \in Ros!Hit(old, i), NEW e,
         NEW new, new = [old EXCEPT !.exceptions[j] = e],
         j \in DOMAIN old.exceptions => e \in ExceptionType /\ e.line = old.exceptions[j].line,
         j \in DOMAIN old.exceptions => (e.active => old.exceptions[j].active),
         j = i => ~e.active \/ ~Ros!Contradicts(old, i, e)
  PROVE  RosterEditOK(old, new)
<1> DEFINE xs == old.exceptions
           ys == [xs EXCEPT ![j] = e]
<1>1. xs \in Seq(ExceptionType) /\ Len(xs) <= MaxExceptions
  BY DEF RosterType
<1>2. new = [old EXCEPT !.exceptions = ys]
  OBVIOUS
<1>3. old # Ros!Nothing
  BY DEF RosterType, Ros!Nothing
<1>4. CASE j \notin DOMAIN xs
  <2>1. ys = xs
    BY <1>1, <1>4
  <2>2. new \in RosterType /\ new.exceptions = xs /\ new.status = old.status
    BY <1>2, <2>1 DEF RosterType
  <2> HIDE DEF xs
  <2> QED BY <2>2, SameExceptions DEF RosterEditOK, xs
<1>5. CASE j \in DOMAIN xs
  <2>1. /\ e \in ExceptionType /\ e.line = xs[j].line
        /\ e.active => xs[j].active
    BY <1>5
  <2>2. /\ ys \in Seq(ExceptionType) /\ Len(ys) = Len(xs) /\ DOMAIN ys = DOMAIN xs
        /\ ys[j] = e
        /\ \A o \in DOMAIN xs \ {j} : ys[o] = xs[o]
    BY <2>1, <1>1, <1>5
  <2> HIDE DEF xs, ys
  <2>3. new \in RosterType /\ new.exceptions = ys /\ new.status = old.status
    BY <1>1, <1>2, <2>2 DEF RosterType
  <2>4. new # Ros!Nothing
    BY <2>3 DEF RosterType, Ros!Nothing
  <2>5. \A k \in RosterLines : Places(new, k) = Places(old, k)
    BY <1>3, <2>1, <2>2, <2>3, <2>4 DEF Places, xs
  <2>6. /\ Ros!Active(new) \subseteq Ros!Active(old)
        /\ j \in Ros!Active(new) => e.active /\ j \in Ros!Active(old)
    BY <1>5, <2>1, <2>2, <2>3 DEF Ros!Active, xs
  <2>7. CASE i # j /\ j \in Ros!Active(old)
    <3>1. Calm(old, new)
      BY <2>2, <2>3, <2>7 DEF Calm, xs
    <3> QED BY <3>1, <2>3, <2>5 DEF RosterEditOK
  <2>8. CASE i = j \/ j \notin Ros!Active(old)
    <3>1. Ros!Contradictory(new) => Ros!Contradictory(old)
      <4>0. Ros!Contradictory(new) =>
              \E a, b \in Ros!Active(new) :
                /\ a # b /\ Ros!Standard(ys[a]) /\ Ros!Standard(ys[b])
                /\ ys[b].member = ys[a].member /\ ys[b].day = ys[a].day
        BY ONLY <2>3 DEF Ros!Contradictory, Ros!Contradicts
      <4> SUFFICES ASSUME NEW a \in Ros!Active(new), NEW b \in Ros!Active(new), a # b,
                          Ros!Standard(ys[a]), Ros!Standard(ys[b]),
                          ys[b].member = ys[a].member, ys[b].day = ys[a].day
                   PROVE  Ros!Contradictory(old)
        BY <4>0
      <4>1. CASE a # j /\ b # j
        <5>1. ys[a] = xs[a] /\ ys[b] = xs[b]
          BY <4>1, <2>2, <2>6 DEF Ros!Active, xs
        <5> QED BY <4>1, <5>1, <2>6 DEF Ros!Contradictory, Ros!Contradicts, xs
      <4>2. ASSUME NEW o \in Ros!Active(old), o # j, j \in Ros!Active(new),
                   Ros!Standard(xs[o]), Ros!Standard(e),
                   xs[o].member = e.member, xs[o].day = e.day
            PROVE  FALSE
        <5>1. i = j /\ e.active
          BY <4>2, <2>6, <2>8
        <5> QED BY <4>2, <5>1 DEF Ros!Contradicts, xs
      <4>3. CASE a = j
        <5>1. ys[a] = e /\ ys[b] = xs[b] /\ b \in Ros!Active(old) /\ b # j
          BY <4>3, <2>2, <2>6 DEF Ros!Active, xs
        <5> QED BY <4>2, <4>3, <5>1
      <4>4. CASE b = j
        <5>1. ys[b] = e /\ ys[a] = xs[a] /\ a \in Ros!Active(old) /\ a # j
          BY <4>4, <2>2, <2>6 DEF Ros!Active, xs
        <5> QED BY <4>2, <4>4, <5>1
      <4> QED BY <4>1, <4>3, <4>4
    <3> QED BY <3>1, <2>3, <2>5 DEF RosterEditOK, Calm
  <2> QED BY <2>7, <2>8
<1> QED BY <1>4, <1>5

LEMMA UpdateExceptionKeeps ==
  ASSUME RostersInv, NEW c \in Clients \cup {"now"}, NEW r \in Rosters, NEW i,
         NEW x \in Ros!Intents, Ros!UpdateRosterException(c, r, i, x)
  PROVE  RostersInv' /\ RostersFine
<1> DEFINE doc == Ros!RosterDoc(r)
           old == Sees(c)[doc]
<1>1. PICK j \in Ros!Hit(old, i) :
        /\ Ros!Ready(c) /\ old.status = "DRAFT" /\ i \in Ros!Active(old)
        /\ ~Ros!Contradicts(old, i, x)
        /\ Ros!Commit(c, Ros!:>(doc,
             [old EXCEPT !.exceptions[j] = Ros!Patched(@, old.exceptions[i], x)]))
  BY RostersTxn DEF Ros!UpdateRosterException, Ros!Draft, Ros!Roster, Ros!Allowed
<1> DEFINE e == Ros!Patched(old.exceptions[j], old.exceptions[i], x)
           new == [old EXCEPT !.exceptions[j] = e]
           puts == Ros!:>(doc, new)
<1>2. Ros!Commit(c, puts)
  BY <1>1
<1>3. DOMAIN puts = {doc} /\ puts[doc] = new
  BY RostersPut
<1> HIDE DEF puts
<1>4. Able(c) /\ Committed(Ros!Docs, c, puts)
  BY <1>1, <1>2, RosterRight
<1>5. old \in RosterType
  BY <1>1, <1>3, <1>4, RosterKnown
<1> HIDE DEF old
<1>6. old.exceptions \in Seq(ExceptionType) /\ i \in DOMAIN old.exceptions
  BY <1>1, <1>5 DEF RosterType, Ros!Active
<1>7. \A o \in DOMAIN old.exceptions : old.exceptions[o] \in ExceptionType
  BY <1>6
<1>8. x.member \in Members /\ x.day \in RosterDays /\ x.kind \in Kinds
  BY DEF Ros!Intents, Kinds
<1>9. j \in DOMAIN old.exceptions => /\ e \in ExceptionType /\ e.line = old.exceptions[j].line
                                     /\ e.active = old.exceptions[j].active
  BY <1>7, <1>8 DEF ExceptionType, Ros!Patched
<1>10. j = i => e.member = x.member /\ e.day = x.day /\ e.kind = x.kind
  BY <1>6, <1>7 DEF ExceptionType, Ros!Patched
<1>11. j = i => ~Ros!Contradicts(old, i, e)
  BY <1>1, <1>10 DEF Ros!Contradicts, Ros!Standard
<1> HIDE DEF e
<1>12. RosterEditOK(old, new)
  BY <1>1, <1>5, <1>9, <1>11, HitKeeps
<1> HIDE DEF doc, new
<1> QED BY <1>3, <1>4, <1>12, RosterEdit DEF doc, old

LEMMA RemoveExceptionKeeps ==
  ASSUME RostersInv, NEW c \in Clients \cup {"now"}, NEW r \in Rosters, NEW i,
         Ros!RemoveRosterException(c, r, i)
  PROVE  RostersInv' /\ RostersFine
<1> DEFINE doc == Ros!RosterDoc(r)
           old == Sees(c)[doc]
<1>1. PICK j \in Ros!Hit(old, i) :
        /\ Ros!Ready(c) /\ old.status = "DRAFT" /\ i \in Ros!Active(old)
        /\ Ros!Commit(c, Ros!:>(doc, [old EXCEPT !.exceptions[j].active = FALSE]))
  BY RostersTxn DEF Ros!RemoveRosterException, Ros!Draft, Ros!Roster
<1> DEFINE e == [old.exceptions[j] EXCEPT !.active = FALSE]
           new == [old EXCEPT !.exceptions[j] = e]
           puts == Ros!:>(doc, new)
<1>2. Ros!Commit(c, puts)
  BY <1>1
<1>3. DOMAIN puts = {doc} /\ puts[doc] = new
  BY RostersPut
<1> HIDE DEF puts
<1>4. Able(c) /\ Committed(Ros!Docs, c, puts)
  BY <1>1, <1>2, RosterRight
<1>5. old \in RosterType
  BY <1>1, <1>3, <1>4, RosterKnown
<1> HIDE DEF old
<1>6. old.exceptions \in Seq(ExceptionType) /\ i \in DOMAIN old.exceptions
  BY <1>1, <1>5 DEF RosterType, Ros!Active
<1>7. \A o \in DOMAIN old.exceptions : old.exceptions[o] \in ExceptionType
  BY <1>6
<1>8. j \in DOMAIN old.exceptions => /\ e \in ExceptionType /\ e.line = old.exceptions[j].line
                                     /\ e.active = FALSE
  BY <1>7 DEF ExceptionType
<1>9. j = i => e.active = FALSE
  BY <1>6, <1>8
<1> HIDE DEF e
<1>10. RosterEditOK(old, new)
  BY <1>1, <1>5, <1>8, <1>9, HitKeeps
<1> HIDE DEF doc, new
<1> QED BY <1>3, <1>4, <1>10, RosterEdit DEF doc, old
-----------------------------------------------------------------------------
(* Shifts made by hand, and the end of shifts.                             *)

LEMMA DutiesNumbered ==
  /\ \A S : DOMAIN Ros!Numbered(S) =
       {Ros!Sequence(Ros!Bucket(shift.day, shift.win)) : shift \in S}
  /\ \A shift : DOMAIN Ros!Numbered({shift}) =
       {Ros!Sequence(Ros!Bucket(shift.day, shift.win))}
  BY DEF Ros!Numbered

LEMMA OneDuty ==
  ASSUME RostersInv, NEW c \in Clients \cup {"now"}, Able(c), NEW puts,
         Committed(Ros!Docs, c, puts), NEW x \in Ros!ShiftDocs,
         DOMAIN puts \subseteq {x} \cup {Ros!Sequence(bucket) : bucket \in Ros!Buckets},
         DutyWriteOK(Sees(c), puts, x),
         x[1] = "own" \/ Sees(c)[x] # Ros!Nothing
  PROVE  RostersInv' /\ RostersFine
<1> DEFINE docs == DOMAIN puts
           s == Sees(c)
<1>1. docs \subseteq Ros!Docs
  BY RostersDocs
<1>2. \A d \in docs : d = x \/ d[1] = "sequence"
  BY RosterTags
<1> HIDE DEF docs, s
<1>3. /\ \A y \in Ros!ShiftDocs : y \in docs => y = x
      /\ \A y : Ros!LineDoc(y) \notin docs /\ Ros!BatchDoc(y) \notin docs
                /\ Ros!RosterDoc(y) \notin docs
      /\ \A q, m, d, i : Ros!Generated(q, m, d, i) \in docs =>
           s[Ros!Generated(q, m, d, i)] # Ros!Nothing
  <2>1. x[1] \in {"own", "generated"}
    BY RosterTags
  <2>2. x[1] = "own" \/ s[x] # Ros!Nothing
    BY DEF s
  <2>3. \A q, m, d, i : Ros!Generated(q, m, d, i) \in docs =>
          s[Ros!Generated(q, m, d, i)] # Ros!Nothing
    <3> SUFFICES ASSUME NEW q, NEW m, NEW d, NEW i, Ros!Generated(q, m, d, i) \in docs
                 PROVE  s[Ros!Generated(q, m, d, i)] # Ros!Nothing
      OBVIOUS
    <3>1. Ros!Generated(q, m, d, i)[1] = "generated"
      BY RosterTags
    <3> QED BY <3>1, <1>2, <2>2
  <2> QED BY <1>2, <2>1, <2>3, RosterTags
<1>4. RostersSound(s, puts)
  BY <1>1, <1>3 DEF RostersSound, docs, s
<1> QED BY <1>4, RostersCommit DEF s

LEMMA DutyCreateKeeps ==
  ASSUME RostersInv, NEW c \in Clients \cup {"now"}, NEW k \in OwnShifts, NEW m \in Members,
         NEW d \in RosterDays, NEW kind \in DOMAIN Hours, NEW code \in {"generated", "own"},
         Ros!CreateShift(c, k, m, d, Hours[kind], code)
  PROVE  RostersInv' /\ RostersFine
<1> DEFINE x == Ros!OwnShift(k)
           w == Hours[kind]
           bucket == Ros!Bucket(d, w)
           shift == Ros!NewShift(m, d, w, code)
           one == Ros!:>(x, shift)
           two == IF code = "generated" THEN Ros!Numbered({shift}) ELSE <<>>
           puts == Ros!@@(one, two)
           s == Sees(c)
<1>1. /\ Ros!Ready(c) /\ Ros!Commit(c, puts) /\ db[x] = Ros!Nothing
      /\ ~Ros!Taken(s, m, d, w)
  BY RostersTxn DEF Ros!CreateShift
<1>2. Able(c) /\ Committed(Ros!Docs, c, puts)
  BY <1>1, RosterRight
<1>3. /\ shift \in DutyType
      /\ shift.status = "ACTIVE" /\ shift.member = m /\ shift.day = d /\ shift.win = w
      /\ shift.code = code
  BY DEF Ros!NewShift, DutyType, RosterWindows
<1>4. DOMAIN one = {x} /\ one[x] = shift
  BY RostersPut
<1>5. /\ DOMAIN two \subseteq {Ros!Sequence(bucket)}
      /\ code = "generated" => Ros!Sequence(bucket) \in DOMAIN two
  <2> HIDE DEF shift
  <2>1. DOMAIN Ros!Numbered({shift}) = {Ros!Sequence(Ros!Bucket(shift.day, shift.win))}
    BY DutiesNumbered
  <2>3. DOMAIN Ros!Numbered({shift}) = {Ros!Sequence(bucket)}
    BY <1>3, <2>1
  <2> HIDE DEF bucket
  <2>2. DOMAIN <<>> = {}
    OBVIOUS
  <2> QED BY <2>3, <2>2
<1> HIDE DEF one, two
<1>6. /\ DOMAIN puts = DOMAIN one \cup DOMAIN two
      /\ \A y \in DOMAIN one : puts[y] = one[y]
  BY RostersOver
<1> HIDE DEF puts
<1>7. bucket \in Ros!Buckets
  BY DEF Ros!Buckets
<1>8. x \in Ros!ShiftDocs /\ x[1] = "own" /\ x \in Ros!Docs
  BY RostersDocs, RosterTags
<1> HIDE DEF bucket, shift, w, x, s
<1>9. /\ x \in DOMAIN puts /\ puts[x] = shift
      /\ DOMAIN puts \subseteq {x} \cup {Ros!Sequence(a) : a \in Ros!Buckets}
  BY <1>4, <1>5, <1>6, <1>7
<1>10. s[x] = Ros!Nothing
  BY <1>1, <1>2, <1>8, <1>9, WrittenKnown DEF s
<1>11. ASSUME NEW y \in Ros!ShiftDocs \ {x}, NEW other, other = RostersAfter(s, puts)[y],
              other.status = "ACTIVE", other.member = m, other.day = d
       PROVE  ~Ros!Overlap(other.win, w)
  <2>1. y \notin DOMAIN puts /\ y \in Ros!Docs
    <3>1. \A a : y # Ros!Sequence(a)
      BY RosterTags
    <3> QED BY <3>1, <1>9, RostersDocs
  <2>2. other = s[y]
    BY <2>1, <1>11 DEF RostersAfter
  <2> QED BY <2>2, <1>1, <1>11 DEF Ros!Taken, Ros!OnDuty
<1>12. DutyWriteOK(s, puts, x)
  <2>1. puts[x].code = "generated" =>
          Ros!Sequence(Ros!Bucket(puts[x].day, puts[x].win)) \in DOMAIN puts
    BY <1>3, <1>5, <1>6, <1>9 DEF bucket
  <2> QED BY <2>1, <1>3, <1>9, <1>10, <1>11 DEF DutyWriteOK
<1> QED BY <1>2, <1>8, <1>9, <1>12, OneDuty DEF s

LEMMA DutyCancelKeeps ==
  ASSUME RostersInv, NEW c \in Clients \cup {"now"}, NEW x \in Ros!ShiftDocs,
         Ros!CancelShift(c, x)
  PROVE  RostersInv' /\ RostersFine
<1> DEFINE s == Sees(c)
           new == [s[x] EXCEPT !.status = "CANCELLED"]
           puts == Ros!:>(x, new)
<1>1. Ros!Ready(c) /\ Ros!Commit(c, puts) /\ s[x].status = "ACTIVE"
  BY RostersTxn DEF Ros!CancelShift, Ros!OnDuty
<1>2. DOMAIN puts = {x} /\ puts[x] = new
  BY RostersPut
<1> HIDE DEF puts
<1>3. Able(c) /\ Committed(Ros!Docs, c, puts)
  BY <1>1, RosterRight
<1>4. s[x] = db[x]
  BY <1>2, <1>3, WrittenKnown, RostersDocs
<1>5. s[x] \in DutyType
  BY <1>1, <1>4 DEF RostersInv, RostersOK, Ros!Nothing
<1>6. new \in DutyType /\ new.status = "CANCELLED" /\ new.win = s[x].win
  BY <1>5 DEF DutyType
<1>7. s[x] # Ros!Nothing
  BY <1>1 DEF Ros!Nothing
<1> HIDE DEF s, new
<1>8. DutyWriteOK(s, puts, x)
  BY <1>2, <1>6, <1>7 DEF DutyWriteOK
<1> QED BY <1>2, <1>3, <1>7, <1>8, OneDuty DEF s
-----------------------------------------------------------------------------
(* Publishing.                                                             *)

\* A row of the preview.
RowOf(s, roster, m, d, i) ==
  <<m, d, i, Hours[IF i # 0 THEN "ADD_SPECIAL_SHIFT"
                   ELSE IF Ros!About(roster, m, d, {"CHANGE_TIME"}) # {} THEN "CHANGE_TIME"
                   ELSE "STANDARD"]>>

\* The slots of a member's day that the preview fills.
Filled(s, r, m, d, i) ==
  LET roster == s[Ros!RosterDoc(r)] IN
  /\ m \in Ros!Eligible(s) /\ d \in RosterDays
  /\ i = 0 => Ros!Workday(s, r, d) /\ Ros!About(roster, m, d, {"WORKING_TO_OFF"}) = {}
  /\ i # 0 => i \in Ros!About(roster, m, d, {"ADD_SPECIAL_SHIFT"})

LEMMA RowsAre ==
  ASSUME NEW s, NEW r \in Rosters, \A i \in Ros!Active(s[Ros!RosterDoc(r)]) : i # 0
  PROVE  /\ \A row \in Ros!Rows(s, r) : \E m, d, i :
              Filled(s, r, m, d, i) /\ row = RowOf(s, s[Ros!RosterDoc(r)], m, d, i)
         /\ \A m, d, i : Filled(s, r, m, d, i) =>
              RowOf(s, s[Ros!RosterDoc(r)], m, d, i) \in Ros!Rows(s, r)
<1> DEFINE roster == s[Ros!RosterDoc(r)]
           Workdays == {d \in RosterDays : Ros!Workday(s, r, d)}
           Slot(m, d) ==
             IF Ros!About(roster, m, d, {"WORKING_TO_OFF"}) # {} THEN {}
             ELSE IF Ros!About(roster, m, d, {"CHANGE_TIME"}) # {}
                  THEN {<<m, d, 0, Hours["CHANGE_TIME"]>>}
                  ELSE {<<m, d, 0, Hours["STANDARD"]>>}
           Special(m, d) ==
             {<<m, d, i, Hours["ADD_SPECIAL_SHIFT"]>> :
                i \in Ros!About(roster, m, d, {"ADD_SPECIAL_SHIFT"})}
           Slots == UNION {Slot(m, d) : m \in Ros!Eligible(s), d \in Workdays}
           Specials == UNION {Special(m, d) : m \in Ros!Eligible(s), d \in RosterDays}
<1>1. Ros!Rows(s, r) = Slots \cup Specials
  BY DEF Ros!Rows, Ros!Roster
<1> HIDE DEF roster
<1>2. \A m, d, i : i \in Ros!About(roster, m, d, {"ADD_SPECIAL_SHIFT"}) => i # 0
  BY DEF Ros!About, roster
<1>3. \A m, d : Ros!About(roster, m, d, {"WORKING_TO_OFF"}) = {} =>
        Slot(m, d) = {RowOf(s, roster, m, d, 0)}
  BY DEF RowOf
<1>4. \A m, d : Special(m, d) =
        {RowOf(s, roster, m, d, i) : i \in Ros!About(roster, m, d, {"ADD_SPECIAL_SHIFT"})}
  BY <1>2 DEF RowOf
<1>5. \A m, d : Ros!About(roster, m, d, {"WORKING_TO_OFF"}) # {} => Slot(m, d) = {}
  OBVIOUS
<1> HIDE DEF Slot, Special
<1>6. \A row \in Slots : \E m, d, i : Filled(s, r, m, d, i) /\ row = RowOf(s, roster, m, d, i)
  <2> SUFFICES ASSUME NEW row \in Slots
               PROVE  \E m, d, i : Filled(s, r, m, d, i) /\ row = RowOf(s, roster, m, d, i)
    OBVIOUS
  <2>1. PICK m \in Ros!Eligible(s), d \in Workdays : row \in Slot(m, d)
    OBVIOUS
  <2>2. Ros!About(roster, m, d, {"WORKING_TO_OFF"}) = {} /\ row = RowOf(s, roster, m, d, 0)
    BY <2>1, <1>3, <1>5
  <2>3. Filled(s, r, m, d, 0)
    BY <2>1, <2>2 DEF Filled, roster
  <2> QED BY <2>2, <2>3
<1>7. \A row \in Specials : \E m, d, i : Filled(s, r, m, d, i) /\ row = RowOf(s, roster, m, d, i)
  <2> SUFFICES ASSUME NEW row \in Specials
               PROVE  \E m, d, i : Filled(s, r, m, d, i) /\ row = RowOf(s, roster, m, d, i)
    OBVIOUS
  <2>1. PICK m \in Ros!Eligible(s), d \in RosterDays : row \in Special(m, d)
    OBVIOUS
  <2>2. PICK i \in Ros!About(roster, m, d, {"ADD_SPECIAL_SHIFT"}) : row = RowOf(s, roster, m, d, i)
    BY <2>1, <1>4
  <2>3. Filled(s, r, m, d, i)
    BY <2>1, <2>2, <1>2 DEF Filled, roster
  <2> QED BY <2>2, <2>3
<1>8. ASSUME NEW m, NEW d, NEW i, Filled(s, r, m, d, i)
      PROVE  RowOf(s, roster, m, d, i) \in Slots \cup Specials
  <2>1. /\ m \in Ros!Eligible(s) /\ d \in RosterDays
        /\ i = 0 => d \in Workdays /\ Ros!About(roster, m, d, {"WORKING_TO_OFF"}) = {}
        /\ i # 0 => i \in Ros!About(roster, m, d, {"ADD_SPECIAL_SHIFT"})
    BY <1>8 DEF Filled, roster
  <2> HIDE DEF Workdays
  <2>2. CASE i = 0
    <3>1. RowOf(s, roster, m, d, i) \in Slot(m, d)
      BY <2>1, <2>2, <1>3
    <3> QED BY <2>1, <2>2, <3>1
  <2>3. CASE i # 0
    <3>1. RowOf(s, roster, m, d, i) \in Special(m, d)
      BY <2>1, <2>3, <1>4
    <3> QED BY <2>1, <3>1
  <2> QED BY <2>2, <2>3
<1> QED BY <1>1, <1>6, <1>7, <1>8 DEF roster
-----------------------------------------------------------------------------
LEMMA RowKnown ==
  ASSUME NEW s, NEW r \in Rosters, NEW roster \in RosterType, roster = s[Ros!RosterDoc(r)],
         NEW m, NEW d, NEW i, Filled(s, r, m, d, i),
         NEW row, row = RowOf(s, roster, m, d, i)
  PROVE  /\ m \in Members /\ d \in RosterDays /\ i \in Ros!Slots
         /\ row[1] = m /\ row[2] = d /\ row[3] = i /\ row[4] \in RosterWindows
         /\ Fits(roster, row[4], m, d, i)
<1> DEFINE kind == IF i # 0 THEN "ADD_SPECIAL_SHIFT"
                   ELSE IF Ros!About(roster, m, d, {"CHANGE_TIME"}) # {} THEN "CHANGE_TIME"
                   ELSE "STANDARD"
<1>1. row = <<m, d, i, Hours[kind]>>
  BY DEF RowOf
<1>2. kind \in DOMAIN Hours
  BY RostersAreTimed
<1>3. /\ m \in Members /\ d \in RosterDays
      /\ i = 0 => Ros!About(roster, m, d, {"WORKING_TO_OFF"}) = {}
      /\ i # 0 => i \in Ros!About(roster, m, d, {"ADD_SPECIAL_SHIFT"})
  BY DEF Filled, Ros!Eligible
<1>4. roster.exceptions \in Seq(ExceptionType) /\ Len(roster.exceptions) <= MaxExceptions
  BY DEF RosterType
<1>5. i # 0 => i \in DOMAIN roster.exceptions
  BY <1>3 DEF Ros!About, Ros!Active
<1>6. i \in Ros!Slots
  <2>1. i = 0 \/ i \in 1..Len(roster.exceptions)
    BY <1>4, <1>5
  <2>2. Len(roster.exceptions) \in Nat
    BY <1>4
  <2> QED BY <2>1, <2>2, <1>4, RostersAreTimed DEF Ros!Slots
<1>7. i = 0 => kind = IF Ros!About(roster, m, d, {"CHANGE_TIME"}) # {}
                      THEN "CHANGE_TIME" ELSE "STANDARD"
  OBVIOUS
<1> HIDE DEF kind
<1>8. row[1] = m /\ row[2] = d /\ row[3] = i /\ row[4] = Hours[kind]
  BY <1>1
<1> QED BY <1>2, <1>3, <1>6, <1>7, <1>8 DEF RosterWindows, Fits

\* What publishing writes to shifts: those of the rows.
ShiftsOf(r, rows) ==
  LET Shift(row) == Ros!NewShift(row[1], row[2], row[4], "generated") IN
  [x \in {Ros!Generated(r, row[1], row[2], row[3]) : row \in rows} |->
     Shift(CHOOSE row \in rows : x = Ros!Generated(r, row[1], row[2], row[3]))]

LEMMA PublishedShifts ==
  ASSUME NEW rows, NEW r, NEW shifts, shifts = ShiftsOf(r, rows),
         \A row, other \in rows : row[1] = other[1] /\ row[2] = other[2] /\ row[3] = other[3] =>
           row = other
  PROVE  /\ \A x \in DOMAIN shifts : \E row \in rows :
              x = Ros!Generated(r, row[1], row[2], row[3])
         /\ \A row \in rows :
              /\ Ros!Generated(r, row[1], row[2], row[3]) \in DOMAIN shifts
              /\ shifts[Ros!Generated(r, row[1], row[2], row[3])] =
                   Ros!NewShift(row[1], row[2], row[4], "generated")
<1> DEFINE at(row) == Ros!Generated(r, row[1], row[2], row[3])
           row_(x) == CHOOSE row \in rows : x = at(row)
<1>1. /\ DOMAIN shifts = {at(row) : row \in rows}
      /\ \A x \in {at(row) : row \in rows} :
           shifts[x] = Ros!NewShift(row_(x)[1], row_(x)[2], row_(x)[4], "generated")
  BY DEF ShiftsOf
<1>2. \A row, other \in rows : at(row) = at(other) => row = other
  BY RosterNames
<1>3. \A row \in rows : row_(at(row)) \in rows /\ at(row) = at(row_(at(row)))
  <2> HIDE DEF at
  <2> QED OBVIOUS
<1>4. \A row \in rows : row_(at(row)) = row
  <2> HIDE DEF at, row_
  <2> QED BY <1>2, <1>3
<1> HIDE DEF row_
<1>5. \A x \in DOMAIN shifts : \E row \in rows : x = at(row)
  <2> HIDE DEF at
  <2> QED BY <1>1
<1>6. \A row \in rows : at(row) \in DOMAIN shifts /\
        shifts[at(row)] = Ros!NewShift(row[1], row[2], row[4], "generated")
  <2> SUFFICES ASSUME NEW row \in rows
               PROVE  at(row) \in DOMAIN shifts /\
                        shifts[at(row)] = Ros!NewShift(row[1], row[2], row[4], "generated")
    OBVIOUS
  <2>1. at(row) \in {at(o) : o \in rows}
    OBVIOUS
  <2> HIDE DEF at
  <2> QED BY <2>1, <1>1, <1>4
<1> QED BY <1>5, <1>6

LEMMA PublishKeeps ==
  ASSUME RostersInv, NEW c \in Clients \cup {"now"}, NEW r \in Rosters, Ros!PublishRoster(c, r)
  PROVE  RostersInv' /\ RostersFine
<1> DEFINE s == Ros!Seen(c)
           doc == Ros!RosterDoc(r)
           old == s[doc]
           new == [old EXCEPT !.status = "PUBLISHED"]
           rows == Ros!Rows(s, r)
           at(m, d, i) == Ros!Generated(r, m, d, i)
           shifts == ShiftsOf(r, rows)
           numbers == Ros!Numbered({shifts[x] : x \in DOMAIN shifts})
           one == Ros!:>(doc, new)
           two == Ros!@@(one, shifts)
           puts == Ros!@@(two, numbers)
<1>1. /\ Ros!Ready(c) /\ Ros!Commit(c, puts) /\ old.status = "DRAFT"
      /\ Ros!Previewable(s, r) /\ ~Ros!Conflict(s, rows)
  BY DEF Ros!PublishRoster, Ros!Draft, Ros!Roster, ShiftsOf
<1>2. Able(c) /\ Committed(Ros!Docs, c, puts) /\ s = Sees(c)
  BY <1>1, RosterRight
<1> HIDE DEF s
<1>3. /\ DOMAIN one = {doc} /\ one[doc] = new
      /\ DOMAIN numbers = {Ros!Sequence(Ros!Bucket(shift.day, shift.win)) :
                             shift \in {shifts[x] : x \in DOMAIN shifts}}
  <2>1. DOMAIN one = {doc} /\ one[doc] = new
    BY RostersPut
  <2> HIDE DEF one, shifts
  <2> QED BY <2>1, DutiesNumbered
<1>4. \A x \in DOMAIN shifts : \E row : x = Ros!Generated(r, row[1], row[2], row[3])
  BY DEF ShiftsOf
<1>5. shifts = ShiftsOf(r, rows)
  OBVIOUS
<1> HIDE DEF one, shifts, numbers, new, rows
<1>6. /\ DOMAIN two = DOMAIN one \cup DOMAIN shifts
      /\ \A x \in DOMAIN one : two[x] = one[x]
      /\ \A x \in DOMAIN shifts : x \notin DOMAIN one => two[x] = shifts[x]
  BY RostersOver
<1> HIDE DEF two
<1>7. /\ DOMAIN puts = DOMAIN two \cup DOMAIN numbers
      /\ \A x \in DOMAIN two : puts[x] = two[x]
  BY RostersOver
<1> HIDE DEF puts
<1>8. /\ doc \in DOMAIN puts /\ puts[doc] = new
      /\ DOMAIN puts = {doc} \cup DOMAIN shifts \cup DOMAIN numbers
      /\ \A x \in DOMAIN shifts : puts[x] = shifts[x]
  <2>1. \A x \in DOMAIN shifts : x # doc
    <3>1. doc[1] = "roster"
      BY RosterTags
    <3>2. \A x \in DOMAIN shifts : x[1] = "generated"
      BY <1>4, RosterTags
    <3> QED BY <3>1, <3>2
  <2> QED BY <2>1, <1>3, <1>6, <1>7
<1>9. old = db[doc] /\ old \in RosterType
  <2>1. Sees(c)[doc] = db[doc] /\ (Sees(c)[doc].status # "none" => Sees(c)[doc] \in RosterType)
    BY <1>2, <1>8, RosterKnown
  <2> QED BY <2>1, <1>1, <1>2
<1>10. \A i \in Ros!Active(old) : i # 0 /\ i \in DOMAIN old.exceptions
                                  /\ old.exceptions[i] \in ExceptionType
  <2>1. old.exceptions \in Seq(ExceptionType)
    BY <1>9 DEF RosterType
  <2> HIDE DEF old
  <2> QED BY <2>1 DEF Ros!Active
<1>11. /\ \A row \in rows : \E m, d, i : Filled(s, r, m, d, i) /\ row = RowOf(s, old, m, d, i)
       /\ \A m, d, i : Filled(s, r, m, d, i) => RowOf(s, old, m, d, i) \in rows
  BY <1>10, RowsAre DEF rows, old
<1>12. \A row \in rows :
         /\ row[1] \in Members /\ row[2] \in RosterDays /\ row[3] \in Ros!Slots
         /\ row[4] \in RosterWindows
         /\ Fits(old, row[4], row[1], row[2], row[3])
         /\ row = RowOf(s, old, row[1], row[2], row[3])
  <2> SUFFICES ASSUME NEW row \in rows
               PROVE  /\ row[1] \in Members /\ row[2] \in RosterDays /\ row[3] \in Ros!Slots
                      /\ row[4] \in RosterWindows
                      /\ Fits(old, row[4], row[1], row[2], row[3])
                      /\ row = RowOf(s, old, row[1], row[2], row[3])
    OBVIOUS
  <2>1. PICK m, d, i : Filled(s, r, m, d, i) /\ row = RowOf(s, old, m, d, i)
    BY <1>11
  <2>2. /\ m \in Members /\ d \in RosterDays /\ i \in Ros!Slots
        /\ row[1] = m /\ row[2] = d /\ row[3] = i /\ row[4] \in RosterWindows
        /\ Fits(old, row[4], m, d, i)
    BY <2>1, <1>9, RowKnown
  <2> HIDE DEF old
  <2> QED BY <2>1, <2>2
<1>13. \A row, other \in rows :
         row[1] = other[1] /\ row[2] = other[2] /\ row[3] = other[3] => row = other
  <2> HIDE DEF old
  <2> QED BY <1>12
<1>14. /\ \A x \in DOMAIN shifts : \E row \in rows :
            x = Ros!Generated(r, row[1], row[2], row[3])
       /\ \A row \in rows :
            /\ Ros!Generated(r, row[1], row[2], row[3]) \in DOMAIN shifts
            /\ shifts[Ros!Generated(r, row[1], row[2], row[3])] =
                 Ros!NewShift(row[1], row[2], row[4], "generated")
  BY <1>5, <1>13, PublishedShifts
<1>15. /\ \A row \in rows : ~Ros!Taken(s, row[1], row[2], row[4])
       /\ \A row, other \in rows : row # other /\ row[1] = other[1] /\ row[2] = other[2] =>
            ~Ros!Overlap(row[4], other[4])
  BY <1>1 DEF Ros!Conflict
<1>16. \A i \in Ros!Active(old) :
         LET e == old.exceptions[i] IN
         /\ e.member \in Ros!Eligible(s)
         /\ Ros!Standard(e) => Ros!Workday(s, r, e.day)
         /\ ~Ros!Contradicts(old, i, e)
  BY <1>1 DEF Ros!Previewable, Ros!Roster
<1>17. \A m \in Members, d \in RosterDays, i \in Ros!Slots :
         at(m, d, i) \in Ros!ShiftDocs /\ db[at(m, d, i)] = Ros!Nothing
  <2>1. RosterKeeps(db, r)
    BY DEF RostersInv, RostersOK
  <2> QED BY <2>1, <1>1, <1>9, RostersDocs DEF RosterKeeps
<1> HIDE DEF old, at
<1>18. new \in RosterType /\ new.exceptions = old.exceptions /\ new.status = "PUBLISHED"
  BY <1>9 DEF new, RosterType
<1>19. \A row \in rows :
         /\ at(row[1], row[2], row[3]) \in DOMAIN puts
         /\ at(row[1], row[2], row[3]) \in Ros!ShiftDocs
         /\ at(row[1], row[2], row[3]) \in Ros!Docs
         /\ puts[at(row[1], row[2], row[3])] =
              Ros!NewShift(row[1], row[2], row[4], "generated")
         /\ puts[at(row[1], row[2], row[3])] \in DutyType
         /\ s[at(row[1], row[2], row[3])] = Ros!Nothing
         /\ Ros!Bucket(row[2], row[4]) \in Ros!Buckets
         /\ Ros!Sequence(Ros!Bucket(row[2], row[4])) \in DOMAIN puts
  <2> SUFFICES ASSUME NEW row \in rows, NEW x, x = at(row[1], row[2], row[3])
               PROVE  /\ x \in DOMAIN puts /\ x \in Ros!ShiftDocs /\ x \in Ros!Docs
                      /\ puts[x] = Ros!NewShift(row[1], row[2], row[4], "generated")
                      /\ puts[x] \in DutyType
                      /\ s[x] = Ros!Nothing
                      /\ Ros!Bucket(row[2], row[4]) \in Ros!Buckets
                      /\ Ros!Sequence(Ros!Bucket(row[2], row[4])) \in DOMAIN puts
    OBVIOUS
  <2>1. /\ x \in DOMAIN shifts
        /\ shifts[x] = Ros!NewShift(row[1], row[2], row[4], "generated")
    BY <1>14 DEF at
  <2>2. x \in DOMAIN puts /\ puts[x] = shifts[x]
    BY <2>1, <1>8
  <2>3. /\ row[1] \in Members /\ row[2] \in RosterDays /\ row[3] \in Ros!Slots
        /\ row[4] \in RosterWindows
    BY <1>12
  <2>4. x \in Ros!ShiftDocs /\ x \in Ros!Docs /\ db[x] = Ros!Nothing
    BY <2>3, <1>17, RostersDocs
  <2>5. s[x] = Ros!Nothing
    BY <2>2, <2>4, <1>2, WrittenKnown
  <2>6. puts[x] \in DutyType /\ puts[x].day = row[2] /\ puts[x].win = row[4]
    BY <2>1, <2>2, <2>3 DEF Ros!NewShift, DutyType
  <2>7. Ros!Bucket(row[2], row[4]) \in Ros!Buckets
    BY <2>3 DEF RosterWindows, Ros!Buckets
  <2>8. Ros!Sequence(Ros!Bucket(row[2], row[4])) \in DOMAIN puts
    BY <2>1, <2>2, <2>6, <1>3, <1>8
  <2> QED BY <2>1, <2>2, <2>4, <2>5, <2>6, <2>7, <2>8
<1>20. \A x \in DOMAIN numbers : \E bucket \in Ros!Buckets : x = Ros!Sequence(bucket)
  <2> SUFFICES ASSUME NEW x \in DOMAIN numbers
               PROVE  \E bucket \in Ros!Buckets : x = Ros!Sequence(bucket)
    OBVIOUS
  <2>1. PICK y \in DOMAIN shifts : x = Ros!Sequence(Ros!Bucket(shifts[y].day, shifts[y].win))
    BY <1>3
  <2>2. PICK row \in rows : y = at(row[1], row[2], row[3])
    BY <1>14 DEF at
  <2>3. shifts[y] = Ros!NewShift(row[1], row[2], row[4], "generated")
    BY <2>2, <1>14 DEF at
  <2>4. shifts[y].day = row[2] /\ shifts[y].win = row[4]
    BY <2>3 DEF Ros!NewShift
  <2> QED BY <2>1, <2>4, <1>19
<1>21. \A x \in DOMAIN puts : \/ x = doc
                              \/ \E row \in rows : x = at(row[1], row[2], row[3])
                              \/ \E bucket \in Ros!Buckets : x = Ros!Sequence(bucket)
  BY <1>8, <1>14, <1>20 DEF at
<1>22. DOMAIN puts \subseteq Ros!Docs
  BY <1>19, <1>21, RostersDocs
<1>23. /\ \A x \in Ros!ShiftDocs : x \in DOMAIN puts =>
            \E row \in rows : x = at(row[1], row[2], row[3])
       /\ \A y : Ros!LineDoc(y) \notin DOMAIN puts /\ Ros!BatchDoc(y) \notin DOMAIN puts
       /\ \A q \in Rosters : Ros!RosterDoc(q) \in DOMAIN puts => q = r
       /\ \A q, m, d, i : Ros!Generated(q, m, d, i) \in DOMAIN puts =>
            /\ q = r
            /\ \E row \in rows : m = row[1] /\ d = row[2] /\ i = row[3]
  <2>1. \A x \in DOMAIN puts :
          \/ x = doc /\ x[1] = "roster"
          \/ x[1] = "generated" /\ \E row \in rows : x = at(row[1], row[2], row[3])
          \/ x[1] = "sequence"
    BY <1>21, RosterTags DEF at
  <2>2. /\ \A x \in Ros!ShiftDocs : x[1] # "roster" /\ x[1] # "sequence"
        /\ \A y : Ros!LineDoc(y)[1] = "line" /\ Ros!BatchDoc(y)[1] = "batch"
                  /\ Ros!RosterDoc(y)[1] = "roster"
        /\ \A q, m, d, i : Ros!Generated(q, m, d, i)[1] = "generated"
    BY RosterTags
  <2>3. \A x \in Ros!ShiftDocs : x \in DOMAIN puts =>
          \E row \in rows : x = at(row[1], row[2], row[3])
    BY <2>1, <2>2
  <2>4. \A q, m, d, i : Ros!Generated(q, m, d, i) \in DOMAIN puts =>
          \E row \in rows : Ros!Generated(q, m, d, i) = at(row[1], row[2], row[3])
    BY <2>1, <2>2
  <2>5. \A q, m, d, i : Ros!Generated(q, m, d, i) \in DOMAIN puts =>
          /\ q = r
          /\ \E row \in rows : m = row[1] /\ d = row[2] /\ i = row[3]
    BY <2>4, RosterNames DEF at
  <2>6. \A y : Ros!LineDoc(y) \notin DOMAIN puts /\ Ros!BatchDoc(y) \notin DOMAIN puts
    BY <2>1, <2>2
  <2>7. \A q \in Rosters : Ros!RosterDoc(q) \in DOMAIN puts => q = r
    BY <2>1, <2>2, RosterNames
  <2> QED BY <2>3, <2>5, <2>6, <2>7
<1>24. ASSUME NEW x \in Ros!ShiftDocs, x \in DOMAIN puts PROVE DutyWriteOK(s, puts, x)
  <2>1. PICK row \in rows : x = at(row[1], row[2], row[3])
    BY <1>23, <1>24
  <2>2. /\ puts[x] = Ros!NewShift(row[1], row[2], row[4], "generated")
        /\ puts[x] \in DutyType /\ s[x] = Ros!Nothing
        /\ Ros!Sequence(Ros!Bucket(row[2], row[4])) \in DOMAIN puts
    BY <2>1, <1>19
  <2>3. /\ puts[x].status = "ACTIVE" /\ puts[x].member = row[1] /\ puts[x].day = row[2]
        /\ puts[x].win = row[4]
    BY <2>2 DEF Ros!NewShift
  <2>4. ASSUME NEW y \in Ros!ShiftDocs \ {x}, NEW other, other = RostersAfter(s, puts)[y],
               other.status = "ACTIVE", other.member = row[1], other.day = row[2]
        PROVE  ~Ros!Overlap(other.win, row[4])
    <3>1. y \in Ros!Docs
      BY RostersDocs
    <3>2. CASE y \in DOMAIN puts
      <4>1. PICK far \in rows : y = at(far[1], far[2], far[3])
        BY <3>2, <1>23
      <4>2. other = Ros!NewShift(far[1], far[2], far[4], "generated")
        BY <3>1, <3>2, <4>1, <2>4, <1>19 DEF RostersAfter
      <4>3. other.member = far[1] /\ other.day = far[2] /\ other.win = far[4] /\ far # row
        BY <4>1, <4>2, <2>1 DEF Ros!NewShift
      <4> QED BY <4>3, <2>4, <1>15
    <3>3. CASE y \notin DOMAIN puts
      <4>1. other = s[y]
        BY <3>1, <3>3, <2>4 DEF RostersAfter
      <4> QED BY <4>1, <2>4, <1>15 DEF Ros!Taken, Ros!OnDuty
    <3> QED BY <3>2, <3>3
  <2> QED BY <2>2, <2>3, <2>4 DEF DutyWriteOK
<1>25. ASSUME NEW i \in Ros!Active(new), new.exceptions[i].kind # "WORKING_TO_OFF"
       PROVE  ShiftOf(r, new, i) \in DOMAIN puts
  <2> DEFINE e == old.exceptions[i]
             slot == IF Ros!Standard(e) THEN 0 ELSE i
  <2>1. i \in Ros!Active(old) /\ new.exceptions[i] = e
    BY <1>18, <1>25, FitsSame DEF Ros!Active
  <2>2. e \in ExceptionType /\ i # 0
    BY <2>1, <1>10
  <2>3. /\ e.member \in Ros!Eligible(s)
        /\ Ros!Standard(e) => Ros!Workday(s, r, e.day)
        /\ ~Ros!Contradicts(old, i, e)
    BY <2>1, <1>16
  <2>4. e.kind # "WORKING_TO_OFF" /\ e.day \in RosterDays
    BY <2>1, <2>2, <1>25 DEF ExceptionType
  <2>5. Ros!Standard(e) => Ros!About(old, e.member, e.day, {"WORKING_TO_OFF"}) = {}
    <3> SUFFICES ASSUME Ros!Standard(e), NEW j \in Ros!Active(old),
                        old.exceptions[j].member = e.member, old.exceptions[j].day = e.day,
                        old.exceptions[j].kind = "WORKING_TO_OFF"
                 PROVE  FALSE
      BY DEF Ros!About
    <3>1. j # i
      BY <2>4
    <3>2. Ros!Standard(old.exceptions[j])
      BY DEF Ros!Standard
    <3> HIDE DEF e
    <3> QED BY <3>1, <3>2, <2>3 DEF Ros!Contradicts
  <2>6. ~Ros!Standard(e) => i \in Ros!About(old, e.member, e.day, {"ADD_SPECIAL_SHIFT"})
    BY <2>1 DEF Ros!About, Ros!Standard
  <2>7. Filled(s, r, e.member, e.day, slot)
    <3> HIDE DEF e
    <3> QED BY <2>2, <2>3, <2>4, <2>5, <2>6 DEF Filled, old
  <2> DEFINE row == RowOf(s, old, e.member, e.day, slot)
  <2>8. row \in rows
    BY <2>7, <1>11
  <2>9. row[1] = e.member /\ row[2] = e.day /\ row[3] = slot
    BY DEF RowOf
  <2>10. at(e.member, e.day, slot) \in DOMAIN puts
    <3> HIDE DEF row, e, slot
    <3> QED BY <2>8, <2>9, <1>19
  <2>11. ShiftOf(r, new, i) = at(e.member, e.day, slot)
    BY <2>1 DEF ShiftOf, at
  <2> HIDE DEF e, slot
  <2> QED BY <2>10, <2>11
<1>26. \A m \in Members, d \in RosterDays, i \in Ros!Slots :
         at(m, d, i) \in DOMAIN puts => Fits(new, puts[at(m, d, i)].win, m, d, i)
  <2> SUFFICES ASSUME NEW m \in Members, NEW d \in RosterDays, NEW i \in Ros!Slots,
                      at(m, d, i) \in DOMAIN puts
               PROVE  Fits(new, puts[at(m, d, i)].win, m, d, i)
    OBVIOUS
  <2>1. PICK row \in rows : m = row[1] /\ d = row[2] /\ i = row[3]
    BY <1>23 DEF at
  <2>5. Fits(old, row[4], row[1], row[2], row[3])
    BY <1>12
  <2>2. Fits(old, row[4], m, d, i)
    BY ONLY <2>1, <2>5
  <2>3. puts[at(m, d, i)] = Ros!NewShift(row[1], row[2], row[4], "generated")
    BY <2>1, <1>19
  <2>4. puts[at(m, d, i)].win = row[4]
    BY <2>3 DEF Ros!NewShift
  <2> QED BY <2>2, <2>4, <1>18, FitsSame
<1>27. RosterWriteOK(s, puts, r)
  <2>1. Calm(old, new) /\ \A l \in RosterLines : Places(new, l) = Places(old, l)
    BY <1>9, <1>18, SameExceptions
  <2>2. puts[Ros!RosterDoc(r)] = new /\ s[Ros!RosterDoc(r)] = old
    BY <1>8 DEF old
  <2>3. old.status = "DRAFT"
    BY <1>1 DEF old
  <2> HIDE DEF doc
  <2> QED BY <2>1, <2>2, <2>3, <1>18, <1>25, <1>26 DEF RosterWriteOK, at
<1>28. RostersSound(s, puts)
  <2>1. \A q \in Rosters, m \in Members, d \in RosterDays, i \in Ros!Slots :
          Ros!Generated(q, m, d, i) \in DOMAIN puts => Ros!RosterDoc(q) \in DOMAIN puts
    BY <1>8, <1>23
  <2>2. \A q \in Rosters : Ros!RosterDoc(q) \in DOMAIN puts => RosterWriteOK(s, puts, q)
    BY <1>23, <1>27
  <2> HIDE DEF doc
  <2> QED BY <2>1, <2>2, <1>22, <1>23, <1>24 DEF RostersSound
<1> QED BY <1>2, <1>28, RostersCommit
-----------------------------------------------------------------------------
(* Lines.                                                                  *)

WithRosterLine(s, l, line) == [s EXCEPT ![Ros!LineDoc(l)] = line]

\* The line, and its batch with it.
RosterLinePut(puts, s, l, line) ==
  /\ {Ros!LineDoc(l), Ros!BatchDoc(RosterBatch[l])} \subseteq DOMAIN puts
  /\ puts[Ros!LineDoc(l)] = line
  /\ puts[Ros!BatchDoc(RosterBatch[l])] =
       Ros!Summary(WithRosterLine(s, l, line), RosterBatch[l])

LEMMA RosterPutLineDocs ==
  ASSUME NEW s, NEW l \in RosterLines, NEW line, NEW puts, puts = Ros!PutLine(s, l, line)
  PROVE  /\ DOMAIN puts = {Ros!LineDoc(l), Ros!BatchDoc(RosterBatch[l])}
         /\ RosterLinePut(puts, s, l, line)
<1> DEFINE b == RosterBatch[l]
           sum == Ros!Summary(WithRosterLine(s, l, line), b)
           p == Ros!:>(Ros!LineDoc(l), line)
           q == Ros!:>(Ros!BatchDoc(b), sum)
<1>1. Ros!PutLine(s, l, line) = Ros!@@(p, q)
  BY DEF Ros!PutLine, WithRosterLine
<1> HIDE DEF sum
<1>2. /\ DOMAIN p = {Ros!LineDoc(l)} /\ p[Ros!LineDoc(l)] = line
      /\ DOMAIN q = {Ros!BatchDoc(b)} /\ q[Ros!BatchDoc(b)] = sum
  BY RostersPut
<1> HIDE DEF p, q
<1>3. /\ DOMAIN Ros!@@(p, q) = DOMAIN p \cup DOMAIN q
      /\ \A d \in DOMAIN p : Ros!@@(p, q)[d] = p[d]
      /\ \A d \in DOMAIN q : d \notin DOMAIN p => Ros!@@(p, q)[d] = q[d]
  BY RostersOver
<1>4. Ros!LineDoc(l) # Ros!BatchDoc(b)
  BY RosterTags
<1> QED BY <1>1, <1>2, <1>3, <1>4 DEF sum, RosterLinePut

\* A transaction that decides one line, with what it does to a roster.
LEMMA RosterLineCommit ==
  ASSUME RostersInv, NEW c \in Clients \cup {"now"}, Able(c), NEW l \in RosterLines,
         NEW line, NEW puts, Committed(Ros!Docs, c, puts),
         DOMAIN puts \subseteq {Ros!LineDoc(l), Ros!BatchDoc(RosterBatch[l])}
           \cup {Ros!RosterDoc(q) : q \in Rosters},
         RosterLinePut(puts, Sees(c), l, line),
         \A q \in Rosters : Ros!RosterDoc(q) \in DOMAIN puts =>
           RosterWriteOK(Sees(c), puts, q),
         RosterLineWriteOK(Sees(c), puts, l)
  PROVE  RostersInv' /\ RostersFine
<1> DEFINE s == Sees(c)
           b == RosterBatch[l]
           docs == DOMAIN puts
<1>1. s = [d \in Ros!Docs |-> s[d]]
  BY RostersSees
<1> HIDE DEF s
<1>2. docs \subseteq Ros!Docs
  <2>1. {Ros!RosterDoc(q) : q \in Rosters} \subseteq Ros!Docs
    BY RostersDocs
  <2>2. {Ros!LineDoc(l), Ros!BatchDoc(b)} \subseteq Ros!Docs
    BY RostersDocs
  <2> QED BY <2>1, <2>2
<1>3. \A x \in docs : \/ x = Ros!LineDoc(l) /\ x[1] = "line"
                      \/ x = Ros!BatchDoc(b) /\ x[1] = "batch"
                      \/ x[1] = "roster"
  BY RosterTags
<1> HIDE DEF docs, b
<1>4. /\ \A x \in Ros!ShiftDocs : x \notin docs
      /\ \A q, m, d, i : Ros!Generated(q, m, d, i) \notin docs
      /\ \A o : Ros!LineDoc(o) \in docs => o = l
      /\ \A a : Ros!BatchDoc(a) \in docs => a = b
  <2>1. \A x \in Ros!ShiftDocs : x[1] # "roster" /\ x[1] # "line" /\ x[1] # "batch"
    BY RosterTags
  <2>2. \A o : Ros!LineDoc(o) \in docs => o = l
    BY <1>3, RosterTags, RosterNames
  <2>3. \A a : Ros!BatchDoc(a) \in docs => a = b
    BY <1>3, RosterTags, RosterNames
  <2> QED BY <2>1, <2>2, <2>3, <1>3, RosterTags
<1>5. /\ Ros!LineDoc(l) \in docs /\ Ros!BatchDoc(b) \in docs
      /\ puts[Ros!LineDoc(l)] = line
      /\ puts[Ros!BatchDoc(b)] = Ros!Summary(WithRosterLine(s, l, line), b)
  BY DEF RosterLinePut, docs, b, s
<1>6. Ros!Summary(WithRosterLine(s, l, line), b) = Ros!Summary(RostersAfter(s, puts), b)
  <2>1. ASSUME NEW o \in Ros!LinesOf(b)
        PROVE  WithRosterLine(s, l, line)[Ros!LineDoc(o)] = RostersAfter(s, puts)[Ros!LineDoc(o)]
    <3>1. o \in RosterLines /\ Ros!LineDoc(o) \in Ros!Docs
      BY RostersDocs DEF Ros!LinesOf
    <3>2. Ros!LineDoc(o) = Ros!LineDoc(l) => o = l
      BY RosterNames
    <3>3. Ros!LineDoc(o) \in DOMAIN s
      BY <1>1, <3>1
    <3>4. RostersAfter(s, puts)[Ros!LineDoc(o)] =
            IF Ros!LineDoc(o) \in docs THEN puts[Ros!LineDoc(o)] ELSE s[Ros!LineDoc(o)]
      BY <3>1 DEF RostersAfter, docs
    <3>5. WithRosterLine(s, l, line)[Ros!LineDoc(o)] =
            IF Ros!LineDoc(o) = Ros!LineDoc(l) THEN line ELSE s[Ros!LineDoc(o)]
      BY <3>3 DEF WithRosterLine
    <3> QED BY <1>4, <1>5, <3>2, <3>4, <3>5
  <2> DEFINE t == WithRosterLine(s, l, line)
             u == RostersAfter(s, puts)
  <2>2. \A o \in Ros!LinesOf(b) : t[Ros!LineDoc(o)].status = u[Ros!LineDoc(o)].status
    BY <2>1
  <2> HIDE DEF t, u
  <2>3. Ros!Summary(t, b) = Ros!Summary(u, b)
    BY <2>2, RosterSummarySame
  <2> QED BY <2>3 DEF t, u
<1>7. RostersSound(s, puts)
  BY <1>2, <1>4, <1>5, <1>6 DEF RostersSound, docs, s
<1> QED BY <1>7, RostersCommit DEF s

LEMMA RosterLineKnown ==
  ASSUME RostersInv, NEW c \in Clients \cup {"now"}, Able(c), NEW l \in RosterLines,
         NEW puts, Committed(Ros!Docs, c, puts), Ros!LineDoc(l) \in DOMAIN puts,
         Sees(c)[Ros!LineDoc(l)].status # "none"
  PROVE  RosterLineOK(Sees(c)[Ros!LineDoc(l)])
<1>1. Sees(c)[Ros!LineDoc(l)] = db[Ros!LineDoc(l)]
  BY WrittenKnown, RostersDocs
<1> QED BY <1>1 DEF RostersInv, RostersOK, Ros!Nothing

LEMMA RosterDecidedLine ==
  ASSUME NEW x, RosterLineOK(x), NEW to \in {"APPROVED", "REJECTED", "CANCELLED"},
         to = "APPROVED" => Ros!Cardinality(x.days) = 1
  PROVE  RosterLineOK([x EXCEPT !.status = to]) /\ [x EXCEPT !.status = to].status = to
  BY DEF RosterLineOK

LEMMA RosterRefuseKeeps ==
  ASSUME RostersInv, NEW c \in Clients \cup {"now"}, NEW l \in RosterLines,
         NEW to \in {"REJECTED", "CANCELLED"}, Ros!Refuse(c, l, to)
  PROVE  RostersInv' /\ RostersFine
<1> DEFINE s == Sees(c)
           x == s[Ros!LineDoc(l)]
           line == [x EXCEPT !.status = to]
           puts == Ros!PutLine(s, l, line)
<1>1. Ros!Ready(c) /\ Ros!Commit(c, puts) /\ x.status = "PENDING"
  BY RostersTxn DEF Ros!Refuse, Ros!Line
<1>2. Able(c) /\ Committed(Ros!Docs, c, puts)
  BY <1>1, RosterRight
<1> HIDE DEF line
<1>3. /\ DOMAIN puts = {Ros!LineDoc(l), Ros!BatchDoc(RosterBatch[l])}
      /\ RosterLinePut(puts, s, l, line)
  BY RosterPutLineDocs
<1> HIDE DEF puts
<1>4. RosterLineOK(x)
  BY <1>1, <1>2, <1>3, RosterLineKnown
<1> HIDE DEF x
<1>5. RosterLineOK(line) /\ line.status = to
  BY <1>4, RosterDecidedLine DEF line
<1>6. \A q : Ros!RosterDoc(q) \notin DOMAIN puts
  <2>1. \A q : /\ Ros!RosterDoc(q) # Ros!LineDoc(l)
               /\ Ros!RosterDoc(q) # Ros!BatchDoc(RosterBatch[l])
    BY RosterTags
  <2> QED BY <2>1, <1>3
<1> HIDE DEF s
<1>7. RosterLineWriteOK(s, puts, l)
  BY <1>1, <1>3, <1>5, <1>6 DEF RosterLineWriteOK, RosterLinePut, x
<1> QED BY <1>2, <1>3, <1>6, <1>7, RosterLineCommit DEF s

LEMMA ApplyLineKeeps ==
  ASSUME RostersInv, NEW c \in Clients \cup {"now"}, NEW l \in RosterLines,
         NEW r \in Rosters, Ros!ApplyLine(c, l, r)
  PROVE  RostersInv' /\ RostersFine
<1> DEFINE s == Sees(c)
           doc == Ros!RosterDoc(r)
           old == s[doc]
           x == s[Ros!LineDoc(l)]
           line == [x EXCEPT !.status = "APPROVED"]
           of(d) == [member |-> x.member, day |-> d, kind |-> x.kind]
           lines == Ros!PutLine(s, l, line)
           two(d) == Ros!@@(Ros!:>(doc, Ros!Added(old, of(d), l)), lines)
<1>1. PICK d \in x.days :
        /\ Ros!Ready(c) /\ x.status = "PENDING"
        /\ old.status = "DRAFT" /\ Ros!Room(old)
        /\ x.member \in Ros!Eligible(s)
        /\ Ros!Cardinality(x.days) = 1
        /\ d \in RosterDays
        /\ ~Ros!Contradicts(old, 0, of(d))
        /\ Ros!Commit(c, two(d))
  BY RostersTxn DEF Ros!ApplyLine, Ros!Draft, Ros!Roster, Ros!Line
<1> DEFINE intent == of(d)
           new == Ros!Added(old, intent, l)
           one == Ros!:>(doc, new)
           puts == Ros!@@(one, lines)
<1>2. Able(c) /\ Committed(Ros!Docs, c, puts)
  BY <1>1, RosterRight
<1> HIDE DEF line
<1>3. /\ DOMAIN lines = {Ros!LineDoc(l), Ros!BatchDoc(RosterBatch[l])}
      /\ RosterLinePut(lines, s, l, line)
  BY RosterPutLineDocs
<1> HIDE DEF lines, new
<1>4. DOMAIN one = {doc} /\ one[doc] = new
  BY RostersPut
<1> HIDE DEF one
<1>5. /\ DOMAIN puts = DOMAIN one \cup DOMAIN lines
      /\ \A y \in DOMAIN one : puts[y] = one[y]
      /\ \A y \in DOMAIN lines : y \notin DOMAIN one => puts[y] = lines[y]
  BY RostersOver
<1> HIDE DEF puts
<1>6. \A q : /\ Ros!RosterDoc(q) # Ros!LineDoc(l)
             /\ Ros!RosterDoc(q) # Ros!BatchDoc(RosterBatch[l])
  BY RosterTags
<1>7. /\ DOMAIN puts = {doc, Ros!LineDoc(l), Ros!BatchDoc(RosterBatch[l])}
      /\ puts[doc] = new
      /\ RosterLinePut(puts, s, l, line)
  BY <1>3, <1>4, <1>5, <1>6 DEF RosterLinePut
<1>8. RosterLineOK(x)
  BY <1>1, <1>2, <1>7, RosterLineKnown
<1>9. old \in RosterType
  BY <1>1, <1>2, <1>7, RosterKnown
<1>10. intent \in Ros!Intents
  <2>1. x.member \in Members /\ x.kind \in {"WORKING_TO_OFF", "CHANGE_TIME"}
    BY <1>1, <1>8 DEF Ros!Eligible, RosterLineOK
  <2> HIDE DEF x
  <2> QED BY <2>1, <1>1 DEF Ros!Intents
<1>11. Ros!Room(old) /\ ~Ros!Contradicts(old, 0, intent) /\ new = Ros!Added(old, intent, l)
  BY <1>1 DEF new
<1> HIDE DEF old, intent
<1>12. /\ new \in RosterType /\ new.status = old.status
       /\ Calm(old, new)
       /\ Len(old.exceptions) + 1 \in 1..MaxExceptions
       /\ \A k \in RosterLines : Places(new, k) =
            Places(old, k) \cup IF k = l THEN {Len(old.exceptions) + 1} ELSE {}
  BY <1>9, <1>10, <1>11, AddedKeeps
<1>13. RosterLineOK(line) /\ line.status = "APPROVED"
  BY <1>1, <1>8, RosterDecidedLine DEF line
<1>14. /\ \A q : Ros!RosterDoc(q) \in DOMAIN puts => q = r
       /\ \A q, m, e, i : Ros!Generated(q, m, e, i) \notin DOMAIN puts
       /\ \A k : Ros!LineDoc(k) \in DOMAIN puts => k = l
       /\ Ros!LineDoc(l) \in DOMAIN puts
  <2>1. \A q, m, e, i : /\ Ros!Generated(q, m, e, i) # doc
                        /\ Ros!Generated(q, m, e, i) # Ros!LineDoc(l)
                        /\ Ros!Generated(q, m, e, i) # Ros!BatchDoc(RosterBatch[l])
    BY RosterTags
  <2>2. \A k : /\ Ros!LineDoc(k) # doc
               /\ Ros!LineDoc(k) # Ros!BatchDoc(RosterBatch[l])
    BY RosterTags
  <2>3. \A q : Ros!RosterDoc(q) \in DOMAIN puts => q = r
    BY <1>6, <1>7, RosterNames
  <2>4. \A k : Ros!LineDoc(k) \in DOMAIN puts => k = l
    BY <2>2, <1>7, RosterNames
  <2> QED BY <2>1, <2>3, <2>4, <1>7
<1>15. RosterWriteOK(s, puts, r)
  <2>1. \A k \in RosterLines : Ros!LineDoc(k) \notin DOMAIN puts => Places(new, k) = Places(old, k)
    BY <1>12, <1>14
  <2>2. puts[Ros!RosterDoc(r)] = new /\ s[Ros!RosterDoc(r)] = old
    BY <1>7 DEF old
  <2>3. old.status = "DRAFT"
    BY <1>1 DEF old
  <2> HIDE DEF doc, s
  <2> QED BY <2>1, <2>2, <2>3, <1>12, <1>14 DEF RosterWriteOK
<1>16. RosterLineWriteOK(s, puts, l)
  <2>1. /\ puts[Ros!RosterDoc(r)] = new /\ s[Ros!RosterDoc(r)] = old
        /\ Ros!RosterDoc(r) \in DOMAIN puts
        /\ Ros!BatchDoc(RosterBatch[l]) \in DOMAIN puts
        /\ puts[Ros!LineDoc(l)] = line
    BY <1>7 DEF old, RosterLinePut
  <2>2. s[Ros!LineDoc(l)].status # "APPROVED"
    BY <1>1
  <2>3. Places(old, l) = {} => \E i \in 1..MaxExceptions : Places(new, l) = {i}
    BY <1>12
  <2> HIDE DEF s, doc
  <2> QED BY <2>1, <2>2, <2>3, <1>13, <1>14 DEF RosterLineWriteOK
<1>17. DOMAIN puts \subseteq {Ros!LineDoc(l), Ros!BatchDoc(RosterBatch[l])}
         \cup {Ros!RosterDoc(q) : q \in Rosters}
  BY <1>7
<1>18. \A q \in Rosters : Ros!RosterDoc(q) \in DOMAIN puts => RosterWriteOK(s, puts, q)
  BY <1>14, <1>15
<1> HIDE DEF s
<1> QED BY <1>2, <1>7, <1>16, <1>17, <1>18, RosterLineCommit DEF s

LEMMA RosterSubmitKeeps ==
  ASSUME RostersInv, NEW c \in Clients \cup {"now"}, NEW b \in Ros!Batches,
         NEW requests \in [Ros!LinesOf(b) -> Ros!Requests], Ros!SubmitBatch(c, b, requests)
  PROVE  RostersInv' /\ RostersFine
<1> DEFINE s == Sees(c)
           docs == {Ros!LineDoc(l) : l \in Ros!LinesOf(b)}
           pending == [status |-> "PENDING"]
           first == [x \in docs |-> Ros!@@(requests[x[2]], pending)]
           batch == [status |-> "PENDING", pending |-> Ros!Cardinality(Ros!LinesOf(b))]
           second == Ros!:>(Ros!BatchDoc(b), batch)
           puts == Ros!@@(first, second)
<1>1. /\ Ros!Ready(c) /\ Ros!Commit(c, puts)
      /\ db[Ros!BatchDoc(b)] = Ros!Nothing
  BY DEF Ros!SubmitBatch
<1>2. Able(c) /\ Committed(Ros!Docs, c, puts)
  BY <1>1, RosterRight
<1>3. \A l \in Ros!LinesOf(b) : l \in RosterLines /\ RosterBatch[l] = b
  BY DEF Ros!LinesOf
<1>4. ASSUME NEW l \in Ros!LinesOf(b)
      PROVE  /\ RosterLineOK(Ros!@@(requests[l], pending))
             /\ Ros!@@(requests[l], pending).status = "PENDING"
  <2> DEFINE request == requests[l]
             line == Ros!@@(request, pending)
  <2>1. /\ DOMAIN request = {"member", "days", "kind"}
        /\ request.days \in Ranges /\ request.kind \in {"WORKING_TO_OFF", "CHANGE_TIME"}
    BY DEF Ros!Requests
  <2>2. DOMAIN pending = {"status"} /\ pending.status = "PENDING"
    OBVIOUS
  <2> HIDE DEF request, pending
  <2>3. /\ line = [d \in DOMAIN line |-> line[d]]
        /\ DOMAIN line = DOMAIN request \cup DOMAIN pending
        /\ \A d \in DOMAIN request : line[d] = request[d]
        /\ \A d \in DOMAIN pending : d \notin DOMAIN request => line[d] = pending[d]
    BY DEF Ros!@@
  <2> HIDE DEF line
  <2>4. RosterLineOK(line) /\ line.status = "PENDING"
    BY <2>1, <2>2, <2>3 DEF RosterLineOK
  <2> QED BY <2>4 DEF line, request
<1>5. \A l \in Ros!LinesOf(b) : /\ Ros!LineDoc(l) \in docs
                                /\ first[Ros!LineDoc(l)] = Ros!@@(requests[l], pending)
  BY DEF Ros!LineDoc
<1>6. DOMAIN first = docs
  OBVIOUS
<1>7. DOMAIN second = {Ros!BatchDoc(b)} /\ second[Ros!BatchDoc(b)] = batch
  BY RostersPut
<1> HIDE DEF s, first, second, batch, pending
<1>8. /\ DOMAIN puts = DOMAIN first \cup DOMAIN second
      /\ \A d \in DOMAIN first : puts[d] = first[d]
      /\ \A d \in DOMAIN second : d \notin DOMAIN first => puts[d] = second[d]
  BY RostersOver
<1> HIDE DEF puts
<1>9. \A l \in Ros!LinesOf(b) : /\ Ros!LineDoc(l) \in DOMAIN puts
                                /\ RosterLineOK(puts[Ros!LineDoc(l)])
                                /\ puts[Ros!LineDoc(l)].status = "PENDING"
  BY <1>4, <1>5, <1>6, <1>8
<1>10. /\ \A x \in docs : x[1] = "line"
       /\ \A l : Ros!LineDoc(l) \in docs => l \in Ros!LinesOf(b)
       /\ docs \subseteq Ros!Docs
  BY <1>3, RostersDocs, RosterTags, RosterNames
<1> HIDE DEF docs
<1>11. \A x \in DOMAIN puts : \/ x[1] = "line" /\ x \in docs
                              \/ x = Ros!BatchDoc(b) /\ x[1] = "batch"
  <2>1. \A x \in DOMAIN puts : x \in docs \/ x = Ros!BatchDoc(b)
    BY ONLY <1>6, <1>7, <1>8
  <2>2. Ros!BatchDoc(b)[1] = "batch"
    BY RosterTags
  <2> QED BY <2>1, <2>2, <1>10
<1>12. /\ DOMAIN puts \subseteq Ros!Docs
       /\ Ros!BatchDoc(b) \in DOMAIN puts /\ puts[Ros!BatchDoc(b)] = batch
  <2>1. Ros!BatchDoc(b) \notin docs
    BY <1>10, RosterTags
  <2> QED BY <2>1, <1>6, <1>7, <1>8, <1>10, RostersDocs
<1>13. /\ \A x \in Ros!ShiftDocs : x \notin DOMAIN puts
       /\ \A q, m, d, i : Ros!Generated(q, m, d, i) \notin DOMAIN puts
       /\ \A q : Ros!RosterDoc(q) \notin DOMAIN puts
       /\ \A l : Ros!LineDoc(l) \in DOMAIN puts => l \in Ros!LinesOf(b)
       /\ \A a : Ros!BatchDoc(a) \in DOMAIN puts => a = b
  <2>1. \A x \in Ros!ShiftDocs : x[1] # "line" /\ x[1] # "batch"
    BY RosterTags
  <2>2. \A l : Ros!LineDoc(l) \in DOMAIN puts => l \in Ros!LinesOf(b)
    BY <1>10, <1>11, RosterTags
  <2>3. \A a : Ros!BatchDoc(a) \in DOMAIN puts => a = b
    BY <1>11, RosterTags, RosterNames
  <2> QED BY <2>1, <2>2, <2>3, <1>11, RosterTags
<1>14. Ros!Summary(RostersAfter(s, puts), b) = batch
  <2> DEFINE t == RostersAfter(s, puts)
  <2>1. \A l \in Ros!LinesOf(b) : t[Ros!LineDoc(l)].status = "PENDING"
    BY <1>3, <1>9, RostersDocs DEF RostersAfter
  <2> HIDE DEF t
  <2>2. Ros!LinesOf(b) # {}
    BY DEF Ros!LinesOf, Ros!Batches
  <2>3. /\ Ros!Having(t, b, "PENDING") = Ros!LinesOf(b)
        /\ Ros!Having(t, b, "CANCELLED") = {} /\ Ros!Having(t, b, "APPROVED") = {}
    BY <2>1 DEF Ros!Having, Ros!Line
  <2>4. Ros!Outcome(t, b) = "PENDING"
    BY <2>2, <2>3 DEF Ros!Outcome
  <2> QED BY <2>3, <2>4 DEF Ros!Summary, batch, t
<1>15. ASSUME NEW l \in RosterLines, Ros!LineDoc(l) \in DOMAIN puts
       PROVE  RosterLineWriteOK(s, puts, l)
  <2>1. l \in Ros!LinesOf(b) /\ RosterBatch[l] = b
    BY <1>3, <1>13, <1>15
  <2>2. s[Ros!LineDoc(l)] = db[Ros!LineDoc(l)]
    BY <1>2, <1>15, WrittenKnown, RostersDocs DEF s
  <2>3. db[Ros!LineDoc(l)] = Ros!Nothing
    BY <2>1, <1>1 DEF RostersInv, RostersOK
  <2>4. s[Ros!LineDoc(l)].status # "APPROVED"
    BY <2>2, <2>3 DEF Ros!Nothing
  <2> QED BY <2>1, <2>4, <1>9, <1>12, <1>13 DEF RosterLineWriteOK
<1>16. RostersSound(s, puts)
  BY <1>12, <1>13, <1>14, <1>15 DEF RostersSound
<1> QED BY <1>2, <1>16, RostersCommit DEF s
-----------------------------------------------------------------------------
(* What rosters leave on record.                                           *)

LEMMA RostersSame ==
  ASSUME RostersInv, Taken(Ros!Docs)', db' = db,
         \A c \in Clients : /\ Open(c)' => RostersAged(c)'
                            /\ ~Open(c)' => missed'[c] = {}
  PROVE  RostersInv' /\ RostersFine
<1>1. RostersOK(db)'
  <2>1. RostersOK(db')
    BY DEF RostersInv
  <2> QED BY <2>1 DEF RostersOK, RosterKeeps, LineStands
<1>2. Ros!ContradictsByMishitStep
  BY DEF Ros!ContradictsByMishitStep, Ros!Roster
<1>3. Ros!DoubleDutyLateStep
  BY DEF Ros!DoubleDutyLateStep, Ros!Clash, Ros!OnDuty
<1> QED BY <1>1, <1>2, <1>3 DEF RostersInv, RostersFine

LEMMA RostersNext ==
  ASSUME RostersInv, [Ros!Next]_(Ros!txnVars)
  PROVE  RostersInv' /\ RostersFine
<1>1. ASSUME NEW c \in Clients \cup {"now"}, NEW r \in Rosters, Ros!RosterStep(c, r)
      PROVE  RostersInv' /\ RostersFine
  BY <1>1, CreateRosterKeeps, UpdateDraftKeeps, ArchiveRosterKeeps, PublishKeeps,
     AddExceptionKeeps, UpdateExceptionKeeps, RemoveExceptionKeeps, ApplyLineKeeps
     DEF Ros!RosterStep
<1>2. ASSUME NEW c \in Clients, Ros!Begin(c)
      PROVE  RostersInv' /\ RostersFine
  <2>1. Begun(c)
    BY <1>2, RostersTxn
  <2>2. /\ Taken(Ros!Docs)' /\ db' = db
        /\ \A o \in Clients : Open(o)' => snap'[o] = IF o = c THEN db ELSE snap[o]
        /\ \A o \in Clients : Open(o)' /\ o # c => Open(o) /\ missed'[o] = missed[o]
    BY <2>1, BeginTaken DEF RostersInv
  <2>3. missed' = missed /\ missed[c] = {} /\ \A o \in Clients : ~Open(o)' => ~Open(o)
    BY <2>1 DEF Begun, RostersInv, Open, Taken
  <2>4. ASSUME NEW o \in Clients, Open(o)' PROVE RostersAged(o)'
    <3>1. CASE o = c
      <4>1. snap'[c] = db /\ missed'[c] = {}
        BY <2>2, <2>3, <2>4, <3>1
      <4> QED BY <4>1, <3>1, <2>2 DEF RostersAged
    <3>2. CASE o # c
      BY <3>2, <2>2, <2>4 DEF RostersInv, RostersAged, Counted
    <3> QED BY <3>1, <3>2
  <2>5. \A o \in Clients : ~Open(o)' => missed'[o] = {}
    BY <2>3 DEF RostersInv
  <2> QED BY <2>2, <2>4, <2>5, RostersSame
<1>3. CASE UNCHANGED <<db, snap, missed>>
  <2>1. /\ Taken(Ros!Docs)'
        /\ \A o \in Clients : Open(o)' =>
             Open(o) /\ snap'[o] = snap[o] /\ missed'[o] = missed[o]
    BY <1>3, IdleTaken DEF RostersInv
  <2>2. \A o \in Clients : Open(o)' => RostersAged(o)'
    BY <2>1, <1>3 DEF RostersInv, RostersAged, Counted
  <2>3. \A o \in Clients : ~Open(o)' => missed'[o] = {}
    BY <1>3 DEF RostersInv, Open
  <2> QED BY <2>1, <2>2, <2>3, <1>3, RostersSame
<1>4. ASSUME NEW c \in Clients, Ros!Abort(c)
      PROVE  RostersInv' /\ RostersFine
  <2>1. Aborted(c)
    BY <1>4, RostersTxn
  <2>2. /\ Taken(Ros!Docs)' /\ db' = db
        /\ \A o \in Clients : Open(o)' =>
             Open(o) /\ snap'[o] = snap[o] /\ missed'[o] = missed[o]
    BY <2>1, AbortTaken DEF RostersInv
  <2>3. \A o \in Clients : Open(o)' => RostersAged(o)'
    BY <2>2 DEF RostersInv, RostersAged, Counted
  <2>4. \A o \in Clients : ~Open(o)' => missed'[o] = {}
    BY <2>1 DEF Aborted, RostersInv, Open, Taken
  <2> QED BY <2>2, <2>3, <2>4, RostersSame
<1>5. ASSUME NEW c \in Clients \cup {"now"},
             \/ \E holidays \in SUBSET RosterDays : Ros!ChangeCalendar(c, holidays)
             \/ \E m \in Members : Ros!ChangeMember(c, m)
             \/ \E k \in OwnShifts, m \in Members, d \in RosterDays, kind \in DOMAIN Hours,
                  code \in {"generated", "own"} :
                  Ros!CreateShift(c, k, m, d, Hours[kind], code)
             \/ \E x \in Ros!ShiftDocs : Ros!CancelShift(c, x)
      PROVE  RostersInv' /\ RostersFine
  BY <1>5, CalendarKeeps, MemberKeeps, DutyCreateKeeps, DutyCancelKeeps
<1>6. ASSUME NEW c \in Clients \cup {"now"},
             \/ \E b \in Ros!Batches : \E requests \in [Ros!LinesOf(b) -> Ros!Requests] :
                  Ros!SubmitBatch(c, b, requests)
             \/ \E l \in RosterLines, to \in {"REJECTED", "CANCELLED"} : Ros!Refuse(c, l, to)
      PROVE  RostersInv' /\ RostersFine
  BY <1>6, RosterSubmitKeeps, RosterRefuseKeeps
<1> QED BY <1>1, <1>2, <1>3, <1>4, <1>5, <1>6, RostersTxn DEF Ros!Next, Ros!txnVars

LEMMA RostersInit == Ros!Init => RostersInv
<1> SUFFICES ASSUME Ros!Init PROVE RostersInv
  OBVIOUS
<1>1. /\ db = [x \in Ros!Docs |-> db[x]]
      /\ \A x \in Ros!Docs : x[1] \in {"own", "generated", "roster", "line", "batch"} =>
           db[x] = Ros!Nothing
      /\ snap = [c \in Clients |-> <<>>] /\ missed = [c \in Clients |-> {}]
  BY RosterTags DEF Ros!Init, Ros!TxnInit, Ros!NoSnapshot
<1>2. Taken(Ros!Docs)
  BY <1>1 DEF Taken, Open
<1>3. /\ \A x \in Ros!ShiftDocs : db[x] = Ros!Nothing
      /\ \A r \in Rosters : db[Ros!RosterDoc(r)] = Ros!Nothing
      /\ \A l \in RosterLines : db[Ros!LineDoc(l)] = Ros!Nothing
      /\ \A b \in Ros!Batches : db[Ros!BatchDoc(b)] = Ros!Nothing
  BY <1>1, RostersDocs, RosterTags
<1>4. \A r \in Rosters : RosterKeeps(db, r)
  BY <1>3, RostersDocs DEF RosterKeeps, Ros!Nothing
<1>5. \A l \in RosterLines : LineStands(db, l)
  BY <1>3 DEF LineStands, Places, Ros!Nothing
<1>6. RostersOK(db)
  BY <1>3, <1>4, <1>5 DEF RostersOK
<1>7. \A c \in Clients : ~Open(c) /\ missed[c] = {}
  BY <1>1 DEF Open
<1> QED BY <1>2, <1>6, <1>7 DEF RostersInv

LEMMA PartIsRosters == Spec => [](Rostering => RostersInv)
<1>1. Init => (Rostering => RostersInv)
  BY RostersInit DEF Init, Rostering
<1>2. (Rostering => RostersInv) /\ [Next]_vars => (Rostering => RostersInv)'
  <2> SUFFICES ASSUME Rostering => RostersInv, [Next]_vars, Rostering'
               PROVE  RostersInv'
    OBVIOUS
  <2>1. Rostering /\ [Ros!Next]_(Ros!txnVars)
    BY DEF Next, vars, Ros!txnVars, Rostering
  <2> QED BY <2>1, RostersNext
<1> QED BY <1>1, <1>2, PTL DEF Spec

LEMMA RostersTell ==
  ASSUME RostersInv
  PROVE  Ros!RostersKeepIntents /\ Ros!LinesTellRosters
<1>1. ASSUME NEW r \in Rosters
      PROVE  Ros!KeepsIntents(r)
  <2>1. RosterKeeps(db, r)
    BY DEF RostersInv, RostersOK
  <2>2. \A m \in Members, d \in RosterDays, i \in Ros!Slots :
          db[Ros!Generated(r, m, d, i)] # Ros!Nothing =>
            /\ Ros!Roster(db, r).status \in {"PUBLISHED", "ARCHIVED"}
            /\ Fits(Ros!Roster(db, r), db[Ros!Generated(r, m, d, i)].win, m, d, i)
    BY <2>1 DEF RosterKeeps, Ros!Roster
  <2>3. Ros!Roster(db, r).status = "PUBLISHED" =>
          \A i \in Ros!Active(Ros!Roster(db, r)) :
            Ros!Roster(db, r).exceptions[i].kind # "WORKING_TO_OFF" =>
              db[ShiftOf(r, Ros!Roster(db, r), i)] # Ros!Nothing
    BY <2>1 DEF RosterKeeps, Ros!Roster
  <2> QED BY <2>2, <2>3 DEF Ros!KeepsIntents, Fits, ShiftOf
<1>2. \A b \in Ros!Batches : db[Ros!BatchDoc(b)] # Ros!Nothing =>
        db[Ros!BatchDoc(b)] = Ros!Summary(db, b)
  BY DEF RostersInv, RostersOK
<1>3. ASSUME NEW l \in RosterLines, NEW made,
             made = {at \in Rosters \X (1..MaxExceptions) :
               /\ Ros!Roster(db, at[1]) # Ros!Nothing
               /\ at[2] \in DOMAIN Ros!Roster(db, at[1]).exceptions
               /\ Ros!Roster(db, at[1]).exceptions[at[2]].line = l}
      PROVE  /\ Ros!Cardinality(made) = IF Ros!Line(db, l).status = "APPROVED" THEN 1 ELSE 0
             /\ Ros!Line(db, l).status = "APPROVED" =>
                  Ros!Cardinality(Ros!Line(db, l).days) = 1
  <2>1. /\ LineStands(db, l)
        /\ Ros!Line(db, l) # Ros!Nothing => RosterLineOK(Ros!Line(db, l))
    BY DEF RostersInv, RostersOK, Ros!Line
  <2>2. made = {at \in Rosters \X (1..MaxExceptions) :
                  at[2] \in Places(Ros!Roster(db, at[1]), l)}
    BY <1>3 DEF Places
  <2>3. CASE Ros!Line(db, l).status = "APPROVED"
    <3>1. PICK r \in Rosters, i \in 1..MaxExceptions :
            \A q \in Rosters : Places(Ros!Roster(db, q), l) = IF q = r THEN {i} ELSE {}
      BY <2>1, <2>3 DEF LineStands, Ros!Line, Ros!Roster
    <3>2. \A at \in Rosters \X (1..MaxExceptions) :
            /\ at[1] \in Rosters /\ at = <<at[1], at[2]>>
            /\ at[2] \in Places(Ros!Roster(db, at[1]), l) <=> at[1] = r /\ at[2] = i
      BY <3>1
    <3>3. made = {<<r, i>>}
      BY <3>2, <2>2
    <3>4. Ros!Cardinality(made) = 1
      BY <3>3, FS_Singleton, RosterCount
    <3>5. Ros!Line(db, l) # Ros!Nothing
      BY <2>3 DEF Ros!Nothing
    <3> QED BY <3>4, <3>5, <2>1, <2>3 DEF RosterLineOK
  <2>4. CASE Ros!Line(db, l).status # "APPROVED"
    <3>1. \A q \in Rosters : Places(Ros!Roster(db, q), l) = {}
      BY <2>1, <2>4 DEF LineStands, Ros!Line, Ros!Roster
    <3>2. made = {}
      BY <3>1, <2>2
    <3> QED BY <3>2, <2>4, FS_EmptySet, RosterCount
  <2> QED BY <2>3, <2>4
<1> QED BY <1>1, <1>2, <1>3 DEF Ros!RostersKeepIntents, Ros!LinesTellRosters

\* Whatever rosters, exceptions, lines and shifts there are and however many
\* edits of a draft overlap its publication: a published roster has the shifts
\* its exceptions say (buildPreviewRows), and an approved line stands in one
\* roster, once (applyAvailabilityLinesToMonthlyRoster).
THEOREM RostersHold == Spec => []RostersKeepLines
<1>1. (Rostering => RostersInv) => RostersKeepLines
  BY RostersTell DEF RostersKeepLines
<1> QED BY <1>1, PartIsRosters, PTL

\* A roster comes to contradict itself only by the positional update of its
\* exceptions, and nobody comes to be on duty twice at one time but by a
\* transaction that was overtaken and the code counter did not stop.
THEOREM DutiesClash == Spec => ClashingDutiesForCause
<1>1. (Rostering => RostersInv) /\ [Next]_vars => [Rostering => RostersFine]_vars
  <2> SUFFICES ASSUME Rostering, RostersInv, [Next]_vars PROVE RostersFine
    OBVIOUS
  <2>1. [Ros!Next]_(Ros!txnVars)
    BY DEF Next, vars, Ros!txnVars, Rostering
  <2> QED BY <2>1, RostersNext
<1>2. Spec => [][Rostering => RostersFine]_vars
  BY <1>1, PartIsRosters, PTL DEF Spec
<1> QED BY <1>2 DEF RostersFine, ClashingDutiesForCause
=============================================================================
