---------------------------- MODULE AccessProofs ----------------------------
(***************************************************************************)
(* Proofs about people, their place and their access, as parts of Records: *)
(* the life of a role assignment (AssignmentLifecycle), who can repair     *)
(* governance (GovernanceRecovery), ownership with its emergency access    *)
(* (BreakGlass), and the tree of units with who is employed in it          *)
(* (Organisation), for any users, roles, units and times and any number of *)
(* overlapping transactions.                                               *)
(*                                                                         *)
(* Of what a transaction writes its snapshot is right (CommitTaken), and   *)
(* who has missed nothing sees the database (SeesAll).  Each part has an   *)
(* invariant of one state of the documents, kept by the database and by    *)
(* every snapshot, and what has to be known of a snapshot beside the       *)
(* database.                                                               *)
(***************************************************************************)
EXTENDS Records, FiniteSetTheorems, SequenceTheorems, TLAPS

\* Clients with a snapshot, and what is read.
Open(c) == snap[c] # <<>>
Sees(c) == IF c = "now" THEN db ELSE snap[c]
Able(c) == c # "now" => Open(c)

\* A transaction that missed a commit ends.
Late == \E c \in Clients : missed[c] # {} /\ Open(c) /\ ~Open(c)'

\* The variables are the functions SnapshotTxn takes them for, and a snapshot
\* shows what the database has, but for what it missed.
Taken(docs) ==
  /\ db = [d \in docs |-> db[d]]
  /\ snap = [c \in Clients |-> snap[c]]
  /\ missed \in [Clients -> SUBSET docs]
  /\ \A c \in Clients : Open(c) =>
       /\ snap[c] = [d \in docs |-> snap[c][d]]
       /\ \A d \in docs \ missed[c] : snap[c][d] = db[d]

\* Commit, Begin and Abort of any part.
Committed(docs, c, puts) ==
  /\ c # "now" => missed[c] \cap DOMAIN puts = {}
  /\ db' = [d \in docs |-> IF d \in DOMAIN puts THEN puts[d] ELSE db[d]]
  /\ snap' = [o \in Clients |-> IF o = c THEN <<>> ELSE snap[o]]
  /\ missed' = [o \in Clients |->
       IF o # c /\ Open(o) THEN missed[o] \cup DOMAIN puts ELSE {}]

Begun(c) ==
  /\ ~Open(c)
  /\ snap' = [snap EXCEPT ![c] = db]
  /\ UNCHANGED <<db, missed>>

Aborted(c) ==
  /\ Open(c)
  /\ snap' = [snap EXCEPT ![c] = <<>>]
  /\ missed' = [missed EXCEPT ![c] = {}]
  /\ UNCHANGED db
-----------------------------------------------------------------------------
(* Transactions.                                                           *)

LEMMA CommitTaken ==
  ASSUME NEW docs, Taken(docs), NEW c \in Clients \cup {"now"}, Able(c),
         NEW puts, DOMAIN puts \subseteq docs, Committed(docs, c, puts)
  PROVE  /\ Taken(docs)'
         /\ \A d \in docs : db'[d] = IF d \in DOMAIN puts THEN puts[d] ELSE db[d]
         /\ \A d \in DOMAIN puts : Sees(c)[d] = db[d]
         /\ \A o \in Clients : Open(o)' =>
              /\ o # c /\ Open(o) /\ snap'[o] = snap[o]
              /\ missed'[o] = missed[o] \cup DOMAIN puts
<1>1. \A d \in docs : db'[d] = IF d \in DOMAIN puts THEN puts[d] ELSE db[d]
  BY DEF Committed
<1>2. \A o \in Clients : Open(o)' =>
        /\ o # c /\ Open(o) /\ snap'[o] = snap[o]
        /\ missed'[o] = missed[o] \cup DOMAIN puts
  BY DEF Committed, Open
<1>3. \A d \in DOMAIN puts : Sees(c)[d] = db[d]
  BY DEF Committed, Taken, Able, Sees
<1>4. /\ db' = [d \in docs |-> db'[d]]
      /\ snap' = [o \in Clients |-> snap'[o]]
      /\ missed' \in [Clients -> SUBSET docs]
  BY DEF Committed, Taken
<1>5. \A o \in Clients : Open(o)' =>
        /\ snap'[o] = [d \in docs |-> snap'[o][d]]
        /\ \A d \in docs \ missed'[o] : snap'[o][d] = db'[d]
  BY <1>1, <1>2 DEF Taken
<1> QED BY <1>1, <1>2, <1>3, <1>4, <1>5 DEF Taken

LEMMA BeginTaken ==
  ASSUME NEW docs, Taken(docs), NEW c \in Clients, Begun(c)
  PROVE  /\ Taken(docs)' /\ db' = db
         /\ \A o \in Clients : Open(o)' =>
              snap'[o] = IF o = c THEN db ELSE snap[o]
         /\ \A o \in Clients : Open(o)' /\ o # c => Open(o) /\ missed'[o] = missed[o]
  BY DEF Begun, Taken, Open

LEMMA AbortTaken ==
  ASSUME NEW docs, Taken(docs), NEW c \in Clients, Aborted(c)
  PROVE  /\ Taken(docs)' /\ db' = db
         /\ \A o \in Clients : Open(o)' =>
              Open(o) /\ snap'[o] = snap[o] /\ missed'[o] = missed[o]
  BY DEF Aborted, Taken, Open

LEMMA IdleTaken ==
  ASSUME NEW docs, Taken(docs), UNCHANGED <<db, snap, missed>>
  PROVE  /\ Taken(docs)'
         /\ \A o \in Clients : Open(o)' =>
              Open(o) /\ snap'[o] = snap[o] /\ missed'[o] = missed[o]
  BY DEF Taken, Open

\* Who has missed nothing sees the database.
LEMMA SeesAll ==
  ASSUME NEW docs, Taken(docs), NEW c \in Clients \cup {"now"}, Able(c), ~Late,
         c # "now" => ~Open(c)'
  PROVE  Sees(c) = db
<1>1. CASE c = "now"
  BY <1>1 DEF Sees
<1>2. CASE c # "now"
  <2>1. c \in Clients /\ Open(c) /\ ~Open(c)'
    BY <1>2 DEF Able
  <2>2. missed[c] = {}
    BY <2>1 DEF Late
  <2>3. \A d \in docs : snap[c][d] = db[d]
    BY <2>1, <2>2 DEF Taken
  <2>4. snap[c] = [d \in docs |-> snap[c][d]] /\ db = [d \in docs |-> db[d]]
    BY <2>1 DEF Taken
  <2>5. snap[c] = db
    BY <2>3, <2>4
  <2> QED BY <1>2, <2>5 DEF Sees
<1> QED BY <1>1, <1>2

\* A commit ends its transaction.
LEMMA CommitEnds ==
  ASSUME NEW docs, NEW c \in Clients \cup {"now"}, NEW puts, Committed(docs, c, puts)
  PROVE  c # "now" => ~Open(c)'
  BY DEF Committed, Open
-----------------------------------------------------------------------------
(* The life of an assignment.                                              *)

LifeTimes == 0..LifeTime
MaybeTime == LifeTimes \cup {-1}

\* The risk is on record with a review.
AssignmentOK(a) ==
  /\ a \in [state : {"ACTIVE", "SUSPENDED"}, from : LifeTimes, until : MaybeTime,
            review : MaybeTime, grace : MaybeTime, nextAt : MaybeTime,
            risk : {"none", "LOW", "HIGH"}, cycle : Nat]
  /\ a.risk = "none" => a.review = -1

LifeOK(s) ==
  /\ s[Life!Clock] \in Nat
  /\ s[Life!Role] \in {"LOW", "HIGH"}
  /\ s[Life!Assignment] = Life!Nothing \/ AssignmentOK(s[Life!Assignment])
  /\ s[Life!Cycle] = Life!Nothing \/ s[Life!Cycle] \in
       [state : {"PENDING", "REJECTED"}, id : Nat, deadline : LifeTimes, approvals : Nat]
  /\ s[Life!Grace] = Life!Nothing \/ s[Life!Grace] \in
       [state : {"PENDING", "APPROVED", "REJECTED"}, cycle : Nat, until : LifeTimes]

\* The inductive invariant.
LifeInv ==
  /\ Taken(Life!Docs)
  /\ LifeOK(db)
  /\ \A c \in Clients : Open(c) => LifeOK(snap[c])

\* The five documents are different.
LEMMA LifeDocs ==
  /\ Life!Docs = {Life!Clock, Life!Role, Life!Assignment, Life!Cycle, Life!Grace}
  /\ Life!Clock \notin {Life!Role, Life!Assignment, Life!Cycle, Life!Grace}
  /\ Life!Role \notin {Life!Assignment, Life!Cycle, Life!Grace}
  /\ Life!Assignment \notin {Life!Cycle, Life!Grace}
  /\ Life!Cycle # Life!Grace
  BY DEF Life!Docs, Life!Clock, Life!Role, Life!Assignment, Life!Cycle, Life!Grace

\* What is read of the transactions of this part.
LEMMA LifeTxn ==
  /\ \A c : Life!Ready(c) <=> Able(c)
  /\ \A c : Life!Seen(c) = Sees(c)
  /\ \A c, puts : Life!Commit(c, puts) <=> Committed(Life!Docs, c, puts)
  /\ \A c : Life!Begin(c) <=> Begun(c)
  /\ \A c : Life!Abort(c) <=> Aborted(c)
  /\ Life!LateStep <=> Late
  /\ Life!Now = "now"
  BY DEF Life!Ready, Life!Seen, Life!Commit, Life!Begin, Life!Abort, Life!LateStep,
         Life!InTxn, Life!NoSnapshot, Life!Now, Able, Sees, Committed, Begun, Aborted,
         Late, Open

LEMMA LifePuts ==
  ASSUME NEW d, NEW x
  PROVE  /\ DOMAIN Life!:>(d, x) = {d} /\ Life!:>(d, x)[d] = x
         /\ DOMAIN Life!@@(Life!:>(d, x), <<>>) = {d}
         /\ Life!@@(Life!:>(d, x), <<>>)[d] = x
  BY DEF Life!:>, Life!@@

LEMMA LifeSees ==
  ASSUME LifeInv, NEW c \in Clients \cup {"now"}, Able(c)
  PROVE  LifeOK(Sees(c))
  BY DEF LifeInv, Able, Sees

\* A commit after which the documents are in order keeps the invariant.
LEMMA LifeCommit ==
  ASSUME LifeInv, NEW c \in Clients \cup {"now"}, Able(c),
         NEW puts, DOMAIN puts \subseteq Life!Docs, Committed(Life!Docs, c, puts),
         LifeOK(db')
  PROVE  LifeInv'
<1>1. Taken(Life!Docs)' /\ \A o \in Clients : Open(o)' => Open(o) /\ snap'[o] = snap[o]
  BY CommitTaken DEF LifeInv
<1> QED BY <1>1 DEF LifeInv, LifeOK

\* One or two documents written, each in order.
LifeWriteOK(d, x) ==
  \/ d = Life!Clock /\ x \in Nat
  \/ d = Life!Role /\ x \in {"LOW", "HIGH"}
  \/ d = Life!Assignment /\ AssignmentOK(x)
  \/ d = Life!Cycle /\
       x \in [state : {"PENDING", "REJECTED"}, id : Nat, deadline : LifeTimes, approvals : Nat]
  \/ d = Life!Grace /\
       x \in [state : {"PENDING", "APPROVED", "REJECTED"}, cycle : Nat, until : LifeTimes]

LEMMA LifeWrites ==
  ASSUME LifeInv, NEW c \in Clients \cup {"now"}, Able(c), NEW puts,
         Committed(Life!Docs, c, puts), \A d \in DOMAIN puts : LifeWriteOK(d, puts[d])
  PROVE  LifeInv'
<1>1. DOMAIN puts \subseteq Life!Docs
  BY LifeDocs DEF LifeWriteOK
<1>2. \A d \in Life!Docs : db'[d] = IF d \in DOMAIN puts THEN puts[d] ELSE db[d]
  BY <1>1, CommitTaken DEF LifeInv
<1>3. \A d \in Life!Docs : db'[d] = db[d] \/ LifeWriteOK(d, db'[d])
  BY <1>2
<1>4. /\ db'[Life!Clock] \in Nat
      /\ db'[Life!Role] \in {"LOW", "HIGH"}
      /\ db'[Life!Assignment] = Life!Nothing \/ AssignmentOK(db'[Life!Assignment])
  BY <1>3, LifeDocs DEF LifeInv, LifeOK, LifeWriteOK
<1>5. /\ db'[Life!Cycle] = Life!Nothing \/ LifeWriteOK(Life!Cycle, db'[Life!Cycle])
      /\ db'[Life!Grace] = Life!Nothing \/ LifeWriteOK(Life!Grace, db'[Life!Grace])
  BY <1>3, LifeDocs DEF LifeInv, LifeOK, LifeWriteOK
<1>6. LifeOK(db')
  BY <1>4, <1>5, LifeDocs DEF LifeOK, LifeWriteOK
<1> QED BY <1>1, <1>6, LifeCommit

LEMMA LifePutOne ==
  ASSUME LifeInv, NEW c \in Clients \cup {"now"}, Able(c), NEW d, NEW x, LifeWriteOK(d, x),
         \/ Committed(Life!Docs, c, Life!:>(d, x))
         \/ Committed(Life!Docs, c, Life!@@(Life!:>(d, x), <<>>))
  PROVE  LifeInv'
<1>1. ASSUME NEW puts, Committed(Life!Docs, c, puts), DOMAIN puts = {d}, puts[d] = x
      PROVE  LifeInv'
  BY <1>1, LifeWrites
<1>2. CASE Committed(Life!Docs, c, Life!:>(d, x))
  BY <1>1, <1>2, LifePuts
<1>3. CASE Committed(Life!Docs, c, Life!@@(Life!:>(d, x), <<>>))
  BY <1>1, <1>3, LifePuts
<1> QED BY <1>2, <1>3

LEMMA LifePutTwo ==
  ASSUME LifeInv, NEW c \in Clients \cup {"now"}, Able(c), NEW d, NEW e, d # e,
         NEW x, NEW y, LifeWriteOK(d, x), LifeWriteOK(e, y),
         Committed(Life!Docs, c, Life!@@(Life!:>(d, x), Life!:>(e, y)))
  PROVE  LifeInv'
<1> DEFINE puts == Life!@@(Life!:>(d, x), Life!:>(e, y))
<1>1. DOMAIN puts = {d, e} /\ puts[d] = x /\ puts[e] = y
  BY DEF Life!:>, Life!@@
<1>2. Committed(Life!Docs, c, puts)
  OBVIOUS
<1> HIDE DEF puts
<1> QED BY <1>1, <1>2, LifeWrites

\* What is there is in order.
LEMMA LifeKnown ==
  ASSUME NEW s, LifeOK(s)
  PROVE  /\ s[Life!Assignment] # Life!Nothing => AssignmentOK(s[Life!Assignment])
         /\ s[Life!Assignment].state \in {"ACTIVE", "SUSPENDED", "SCHEDULED"} =>
              AssignmentOK(s[Life!Assignment])
         /\ s[Life!Cycle].state = "PENDING" => s[Life!Cycle] \in
              [state : {"PENDING", "REJECTED"}, id : Nat, deadline : LifeTimes, approvals : Nat]
         /\ s[Life!Grace].state = "PENDING" => s[Life!Grace] \in
              [state : {"PENDING", "APPROVED", "REJECTED"}, cycle : Nat, until : LifeTimes]
  BY DEF LifeOK, Life!Nothing

\* The commands keep the documents in order.
LEMMA LifeStepKeeps ==
  ASSUME LifeInv, NEW c \in Clients \cup {"now"},
         Life!Operation(c) \/ Life!Tick
  PROVE  LifeInv'
<1> DEFINE s == Sees(c)
           a == s[Life!Assignment]
<1> USE LifeTxn
<1>1. CASE Life!Tick
  <2>1. Committed(Life!Docs, "now", Life!:>(Life!Clock, db[Life!Clock] + 1))
    BY <1>1 DEF Life!Tick
  <2>2. LifeWriteOK(Life!Clock, db[Life!Clock] + 1)
    BY DEF LifeWriteOK, LifeInv, LifeOK
  <2> QED BY <2>1, <2>2, LifePutOne DEF Able
<1>2. Able(c) => LifeOK(s)
  BY LifeSees
<1> HIDE DEF s
<1>3. ASSUME NEW t \in Terms, Life!Apply(c, t[1], t[2], t[3]) PROVE LifeInv'
  <2> DEFINE new == [state |-> "ACTIVE", from |-> t[1], until |-> t[2],
                     review |-> t[3], grace |-> -1, nextAt |-> -1,
                     risk |-> IF t[3] = -1 THEN "none" ELSE s[Life!Role],
                     cycle |-> IF t[3] = -1 THEN 0 ELSE 1]
             cycle == [state |-> "PENDING", id |-> 1, deadline |-> t[3], approvals |-> 0]
  <2>1. t[1] \in LifeTimes /\ t[2] \in MaybeTime /\ t[3] \in MaybeTime
    BY LifeIsTimed DEF LifeTimes, MaybeTime
  <2>2. Able(c) /\ LifeOK(s)
    BY <1>2, <1>3 DEF Life!Apply
  <2>3. AssignmentOK(new)
    BY <2>1, <2>2 DEF AssignmentOK, LifeOK, MaybeTime
  <2>4. t[3] # -1 => LifeWriteOK(Life!Cycle, cycle)
    BY <2>1 DEF LifeWriteOK, MaybeTime
  <2>5. Committed(Life!Docs, c,
          Life!@@(Life!:>(Life!Assignment, new),
                  IF t[3] = -1 THEN <<>> ELSE Life!:>(Life!Cycle, cycle)))
    BY <1>3 DEF Life!Apply, Life!Null, s
  <2> HIDE DEF new, cycle
  <2>6. CASE t[3] = -1
    BY <2>2, <2>3, <2>5, <2>6, LifePutOne DEF LifeWriteOK
  <2>7. CASE t[3] # -1
    BY <2>2, <2>3, <2>4, <2>5, <2>7, LifePutTwo, LifeDocs DEF LifeWriteOK
  <2> QED BY <2>6, <2>7
<1>4. ASSUME NEW risk \in {"LOW", "HIGH"}, Life!SetRolePermissions(c, risk) PROVE LifeInv'
  BY <1>4, LifePutOne DEF Life!SetRolePermissions, LifeWriteOK
<1>5. CASE Life!RejectReview(c)
  <2> DEFINE cycle == [s[Life!Cycle] EXCEPT !.state = "REJECTED"]
             new == [a EXCEPT !.state = "SUSPENDED"]
  <2>1. /\ Able(c) /\ LifeOK(s) /\ a # Life!Nothing /\ s[Life!Cycle].state = "PENDING"
        /\ Committed(Life!Docs, c,
             Life!@@(Life!:>(Life!Cycle, cycle), Life!:>(Life!Assignment, new)))
    BY <1>2, <1>5 DEF Life!RejectReview, Life!ReviewEligible, Life!CyclePending, s
  <2>2. LifeWriteOK(Life!Cycle, cycle) /\ LifeWriteOK(Life!Assignment, new)
    BY <2>1, LifeKnown DEF LifeWriteOK, AssignmentOK
  <2> HIDE DEF cycle, new
  <2> QED BY <2>1, <2>2, LifePutTwo, LifeDocs
<1>6. CASE Life!ApproveInPart(c)
  <2> DEFINE cycle == [s[Life!Cycle] EXCEPT !.approvals = @ + 1]
  <2>1. /\ Able(c) /\ LifeOK(s) /\ s[Life!Cycle].state = "PENDING"
        /\ Committed(Life!Docs, c, Life!:>(Life!Cycle, cycle))
    BY <1>2, <1>6 DEF Life!ApproveInPart, Life!ReviewEligible, Life!CyclePending, s
  <2>2. LifeWriteOK(Life!Cycle, cycle)
    BY <2>1, LifeKnown DEF LifeWriteOK
  <2> HIDE DEF cycle
  <2> QED BY <2>1, <2>2, LifePutOne
<1>7. ASSUME NEW review \in LifeTimes, Life!RenewReview(c, review) PROVE LifeInv'
  <2> DEFINE new == [a EXCEPT !.review = review, !.cycle = @ + 1,
                              !.risk = s[Life!Role], !.grace = -1]
             cycle == [state |-> "PENDING", id |-> s[Life!Cycle].id + 1,
                       deadline |-> review, approvals |-> 0]
  <2>1. /\ Able(c) /\ LifeOK(s) /\ a # Life!Nothing /\ s[Life!Cycle].state = "PENDING"
        /\ Committed(Life!Docs, c,
             Life!@@(Life!:>(Life!Assignment, new), Life!:>(Life!Cycle, cycle)))
    BY <1>2, <1>7 DEF Life!RenewReview, Life!ReviewEligible, Life!CyclePending, Life!Null, s
  <2>2. LifeWriteOK(Life!Cycle, cycle)
    BY <2>1, LifeKnown DEF LifeWriteOK
  <2>3. AssignmentOK(a) /\ s[Life!Role] \in {"LOW", "HIGH"} /\ review \in MaybeTime
    BY <2>1, LifeKnown DEF LifeOK, MaybeTime
  <2>4. new \in [state : {"ACTIVE", "SUSPENDED"}, from : LifeTimes, until : MaybeTime,
                 review : MaybeTime, grace : MaybeTime, nextAt : MaybeTime,
                 risk : {"none", "LOW", "HIGH"}, cycle : Nat]
          /\ new.risk = s[Life!Role]
    <3>1. a.cycle + 1 \in Nat /\ -1 \in MaybeTime /\ s[Life!Role] \in {"none", "LOW", "HIGH"}
      BY <2>3 DEF AssignmentOK, MaybeTime
    <3> HIDE DEF a
    <3> QED BY <2>3, <3>1 DEF AssignmentOK
  <2>5. LifeWriteOK(Life!Assignment, new)
    BY <2>3, <2>4 DEF LifeWriteOK, AssignmentOK
  <2> HIDE DEF cycle, new
  <2> QED BY <2>1, <2>2, <2>5, LifePutTwo, LifeDocs
<1>8. ASSUME NEW until \in LifeTimes, Life!RequestGrace(c, until) PROVE LifeInv'
  <2> DEFINE grace == [state |-> "PENDING", cycle |-> s[Life!Cycle].id, until |-> until]
  <2>1. /\ Able(c) /\ LifeOK(s) /\ s[Life!Cycle].state = "PENDING"
        /\ Committed(Life!Docs, c, Life!:>(Life!Grace, grace))
    BY <1>2, <1>8 DEF Life!RequestGrace, Life!GraceEligible, Life!CyclePending, s
  <2>2. LifeWriteOK(Life!Grace, grace)
    BY <2>1, LifeKnown DEF LifeWriteOK
  <2> HIDE DEF grace
  <2> QED BY <2>1, <2>2, LifePutOne
<1>9. ASSUME NEW decision \in {"APPROVED", "REJECTED"}, Life!DecideGrace(c, decision)
      PROVE  LifeInv'
  <2> DEFINE grace == [s[Life!Grace] EXCEPT !.state = decision]
             new == [a EXCEPT !.grace = s[Life!Grace].until]
  <2>1. /\ Able(c) /\ LifeOK(s) /\ a # Life!Nothing /\ s[Life!Grace].state = "PENDING"
        /\ Committed(Life!Docs, c,
             Life!@@(Life!:>(Life!Grace, grace),
                     IF decision = "APPROVED" THEN Life!:>(Life!Assignment, new)
                     ELSE <<>>))
    BY <1>2, <1>9 DEF Life!DecideGrace, Life!GraceEligible, Life!CyclePending, s
  <2>2. LifeWriteOK(Life!Grace, grace)
    BY <2>1, LifeKnown DEF LifeWriteOK
  <2>3. LifeWriteOK(Life!Assignment, new)
    BY <2>1, LifeKnown DEF LifeWriteOK, AssignmentOK, MaybeTime
  <2> HIDE DEF grace, new
  <2>4. CASE decision = "APPROVED"
    BY <2>1, <2>2, <2>3, <2>4, LifePutTwo, LifeDocs
  <2>5. CASE decision = "REJECTED"
    BY <2>1, <2>2, <2>5, LifePutOne
  <2> QED BY <2>4, <2>5
<1>10. ASSUME NEW at \in LifeTimes, Life!ScheduleSuccessor(c, at) PROVE LifeInv'
  <2> DEFINE new == [a EXCEPT !.nextAt = at]
  <2>1. /\ Able(c) /\ LifeOK(s) /\ a # Life!Nothing
        /\ Committed(Life!Docs, c, Life!:>(Life!Assignment, new))
    BY <1>2, <1>10 DEF Life!ScheduleSuccessor, s
  <2>2. LifeWriteOK(Life!Assignment, new)
    BY <2>1, LifeKnown DEF LifeWriteOK, AssignmentOK, MaybeTime
  <2> HIDE DEF new
  <2> QED BY <2>1, <2>2, LifePutOne
<1>11. CASE Life!Materialize(c)
  <2> DEFINE new == [a EXCEPT !.state = "SUSPENDED"]
  <2>1. /\ Able(c) /\ LifeOK(s) /\ \E candidate : Life!StillDue(s, candidate)
        /\ Committed(Life!Docs, c, Life!:>(Life!Assignment, new))
    BY <1>2, <1>11 DEF Life!Materialize, s
  <2>2. a.state \in {"ACTIVE", "SCHEDULED"}
    BY <2>1 DEF Life!StillDue, Life!Reason
  <2>3. LifeWriteOK(Life!Assignment, new)
    BY <2>1, <2>2, LifeKnown DEF LifeWriteOK, AssignmentOK
  <2> HIDE DEF new
  <2> QED BY <2>1, <2>3, LifePutOne
<1>12. CASE Life!LeaveAlone(c)
  <2>1. CASE UNCHANGED <<db, snap, missed>>
    BY <2>1, IdleTaken DEF LifeInv, LifeOK
  <2>2. CASE c # "now" /\ Aborted(c)
    BY <2>2, AbortTaken DEF LifeInv, LifeOK
  <2> QED BY <1>12, <2>1, <2>2 DEF Life!LeaveAlone
<1> QED BY <1>1, <1>3, <1>4, <1>5, <1>6, <1>7, <1>8, <1>9, <1>10, <1>11, <1>12
        DEF Life!Operation, Life!Times, LifeTimes

LEMMA LifeInit == Life!Init => LifeInv
<1> SUFFICES ASSUME Life!Init PROVE LifeInv
  OBVIOUS
<1>1. PICK risk \in {"LOW", "HIGH"} :
        db = [d \in Life!Docs |-> IF d = Life!Clock THEN 0
                                  ELSE IF d = Life!Role THEN risk ELSE Life!Nothing]
  BY DEF Life!Init
<1>2. /\ snap = [c \in Clients |-> <<>>] /\ missed = [c \in Clients |-> {}]
  BY DEF Life!Init, Life!TxnInit, Life!NoSnapshot
<1>3. Taken(Life!Docs) /\ \A c \in Clients : ~Open(c)
  BY <1>1, <1>2 DEF Taken, Open
<1>4. LifeOK(db)
  BY <1>1, LifeDocs DEF LifeOK
<1> QED BY <1>3, <1>4 DEF LifeInv

LEMMA LifeNext ==
  ASSUME LifeInv, [Life!Next]_(Life!vars)
  PROVE  LifeInv'
<1>1. CASE UNCHANGED Life!vars
  <2>1. UNCHANGED <<db, snap, missed>>
    BY <1>1 DEF Life!vars
  <2> QED BY <2>1, IdleTaken DEF LifeInv, LifeOK
<1>2. CASE Life!ListDue
  <2>1. UNCHANGED <<db, snap, missed>>
    BY <1>2 DEF Life!ListDue
  <2> QED BY <2>1, IdleTaken DEF LifeInv, LifeOK
<1>3. CASE Life!Tick
  BY <1>3, LifeStepKeeps
<1>4. ASSUME NEW c \in Clients, Life!Begin(c) PROVE LifeInv'
  BY <1>4, LifeTxn, BeginTaken DEF LifeInv, LifeOK
<1>5. ASSUME NEW c \in Clients, Life!Abort(c) PROVE LifeInv'
  BY <1>5, LifeTxn, AbortTaken DEF LifeInv, LifeOK
<1>6. ASSUME NEW c \in Clients \cup {Life!Now}, Life!Operation(c) PROVE LifeInv'
  BY <1>6, LifeTxn, LifeStepKeeps
<1> QED BY <1>1, <1>2, <1>3, <1>4, <1>5, <1>6 DEF Life!Next

LEMMA PartIsLifecycle == Spec => [](part = "lifecycle" => LifeInv)
<1> DEFINE I == part = "lifecycle" => LifeInv
<1>1. Init => I
  BY LifeInit DEF Init
<1>2. I /\ [Next]_vars => I'
  <2> SUFFICES ASSUME I, [Next]_vars, part' = "lifecycle" PROVE LifeInv'
    OBVIOUS
  <2>1. part = "lifecycle" /\ [Life!Next]_(Life!vars)
    BY DEF Next, vars, Life!vars
  <2> QED BY <2>1, LifeNext
<1> QED BY <1>1, <1>2, PTL DEF Spec

\* The end of a review, by the two rules: the same while the risk of the role is
\* the one on record; after a change the rule of administration is the earlier.
LEMMA ReviewEndsAgree ==
  ASSUME NEW a, AssignmentOK(a), NEW risk \in {"LOW", "HIGH"}
  PROVE  /\ Life!AuthorityEnd(a, risk) \in Int /\ Life!ReviewEnd(a, risk) \in Int
         /\ a.risk \in {"none", risk} => Life!AuthorityEnd(a, risk) = Life!ReviewEnd(a, risk)
         /\ \A t \in Int : Life!Passed(Life!ReviewEnd(a, risk), t) =>
                             Life!Passed(Life!AuthorityEnd(a, risk), t)
<1> DEFINE deadline == Life!PolicyDeadline(a, risk)
           grace(d) == Life!GraceEnd(d, a.grace)
<1>1. /\ a.from \in Nat /\ a.review \in Nat \cup {-1} /\ a.grace \in Nat \cup {-1}
      /\ a.risk \in {"none", "LOW", "HIGH"}
      /\ a.risk = "none" => a.review = -1
  BY LifeIsTimed DEF AssignmentOK, LifeTimes, MaybeTime
<1>2. Life!RoleDeadline(a, risk) = deadline
  BY <1>1 DEF Life!RoleDeadline, Life!PolicyDeadline, Life!Null
<1>3. deadline \in Nat \cup {-1}
  BY <1>1, LifeIsTimed DEF Life!PolicyDeadline, Life!Null
<1>4. \A d \in Nat : grace(d) \in Nat
  BY <1>1, LifeIsTimed DEF Life!GraceEnd, Life!Earliest, Life!Null
<1>5. Life!ReviewEnd(a, risk) = IF deadline = -1 THEN -1
                                ELSE IF a.risk = "LOW" /\ risk = "LOW" THEN grace(deadline)
                                ELSE deadline
  BY <1>2 DEF Life!ReviewEnd, Life!Null
<1> DEFINE first == Life!Earliest(a.review, deadline)
<1>6. Life!AuthorityEnd(a, risk) = IF first = -1 THEN -1
                                   ELSE IF "HIGH" \in {a.risk, risk} THEN first
                                   ELSE grace(first)
  BY DEF Life!AuthorityEnd, Life!Null
<1>7. first \in Nat \cup {-1} /\ (deadline # -1 => first # -1 /\ first <= deadline)
  BY <1>1, <1>3 DEF Life!Earliest, Life!Null
<1>8. ASSUME a.risk \in {"none", risk}
      PROVE  first = deadline /\ (a.risk = "none" /\ risk = "LOW" => deadline = -1)
  BY <1>1, <1>3, <1>8 DEF Life!Earliest, Life!PolicyDeadline, Life!Null
<1>9. ASSUME a.risk \notin {"none", risk} PROVE "HIGH" \in {a.risk, risk}
  BY <1>1, <1>9
<1> HIDE DEF deadline, grace, first
<1>10. Life!AuthorityEnd(a, risk) \in Int /\ Life!ReviewEnd(a, risk) \in Int
  BY <1>3, <1>4, <1>5, <1>6, <1>7
<1>11. ASSUME a.risk \in {"none", risk}
       PROVE  Life!AuthorityEnd(a, risk) = Life!ReviewEnd(a, risk)
  BY <1>1, <1>5, <1>6, <1>8, <1>11
<1>12. ASSUME a.risk \notin {"none", risk}, NEW t \in Int,
              Life!Passed(Life!ReviewEnd(a, risk), t)
       PROVE  Life!Passed(Life!AuthorityEnd(a, risk), t)
  BY <1>3, <1>5, <1>6, <1>7, <1>9, <1>12 DEF Life!Passed, Life!Null
<1> QED BY <1>10, <1>11, <1>12

\* What administration takes for effective, in the terms of the other rule.
LEMMA EffectiveMeans ==
  ASSUME NEW a, NEW risk, NEW t \in Int, AssignmentOK(a)
  PROVE  Life!Effective(a, risk, t) <=>
           /\ a.state = "ACTIVE"
           /\ ~Life!Passed(a.nextAt, t)
           /\ a.from <= t
           /\ ~Life!Passed(a.until, t)
           /\ ~Life!Passed(Life!AuthorityEnd(a, risk), t)
<1>1. a.from \in Int /\ a.state \in {"ACTIVE", "SUSPENDED"}
  BY LifeIsTimed DEF AssignmentOK, LifeTimes
<1> QED BY <1>1 DEF Life!Effective, Life!Reason, Life!Overdue

LEMMA GrantedMeans ==
  ASSUME NEW a, NEW risk, NEW t, AssignmentOK(a)
  PROVE  Life!Granted(a, risk, t) <=>
           /\ a.state = "ACTIVE"
           /\ ~Life!Passed(a.nextAt, t)
           /\ a.from <= t
           /\ ~Life!Passed(a.until, t)
           /\ ~Life!Passed(Life!ReviewEnd(a, risk), t)
  BY DEF AssignmentOK, Life!Granted

LEMMA RulesCompare ==
  ASSUME NEW a, AssignmentOK(a), NEW risk \in {"LOW", "HIGH"}, NEW t \in Int
  PROVE  /\ Life!Effective(a, risk, t) => Life!Granted(a, risk, t)
         /\ Life!Granted(a, risk, t) /\ a.risk \in {"none", risk} =>
              Life!Effective(a, risk, t)
  BY EffectiveMeans, GrantedMeans, ReviewEndsAgree

\* The rule in TypeScript and the rule in MongoDB are one until the risk of a
\* role moves from the one on record, and then the first is the stricter, for any
\* times and any review and grace.
THEOREM RulesAlwaysAgree == Spec => []RulesAgree
<1>1. (part = "lifecycle" => LifeInv) => RulesAgree
  <2> SUFFICES ASSUME LifeInv, db[Life!Assignment] # Life!Nothing,
                      NEW t \in Life!Times
               PROVE  LET a == db[Life!Assignment]
                          risk == db[Life!Role] IN
                      /\ Life!Effective(a, risk, t) => Life!Granted(a, risk, t)
                      /\ Life!Granted(a, risk, t) /\ ~Life!RiskMoved =>
                           Life!Effective(a, risk, t)
    BY DEF RulesAgree, Life!RulesAgree
  <2>1. /\ AssignmentOK(db[Life!Assignment])
        /\ db[Life!Role] \in {"LOW", "HIGH"} /\ t \in Int
    BY LifeIsTimed DEF LifeInv, LifeOK, Life!Times
  <2> QED BY <2>1, RulesCompare DEF Life!RiskMoved
<1> QED BY <1>1, PartIsLifecycle, PTL

\* What is granted changes only at a transition that was looked up with it: a
\* time beyond now is passed before t only if it is one of them.
THEOREM TransitionsAlwaysForetell == Spec => []TransitionsForetell
<1>1. (part = "lifecycle" => LifeInv) => TransitionsForetell
  <2> SUFFICES ASSUME LifeInv, db[Life!Assignment] # Life!Nothing,
                      NEW t \in db[Life!Clock]..LifeTime,
                      \A n \in Life!Transitions(db[Life!Assignment], db[Life!Role],
                                                db[Life!Clock]) : t < n
               PROVE  Life!Granted(db[Life!Assignment], db[Life!Role], t) <=>
                      Life!Granted(db[Life!Assignment], db[Life!Role], db[Life!Clock])
    BY DEF TransitionsForetell, Life!TransitionsForetell
  <2> DEFINE a == db[Life!Assignment]
             risk == db[Life!Role]
             now == db[Life!Clock]
             end == Life!ReviewEnd(a, risk)
  <2>1. /\ AssignmentOK(a) /\ risk \in {"LOW", "HIGH"} /\ now \in Nat /\ t \in Int /\ now <= t
    BY LifeIsTimed DEF LifeInv, LifeOK
  <2>2. a.from \in Int /\ a.until \in Int /\ a.nextAt \in Int /\ end \in Int
    BY <2>1, LifeIsTimed, ReviewEndsAgree DEF AssignmentOK, LifeTimes, MaybeTime
  <2>3. a.state = "ACTIVE" => \A n \in {a.from, a.until, a.nextAt, end} : n > now => t < n
    BY DEF Life!Transitions
  <2> HIDE DEF a, risk, now, end
  <2>4. a.state = "ACTIVE" =>
          /\ Life!Passed(a.nextAt, t) <=> Life!Passed(a.nextAt, now)
          /\ Life!Passed(a.until, t) <=> Life!Passed(a.until, now)
          /\ Life!Passed(end, t) <=> Life!Passed(end, now)
          /\ a.from <= t <=> a.from <= now
    BY <2>1, <2>2, <2>3 DEF Life!Passed
  <2>5. Life!Granted(a, risk, t) <=> Life!Granted(a, risk, now)
    BY <2>1, <2>4, GrantedMeans DEF end
  <2> QED BY <2>5 DEF a, risk, now
<1> QED BY <1>1, PartIsLifecycle, PTL

\* What the worker lists has ended by the rule in MongoDB.
LEMMA ListedMeans ==
  ASSUME NEW s, LifeOK(s), NEW candidate \in Life!Listed(s)
  PROVE  LET a == s[Life!Assignment]
             end == Life!ReviewEnd(a, s[Life!Role])
             now == s[Life!Clock] IN
         /\ AssignmentOK(a) /\ a.state = "ACTIVE" /\ a.from <= now
         /\ ~Life!Passed(a.nextAt, now)
         /\ candidate.cycle = a.cycle
         /\ \/ /\ candidate.why = "EXPIRY" /\ candidate.deadline = a.until
               /\ Life!Passed(a.until, now)
            \/ /\ candidate.why = "REVIEW" /\ candidate.deadline = end
               /\ Life!Passed(end, now)
<1> DEFINE a == s[Life!Assignment]
           end == Life!ReviewEnd(a, s[Life!Role])
           now == s[Life!Clock]
           deadline == Life!Earliest(a.until, end)
<1>1. a # Life!Nothing
  BY DEF Life!Listed
<1>2. AssignmentOK(a)
  BY <1>1 DEF LifeOK
<1>3. candidate \in Life!Candidates(a, s[Life!Role], now)
  BY <1>1 DEF Life!Listed
<1>4. /\ a.state \in {"ACTIVE", "SCHEDULED"} /\ a.from <= now
      /\ ~Life!Passed(a.nextAt, now) /\ Life!Passed(deadline, now)
      /\ candidate = [deadline |-> deadline, cycle |-> a.cycle,
                      why |-> IF deadline = a.until THEN "EXPIRY" ELSE "REVIEW"]
  BY <1>3 DEF Life!Candidates
<1>5. a.state = "ACTIVE"
  BY <1>2, <1>4 DEF AssignmentOK
<1>6. deadline = a.until \/ deadline = end
  BY DEF Life!Earliest
<1> HIDE DEF a, end, now, deadline
<1>7. /\ AssignmentOK(a) /\ a.state = "ACTIVE" /\ a.from <= now
      /\ ~Life!Passed(a.nextAt, now)
      /\ candidate.cycle = a.cycle
      /\ \/ /\ candidate.why = "EXPIRY" /\ candidate.deadline = a.until
            /\ Life!Passed(a.until, now)
         \/ /\ candidate.why = "REVIEW" /\ candidate.deadline = end
            /\ Life!Passed(end, now)
  BY <1>2, <1>4, <1>5, <1>6
<1> QED BY <1>7 DEF a, end, now

\* What is listed is still due, but for a moved risk and a second end.
LEMMA ListedIsDue ==
  ASSUME NEW s, LifeOK(s), NEW candidate \in Life!Listed(s),
         s[Life!Assignment].risk \in {"none", s[Life!Role]},
         ~ /\ Life!Passed(s[Life!Assignment].until, s[Life!Clock])
           /\ Life!Passed(Life!AuthorityEnd(s[Life!Assignment], s[Life!Role]), s[Life!Clock])
  PROVE  Life!StillDue(s, candidate)
<1> DEFINE a == s[Life!Assignment]
           risk == s[Life!Role]
           end == Life!ReviewEnd(a, risk)
           now == s[Life!Clock]
<1>1. /\ AssignmentOK(a) /\ a.state = "ACTIVE" /\ a.from <= now
      /\ ~Life!Passed(a.nextAt, now)
      /\ candidate.cycle = a.cycle
      /\ \/ /\ candidate.why = "EXPIRY" /\ candidate.deadline = a.until
            /\ Life!Passed(a.until, now)
         \/ /\ candidate.why = "REVIEW" /\ candidate.deadline = end
            /\ Life!Passed(end, now)
  BY ListedMeans
<1>2. risk \in {"LOW", "HIGH"} /\ now \in Int /\ a.from \in Int
  BY <1>1, LifeIsTimed DEF LifeOK, AssignmentOK, LifeTimes
<1>3. Life!AuthorityEnd(a, risk) = end
  BY <1>1, <1>2, ReviewEndsAgree
<1>4. ~(Life!Passed(a.until, now) /\ Life!Passed(end, now))
  BY <1>3
<1> HIDE DEF a, risk, end, now
<1>5. ~(a.from > now)
  BY <1>1, <1>2
<1>6. CASE candidate.why = "EXPIRY"
  <2>1. candidate.deadline = a.until /\ Life!Passed(a.until, now)
    BY <1>1, <1>6
  <2>2. Life!Reason(a, risk, now) = "EXPIRED"
    BY <1>1, <1>5, <2>1 DEF Life!Reason
  <2> QED BY <1>6, <2>1, <2>2 DEF Life!StillDue, a, risk, now
<1>7. CASE candidate.why = "REVIEW"
  <2>1. candidate.deadline = end /\ Life!Passed(end, now) /\ ~Life!Passed(a.until, now)
    BY <1>1, <1>4, <1>7
  <2>2. Life!Reason(a, risk, now) = "REVIEW_OVERDUE"
    BY <1>1, <1>3, <1>5, <2>1 DEF Life!Reason, Life!Overdue
  <2> QED BY <1>1, <1>3, <1>7, <2>1, <2>2 DEF Life!StillDue, a, risk, now
<1> QED BY <1>1, <1>6, <1>7

\* What the worker suspends is granted by neither rule, and what it lists it
\* suspends, unless the risk of the role moved, an edit overtook it, or the
\* assignment had meanwhile expired as well.
THEOREM WorkerEndsOnlyEnded == Spec => WorkerEndsWhatEnded
<1>1. ASSUME LifeInv, [Life!Next]_(Life!vars)
      PROVE  Life!WorkerEndsWhatEndedStep
  <2> DEFINE a == db[Life!Assignment]
             risk == db[Life!Role]
             now == db[Life!Clock]
  <2> USE LifeTxn
  <2>1. ASSUME failed # {}, failed' = {}
        PROVE  \E c \in Clients \cup {"now"} : Life!Materialize(c) \/ Life!LeaveAlone(c)
    <3>1. ~(UNCHANGED Life!vars \/ Life!Tick \/ Life!ListDue)
      BY <2>1 DEF Life!vars, Life!Tick, Life!ListDue
    <3>2. \A c \in Clients : ~(Life!Begin(c) /\ UNCHANGED failed)
                             /\ ~(Life!Abort(c) /\ UNCHANGED failed)
      BY <2>1
    <3>3. PICK c \in Clients \cup {"now"} : Life!Operation(c)
      BY <1>1, <3>1, <3>2 DEF Life!Next
    <3> QED BY <2>1, <3>3 DEF Life!Operation, Life!Apply, Life!SetRolePermissions,
         Life!RejectReview, Life!ApproveInPart, Life!RenewReview, Life!RequestGrace,
         Life!DecideGrace, Life!ScheduleSuccessor
  <2>2. ASSUME Life!SuspendedByWorker, ~Life!RiskMoved, ~Life!LateStep
        PROVE  ~Life!Granted(a, risk, now)
    <3>1. PICK c \in Clients \cup {"now"} : Life!Materialize(c) \/ Life!LeaveAlone(c)
      BY <2>1, <2>2 DEF Life!SuspendedByWorker
    <3>2. ~Life!LeaveAlone(c)
      BY <2>2, AbortTaken DEF Life!SuspendedByWorker, Life!LeaveAlone, Aborted
    <3> DEFINE put == Life!:>(Life!Assignment, [Life!Seen(c)[Life!Assignment]
                                                  EXCEPT !.state = "SUSPENDED"])
    <3>3. Able(c) /\ Committed(Life!Docs, c, put)
            /\ \E candidate : Life!StillDue(Sees(c), candidate)
      BY <3>1, <3>2 DEF Life!Materialize
    <3> HIDE DEF put
    <3>4. Sees(c) = db
      BY <2>2, <3>3, <1>1, SeesAll, CommitEnds DEF LifeInv
    <3>5. Life!Reason(a, risk, now) \in {"EXPIRED", "REVIEW_OVERDUE"}
      BY <3>3, <3>4 DEF Life!StillDue
    <3>6. ~Life!Effective(a, risk, now) /\ a.state \in {"ACTIVE", "SCHEDULED"}
      BY <3>5 DEF Life!Effective, Life!Reason
    <3>7. AssignmentOK(a) /\ risk \in {"LOW", "HIGH"} /\ now \in Int
      BY <1>1, <3>6, LifeKnown DEF LifeInv, LifeOK
    <3> QED BY <2>2, <3>6, <3>7, RulesCompare DEF Life!RiskMoved
  <2>3. ASSUME Life!LeftByWorker, ~Life!RiskMoved, ~Life!LateStep, ~Life!BothEnded,
               Life!Listed(db) = failed
        PROVE  FALSE
    <3>1. PICK c \in Clients \cup {"now"} : Life!Materialize(c) \/ Life!LeaveAlone(c)
      BY <2>1, <2>3 DEF Life!LeftByWorker
    <3>2. CASE Life!Materialize(c)
      <4> DEFINE new == [Sees(c)[Life!Assignment] EXCEPT !.state = "SUSPENDED"]
      <4>1. /\ Able(c) /\ Committed(Life!Docs, c, Life!:>(Life!Assignment, new))
            /\ \E candidate : Life!StillDue(Sees(c), candidate)
        BY <3>2 DEF Life!Materialize
      <4>2. Sees(c)[Life!Assignment].state \in {"ACTIVE", "SCHEDULED"}
        BY <4>1 DEF Life!StillDue, Life!Reason
      <4>3. new.state = "SUSPENDED"
        BY <1>1, <4>1, <4>2, LifeSees, LifeKnown DEF AssignmentOK
      <4> HIDE DEF new
      <4>4. db'[Life!Assignment] = new /\ Sees(c)[Life!Assignment] = db[Life!Assignment]
        <5> DEFINE puts == Life!:>(Life!Assignment, new)
        <5>1. DOMAIN puts = {Life!Assignment} /\ puts[Life!Assignment] = new
          BY LifePuts
        <5>2. Committed(Life!Docs, c, puts) /\ DOMAIN puts \subseteq Life!Docs
          BY <4>1, <5>1, LifeDocs
        <5> HIDE DEF puts
        <5> QED BY <1>1, <4>1, <5>1, <5>2, CommitTaken, LifeDocs DEF LifeInv
      <4> QED BY <2>3, <4>2, <4>3, <4>4 DEF Life!LeftByWorker
    <3>3. CASE Life!LeaveAlone(c)
      <4>1. PICK candidate \in failed : Able(c) /\ ~Life!StillDue(Sees(c), candidate)
              /\ (c # "now" => Aborted(c))
        BY <3>3 DEF Life!LeaveAlone
      <4>2. c # "now" => ~Open(c)'
        BY <1>1, <4>1 DEF LifeInv, Taken, Aborted, Open
      <4>3. Sees(c) = db
        BY <1>1, <2>3, <4>1, <4>2, SeesAll DEF LifeInv
      <4>4. a.risk \in {"none", risk}
        BY <2>3 DEF Life!RiskMoved
      <4> QED BY <1>1, <2>3, <4>1, <4>3, <4>4, ListedIsDue DEF LifeInv, Life!BothEnded
    <3> QED BY <3>1, <3>2, <3>3
  <2> QED BY <2>2, <2>3 DEF Life!WorkerEndsWhatEndedStep
<1>2. (part = "lifecycle" => LifeInv) /\ [Next]_vars =>
        [part = "lifecycle" => Life!WorkerEndsWhatEndedStep]_vars
  <2> SUFFICES ASSUME part = "lifecycle" => LifeInv, [Next]_vars, part = "lifecycle"
               PROVE  Life!WorkerEndsWhatEndedStep
    OBVIOUS
  <2>1. [Life!Next]_(Life!vars)
    BY DEF Next, vars, Life!vars
  <2> QED BY <1>1, <2>1
<1> QED BY <1>2, PartIsLifecycle, PTL DEF Spec, WorkerEndsWhatEnded
-----------------------------------------------------------------------------
(* Users, roles and who holds which.                                       *)

UserOK(x) ==
  x = Gov!Nothing \/
    x \in [state : {"PENDING", "ACTIVE", "DISABLED", "ARCHIVED"}, linked : BOOLEAN]

RoleOK(x) ==
  x = Gov!Nothing \/
    x \in [state : {"DRAFT", "ACTIVE", "INACTIVE", "ARCHIVED"}, full : BOOLEAN]

HoldOK(x) ==
  x = Gov!Nothing \/
    x \in [state : {"ACTIVE", "SCHEDULED", "SUSPENDED"}, next : Gov!Pairs \cup {<<>>}]

GovOK(s) ==
  /\ \A u \in GovUsers : UserOK(s[Gov!UserDoc(u)])
  /\ \A r \in Roles : RoleOK(s[Gov!RoleDoc(r)])
  /\ \A h \in Gov!Pairs : HoldOK(s[Gov!HoldDoc(h)])

\* Who was assigned a role since a snapshot has written the role, unless as a
\* successor, who is SCHEDULED.
HeldAsSeen(c) ==
  \A u \in GovUsers, r \in Roles :
    Gov!RoleDoc(r) \notin missed[c] /\ Gov!Hold(db, <<u, r>>).state = "ACTIVE" =>
      Gov!Assigned(snap[c], <<u, r>>)

\* The inductive invariant.
GovInv ==
  /\ Taken(Gov!Docs)
  /\ GovOK(db)
  /\ \A c \in Clients : Open(c) => GovOK(snap[c]) /\ HeldAsSeen(c)

LEMMA GovDocs ==
  /\ \A u \in GovUsers : Gov!UserDoc(u) \in Gov!Docs
  /\ \A r \in Roles : Gov!RoleDoc(r) \in Gov!Docs
  /\ \A h \in Gov!Pairs : Gov!HoldDoc(h) \in Gov!Docs /\ Gov!PhaseDoc(h) \in Gov!Docs
  /\ \A u, v : Gov!UserDoc(u) = Gov!UserDoc(v) => u = v
  /\ \A u, v : Gov!RoleDoc(u) = Gov!RoleDoc(v) => u = v
  /\ \A u, v : Gov!HoldDoc(u) = Gov!HoldDoc(v) => u = v
  /\ \A u, v : Gov!PhaseDoc(u) = Gov!PhaseDoc(v) => u = v
  /\ \A u, v : /\ Gov!UserDoc(u) # Gov!RoleDoc(v) /\ Gov!UserDoc(u) # Gov!HoldDoc(v)
               /\ Gov!UserDoc(u) # Gov!PhaseDoc(v) /\ Gov!RoleDoc(u) # Gov!HoldDoc(v)
               /\ Gov!RoleDoc(u) # Gov!PhaseDoc(v) /\ Gov!HoldDoc(u) # Gov!PhaseDoc(v)
  BY DEF Gov!Docs, Gov!UserDoc, Gov!RoleDoc, Gov!HoldDoc, Gov!PhaseDoc

LEMMA GovPairs == Gov!Pairs = GovUsers \X Roles
  BY DEF Gov!Pairs

LEMMA GovTxn ==
  /\ \A c : Gov!Ready(c) <=> Able(c)
  /\ \A c : Gov!Seen(c) = Sees(c)
  /\ \A c, puts : Gov!Commit(c, puts) <=> Committed(Gov!Docs, c, puts)
  /\ \A c : Gov!Begin(c) <=> Begun(c)
  /\ \A c : Gov!Abort(c) <=> Aborted(c)
  /\ Gov!LateStep <=> Late
  /\ Gov!Now = "now"
  BY DEF Gov!Ready, Gov!Seen, Gov!Commit, Gov!Begin, Gov!Abort, Gov!LateStep,
         Gov!InTxn, Gov!NoSnapshot, Gov!Now, Able, Sees, Committed, Begun, Aborted,
         Late, Open

LEMMA GovPut ==
  ASSUME NEW d, NEW x
  PROVE  DOMAIN Gov!:>(d, x) = {d} /\ Gov!:>(d, x)[d] = x
  BY DEF Gov!:>

LEMMA GovSees ==
  ASSUME GovInv, NEW c \in Clients \cup {"now"}, Able(c)
  PROVE  /\ GovOK(Sees(c))
         /\ \A u \in GovUsers, r \in Roles :
              /\ Gov!RoleDoc(r) \notin (IF c = "now" THEN {} ELSE missed[c])
              /\ Gov!Hold(db, <<u, r>>).state = "ACTIVE"
              => Gov!Assigned(Sees(c), <<u, r>>)
<1>1. CASE c = "now"
  BY <1>1 DEF GovInv, Sees, Gov!Assigned, Gov!Nothing
<1>2. CASE c # "now"
  BY <1>2 DEF GovInv, Sees, Able, HeldAsSeen
<1> QED BY <1>1, <1>2

\* What an operation may write.
GovWriteOK(puts) ==
  /\ DOMAIN puts \subseteq Gov!Docs
  /\ \A u \in GovUsers : Gov!UserDoc(u) \in DOMAIN puts => UserOK(puts[Gov!UserDoc(u)])
  /\ \A r \in Roles : Gov!RoleDoc(r) \in DOMAIN puts => RoleOK(puts[Gov!RoleDoc(r)])
  /\ \A h \in Gov!Pairs : Gov!HoldDoc(h) \in DOMAIN puts =>
       /\ HoldOK(puts[Gov!HoldDoc(h)])
       /\ puts[Gov!HoldDoc(h)].state = "ACTIVE" =>
            Gov!RoleDoc(h[2]) \in DOMAIN puts \/ Gov!Hold(db, h).state = "ACTIVE"

LEMMA GovCommit ==
  ASSUME GovInv, NEW c \in Clients \cup {"now"}, Able(c),
         NEW puts, Committed(Gov!Docs, c, puts), GovWriteOK(puts)
  PROVE  /\ GovInv'
         /\ \A d \in Gov!Docs : db'[d] = IF d \in DOMAIN puts THEN puts[d] ELSE db[d]
         /\ \A d \in DOMAIN puts : Sees(c)[d] = db[d]
         /\ ~Late => Sees(c) = db
<1>1. /\ Taken(Gov!Docs)'
      /\ \A d \in Gov!Docs : db'[d] = IF d \in DOMAIN puts THEN puts[d] ELSE db[d]
      /\ \A d \in DOMAIN puts : Sees(c)[d] = db[d]
      /\ \A o \in Clients : Open(o)' =>
           /\ Open(o) /\ snap'[o] = snap[o]
           /\ missed'[o] = missed[o] \cup DOMAIN puts
  BY CommitTaken DEF GovInv, GovWriteOK
<1>2. ~Late => Sees(c) = db
  BY SeesAll, CommitEnds DEF GovInv
<1>3. GovOK(db')
  <2>1. \A u \in GovUsers : UserOK(db'[Gov!UserDoc(u)])
    BY <1>1, GovDocs DEF GovInv, GovOK, GovWriteOK
  <2>2. \A r \in Roles : RoleOK(db'[Gov!RoleDoc(r)])
    BY <1>1, GovDocs DEF GovInv, GovOK, GovWriteOK
  <2>3. \A h \in Gov!Pairs : HoldOK(db'[Gov!HoldDoc(h)])
    BY <1>1, GovDocs DEF GovInv, GovOK, GovWriteOK
  <2> QED BY <2>1, <2>2, <2>3 DEF GovOK
<1>4. ASSUME NEW o \in Clients, Open(o)', NEW u \in GovUsers, NEW r \in Roles,
             Gov!RoleDoc(r) \notin missed'[o], Gov!Hold(db', <<u, r>>).state = "ACTIVE"
      PROVE  Gov!Assigned(snap'[o], <<u, r>>)
  <2>1. <<u, r>> \in Gov!Pairs /\ <<u, r>>[2] = r
    BY GovPairs
  <2>2. Gov!RoleDoc(r) \notin missed[o] /\ Gov!RoleDoc(r) \notin DOMAIN puts
    BY <1>1, <1>4
  <2>3. Gov!Hold(db, <<u, r>>).state = "ACTIVE"
    BY <1>1, <1>4, <2>1, <2>2, GovDocs DEF GovWriteOK, Gov!Hold
  <2>4. Gov!Assigned(snap[o], <<u, r>>)
    BY <1>1, <1>4, <2>2, <2>3 DEF GovInv, HeldAsSeen
  <2> QED BY <1>1, <1>4, <2>4
<1>5. \A o \in Clients : Open(o)' => GovOK(snap'[o])
  BY <1>1 DEF GovInv
<1>6. GovInv'
  <2>1. \A o \in Clients : Open(o)' => GovOK(snap[o])' /\ HeldAsSeen(o)'
    BY <1>4, <1>5 DEF HeldAsSeen, GovOK, Gov!Assigned, Gov!Hold
  <2>2. GovOK(db)'
    BY <1>3 DEF GovOK
  <2> QED BY <1>1, <2>1, <2>2 DEF GovInv
<1> QED BY <1>1, <1>2, <1>6
-----------------------------------------------------------------------------
(* What a step on one kind of document may do.                             *)

GovFine ==
  /\ Gov!RecoveryLostForCauseStep
  /\ Gov!InactiveRolesUnheldStep
  /\ Gov!GoneUsersGainLateStep
  /\ Gov!EndedKeepsRoleStep

Full(s) == Gov!RecoveryActors(s)

\* A step on one user: it does not take the last who can repair, and who goes
\* held nothing.
LEMMA UserStepFine ==
  ASSUME NEW u \in GovUsers,
         \A d \in Gov!Docs : d # Gov!UserDoc(u) => db'[d] = db[d],
         ~Late => Full(db) # {u} \/ Gov!Account(db', u) = "ACTIVE",
         ~Late /\ Gov!Gone(db', u) => Gov!Gone(db, u) \/ Gov!HoldsNothing(db, u)
  PROVE  GovFine
<1>1. \A h \in Gov!Pairs : /\ Gov!Hold(db', h) = Gov!Hold(db, h)
                           /\ db'[Gov!PhaseDoc(h)] = db[Gov!PhaseDoc(h)]
  BY GovDocs DEF Gov!Hold
<1>2. \A r \in Roles : db'[Gov!RoleDoc(r)] = db[Gov!RoleDoc(r)]
  BY GovDocs
<1>3. \A v \in GovUsers : v # u => db'[Gov!UserDoc(v)] = db[Gov!UserDoc(v)]
  BY GovDocs
<1>4. \A h \in Gov!Pairs : /\ Gov!Assigned(db', h) <=> Gov!Assigned(db, h)
                           /\ Gov!Effective(db', h) <=> Gov!Effective(db, h)
                           /\ Gov!Authorizes(db', h) <=> Gov!Authorizes(db, h)
                           /\ Gov!RoleState(db', h[2]) = Gov!RoleState(db, h[2])
  BY <1>1, <1>2, GovPairs
     DEF Gov!Assigned, Gov!Effective, Gov!Authorizes, Gov!RoleState
<1>5. \A v \in GovUsers : v # u \/ Gov!Account(db', u) = "ACTIVE" =>
        (v \in Full(db) => v \in Full(db'))
  BY <1>2, <1>3, <1>4, GovPairs DEF Full, Gov!RecoveryActors, Gov!Account
<1>6. Gov!RecoveryLostForCauseStep
  <2>1. SUFFICES ASSUME ~Late, Gov!LogIn(db) # {} PROVE Full(db') # {}
    BY GovTxn DEF Gov!RecoveryLostForCauseStep, Full
  <2>2. PICK v \in Full(db) : TRUE
    BY <2>1 DEF Gov!LogIn, Full
  <2>3. Full(db) \subseteq GovUsers
    BY DEF Full, Gov!RecoveryActors
  <2>4. PICK w \in Full(db) : w # u \/ Gov!Account(db', u) = "ACTIVE"
    BY <2>1, <2>2
  <2> QED BY <2>3, <2>4, <1>5
<1>7. Gov!InactiveRolesUnheldStep
  BY <1>4 DEF Gov!InactiveRolesUnheldStep, Gov!OfInactiveRole
<1>8. Gov!GoneUsersGainLateStep
  <2>1. SUFFICES ASSUME NEW v \in GovUsers, NEW r \in Roles, ~Late, Gov!Gone(db', v),
                        Gov!Authorizes(db, <<v, r>>)
                 PROVE  Gov!Gone(db, v)
    BY <1>4, GovTxn, GovPairs DEF Gov!GoneUsersGainLateStep
  <2>2. CASE v = u
    BY <2>1, <2>2 DEF Gov!HoldsNothing
  <2>3. CASE v # u
    BY <2>1, <2>3, <1>3 DEF Gov!Gone, Gov!Account
  <2> QED BY <2>2, <2>3
<1>9. Gov!EndedKeepsRoleStep
  BY <1>4 DEF Gov!EndedKeepsRoleStep
<1> QED BY <1>6, <1>7, <1>8, <1>9 DEF GovFine

\* A step on one role: it leaves somebody who can repair, and who holds a role
\* that stops being ACTIVE was overlooked as a successor.
LEMMA RoleStepFine ==
  ASSUME NEW r \in Roles,
         \A d \in Gov!Docs : d # Gov!RoleDoc(r) => db'[d] = db[d],
         ~Late => Full(db') # {} \/ Full(db) \subseteq Full(db'),
         Gov!RoleState(db, r) = "ACTIVE" /\ Gov!RoleState(db', r) # "ACTIVE" =>
           \A u \in GovUsers : Gov!Assigned(db, <<u, r>>) =>
             Late /\ Gov!Hold(db, <<u, r>>).state # "ACTIVE"
  PROVE  GovFine
<1>1. \A h \in Gov!Pairs : /\ Gov!Hold(db', h) = Gov!Hold(db, h)
                           /\ db'[Gov!PhaseDoc(h)] = db[Gov!PhaseDoc(h)]
  BY GovDocs DEF Gov!Hold
<1>2. \A v \in GovUsers : Gov!Account(db', v) = Gov!Account(db, v)
  BY GovDocs DEF Gov!Account
<1>3. \A q \in Roles : q # r => Gov!RoleState(db', q) = Gov!RoleState(db, q)
  BY GovDocs DEF Gov!RoleState
<1>4. \A h \in Gov!Pairs : /\ Gov!Assigned(db', h) <=> Gov!Assigned(db, h)
                           /\ Gov!Effective(db', h) <=> Gov!Effective(db, h)
  BY <1>1 DEF Gov!Assigned, Gov!Effective
<1>5. \A h \in Gov!Pairs : \E u \in GovUsers : h = <<u, h[2]>> /\ h[2] \in Roles
  BY GovPairs
<1>6. Gov!RecoveryLostForCauseStep
  <2>1. Gov!LogIn(db) \subseteq Full(db)
    BY DEF Gov!LogIn, Full
  <2> QED BY <2>1, GovTxn DEF Gov!RecoveryLostForCauseStep, Full
<1>7. ASSUME NEW h \in Gov!Pairs, Gov!RoleState(db, h[2]) = "ACTIVE",
             Gov!RoleState(db', h[2]) # "ACTIVE", Gov!Assigned(db, h)
      PROVE  Late /\ Gov!Hold(db', h).state # "ACTIVE"
  <2>1. h[2] = r
    BY <1>3, <1>5, <1>7
  <2> QED BY <2>1, <1>1, <1>5, <1>7
<1>8. Gov!InactiveRolesUnheldStep
  BY <1>4, <1>7, GovTxn DEF Gov!InactiveRolesUnheldStep, Gov!OfInactiveRole
<1>9. Gov!GoneUsersGainLateStep
  <2>1. SUFFICES ASSUME NEW v \in GovUsers, NEW q \in Roles,
                        Gov!Gone(db', v), Gov!Authorizes(db', <<v, q>>),
                        ~(Gov!Gone(db, v) /\ Gov!Authorizes(db, <<v, q>>))
                 PROVE  Gov!Gone(db, v) /\ Gov!RoleState(db, q) # "ACTIVE"
    BY DEF Gov!GoneUsersGainLateStep
  <2>2. Gov!Gone(db, v)
    BY <2>1, <1>2 DEF Gov!Gone
  <2>3. <<v, q>> \in Gov!Pairs /\ <<v, q>>[2] = q
    BY GovPairs
  <2> QED BY <2>1, <2>2, <2>3, <1>4 DEF Gov!Authorizes
<1>10. Gov!EndedKeepsRoleStep
  BY <1>4, <1>7, GovTxn DEF Gov!EndedKeepsRoleStep
<1> QED BY <1>6, <1>8, <1>9, <1>10 DEF GovFine

\* A step on assignments: to a role that is not ACTIVE only a successor comes,
\* who has authority now was ACTIVE, and what is over is not revoked.
LEMMA HoldStepFine ==
  ASSUME \A u \in GovUsers : db'[Gov!UserDoc(u)] = db[Gov!UserDoc(u)],
         \A r \in Roles : db'[Gov!RoleDoc(r)] = db[Gov!RoleDoc(r)],
         \A h \in Gov!Pairs :
           /\ (/\ Gov!Assigned(db', h)
               /\ ~Gov!Assigned(db, h)
               /\ Gov!RoleState(db, h[2]) # "ACTIVE")
              => Late /\ Gov!Hold(db', h).state # "ACTIVE"
           /\ Gov!Effective(db', h) /\ ~Gov!Effective(db, h) =>
                \/ Late
                \/ Gov!Account(db, h[1]) = "ACTIVE"
                \/ db'[Gov!PhaseDoc(h)] # db[Gov!PhaseDoc(h)]
           /\ Gov!Assigned(db, h) /\ db[Gov!PhaseDoc(h)] = "OVER" =>
                Gov!Assigned(db', h) \/ Late
  PROVE  GovFine
<1>1. \A r \in Roles : Gov!RoleState(db', r) = Gov!RoleState(db, r)
  BY DEF Gov!RoleState
<1>2. \A h \in Gov!Pairs : h[1] \in GovUsers /\ h[2] \in Roles
  BY GovPairs
<1>3. Gov!RecoveryLostForCauseStep
  <2>1. SUFFICES ASSUME ~Gov!AssignmentEnds, Gov!LogIn(db) # {} PROVE Full(db') # {}
    BY DEF Gov!RecoveryLostForCauseStep, Full
  <2>2. \A h \in Gov!Pairs : Gov!Authorizes(db, h) => Gov!Authorizes(db', h)
    BY <2>1, <1>1, <1>2 DEF Gov!AssignmentEnds, Gov!Authorizes
  <2>3. \A u \in GovUsers, r \in Roles : <<u, r>> \in Gov!Pairs
    BY GovPairs
  <2>4. Full(db) \subseteq Full(db')
    BY <2>2, <2>3 DEF Full, Gov!RecoveryActors, Gov!Account
  <2> QED BY <2>1, <2>4 DEF Gov!LogIn, Full
<1>4. Gov!InactiveRolesUnheldStep
  BY <1>1, <1>2, GovTxn DEF Gov!InactiveRolesUnheldStep, Gov!OfInactiveRole
<1>5. Gov!GoneUsersGainLateStep
  <2>1. SUFFICES ASSUME NEW v \in GovUsers, NEW q \in Roles, ~Late,
                        Gov!Gone(db', v), Gov!Authorizes(db', <<v, q>>),
                        ~(Gov!Gone(db, v) /\ Gov!Authorizes(db, <<v, q>>))
                 PROVE  /\ Gov!Gone(db, v)
                        /\ db'[Gov!PhaseDoc(<<v, q>>)] # db[Gov!PhaseDoc(<<v, q>>)]
    BY GovTxn DEF Gov!GoneUsersGainLateStep
  <2>2. Gov!Gone(db, v) /\ Gov!Account(db, v) # "ACTIVE"
    BY <2>1 DEF Gov!Gone, Gov!Account
  <2>3. <<v, q>> \in Gov!Pairs /\ <<v, q>>[2] = q /\ <<v, q>>[1] = v
    BY GovPairs
  <2>4. Gov!Effective(db', <<v, q>>) /\ ~Gov!Effective(db, <<v, q>>)
    BY <2>1, <2>2, <2>3, <1>1 DEF Gov!Authorizes
  <2> QED BY <2>1, <2>2, <2>3, <2>4
<1>6. Gov!EndedKeepsRoleStep
  BY <1>1, <1>2, GovTxn DEF Gov!EndedKeepsRoleStep
<1> QED BY <1>3, <1>4, <1>5, <1>6 DEF GovFine
-----------------------------------------------------------------------------
(* The operations on users.                                                *)

LEMMA UserCommit ==
  ASSUME GovInv, NEW c \in Clients \cup {"now"}, Gov!Ready(c), NEW u \in GovUsers,
         NEW x, UserOK(x), Gov!Commit(c, Gov!:>(Gov!UserDoc(u), x))
  PROVE  /\ GovInv'
         /\ \A d \in Gov!Docs : d # Gov!UserDoc(u) => db'[d] = db[d]
         /\ Gov!Account(db', u) = x.state
         /\ Gov!Account(db, u) = Gov!Account(Gov!Seen(c), u)
         /\ ~Late => Gov!Seen(c) = db
         /\ UserOK(Gov!Seen(c)[Gov!UserDoc(u)])
<1> DEFINE d == Gov!UserDoc(u)
           puts == Gov!:>(d, x)
<1>1. DOMAIN puts = {d} /\ puts[d] = x
  BY GovPut
<1>2. Able(c) /\ Committed(Gov!Docs, c, puts) /\ Gov!Seen(c) = Sees(c)
  BY GovTxn
<1> HIDE DEF puts
<1>3. GovWriteOK(puts)
  BY <1>1, GovDocs DEF GovWriteOK
<1>4. /\ GovInv'
      /\ \A e \in Gov!Docs : db'[e] = IF e \in DOMAIN puts THEN puts[e] ELSE db[e]
      /\ \A e \in DOMAIN puts : Sees(c)[e] = db[e]
      /\ ~Late => Sees(c) = db
  BY <1>2, <1>3, GovCommit
<1>5. d \in Gov!Docs
  BY GovDocs
<1>6. GovOK(Sees(c))
  BY <1>2, GovSees
<1> QED BY <1>1, <1>2, <1>4, <1>5, <1>6 DEF Gov!Account, GovOK

LEMMA UserOps ==
  ASSUME GovInv, NEW c \in Clients \cup {"now"}, NEW u \in GovUsers,
         \/ \E linked \in BOOLEAN : Gov!CreateUser(c, u, linked)
         \/ Gov!ActivateUser(c, u) \/ Gov!DisableUser(c, u) \/ Gov!ArchiveUser(c, u)
         \/ Gov!SetAuthLinkage(c, u) \/ Gov!UnlinkAuthLinkage(c, u)
  PROVE  GovInv' /\ GovFine
<1> DEFINE s == Gov!Seen(c)
           x == s[Gov!UserDoc(u)]
<1>0. x = s[Gov!UserDoc(u)] /\ x.state = Gov!Account(s, u)
  BY DEF Gov!Account
<1>1. Gov!Ready(c) => UserOK(x)
  BY GovSees, GovTxn DEF GovOK
<1>2. u \in Full(db) => Gov!Account(db, u) = "ACTIVE"
  BY DEF Full, Gov!RecoveryActors
<1>3. Full(db) # {u} \/ u \in Full(db)
  OBVIOUS
<1> HIDE DEF x, s
<1>4. ASSUME NEW linked \in BOOLEAN, Gov!CreateUser(c, u, linked)
      PROVE  GovInv' /\ GovFine
  <2> DEFINE y == [state |-> "PENDING", linked |-> linked]
  <2>1. UserOK(y) /\ y.state = "PENDING"
    BY DEF UserOK
  <2> HIDE DEF y
  <2>2. /\ Gov!Ready(c) /\ Gov!Account(s, u) = "none"
        /\ Gov!Commit(c, Gov!:>(Gov!UserDoc(u), y))
    BY <1>4 DEF Gov!CreateUser, y, s
  <2>3. /\ GovInv'
        /\ \A d \in Gov!Docs : d # Gov!UserDoc(u) => db'[d] = db[d]
        /\ Gov!Account(db', u) = "PENDING"
        /\ Gov!Account(db, u) = "none"
    BY <2>1, <2>2, UserCommit DEF s
  <2>4. Full(db) # {u} /\ ~Gov!Gone(db', u)
    BY <2>3, <1>2, <1>3 DEF Gov!Gone
  <2> QED BY <2>3, <2>4, UserStepFine
<1>5. ASSUME Gov!ActivateUser(c, u)
      PROVE  GovInv' /\ GovFine
  <2> DEFINE y == [x EXCEPT !.state = "ACTIVE"]
  <2>1. /\ Gov!Ready(c) /\ Gov!Account(s, u) \in {"PENDING", "DISABLED"}
        /\ Gov!Commit(c, Gov!:>(Gov!UserDoc(u), y))
    BY <1>5 DEF Gov!ActivateUser, x, s
  <2>2. UserOK(y) /\ y.state = "ACTIVE"
    BY <2>1, <1>0, <1>1 DEF UserOK, Gov!Nothing
  <2> HIDE DEF y
  <2>3. /\ GovInv'
        /\ \A d \in Gov!Docs : d # Gov!UserDoc(u) => db'[d] = db[d]
        /\ Gov!Account(db', u) = "ACTIVE"
    BY <2>1, <2>2, UserCommit
  <2>4. ~Gov!Gone(db', u)
    BY <2>3 DEF Gov!Gone
  <2> QED BY <2>3, <2>4, UserStepFine
<1>6. ASSUME Gov!DisableUser(c, u)
      PROVE  GovInv' /\ GovFine
  <2> DEFINE y == [x EXCEPT !.state = "DISABLED"]
  <2>1. /\ Gov!Ready(c) /\ Gov!Account(s, u) = "ACTIVE"
        /\ Gov!NotLastRecoveryActor(s, u) /\ Gov!HoldsNothing(s, u)
        /\ Gov!Commit(c, Gov!:>(Gov!UserDoc(u), y))
    BY <1>6 DEF Gov!DisableUser, x, s
  <2>2. UserOK(y)
    BY <2>1, <1>0, <1>1 DEF UserOK, Gov!Nothing
  <2> HIDE DEF y
  <2>3. /\ GovInv'
        /\ \A d \in Gov!Docs : d # Gov!UserDoc(u) => db'[d] = db[d]
        /\ ~Late => s = db
    BY <2>1, <2>2, UserCommit DEF s
  <2>4. ~Late => Full(db) # {u} /\ Gov!HoldsNothing(db, u)
    BY <2>1, <2>3 DEF Gov!NotLastRecoveryActor, Full
  <2> QED BY <2>3, <2>4, UserStepFine
<1>7. ASSUME Gov!ArchiveUser(c, u)
      PROVE  GovInv' /\ GovFine
  <2> DEFINE y == [x EXCEPT !.state = "ARCHIVED"]
  <2>1. /\ Gov!Ready(c) /\ Gov!Account(s, u) \in {"PENDING", "DISABLED"}
        /\ Gov!HoldsNothing(s, u)
        /\ Gov!Commit(c, Gov!:>(Gov!UserDoc(u), y))
    BY <1>7 DEF Gov!ArchiveUser, x, s
  <2>2. UserOK(y)
    BY <2>1, <1>0, <1>1 DEF UserOK, Gov!Nothing
  <2> HIDE DEF y
  <2>3. /\ GovInv'
        /\ \A d \in Gov!Docs : d # Gov!UserDoc(u) => db'[d] = db[d]
        /\ Gov!Account(db, u) \in {"PENDING", "DISABLED"}
        /\ ~Late => s = db
    BY <2>1, <2>2, UserCommit DEF s
  <2>4. Full(db) # {u} /\ (~Late => Gov!HoldsNothing(db, u))
    BY <2>1, <2>3, <1>2, <1>3
  <2> QED BY <2>3, <2>4, UserStepFine
<1>8. ASSUME Gov!SetAuthLinkage(c, u)
      PROVE  GovInv' /\ GovFine
  <2> DEFINE y == [x EXCEPT !.linked = TRUE]
  <2>1. /\ Gov!Ready(c) /\ Gov!Account(s, u) \notin {"none", "ARCHIVED"}
        /\ Gov!NotLastRecoveryActor(s, u)
        /\ Gov!Commit(c, Gov!:>(Gov!UserDoc(u), y))
    BY <1>8 DEF Gov!SetAuthLinkage, x, s
  <2>2. UserOK(y) /\ y.state = x.state
    BY <2>1, <1>0, <1>1 DEF UserOK, Gov!Nothing
  <2> HIDE DEF y
  <2>3. /\ GovInv'
        /\ \A d \in Gov!Docs : d # Gov!UserDoc(u) => db'[d] = db[d]
        /\ Gov!Account(db', u) = y.state
        /\ Gov!Account(db, u) = Gov!Account(s, u)
        /\ ~Late => s = db
    BY <2>1, <2>2, UserCommit DEF s
  <2>4. Gov!Account(db', u) = Gov!Account(db, u)
    BY <2>2, <2>3, <1>0
  <2>5. ~Late => Full(db) # {u}
    BY <2>1, <2>3, <1>2, <1>3 DEF Gov!NotLastRecoveryActor, Full
  <2>6. Gov!Gone(db', u) => Gov!Gone(db, u)
    BY <2>4 DEF Gov!Gone
  <2> QED BY <2>3, <2>5, <2>6, UserStepFine
<1>9. ASSUME Gov!UnlinkAuthLinkage(c, u)
      PROVE  GovInv' /\ GovFine
  <2> DEFINE y == [state |-> "PENDING", linked |-> FALSE]
  <2>1. /\ Gov!Ready(c) /\ Gov!NotLastRecoveryActor(s, u)
        /\ Gov!Commit(c, Gov!:>(Gov!UserDoc(u), y))
    BY <1>9 DEF Gov!UnlinkAuthLinkage, x, s
  <2>2. UserOK(y) /\ y.state = "PENDING"
    BY DEF UserOK
  <2> HIDE DEF y
  <2>3. /\ GovInv'
        /\ \A d \in Gov!Docs : d # Gov!UserDoc(u) => db'[d] = db[d]
        /\ Gov!Account(db', u) = "PENDING"
        /\ ~Late => s = db
    BY <2>1, <2>2, UserCommit DEF s
  <2>4. ~Late => Full(db) # {u}
    BY <2>1, <2>3, <1>2, <1>3 DEF Gov!NotLastRecoveryActor, Full
  <2>5. ~Gov!Gone(db', u)
    BY <2>3 DEF Gov!Gone
  <2> QED BY <2>3, <2>4, <2>5, UserStepFine
<1> QED BY <1>4, <1>5, <1>6, <1>7, <1>8, <1>9
-----------------------------------------------------------------------------
(* The operations on roles.                                                *)

LEMMA RoleCommit ==
  ASSUME GovInv, NEW c \in Clients \cup {"now"}, Gov!Ready(c), NEW r \in Roles,
         NEW x, RoleOK(x), Gov!Commit(c, Gov!:>(Gov!RoleDoc(r), x))
  PROVE  /\ GovInv'
         /\ \A d \in Gov!Docs : d # Gov!RoleDoc(r) => db'[d] = db[d]
         /\ db'[Gov!RoleDoc(r)] = x
         /\ Gov!Seen(c)[Gov!RoleDoc(r)] = db[Gov!RoleDoc(r)]
         /\ ~Late => Gov!Seen(c) = db
         /\ \A u \in GovUsers : Gov!Hold(db, <<u, r>>).state = "ACTIVE" =>
              Gov!Assigned(Gov!Seen(c), <<u, r>>)
<1> DEFINE d == Gov!RoleDoc(r)
           puts == Gov!:>(d, x)
<1>1. DOMAIN puts = {d} /\ puts[d] = x
  BY GovPut
<1>2. Able(c) /\ Committed(Gov!Docs, c, puts) /\ Gov!Seen(c) = Sees(c)
  BY GovTxn
<1> HIDE DEF puts
<1>3. GovWriteOK(puts)
  BY <1>1, GovDocs DEF GovWriteOK
<1>4. /\ GovInv'
      /\ \A e \in Gov!Docs : db'[e] = IF e \in DOMAIN puts THEN puts[e] ELSE db[e]
      /\ \A e \in DOMAIN puts : Sees(c)[e] = db[e]
      /\ ~Late => Sees(c) = db
  BY <1>2, <1>3, GovCommit
<1>5. d \in Gov!Docs
  BY GovDocs
<1>6. d \notin (IF c = "now" THEN {} ELSE missed[c])
  BY <1>1, <1>2 DEF Committed
<1>7. \A u \in GovUsers : Gov!Hold(db, <<u, r>>).state = "ACTIVE" =>
        Gov!Assigned(Sees(c), <<u, r>>)
  BY <1>2, <1>6, GovSees
<1> QED BY <1>1, <1>2, <1>4, <1>5, <1>7

\* The database after the write is what the guard of ChangeRole was asked about.
LEMMA RoleWritten ==
  ASSUME GovInv, NEW c \in Clients \cup {"now"}, Gov!Ready(c), NEW r \in Roles,
         NEW x, RoleOK(x), Gov!ChangeRole(c, r, x)
  PROVE  ~Late => Full(db') # {}
<1> DEFINE d == Gov!RoleDoc(r)
           puts == Gov!:>(d, x)
<1>1. DOMAIN puts = {d} /\ puts[d] = x
  BY GovPut
<1>2. Gov!Commit(c, puts) /\ Full(Gov!@@(puts, Gov!Seen(c))) # {}
  BY DEF Gov!ChangeRole, Full
<1> HIDE DEF puts
<1>3. d \in Gov!Docs
  BY GovDocs
<1>4. SUFFICES ASSUME Gov!Seen(c) = db PROVE db' = Gov!@@(puts, db)
  BY <1>2, RoleCommit DEF puts, Gov!ChangeRole
<1>5. DOMAIN db = Gov!Docs
  BY DEF GovInv, Taken
<1>6. DOMAIN puts \cup DOMAIN db = Gov!Docs
  BY <1>1, <1>3, <1>5
<1>7. db' = [e \in Gov!Docs |-> IF e \in DOMAIN puts THEN puts[e] ELSE db[e]]
  BY <1>2, GovTxn DEF Committed
<1> QED BY <1>6, <1>7 DEF Gov!@@

LEMMA RoleOps ==
  ASSUME GovInv, NEW c \in Clients \cup {"now"}, NEW r \in Roles,
         \/ \E full \in BOOLEAN :
              Gov!CreateRole(c, r, full) \/ Gov!SetRolePermissions(c, r, full)
         \/ Gov!ActivateRole(c, r) \/ Gov!DeactivateRole(c, r) \/ Gov!ArchiveRole(c, r)
  PROVE  GovInv' /\ GovFine
<1> DEFINE s == Gov!Seen(c)
           x == s[Gov!RoleDoc(r)]
<1>0. x = s[Gov!RoleDoc(r)] /\ x.state = Gov!RoleState(s, r)
  BY DEF Gov!RoleState
<1>1. Gov!Ready(c) => RoleOK(x)
  BY GovSees, GovTxn DEF GovOK
<1> HIDE DEF x, s
<1>2. ASSUME NEW y, RoleOK(y), Gov!Ready(c), Gov!ChangeRole(c, r, y),
             \/ x.state # "ACTIVE" \/ y.state = "ACTIVE"
             \/ ~Gov!HasAssignments(s, r)
      PROVE  GovInv' /\ GovFine
  <2>1. Gov!Commit(c, Gov!:>(Gov!RoleDoc(r), y))
    BY <1>2 DEF Gov!ChangeRole
  <2>2. /\ GovInv'
        /\ \A d \in Gov!Docs : d # Gov!RoleDoc(r) => db'[d] = db[d]
        /\ db'[Gov!RoleDoc(r)] = y
        /\ x = db[Gov!RoleDoc(r)]
        /\ ~Late => s = db
        /\ \A u \in GovUsers : Gov!Hold(db, <<u, r>>).state = "ACTIVE" =>
             Gov!Assigned(s, <<u, r>>)
    BY <1>2, <2>1, RoleCommit DEF s, x
  <2>3. ~Late => Full(db') # {}
    BY <1>2, RoleWritten
  <2>4. ASSUME Gov!RoleState(db, r) = "ACTIVE", Gov!RoleState(db', r) # "ACTIVE",
               NEW u \in GovUsers, Gov!Assigned(db, <<u, r>>)
        PROVE  Late /\ Gov!Hold(db, <<u, r>>).state # "ACTIVE"
    <3>1. ~Gov!Assigned(s, <<u, r>>)
      BY <1>2, <2>2, <2>4 DEF Gov!RoleState, Gov!HasAssignments
    <3> QED BY <2>2, <2>4, <3>1
  <2> QED BY <2>2, <2>3, <2>4, RoleStepFine
<1>3. ASSUME NEW full \in BOOLEAN, Gov!CreateRole(c, r, full)
      PROVE  GovInv' /\ GovFine
  <2> DEFINE y == [state |-> "DRAFT", full |-> full]
  <2>1. RoleOK(y)
    BY DEF RoleOK
  <2>2. /\ Gov!Ready(c) /\ x.state = "none"
        /\ Gov!Commit(c, Gov!:>(Gov!RoleDoc(r), y))
    BY <1>3, <1>0 DEF Gov!CreateRole, s
  <2> HIDE DEF y
  <2>3. /\ GovInv'
        /\ \A d \in Gov!Docs : d # Gov!RoleDoc(r) => db'[d] = db[d]
        /\ x = db[Gov!RoleDoc(r)]
    BY <2>1, <2>2, RoleCommit DEF s, x
  <2>4. Gov!RoleState(db, r) = "none"
    BY <2>2, <2>3 DEF Gov!RoleState
  <2>5. \A h \in Gov!Pairs : h[2] # r => Gov!RoleState(db', h[2]) = Gov!RoleState(db, h[2])
    BY <2>3, GovDocs, GovPairs DEF Gov!RoleState
  <2>6. \A h \in Gov!Pairs : Gov!Authorizes(db, h) => h[2] # r /\ Gov!Authorizes(db', h)
    BY <2>3, <2>4, <2>5, GovDocs DEF Gov!Authorizes, Gov!Effective, Gov!Hold
  <2>7. ASSUME NEW u \in GovUsers, NEW q \in Roles, Gov!Authorizes(db, <<u, q>>)
        PROVE  /\ Gov!Authorizes(db', <<u, q>>)
               /\ db'[Gov!RoleDoc(q)] = db[Gov!RoleDoc(q)]
    <3>1. <<u, q>> \in Gov!Pairs /\ <<u, q>>[2] = q
      BY GovPairs
    <3>2. q # r /\ Gov!Authorizes(db', <<u, q>>)
      BY <2>6, <2>7, <3>1
    <3> QED BY <2>3, <3>2, GovDocs
  <2>8. \A u \in GovUsers : Gov!Account(db', u) = Gov!Account(db, u)
    BY <2>3, GovDocs DEF Gov!Account
  <2>9. Full(db) \subseteq Full(db')
    BY <2>7, <2>8 DEF Full, Gov!RecoveryActors
  <2> QED BY <2>3, <2>4, <2>9, RoleStepFine
<1>4. ASSUME NEW full \in BOOLEAN, Gov!SetRolePermissions(c, r, full)
      PROVE  GovInv' /\ GovFine
  <2> DEFINE y == [x EXCEPT !.full = full]
  <2>1. Gov!Ready(c) /\ x.state # "none" /\ Gov!ChangeRole(c, r, y)
    BY <1>4 DEF Gov!SetRolePermissions, x, s
  <2>2. RoleOK(y) /\ y.state = x.state
    BY <2>1, <1>1 DEF RoleOK, Gov!Nothing
  <2> HIDE DEF y
  <2> QED BY <2>1, <2>2, <1>2
<1>5. ASSUME Gov!ActivateRole(c, r)
      PROVE  GovInv' /\ GovFine
  <2> DEFINE y == [x EXCEPT !.state = "ACTIVE"]
  <2>1. Gov!Ready(c) /\ x.state # "none" /\ Gov!ChangeRole(c, r, y)
    BY <1>5 DEF Gov!ActivateRole, x, s
  <2>2. RoleOK(y) /\ y.state = "ACTIVE"
    BY <2>1, <1>1 DEF RoleOK, Gov!Nothing
  <2> HIDE DEF y
  <2> QED BY <2>1, <2>2, <1>2
<1>6. ASSUME Gov!DeactivateRole(c, r)
      PROVE  GovInv' /\ GovFine
  <2> DEFINE y == [x EXCEPT !.state = "INACTIVE"]
  <2>1. /\ Gov!Ready(c) /\ Gov!RoleState(s, r) = "ACTIVE" /\ Gov!ChangeRole(c, r, y)
        /\ ~Gov!HasAssignments(s, r)
    BY <1>6 DEF Gov!DeactivateRole, x, s
  <2>2. RoleOK(y)
    BY <2>1, <1>0, <1>1 DEF RoleOK, Gov!Nothing
  <2> HIDE DEF y
  <2> QED BY <2>1, <2>2, <1>2
<1>7. ASSUME Gov!ArchiveRole(c, r)
      PROVE  GovInv' /\ GovFine
  <2> DEFINE y == [x EXCEPT !.state = "ARCHIVED"]
  <2>1. /\ Gov!Ready(c) /\ Gov!RoleState(s, r) # "none" /\ Gov!ChangeRole(c, r, y)
        /\ ~Gov!HasAssignments(s, r)
    BY <1>7 DEF Gov!ArchiveRole, x, s
  <2>2. RoleOK(y)
    BY <2>1, <1>0, <1>1 DEF RoleOK, Gov!Nothing
  <2> HIDE DEF y
  <2> QED BY <2>1, <2>2, <1>2
<1> QED BY <1>3, <1>4, <1>5, <1>6, <1>7
-----------------------------------------------------------------------------
(* The operations on assignments, and their phases.                        *)

LEMMA HoldCommit ==
  ASSUME GovInv, NEW c \in Clients \cup {"now"}, Gov!Ready(c),
         NEW puts, Gov!Commit(c, puts), GovWriteOK(puts),
         \A u \in GovUsers : Gov!UserDoc(u) \notin DOMAIN puts,
         \A r \in Roles : Gov!RoleDoc(r) \in DOMAIN puts =>
           puts[Gov!RoleDoc(r)] = Gov!Seen(c)[Gov!RoleDoc(r)]
  PROVE  /\ GovInv'
         /\ \A u \in GovUsers : db'[Gov!UserDoc(u)] = db[Gov!UserDoc(u)]
         /\ \A r \in Roles : db'[Gov!RoleDoc(r)] = db[Gov!RoleDoc(r)]
         /\ \A h \in Gov!Pairs :
              /\ Gov!HoldDoc(h) \in DOMAIN puts => Gov!Hold(db', h) = puts[Gov!HoldDoc(h)]
              /\ Gov!HoldDoc(h) \notin DOMAIN puts => Gov!Hold(db', h) = Gov!Hold(db, h)
              /\ Gov!PhaseDoc(h) \in DOMAIN puts => db'[Gov!PhaseDoc(h)] = puts[Gov!PhaseDoc(h)]
              /\ Gov!PhaseDoc(h) \notin DOMAIN puts => db'[Gov!PhaseDoc(h)] = db[Gov!PhaseDoc(h)]
              /\ Gov!HoldDoc(h) \in DOMAIN puts => Gov!Hold(Gov!Seen(c), h) = Gov!Hold(db, h)
         /\ \A r \in Roles : Gov!RoleDoc(r) \in DOMAIN puts =>
              Gov!RoleState(Gov!Seen(c), r) = Gov!RoleState(db, r)
         /\ ~Late => Gov!Seen(c) = db
<1>1. Able(c) /\ Committed(Gov!Docs, c, puts) /\ Gov!Seen(c) = Sees(c)
  BY GovTxn
<1>2. /\ GovInv'
      /\ \A e \in Gov!Docs : db'[e] = IF e \in DOMAIN puts THEN puts[e] ELSE db[e]
      /\ \A e \in DOMAIN puts : Sees(c)[e] = db[e]
      /\ ~Late => Sees(c) = db
  BY <1>1, GovCommit
<1>3. \A u \in GovUsers : db'[Gov!UserDoc(u)] = db[Gov!UserDoc(u)]
  BY <1>2, GovDocs
<1>4. \A r \in Roles : db'[Gov!RoleDoc(r)] = db[Gov!RoleDoc(r)]
  BY <1>1, <1>2, GovDocs
<1>5. \A h \in Gov!Pairs :
        /\ Gov!HoldDoc(h) \in DOMAIN puts => Gov!Hold(db', h) = puts[Gov!HoldDoc(h)]
        /\ Gov!HoldDoc(h) \notin DOMAIN puts => Gov!Hold(db', h) = Gov!Hold(db, h)
        /\ Gov!PhaseDoc(h) \in DOMAIN puts => db'[Gov!PhaseDoc(h)] = puts[Gov!PhaseDoc(h)]
        /\ Gov!PhaseDoc(h) \notin DOMAIN puts => db'[Gov!PhaseDoc(h)] = db[Gov!PhaseDoc(h)]
        /\ Gov!HoldDoc(h) \in DOMAIN puts => Gov!Hold(Gov!Seen(c), h) = Gov!Hold(db, h)
  BY <1>1, <1>2, GovDocs DEF Gov!Hold
<1>6. \A r \in Roles : Gov!RoleDoc(r) \in DOMAIN puts =>
        Gov!RoleState(Gov!Seen(c), r) = Gov!RoleState(db, r)
  BY <1>1, <1>2 DEF Gov!RoleState
<1> QED BY <1>1, <1>2, <1>3, <1>4, <1>5, <1>6

LEMMA ApplyFine ==
  ASSUME GovInv, NEW c \in Clients \cup {"now"}, NEW u \in GovUsers, NEW r \in Roles,
         NEW phase, Gov!Apply(c, u, r, phase)
  PROVE  GovInv' /\ GovFine
<1> DEFINE s == Gov!Seen(c)
           h == <<u, r>>
           p == Gov!:>(Gov!HoldDoc(h), Gov!Fresh("ACTIVE"))
           q == Gov!:>(Gov!PhaseDoc(h), phase)
           t == Gov!Touch(s, r)
           pq == Gov!@@(p, q)
           puts == Gov!@@(pq, t)
<1>1. /\ Gov!Ready(c) /\ Gov!Account(s, u) = "ACTIVE"
      /\ Gov!RoleState(s, r) = "ACTIVE" /\ Gov!Commit(c, puts)
  BY DEF Gov!Apply
<1>2. h \in Gov!Pairs /\ h[1] = u /\ h[2] = r
  BY GovPairs
<1>3. DOMAIN p = {Gov!HoldDoc(h)} /\ p[Gov!HoldDoc(h)] = Gov!Fresh("ACTIVE")
  BY GovPut
<1>4. DOMAIN q = {Gov!PhaseDoc(h)}
  BY GovPut
<1>5. DOMAIN t = {Gov!RoleDoc(r)} /\ t[Gov!RoleDoc(r)] = s[Gov!RoleDoc(r)]
  BY GovPut DEF Gov!Touch
<1> HIDE DEF p, q, t, s
<1>6. DOMAIN puts = {Gov!HoldDoc(h), Gov!PhaseDoc(h), Gov!RoleDoc(r)}
  <2>1. DOMAIN pq = DOMAIN p \cup DOMAIN q
    BY DEF Gov!@@
  <2> HIDE DEF pq
  <2>2. DOMAIN puts = DOMAIN pq \cup DOMAIN t
    BY DEF Gov!@@
  <2> HIDE DEF puts
  <2> QED BY <2>1, <2>2, <1>3, <1>4, <1>5
<1>7. /\ puts[Gov!HoldDoc(h)] = Gov!Fresh("ACTIVE")
      /\ puts[Gov!RoleDoc(r)] = s[Gov!RoleDoc(r)]
  <2>1. /\ DOMAIN pq = DOMAIN p \cup DOMAIN q
        /\ \A d \in DOMAIN p : pq[d] = p[d]
    BY DEF Gov!@@
  <2> HIDE DEF pq
  <2>2. /\ \A d \in DOMAIN pq : puts[d] = pq[d]
        /\ \A d \in DOMAIN t \ DOMAIN pq : puts[d] = t[d]
    BY DEF Gov!@@
  <2> HIDE DEF puts
  <2> QED BY <2>1, <2>2, <1>3, <1>4, <1>5, GovDocs
<1> HIDE DEF puts, pq, h
<1>8. RoleOK(s[Gov!RoleDoc(r)])
  BY <1>1, GovSees, GovTxn DEF GovOK, s
<1>9. /\ HoldOK(Gov!Fresh("ACTIVE")) /\ Gov!Fresh("ACTIVE").state = "ACTIVE"
      /\ Gov!Fresh("ACTIVE") # Gov!Nothing
  BY DEF HoldOK, Gov!Fresh, Gov!Nothing
<1>10. GovWriteOK(puts)
  BY <1>2, <1>6, <1>7, <1>8, <1>9, GovDocs DEF GovWriteOK
<1>11. /\ \A v \in GovUsers : Gov!UserDoc(v) \notin DOMAIN puts
       /\ \A v \in Roles : Gov!RoleDoc(v) \in DOMAIN puts =>
            puts[Gov!RoleDoc(v)] = s[Gov!RoleDoc(v)]
  BY <1>6, <1>7, GovDocs
<1>12. /\ GovInv'
       /\ \A v \in GovUsers : db'[Gov!UserDoc(v)] = db[Gov!UserDoc(v)]
       /\ \A v \in Roles : db'[Gov!RoleDoc(v)] = db[Gov!RoleDoc(v)]
       /\ \A g \in Gov!Pairs :
            /\ Gov!HoldDoc(g) \in DOMAIN puts => Gov!Hold(db', g) = puts[Gov!HoldDoc(g)]
            /\ Gov!HoldDoc(g) \notin DOMAIN puts => Gov!Hold(db', g) = Gov!Hold(db, g)
            /\ Gov!PhaseDoc(g) \notin DOMAIN puts => db'[Gov!PhaseDoc(g)] = db[Gov!PhaseDoc(g)]
       /\ Gov!RoleDoc(r) \in DOMAIN puts => Gov!RoleState(s, r) = Gov!RoleState(db, r)
       /\ ~Late => s = db
  BY <1>1, <1>10, <1>11, HoldCommit DEF s
<1>13. /\ Gov!Assigned(db', h) /\ Gov!RoleState(db, r) = "ACTIVE"
       /\ ~Late => Gov!Account(db, u) = "ACTIVE"
  BY <1>1, <1>2, <1>6, <1>7, <1>9, <1>12 DEF Gov!Assigned
<1>14. ASSUME NEW g \in Gov!Pairs, g # h
       PROVE  Gov!Hold(db', g) = Gov!Hold(db, g) /\ db'[Gov!PhaseDoc(g)] = db[Gov!PhaseDoc(g)]
  BY <1>14, <1>6, <1>12, GovDocs
<1>15. \A g \in Gov!Pairs : g # h =>
         /\ Gov!Assigned(db', g) <=> Gov!Assigned(db, g)
         /\ Gov!Effective(db', g) <=> Gov!Effective(db, g)
  BY <1>14 DEF Gov!Assigned, Gov!Effective
<1> QED BY <1>2, <1>12, <1>13, <1>15, HoldStepFine

LEMMA RevokeFine ==
  ASSUME GovInv, NEW c \in Clients \cup {"now"}, NEW u \in GovUsers, NEW r \in Roles,
         Gov!Revoke(c, u, r)
  PROVE  GovInv' /\ GovFine
<1> DEFINE s == Gov!Seen(c)
           h == <<u, r>>
           p == Gov!:>(Gov!HoldDoc(h), Gov!Nothing)
           t == Gov!Touch(s, r)
           puts == Gov!@@(p, t)
<1>1. Gov!Ready(c) /\ Gov!Manageable(s, h) /\ Gov!Commit(c, puts)
  BY DEF Gov!Revoke
<1>2. h \in Gov!Pairs /\ h[1] = u /\ h[2] = r
  BY GovPairs
<1>3. DOMAIN p = {Gov!HoldDoc(h)} /\ p[Gov!HoldDoc(h)] = Gov!Nothing
  BY GovPut
<1>4. DOMAIN t = {Gov!RoleDoc(r)} /\ t[Gov!RoleDoc(r)] = s[Gov!RoleDoc(r)]
  BY GovPut DEF Gov!Touch
<1> HIDE DEF p, t, s
<1>5. /\ DOMAIN puts = DOMAIN p \cup DOMAIN t
      /\ \A d \in DOMAIN p : puts[d] = p[d]
      /\ \A d \in DOMAIN t \ DOMAIN p : puts[d] = t[d]
  BY DEF Gov!@@
<1> HIDE DEF puts
<1>6. /\ DOMAIN puts = {Gov!HoldDoc(h), Gov!RoleDoc(r)}
      /\ puts[Gov!HoldDoc(h)] = Gov!Nothing
      /\ puts[Gov!RoleDoc(r)] = s[Gov!RoleDoc(r)]
  BY <1>3, <1>4, <1>5, GovDocs
<1> HIDE DEF h
<1>7. RoleOK(s[Gov!RoleDoc(r)])
  BY <1>1, GovSees, GovTxn DEF GovOK, s
<1>8. HoldOK(Gov!Nothing) /\ Gov!Nothing.state = "none"
  BY DEF HoldOK, Gov!Nothing
<1>9. GovWriteOK(puts)
  BY <1>2, <1>6, <1>7, <1>8, GovDocs DEF GovWriteOK
<1>10. /\ \A v \in GovUsers : Gov!UserDoc(v) \notin DOMAIN puts
       /\ \A v \in Roles : Gov!RoleDoc(v) \in DOMAIN puts =>
            puts[Gov!RoleDoc(v)] = s[Gov!RoleDoc(v)]
  BY <1>6, GovDocs
<1>11. /\ GovInv'
       /\ \A v \in GovUsers : db'[Gov!UserDoc(v)] = db[Gov!UserDoc(v)]
       /\ \A v \in Roles : db'[Gov!RoleDoc(v)] = db[Gov!RoleDoc(v)]
       /\ \A g \in Gov!Pairs :
            /\ Gov!HoldDoc(g) \in DOMAIN puts => Gov!Hold(db', g) = puts[Gov!HoldDoc(g)]
            /\ Gov!HoldDoc(g) \notin DOMAIN puts => Gov!Hold(db', g) = Gov!Hold(db, g)
            /\ Gov!PhaseDoc(g) \notin DOMAIN puts => db'[Gov!PhaseDoc(g)] = db[Gov!PhaseDoc(g)]
       /\ ~Late => s = db
  BY <1>1, <1>9, <1>10, HoldCommit DEF s
<1>12. ~Gov!Assigned(db', h) /\ ~Gov!Effective(db', h)
  BY <1>2, <1>6, <1>8, <1>11 DEF Gov!Assigned, Gov!Effective
<1>13. s[Gov!PhaseDoc(h)] # "OVER"
  BY <1>1 DEF Gov!Manageable, Gov!Effective
<1>14. \A g \in Gov!Pairs : g # h =>
         Gov!Hold(db', g) = Gov!Hold(db, g) /\ db'[Gov!PhaseDoc(g)] = db[Gov!PhaseDoc(g)]
  BY <1>6, <1>11, GovDocs
<1>15. \A g \in Gov!Pairs : g # h =>
         /\ Gov!Assigned(db', g) <=> Gov!Assigned(db, g)
         /\ Gov!Effective(db', g) <=> Gov!Effective(db, g)
  BY <1>14 DEF Gov!Assigned, Gov!Effective
<1> QED BY <1>2, <1>11, <1>12, <1>13, <1>15, HoldStepFine

LEMMA SuspendFine ==
  ASSUME GovInv, NEW c \in Clients \cup {"now"}, NEW u \in GovUsers, NEW r \in Roles,
         Gov!Suspend(c, u, r)
  PROVE  GovInv' /\ GovFine
<1> DEFINE s == Gov!Seen(c)
           h == <<u, r>>
           x == Gov!Hold(s, h)
           y == [x EXCEPT !.state = "SUSPENDED"]
           puts == Gov!:>(Gov!HoldDoc(h), y)
<1>1. Gov!Ready(c) /\ Gov!Effective(s, h) /\ Gov!Commit(c, puts)
  BY DEF Gov!Suspend
<1>2. h \in Gov!Pairs /\ h[1] = u /\ h[2] = r
  BY GovPairs
<1>3. DOMAIN puts = {Gov!HoldDoc(h)} /\ puts[Gov!HoldDoc(h)] = y
  BY GovPut
<1>4. HoldOK(x) /\ x.state \in {"ACTIVE", "SCHEDULED"}
  BY <1>1, <1>2, GovSees, GovTxn DEF GovOK, Gov!Effective, Gov!Hold
<1> HIDE DEF puts, h, s, x
<1>5. HoldOK(y) /\ y.state = "SUSPENDED" /\ y # Gov!Nothing
  BY <1>4 DEF HoldOK, Gov!Nothing
<1> HIDE DEF y
<1>6. GovWriteOK(puts)
  BY <1>2, <1>3, <1>5, GovDocs DEF GovWriteOK
<1>7. /\ \A v \in GovUsers : Gov!UserDoc(v) \notin DOMAIN puts
      /\ \A v \in Roles : Gov!RoleDoc(v) \notin DOMAIN puts
  BY <1>3, GovDocs
<1>8. /\ GovInv'
      /\ \A v \in GovUsers : db'[Gov!UserDoc(v)] = db[Gov!UserDoc(v)]
      /\ \A v \in Roles : db'[Gov!RoleDoc(v)] = db[Gov!RoleDoc(v)]
      /\ \A g \in Gov!Pairs :
           /\ Gov!HoldDoc(g) \in DOMAIN puts => Gov!Hold(db', g) = puts[Gov!HoldDoc(g)]
           /\ Gov!HoldDoc(g) \notin DOMAIN puts => Gov!Hold(db', g) = Gov!Hold(db, g)
           /\ Gov!PhaseDoc(g) \notin DOMAIN puts => db'[Gov!PhaseDoc(g)] = db[Gov!PhaseDoc(g)]
           /\ Gov!HoldDoc(g) \in DOMAIN puts => Gov!Hold(s, g) = Gov!Hold(db, g)
  BY <1>1, <1>6, <1>7, HoldCommit DEF s
<1>9. Gov!Assigned(db', h) /\ Gov!Assigned(db, h) /\ ~Gov!Effective(db', h)
  BY <1>2, <1>3, <1>4, <1>5, <1>8 DEF Gov!Assigned, Gov!Effective, Gov!Nothing, x
<1>10. \A g \in Gov!Pairs : g # h =>
         Gov!Hold(db', g) = Gov!Hold(db, g) /\ db'[Gov!PhaseDoc(g)] = db[Gov!PhaseDoc(g)]
  BY <1>3, <1>8, GovDocs
<1>11. \A g \in Gov!Pairs : g # h =>
         /\ Gov!Assigned(db', g) <=> Gov!Assigned(db, g)
         /\ Gov!Effective(db', g) <=> Gov!Effective(db, g)
  BY <1>10 DEF Gov!Assigned, Gov!Effective
<1> QED BY <1>2, <1>8, <1>9, <1>11, HoldStepFine

LEMMA SuccessorFine ==
  ASSUME GovInv, NEW c \in Clients \cup {"now"}, NEW u \in GovUsers, NEW r \in Roles,
         NEW q \in Roles, Gov!ApproveSuccessor(c, u, r, q)
  PROVE  GovInv' /\ GovFine
<1> DEFINE s == Gov!Seen(c)
           h == <<u, r>>
           g == <<u, q>>
           x == Gov!Hold(s, h)
           y == [x EXCEPT !.next = g]
           a == Gov!:>(Gov!HoldDoc(h), y)
           b == Gov!:>(Gov!HoldDoc(g), Gov!Fresh("SCHEDULED"))
           e == Gov!:>(Gov!PhaseDoc(g), "AHEAD")
           ab == Gov!@@(a, b)
           puts == Gov!@@(ab, e)
<1>1. /\ Gov!Ready(c) /\ r # q /\ Gov!RoleState(s, q) = "ACTIVE"
      /\ x.state \in {"ACTIVE", "SCHEDULED", "SUSPENDED"}
      /\ ~Gov!Assigned(s, g) /\ Gov!Commit(c, puts)
  BY DEF Gov!ApproveSuccessor, Gov!Effective, Gov!Free
<1>2. /\ h \in Gov!Pairs /\ h[1] = u /\ h[2] = r
      /\ g \in Gov!Pairs /\ g[1] = u /\ g[2] = q /\ h # g
  BY <1>1, GovPairs
<1>3. HoldOK(x)
  BY <1>1, <1>2, GovSees, GovTxn DEF GovOK, Gov!Hold
<1>4. x = s[Gov!HoldDoc(h)]
  BY DEF Gov!Hold
<1>5. DOMAIN a = {Gov!HoldDoc(h)} /\ a[Gov!HoldDoc(h)] = y
  BY GovPut
<1>6. DOMAIN b = {Gov!HoldDoc(g)} /\ b[Gov!HoldDoc(g)] = Gov!Fresh("SCHEDULED")
  BY GovPut
<1>7. DOMAIN e = {Gov!PhaseDoc(g)} /\ e[Gov!PhaseDoc(g)] = "AHEAD"
  BY GovPut
<1> HIDE DEF a, b, e, h, g, x, s
<1>8. HoldOK(y) /\ y.state = x.state /\ y # Gov!Nothing
  BY <1>1, <1>2, <1>3 DEF HoldOK, Gov!Nothing
<1>9. /\ HoldOK(Gov!Fresh("SCHEDULED")) /\ Gov!Fresh("SCHEDULED") # Gov!Nothing
      /\ Gov!Fresh("SCHEDULED").state = "SCHEDULED"
  BY DEF HoldOK, Gov!Fresh, Gov!Nothing
<1> HIDE DEF y
<1>10. /\ DOMAIN ab = DOMAIN a \cup DOMAIN b
       /\ \A d \in DOMAIN a : ab[d] = a[d]
       /\ \A d \in DOMAIN b \ DOMAIN a : ab[d] = b[d]
  BY DEF Gov!@@
<1> HIDE DEF ab
<1>11. /\ DOMAIN puts = DOMAIN ab \cup DOMAIN e
       /\ \A d \in DOMAIN ab : puts[d] = ab[d]
       /\ \A d \in DOMAIN e \ DOMAIN ab : puts[d] = e[d]
  BY DEF Gov!@@
<1> HIDE DEF puts
<1>12. /\ Gov!HoldDoc(h) # Gov!HoldDoc(g) /\ Gov!HoldDoc(h) # Gov!PhaseDoc(g)
       /\ Gov!HoldDoc(g) # Gov!PhaseDoc(g)
  BY <1>2, GovDocs
<1>13. /\ DOMAIN puts = {Gov!HoldDoc(h), Gov!HoldDoc(g), Gov!PhaseDoc(g)}
       /\ puts[Gov!HoldDoc(h)] = y
       /\ puts[Gov!HoldDoc(g)] = Gov!Fresh("SCHEDULED")
       /\ puts[Gov!PhaseDoc(g)] = "AHEAD"
  BY <1>5, <1>6, <1>7, <1>10, <1>11, <1>12
<1>14. x = Gov!Hold(db, h)
  <2>1. Able(c) /\ Committed(Gov!Docs, c, puts) /\ s = Sees(c)
    BY <1>1, GovTxn DEF s
  <2>2. DOMAIN puts \subseteq Gov!Docs
    BY <1>2, <1>13, GovDocs
  <2>3. \A d \in DOMAIN puts : Sees(c)[d] = db[d]
    BY <2>1, <2>2, CommitTaken DEF GovInv
  <2> QED BY <2>1, <2>3, <1>4, <1>13 DEF Gov!Hold
<1>15. GovWriteOK(puts)
  <2>1. DOMAIN puts \subseteq Gov!Docs
    BY <1>2, <1>13, GovDocs
  <2>2. \A k \in Gov!Pairs : Gov!HoldDoc(k) \in DOMAIN puts => k = h \/ k = g
    BY <1>13, GovDocs
  <2>3. \A k \in Gov!Pairs : Gov!HoldDoc(k) \in DOMAIN puts =>
          /\ HoldOK(puts[Gov!HoldDoc(k)])
          /\ puts[Gov!HoldDoc(k)].state = "ACTIVE" => Gov!Hold(db, k).state = "ACTIVE"
    BY <2>2, <1>8, <1>9, <1>13, <1>14
  <2>4. /\ \A v \in GovUsers : Gov!UserDoc(v) \notin DOMAIN puts
        /\ \A v \in Roles : Gov!RoleDoc(v) \notin DOMAIN puts
    BY <1>13, GovDocs
  <2> QED BY <2>1, <2>3, <2>4 DEF GovWriteOK
<1>16. /\ \A v \in GovUsers : Gov!UserDoc(v) \notin DOMAIN puts
       /\ \A v \in Roles : Gov!RoleDoc(v) \notin DOMAIN puts
  BY <1>13, GovDocs
<1>17. /\ GovInv'
       /\ \A v \in GovUsers : db'[Gov!UserDoc(v)] = db[Gov!UserDoc(v)]
       /\ \A v \in Roles : db'[Gov!RoleDoc(v)] = db[Gov!RoleDoc(v)]
       /\ \A k \in Gov!Pairs :
            /\ Gov!HoldDoc(k) \in DOMAIN puts => Gov!Hold(db', k) = puts[Gov!HoldDoc(k)]
            /\ Gov!HoldDoc(k) \notin DOMAIN puts => Gov!Hold(db', k) = Gov!Hold(db, k)
            /\ Gov!PhaseDoc(k) \in DOMAIN puts => db'[Gov!PhaseDoc(k)] = puts[Gov!PhaseDoc(k)]
            /\ Gov!PhaseDoc(k) \notin DOMAIN puts => db'[Gov!PhaseDoc(k)] = db[Gov!PhaseDoc(k)]
       /\ ~Late => s = db
  BY <1>1, <1>15, <1>16, HoldCommit DEF s
<1>18. /\ Gov!Hold(db', h).state = Gov!Hold(db, h).state
       /\ db'[Gov!PhaseDoc(h)] = db[Gov!PhaseDoc(h)]
       /\ Gov!Assigned(db', h)
       /\ Gov!Assigned(db, h)
  <2>1. Gov!Hold(db', h) = y
    BY <1>2, <1>13, <1>17
  <2>2. Gov!PhaseDoc(h) \notin DOMAIN puts
    BY <1>2, <1>13, GovDocs
  <2>3. Gov!Assigned(db, h)
    BY <1>1, <1>14 DEF Gov!Assigned, Gov!Nothing
  <2> QED BY <2>1, <2>2, <2>3, <1>2, <1>8, <1>14, <1>17 DEF Gov!Assigned
<1>19. /\ Gov!Assigned(db', g) /\ ~Gov!Effective(db', g)
       /\ Gov!Hold(db', g).state = "SCHEDULED"
       /\ ~Late => Gov!RoleState(db, q) = "ACTIVE"
  <2>1. Gov!Hold(db', g) = Gov!Fresh("SCHEDULED") /\ db'[Gov!PhaseDoc(g)] = "AHEAD"
    BY <1>2, <1>13, <1>17
  <2> QED BY <2>1, <1>1, <1>9, <1>17 DEF Gov!Assigned, Gov!Effective
<1>20. \A k \in Gov!Pairs : k # h /\ k # g =>
         Gov!Hold(db', k) = Gov!Hold(db, k) /\ db'[Gov!PhaseDoc(k)] = db[Gov!PhaseDoc(k)]
  BY <1>13, <1>17, GovDocs
<1>21. \A k \in Gov!Pairs : k # h /\ k # g =>
         /\ Gov!Assigned(db', k) <=> Gov!Assigned(db, k)
         /\ Gov!Effective(db', k) <=> Gov!Effective(db, k)
  BY <1>20 DEF Gov!Assigned, Gov!Effective
<1>22. Gov!Effective(db', h) <=> Gov!Effective(db, h)
  BY <1>18 DEF Gov!Effective
<1>23. ASSUME NEW k \in Gov!Pairs
       PROVE  /\ (/\ Gov!Assigned(db', k)
                  /\ ~Gov!Assigned(db, k)
                  /\ Gov!RoleState(db, k[2]) # "ACTIVE")
                 => Late /\ Gov!Hold(db', k).state # "ACTIVE"
              /\ Gov!Effective(db', k) => Gov!Effective(db, k)
              /\ Gov!Assigned(db, k) => Gov!Assigned(db', k)
  <2>1. CASE k = h
    BY <2>1, <1>18, <1>22
  <2>2. CASE k = g
    BY <2>2, <1>2, <1>19
  <2>3. CASE k # h /\ k # g
    BY <2>3, <1>21
  <2> QED BY <2>1, <2>2, <2>3
<1> QED BY <1>17, <1>23, HoldStepFine

\* The clock changes phases alone.
LEMMA PhaseFine ==
  ASSUME GovInv, NEW puts, Gov!Commit("now", puts),
         \A d \in DOMAIN puts : \E h \in Gov!Pairs : d = Gov!PhaseDoc(h)
  PROVE  GovInv' /\ GovFine
<1>1. /\ DOMAIN puts \subseteq Gov!Docs
      /\ \A u \in GovUsers : Gov!UserDoc(u) \notin DOMAIN puts
      /\ \A r \in Roles : Gov!RoleDoc(r) \notin DOMAIN puts
      /\ \A h \in Gov!Pairs : Gov!HoldDoc(h) \notin DOMAIN puts
  BY GovDocs
<1>2. GovWriteOK(puts)
  BY <1>1 DEF GovWriteOK
<1>3. Gov!Ready("now") /\ "now" \in Clients \cup {"now"}
  BY GovTxn DEF Able
<1>4. /\ GovInv'
      /\ \A v \in GovUsers : db'[Gov!UserDoc(v)] = db[Gov!UserDoc(v)]
      /\ \A v \in Roles : db'[Gov!RoleDoc(v)] = db[Gov!RoleDoc(v)]
      /\ \A k \in Gov!Pairs : Gov!Hold(db', k) = Gov!Hold(db, k)
  BY <1>1, <1>2, <1>3, HoldCommit
<1>5. ASSUME NEW k \in Gov!Pairs
      PROVE  /\ Gov!Assigned(db', k) <=> Gov!Assigned(db, k)
             /\ Gov!Effective(db', k) /\ ~Gov!Effective(db, k) =>
                  db'[Gov!PhaseDoc(k)] # db[Gov!PhaseDoc(k)]
  BY <1>4 DEF Gov!Assigned, Gov!Effective
<1> QED BY <1>4, <1>5, HoldStepFine

LEMMA ClockFine ==
  ASSUME GovInv, NEW h \in Gov!Pairs, Gov!Begins(h) \/ Gov!Ends(h)
  PROVE  GovInv' /\ GovFine
<1>1. CASE Gov!Begins(h)
  <2> DEFINE ended == {p \in Gov!Predecessors(db, h) : Gov!Effective(db, p)}
             puts == [d \in {Gov!PhaseDoc(p) : p \in ended \cup {h}} |->
                        IF d = Gov!PhaseDoc(h) THEN "ON" ELSE "OVER"]
  <2>1. Gov!Commit("now", puts)
    BY <1>1, GovTxn DEF Gov!Begins
  <2>2. ended \subseteq Gov!Pairs
    BY DEF Gov!Predecessors
  <2>3. DOMAIN puts = {Gov!PhaseDoc(p) : p \in ended \cup {h}}
    OBVIOUS
  <2> HIDE DEF ended, puts
  <2>4. \A d \in DOMAIN puts : \E p \in Gov!Pairs : d = Gov!PhaseDoc(p)
    BY <2>2, <2>3
  <2> QED BY <2>1, <2>4, PhaseFine
<1>2. CASE Gov!Ends(h)
  <2> DEFINE puts == Gov!:>(Gov!PhaseDoc(h), "OVER")
  <2>1. Gov!Commit("now", puts)
    BY <1>2, GovTxn DEF Gov!Ends
  <2>2. DOMAIN puts = {Gov!PhaseDoc(h)}
    BY GovPut
  <2> HIDE DEF puts
  <2> QED BY <2>1, <2>2, PhaseFine
<1> QED BY <1>1, <1>2
-----------------------------------------------------------------------------
(* Governance errs for a cause.                                            *)

\* A step that leaves the documents as they are.
LEMMA GovSame ==
  ASSUME db' = db
  PROVE  GovFine
<1>1. Gov!RecoveryLostForCauseStep
  BY DEF Gov!RecoveryLostForCauseStep
<1>2. Gov!InactiveRolesUnheldStep
  BY DEF Gov!InactiveRolesUnheldStep
<1>3. Gov!GoneUsersGainLateStep
  BY DEF Gov!GoneUsersGainLateStep
<1>4. Gov!EndedKeepsRoleStep
  BY DEF Gov!EndedKeepsRoleStep
<1> QED BY <1>1, <1>2, <1>3, <1>4 DEF GovFine

LEMMA GovIdle ==
  ASSUME GovInv, db' = db, Taken(Gov!Docs)',
         \A o \in Clients : Open(o)' =>
           \/ snap'[o] = db
           \/ Open(o) /\ snap'[o] = snap[o] /\ missed'[o] = missed[o]
  PROVE  GovInv'
<1>1. ASSUME NEW o \in Clients, Open(o)'
      PROVE  GovOK(snap[o])' /\ HeldAsSeen(o)'
  <2>1. CASE snap'[o] = db
    BY <1>1, <2>1 DEF GovInv, GovOK, HeldAsSeen, Gov!Assigned, Gov!Nothing
  <2>2. CASE Open(o) /\ snap'[o] = snap[o] /\ missed'[o] = missed[o]
    BY <1>1, <2>2 DEF GovInv, GovOK, HeldAsSeen
  <2> QED BY <1>1, <2>1, <2>2
<1>2. GovOK(db)'
  BY DEF GovInv, GovOK
<1> QED BY <1>1, <1>2 DEF GovInv

LEMMA GovNext ==
  ASSUME GovInv, [Gov!Next]_(Gov!vars)
  PROVE  GovInv' /\ GovFine
<1>1. CASE UNCHANGED Gov!vars
  <2>1. UNCHANGED <<db, snap, missed>>
    BY <1>1 DEF Gov!vars
  <2>2. Taken(Gov!Docs)'
    BY <2>1, IdleTaken DEF GovInv
  <2> QED BY <2>1, <2>2, GovIdle, GovSame DEF Open
<1>2. ASSUME NEW c \in Clients, Gov!Begin(c)
      PROVE  GovInv' /\ GovFine
  <2>1. Begun(c)
    BY <1>2, GovTxn
  <2> QED BY <2>1, BeginTaken, GovIdle, GovSame DEF GovInv
<1>3. ASSUME NEW c \in Clients, Gov!Abort(c)
      PROVE  GovInv' /\ GovFine
  <2>1. Aborted(c)
    BY <1>3, GovTxn
  <2> QED BY <2>1, AbortTaken, GovIdle, GovSame DEF GovInv
<1>4. ASSUME NEW c \in Clients \cup {"now"}, Gov!Operation(c)
      PROVE  GovInv' /\ GovFine
  <2>1. \/ \E u \in GovUsers :
             \/ \E linked \in BOOLEAN : Gov!CreateUser(c, u, linked)
             \/ Gov!ActivateUser(c, u) \/ Gov!DisableUser(c, u) \/ Gov!ArchiveUser(c, u)
             \/ Gov!SetAuthLinkage(c, u) \/ Gov!UnlinkAuthLinkage(c, u)
        \/ \E r \in Roles :
             \/ \E full \in BOOLEAN :
                  Gov!CreateRole(c, r, full) \/ Gov!SetRolePermissions(c, r, full)
             \/ Gov!ActivateRole(c, r) \/ Gov!DeactivateRole(c, r) \/ Gov!ArchiveRole(c, r)
        \/ \E u \in GovUsers, r \in Roles :
             \/ \E phase \in {"AHEAD", "ON"} : Gov!Apply(c, u, r, phase)
             \/ Gov!Revoke(c, u, r) \/ Gov!Suspend(c, u, r)
             \/ \E q \in Roles : Gov!ApproveSuccessor(c, u, r, q)
    BY <1>4 DEF Gov!Operation
  <2> QED BY <2>1, UserOps, RoleOps, ApplyFine, RevokeFine, SuspendFine, SuccessorFine
<1>5. \/ \E h \in Gov!Pairs : Gov!Begins(h) \/ Gov!Ends(h)
      \/ \E c \in Clients \cup {"now"} : Gov!Operation(c)
      \/ \E c \in Clients : Gov!Begin(c) \/ Gov!Abort(c)
      \/ UNCHANGED Gov!vars
  BY GovTxn DEF Gov!Next
<1> QED BY <1>1, <1>2, <1>3, <1>4, <1>5, ClockFine

LEMMA GovInit ==
  ASSUME Gov!Init
  PROVE  GovInv
<1>1. PICK w \in GovWorlds : db = [d \in Gov!Docs |->
        IF d = Gov!UserDoc(Founder) THEN [state |-> "ACTIVE", linked |-> TRUE]
        ELSE IF d = Gov!RoleDoc(FirstRole) THEN [state |-> "ACTIVE", full |-> TRUE]
        ELSE IF d = Gov!HoldDoc(<<Founder, FirstRole>>) THEN [state |-> "ACTIVE", next |-> <<>>]
        ELSE IF d[1] = "user" /\ d[2] \notin w THEN [state |-> "ARCHIVED", linked |-> FALSE]
        ELSE IF d[1] = "role" /\ d[2] \notin w THEN [state |-> "ARCHIVED", full |-> FALSE]
        ELSE IF d[1] = "phase"
          THEN IF d[2] = <<Founder, FirstRole>> THEN "ON" ELSE "AHEAD"
        ELSE Gov!Nothing]
  BY DEF Gov!Init
<1>2. \A c \in Clients : ~Open(c)
  BY DEF Gov!Init, Gov!TxnInit, Gov!NoSnapshot, Open
<1>3. Taken(Gov!Docs)
  <2>1. db = [d \in Gov!Docs |-> db[d]]
    BY <1>1
  <2>2. snap = [c \in Clients |-> snap[c]] /\ missed \in [Clients -> SUBSET Gov!Docs]
    BY DEF Gov!Init, Gov!TxnInit
  <2> QED BY <1>2, <2>1, <2>2 DEF Taken
<1>4. \A u \in GovUsers : UserOK(db[Gov!UserDoc(u)])
  <2> SUFFICES ASSUME NEW u \in GovUsers PROVE UserOK(db[Gov!UserDoc(u)])
    OBVIOUS
  <2> DEFINE d == Gov!UserDoc(u)
  <2>1. /\ d \in Gov!Docs /\ d[1] = "user" /\ d # Gov!RoleDoc(FirstRole)
        /\ d # Gov!HoldDoc(<<Founder, FirstRole>>)
    BY GovDocs DEF Gov!UserDoc
  <2> QED BY <1>1, <2>1 DEF UserOK
<1>5. \A r \in Roles : RoleOK(db[Gov!RoleDoc(r)])
  <2> SUFFICES ASSUME NEW r \in Roles PROVE RoleOK(db[Gov!RoleDoc(r)])
    OBVIOUS
  <2> DEFINE d == Gov!RoleDoc(r)
  <2>1. /\ d \in Gov!Docs /\ d[1] = "role" /\ d # Gov!UserDoc(Founder)
        /\ d # Gov!HoldDoc(<<Founder, FirstRole>>)
    BY GovDocs DEF Gov!RoleDoc
  <2> QED BY <1>1, <2>1 DEF RoleOK
<1>6. \A h \in Gov!Pairs : HoldOK(db[Gov!HoldDoc(h)])
  <2> SUFFICES ASSUME NEW h \in Gov!Pairs PROVE HoldOK(db[Gov!HoldDoc(h)])
    OBVIOUS
  <2> DEFINE d == Gov!HoldDoc(h)
  <2>1. /\ d \in Gov!Docs /\ d[1] = "hold" /\ d # Gov!UserDoc(Founder)
        /\ d # Gov!RoleDoc(FirstRole)
    BY GovDocs DEF Gov!HoldDoc
  <2> QED BY <1>1, <2>1 DEF HoldOK
<1> QED BY <1>2, <1>3, <1>4, <1>5, <1>6 DEF GovInv, GovOK

\* As long as it is governance the records hold, they are in order.
LEMMA PartIsGovernance == Spec => [](part = "governance" => GovInv)
<1>1. Init => (part = "governance" => GovInv)
  BY GovInit DEF Init
<1>2. (part = "governance" => GovInv) /\ [Next]_vars => (part = "governance" => GovInv)'
  <2> SUFFICES ASSUME part = "governance" => GovInv, [Next]_vars, part' = "governance"
               PROVE  GovInv'
    OBVIOUS
  <2>1. part = "governance" /\ [Gov!Next]_(Gov!vars)
    BY DEF Next, vars, Gov!vars
  <2> QED BY <2>1, GovNext
<1> QED BY <1>1, <1>2, PTL DEF Spec

\* The last user who can repair governance and log in, the roles that are not
\* ACTIVE and the users who are gone: what DisableUser, UnlinkAuthLinkage,
\* SetRolePermissions, DeactivateRole and Apply guard is lost only when an
\* assignment ends, through an overtaken check, or for what the guards overlook,
\* whatever users and roles there are and however many commands overlap.
THEOREM GovernanceErrs == Spec => GovernanceErrsForCause
<1> DEFINE Fine == /\ Gov!RecoveryLostForCauseStep
                   /\ Gov!InactiveRolesUnheldStep
                   /\ Gov!GoneUsersGainLateStep
                   /\ Gov!EndedKeepsRoleStep
<1>1. (part = "governance" => GovInv) /\ [Next]_vars =>
        [part = "governance" => Fine]_vars
  <2> SUFFICES ASSUME part = "governance", GovInv, [Next]_vars PROVE Fine
    OBVIOUS
  <2>1. [Gov!Next]_(Gov!vars)
    BY DEF Next, vars, Gov!vars
  <2> QED BY <2>1, GovNext DEF GovFine
<1> HIDE DEF Fine
<1>2. Spec => [][part = "governance" => Fine]_vars
  BY <1>1, PartIsGovernance, PTL DEF Spec
<1> QED BY <1>2 DEF Fine, GovernanceErrsForCause
-----------------------------------------------------------------------------
(* The owner of the business and the emergency access.                     *)

PrincipalRecords ==
  [status : {"PENDING", "ACTIVE", "REVOKED", "SUPERSEDED"},
   type : {"SUCCESSOR_OWNER", "PRIMARY_OWNER"}, user : Persons,
   from : Nat, until : Nat \cup {-1},
   pred : SUBSET Own!Principals, next : SUBSET Own!Principals,
   maker : SUBSET Persons, checker : SUBSET Persons]

PrincipalOK(x) ==
  x = Own!Nothing \/
    /\ x \in PrincipalRecords
    /\ x.status = "PENDING" => x.type = "SUCCESSOR_OWNER"
    /\ x.checker \cap (x.maker \cup {x.user}) = {}

Primary(s, p) == Own!ActiveAs(s, p, "PRIMARY_OWNER")

\* One principal is owner, whether or not the window is open and the user can
\* log in.
Sole(s) ==
  \E p \in Own!Principals : {x \in Own!Principals : Primary(s, x)} = {p}

\* p was replaced by q.
ReplacedBy(s, p, q) ==
  /\ Own!Principal(s, p).next = {q}
  /\ Own!Principal(s, q).status \in {"ACTIVE", "SUPERSEDED"}
  /\ Own!Principal(s, q).type = "PRIMARY_OWNER"
  /\ Own!Principal(s, q).pred = {p}
  /\ Own!Principal(s, q).checker # {}

OwnershipOK(s) ==
  /\ \A p \in Own!Principals : PrincipalOK(Own!Principal(s, p))
  /\ Sole(s)
  /\ \A p \in Own!Principals : Own!Principal(s, p).status = "SUPERSEDED" =>
       \E q \in Successors : ReplacedBy(s, p, q)

RequestOK(x) ==
  x = Own!Nothing \/
    /\ x \in [status : {"PENDING_APPROVAL", "ACTIVATED", "REJECTED"}, urgent : BOOLEAN,
              target : Persons, requester : Persons, duration : Durations,
              approvals : SUBSET Persons]
    /\ x.status = "PENDING_APPROVAL" => ~x.urgent
    /\ IsFiniteSet(x.approvals)
    /\ x.approvals \cap {x.requester, x.target} = {}

\* Only what has ended has an end, and a reviewer.
ActivationOK(x) ==
  x = Own!Nothing \/
    /\ x \in [status : {"ACTIVE", "EXPIRED", "REVIEWED"}, target : Persons,
              activator : Persons, at : Nat, until : Nat, ended : Nat \cup {-1},
              reviewer : SUBSET Persons]
    /\ x.status = "ACTIVE" => x.ended = -1
    /\ x.reviewer \cap {x.activator, x.target} = {}

Consented(request, a) ==
  \/ request.urgent /\ a.activator = request.requester
  \/ Cardinality(request.approvals) >= 2 /\ a.activator \in request.approvals

AccessOK(request, a, now) ==
  /\ RequestOK(request) /\ ActivationOK(a)
  /\ a # Own!Nothing <=> request.status = "ACTIVATED"
  /\ a # Own!Nothing => Consented(request, a)
  /\ a.status \in {"EXPIRED", "REVIEWED"} /\ now < a.until => a.ended # -1

OwnOK(s) ==
  /\ s[Own!Clock] \in Nat
  /\ OwnershipOK(s)
  /\ \A q \in AccessRequests :
       AccessOK(Own!Request(s, q), Own!Activation(s, q), s[Own!Clock])

\* The inductive invariant.
OwnInv ==
  /\ Taken(Own!Docs)
  /\ OwnOK(db)
  /\ \A c \in Clients : Open(c) =>
       OwnOK(snap[c]) /\ snap[c][Own!Clock] <= db[Own!Clock]

LEMMA OwnDocs ==
  /\ Own!Clock \in Own!Docs
  /\ \A u \in Persons : Own!UserDoc(u) \in Own!Docs
  /\ \A p \in Own!Principals : Own!PrincipalDoc(p) \in Own!Docs
  /\ \A q \in AccessRequests :
       Own!RequestDoc(q) \in Own!Docs /\ Own!ActivationDoc(q) \in Own!Docs
  /\ \A u, v : Own!UserDoc(u) = Own!UserDoc(v) => u = v
  /\ \A u, v : Own!PrincipalDoc(u) = Own!PrincipalDoc(v) => u = v
  /\ \A u, v : Own!RequestDoc(u) = Own!RequestDoc(v) => u = v
  /\ \A u, v : Own!ActivationDoc(u) = Own!ActivationDoc(v) => u = v
  /\ \A u, v :
       /\ Own!UserDoc(u) # Own!PrincipalDoc(v) /\ Own!UserDoc(u) # Own!RequestDoc(v)
       /\ Own!UserDoc(u) # Own!ActivationDoc(v)
       /\ Own!PrincipalDoc(u) # Own!RequestDoc(v)
       /\ Own!PrincipalDoc(u) # Own!ActivationDoc(v)
       /\ Own!RequestDoc(u) # Own!ActivationDoc(v)
  /\ \A u : /\ Own!Clock # Own!UserDoc(u) /\ Own!Clock # Own!PrincipalDoc(u)
            /\ Own!Clock # Own!RequestDoc(u) /\ Own!Clock # Own!ActivationDoc(u)
  BY DEF Own!Docs, Own!Clock, Own!UserDoc, Own!PrincipalDoc, Own!RequestDoc,
         Own!ActivationDoc

LEMMA OwnTxn ==
  /\ \A c : Own!Ready(c) <=> Able(c)
  /\ \A c : Own!Seen(c) = Sees(c)
  /\ \A c, puts : Own!Commit(c, puts) <=> Committed(Own!Docs, c, puts)
  /\ \A c : Own!Begin(c) <=> Begun(c)
  /\ \A c : Own!Abort(c) <=> Aborted(c)
  /\ Own!LateStep <=> Late
  /\ Own!Now = "now"
  BY DEF Own!Ready, Own!Seen, Own!Commit, Own!Begin, Own!Abort, Own!LateStep,
         Own!InTxn, Own!NoSnapshot, Own!Now, Able, Sees, Committed, Begun, Aborted,
         Late, Open

LEMMA OwnPut ==
  ASSUME NEW d, NEW x
  PROVE  DOMAIN Own!:>(d, x) = {d} /\ Own!:>(d, x)[d] = x
  BY DEF Own!:>

\* The model counts as this module does.
LEMMA OwnCount == \A S : Own!Cardinality(S) = Cardinality(S)
  BY DEF Own!Cardinality, Cardinality

LEMMA OwnSees ==
  ASSUME OwnInv, NEW c \in Clients \cup {"now"}, Own!Ready(c)
  PROVE  OwnOK(Own!Seen(c)) /\ Own!Seen(c)[Own!Clock] <= db[Own!Clock]
<1>1. CASE c = "now"
  <2>1. Own!Seen(c) = db
    BY <1>1, OwnTxn DEF Sees
  <2> QED BY <2>1 DEF OwnInv, OwnOK
<1>2. CASE c # "now"
  <2>1. c \in Clients /\ Open(c) /\ Own!Seen(c) = snap[c]
    BY <1>2, OwnTxn DEF Sees, Able
  <2> QED BY <2>1 DEF OwnInv
<1> QED BY <1>1, <1>2

\* A commit that leaves the documents in order and does not turn the clock back
\* keeps the invariant.
LEMMA OwnCommit ==
  ASSUME OwnInv, NEW c \in Clients \cup {"now"}, Own!Ready(c),
         NEW puts, DOMAIN puts \subseteq Own!Docs, Own!Commit(c, puts)
  PROVE  /\ \A d \in Own!Docs : db'[d] = IF d \in DOMAIN puts THEN puts[d] ELSE db[d]
         /\ \A d \in DOMAIN puts : Own!Seen(c)[d] = db[d]
         /\ ~Late => Own!Seen(c) = db
         /\ OwnOK(db') /\ db[Own!Clock] <= db'[Own!Clock] => OwnInv'
<1>1. Able(c) /\ Committed(Own!Docs, c, puts) /\ Own!Seen(c) = Sees(c)
  BY OwnTxn
<1>2. /\ Taken(Own!Docs)'
      /\ \A d \in Own!Docs : db'[d] = IF d \in DOMAIN puts THEN puts[d] ELSE db[d]
      /\ \A d \in DOMAIN puts : Sees(c)[d] = db[d]
      /\ \A o \in Clients : Open(o)' => Open(o) /\ snap'[o] = snap[o]
  BY <1>1, CommitTaken DEF OwnInv
<1>3. ~Late => Sees(c) = db
  BY <1>1, SeesAll, CommitEnds DEF OwnInv
<1>4. ASSUME OwnOK(db'), db[Own!Clock] <= db'[Own!Clock]
      PROVE  OwnInv'
  <2>1. ASSUME NEW o \in Clients, Open(o)'
        PROVE  OwnOK(snap'[o]) /\ snap'[o][Own!Clock] <= db'[Own!Clock]
    <3>1. OwnOK(snap[o]) /\ snap[o][Own!Clock] <= db[Own!Clock] /\ snap'[o] = snap[o]
      BY <1>2, <2>1 DEF OwnInv
    <3>2. /\ snap[o][Own!Clock] \in Nat /\ db[Own!Clock] \in Nat
          /\ db'[Own!Clock] \in Nat
      BY <3>1, <1>4 DEF OwnInv, OwnOK
    <3> QED BY <3>1, <3>2, <1>4
  <2>2. \A o \in Clients : Open(o)' => OwnOK(snap[o])' /\ (snap[o][Own!Clock] <= db[Own!Clock])'
    BY <2>1 DEF OwnOK, OwnershipOK, Own!Principal, Own!Request, Own!Activation, Sole,
                Primary, ReplacedBy, Own!ActiveAs, Own!Clock, Own!Principals
  <2>3. OwnOK(db)'
    BY <1>4 DEF OwnOK, OwnershipOK, Own!Principal, Own!Request, Own!Activation, Sole,
                Primary, ReplacedBy, Own!ActiveAs, Own!Clock, Own!Principals
  <2> QED BY <1>2, <2>2, <2>3 DEF OwnInv
<1> QED BY <1>1, <1>2, <1>3, <1>4
-----------------------------------------------------------------------------
(* What a step on one kind of document may do.                             *)

OwnFine == Own!OwnerLostForCauseStep /\ Own!AccessErrsLateStep

LEMMA SuccessorsArePrincipals == \A p \in Successors : p \in Own!Principals
  BY DEF Own!Principals

LEMMA SameOwnership ==
  ASSUME OwnershipOK(db),
         \A p \in Own!Principals : db'[Own!PrincipalDoc(p)] = db[Own!PrincipalDoc(p)]
  PROVE  OwnershipOK(db')
<1>1. \A p \in Own!Principals : Own!Principal(db', p) = Own!Principal(db, p)
  BY DEF Own!Principal
<1>2. \A p \in Own!Principals : Primary(db', p) <=> Primary(db, p)
  BY <1>1 DEF Primary, Own!ActiveAs
<1>3. {x \in Own!Principals : Primary(db', x)} = {x \in Own!Principals : Primary(db, x)}
  BY <1>2
<1>4. \A p \in Own!Principals, q \in Successors :
        ReplacedBy(db, p, q) => ReplacedBy(db', p, q)
  BY <1>1, SuccessorsArePrincipals DEF ReplacedBy
<1> QED BY <1>1, <1>3, <1>4 DEF OwnershipOK, Sole

LEMMA SameAccess ==
  ASSUME OwnOK(db), db'[Own!Clock] \in Nat, db[Own!Clock] <= db'[Own!Clock],
         NEW q \in AccessRequests,
         db'[Own!RequestDoc(q)] = db[Own!RequestDoc(q)],
         db'[Own!ActivationDoc(q)] = db[Own!ActivationDoc(q)]
  PROVE  AccessOK(Own!Request(db', q), Own!Activation(db', q), db'[Own!Clock])
<1> DEFINE a == Own!Activation(db, q)
           now == db[Own!Clock]
<1>1. Own!Activation(db', q) = a /\ Own!Request(db', q) = Own!Request(db, q)
  BY DEF Own!Activation, Own!Request
<1>2. AccessOK(Own!Request(db, q), a, now) /\ now \in Nat
  BY DEF OwnOK
<1>3. a # Own!Nothing => a.until \in Nat
  BY <1>2 DEF AccessOK, ActivationOK
<1>4. a.status \in {"EXPIRED", "REVIEWED"} => a # Own!Nothing
  BY DEF Own!Nothing
<1> HIDE DEF a, now
<1>5. now <= db'[Own!Clock]
  BY DEF now
<1>6. a.status \in {"EXPIRED", "REVIEWED"} /\ db'[Own!Clock] < a.until => a.ended # -1
  BY <1>2, <1>3, <1>4, <1>5 DEF AccessOK
<1> QED BY <1>1, <1>2, <1>6 DEF AccessOK

\* An owner whose principal, user and time stay is owner.
LEMMA OwnerStays ==
  ASSUME OwnOK(db), db'[Own!Clock] = db[Own!Clock],
         NEW p \in Own!Owner(db),
         Own!Eligible(db', Own!Principal(db, p).user),
         db'[Own!PrincipalDoc(p)] = db[Own!PrincipalDoc(p)]
  PROVE  p \in Own!Owner(db')
  BY DEF Own!Owner, Own!ActiveAs, Own!InWindow, Own!Principal

LEMMA OwnerTyped ==
  ASSUME NEW s, OwnOK(s), NEW p \in Own!Owner(s)
  PROVE  /\ p \in Own!Principals /\ Own!Principal(s, p).user \in Persons
         /\ Primary(s, p) /\ Own!InWindow(s, p)
         /\ Own!Owner(s) = {p}
<1>1. /\ p \in Own!Principals /\ Primary(s, p) /\ Own!InWindow(s, p)
      /\ \A o \in Own!Owner(s) : o \in Own!Principals /\ Primary(s, o)
  BY DEF Own!Owner, Primary
<1>2. Own!Principal(s, p).user \in Persons
  BY <1>1 DEF OwnOK, OwnershipOK, PrincipalOK, PrincipalRecords, Primary, Own!ActiveAs,
              Own!Nothing
<1>3. Own!Owner(s) = {p}
  BY <1>1 DEF OwnOK, OwnershipOK, Sole
<1> QED BY <1>1, <1>2, <1>3

\* A step on principals.
LEMMA OwnershipStepFine ==
  ASSUME OwnInv,
         \A d \in Own!Docs :
           (\A p \in Own!Principals : d # Own!PrincipalDoc(p)) => db'[d] = db[d],
         OwnershipOK(db'),
         Own!Owner(db) # {} /\ Own!Owner(db') = {} => Late,
         \A p \in Own!Principals : Primary(db, p) /\ ~Own!InWindow(db, p) =>
           db'[Own!PrincipalDoc(p)] = db[Own!PrincipalDoc(p)] \/ Late
  PROVE  OwnOK(db') /\ db[Own!Clock] <= db'[Own!Clock] /\ OwnFine
<1>1. db'[Own!Clock] = db[Own!Clock] /\ db[Own!Clock] \in Nat
  BY OwnDocs DEF OwnInv, OwnOK
<1>2. \A q \in AccessRequests : /\ db'[Own!RequestDoc(q)] = db[Own!RequestDoc(q)]
                                /\ db'[Own!ActivationDoc(q)] = db[Own!ActivationDoc(q)]
  BY OwnDocs
<1>3. db[Own!Clock] <= db'[Own!Clock]
  BY <1>1
<1>4. OwnOK(db')
  <2>1. OwnOK(db)
    BY DEF OwnInv
  <2>2. \A q \in AccessRequests :
          AccessOK(Own!Request(db', q), Own!Activation(db', q), db'[Own!Clock])
    BY <2>1, <1>1, <1>2, <1>3, SameAccess
  <2> QED BY <2>2, <1>1 DEF OwnOK
<1>5. Own!OwnerLostForCauseStep
  BY OwnTxn DEF Own!OwnerLostForCauseStep, Primary
<1>6. Own!AccessErrsLateStep
  BY <1>2 DEF Own!AccessErrsLateStep, Own!Activation
<1> QED BY <1>3, <1>4, <1>5, <1>6 DEF OwnFine

\* A step on one request and its activation.
LEMMA AccessStepFine ==
  ASSUME OwnInv, NEW q \in AccessRequests,
         \A d \in Own!Docs :
           d # Own!RequestDoc(q) /\ d # Own!ActivationDoc(q) => db'[d] = db[d],
         AccessOK(Own!Request(db', q), Own!Activation(db', q), db[Own!Clock]),
         (/\ Own!Activation(db, q) = Own!Nothing /\ Own!Activation(db', q) # Own!Nothing
          /\ Own!Request(db', q).urgent)
         => Own!Owns(db, Own!Activation(db', q).activator) \/ Late,
         Own!Activation(db, q) # Own!Nothing =>
           \A t \in Own!Times :
             Own!InForce(Own!Activation(db', q), t) => Own!InForce(Own!Activation(db, q), t)
  PROVE  OwnOK(db') /\ db[Own!Clock] <= db'[Own!Clock] /\ OwnFine
<1>1. db'[Own!Clock] = db[Own!Clock] /\ db[Own!Clock] \in Nat
  BY OwnDocs DEF OwnInv, OwnOK
<1>2. \A u \in Persons : db'[Own!UserDoc(u)] = db[Own!UserDoc(u)]
  BY OwnDocs
<1>3. \A p \in Own!Principals : db'[Own!PrincipalDoc(p)] = db[Own!PrincipalDoc(p)]
  BY OwnDocs
<1>4. \A r \in AccessRequests : r # q =>
        /\ db'[Own!RequestDoc(r)] = db[Own!RequestDoc(r)]
        /\ db'[Own!ActivationDoc(r)] = db[Own!ActivationDoc(r)]
  BY OwnDocs
<1>5. db[Own!Clock] <= db'[Own!Clock]
  BY <1>1
<1>6. OwnOK(db) /\ OwnershipOK(db)
  BY DEF OwnInv, OwnOK
<1>7. OwnOK(db')
  <2>1. \A r \in AccessRequests : r # q =>
          AccessOK(Own!Request(db', r), Own!Activation(db', r), db'[Own!Clock])
    BY <1>1, <1>4, <1>5, <1>6, SameAccess
  <2>2. AccessOK(Own!Request(db', q), Own!Activation(db', q), db'[Own!Clock])
    BY <1>1
  <2>3. OwnershipOK(db')
    BY <1>3, <1>6, SameOwnership
  <2>4. db'[Own!Clock] \in Nat
    BY <1>1
  <2> QED BY <2>1, <2>2, <2>3, <2>4 DEF OwnOK
<1>8. Own!OwnerLostForCauseStep
  <2>1. \A p \in Own!Owner(db) : p \in Own!Owner(db')
    <3> SUFFICES ASSUME NEW p \in Own!Owner(db) PROVE p \in Own!Owner(db')
      OBVIOUS
    <3>1. p \in Own!Principals /\ Own!Principal(db, p).user \in Persons
      BY <1>6, OwnerTyped
    <3>2. Own!Eligible(db, Own!Principal(db, p).user)
      BY DEF Own!Owner
    <3>3. Own!Eligible(db', Own!Principal(db, p).user)
      BY <3>1, <3>2, <1>2 DEF Own!Eligible
    <3> QED BY <3>1, <3>3, <1>1, <1>3, <1>6, OwnerStays
  <2> QED BY <2>1, <1>3 DEF Own!OwnerLostForCauseStep
<1>9. Own!AccessErrsLateStep
  <2>1. \A r \in AccessRequests : r # q => Own!Activation(db', r) = Own!Activation(db, r)
    BY <1>4 DEF Own!Activation
  <2> QED BY <2>1, OwnTxn DEF Own!AccessErrsLateStep
<1> QED BY <1>5, <1>7, <1>8, <1>9 DEF OwnFine

\* A step of the clock or on a user.
LEMMA OthersFine ==
  ASSUME OwnInv, db'[Own!Clock] \in Nat, db[Own!Clock] <= db'[Own!Clock],
         \A d \in Own!Docs :
           d # Own!Clock /\ (\A u \in Persons : d # Own!UserDoc(u)) => db'[d] = db[d]
  PROVE  OwnOK(db') /\ OwnFine
<1>1. \A p \in Own!Principals : db'[Own!PrincipalDoc(p)] = db[Own!PrincipalDoc(p)]
  BY OwnDocs
<1>2. \A q \in AccessRequests : /\ db'[Own!RequestDoc(q)] = db[Own!RequestDoc(q)]
                                /\ db'[Own!ActivationDoc(q)] = db[Own!ActivationDoc(q)]
  BY OwnDocs
<1>3. OwnOK(db) /\ OwnershipOK(db)
  BY DEF OwnInv, OwnOK
<1>4. OwnOK(db')
  <2>1. \A q \in AccessRequests :
          AccessOK(Own!Request(db', q), Own!Activation(db', q), db'[Own!Clock])
    BY <1>2, <1>3, SameAccess
  <2>2. OwnershipOK(db')
    BY <1>1, <1>3, SameOwnership
  <2> QED BY <2>1, <2>2 DEF OwnOK
<1>5. Own!OwnerLostForCauseStep
  <2>1. SUFFICES ASSUME db'[Own!Clock] = db[Own!Clock], NEW p \in Own!Owner(db),
                        ~\E u \in Persons : Own!Eligible(db, u) /\ ~Own!Eligible(db', u)
                 PROVE  p \in Own!Owner(db')
    BY <1>1 DEF Own!OwnerLostForCauseStep
  <2>2. p \in Own!Principals /\ Own!Principal(db, p).user \in Persons
    BY <1>3, OwnerTyped
  <2>3. Own!Eligible(db', Own!Principal(db, p).user)
    BY <2>1, <2>2 DEF Own!Owner
  <2> QED BY <2>1, <2>2, <2>3, <1>1, <1>3, OwnerStays
<1>6. Own!AccessErrsLateStep
  BY <1>2 DEF Own!AccessErrsLateStep, Own!Activation
<1> QED BY <1>4, <1>5, <1>6 DEF OwnFine
-----------------------------------------------------------------------------
(* The clock, users and succession.                                        *)

LEMMA TickFine ==
  ASSUME OwnInv, Own!Tick
  PROVE  OwnInv' /\ OwnFine
<1> DEFINE now == db[Own!Clock]
           puts == Own!:>(Own!Clock, now + 1)
<1>1. Own!Commit("now", puts) /\ Own!Ready("now") /\ "now" \in Clients \cup {"now"}
  BY OwnTxn DEF Own!Tick, Able
<1>2. DOMAIN puts = {Own!Clock} /\ puts[Own!Clock] = now + 1
  BY OwnPut
<1>3. now \in Nat
  BY DEF OwnInv, OwnOK
<1> HIDE DEF puts
<1>4. DOMAIN puts \subseteq Own!Docs
  BY <1>2, OwnDocs
<1>5. /\ \A d \in Own!Docs : db'[d] = IF d \in DOMAIN puts THEN puts[d] ELSE db[d]
      /\ OwnOK(db') /\ now <= db'[Own!Clock] => OwnInv'
  BY <1>1, <1>4, OwnCommit
<1>6. db'[Own!Clock] = now + 1
  BY <1>2, <1>5, OwnDocs
<1>7. db'[Own!Clock] \in Nat /\ now <= db'[Own!Clock]
  BY <1>3, <1>6
<1>8. \A d \in Own!Docs : d # Own!Clock => db'[d] = db[d]
  BY <1>2, <1>5
<1>9. OwnOK(db') /\ OwnFine
  BY <1>7, <1>8, OthersFine
<1> QED BY <1>5, <1>7, <1>9

LEMMA UserFine ==
  ASSUME OwnInv, NEW c \in Clients \cup {"now"}, NEW u \in Persons, Own!UserChanges(c, u)
  PROVE  OwnInv' /\ OwnFine
<1> DEFINE new == IF Own!Eligible(Own!Seen(c), u) THEN "INELIGIBLE" ELSE "ELIGIBLE"
           puts == Own!:>(Own!UserDoc(u), new)
<1>1. Own!Commit(c, puts) /\ Own!Ready(c)
  BY DEF Own!UserChanges
<1>2. DOMAIN puts = {Own!UserDoc(u)}
  BY OwnPut
<1>3. db[Own!Clock] \in Nat
  BY DEF OwnInv, OwnOK
<1> HIDE DEF puts
<1>4. DOMAIN puts \subseteq Own!Docs
  BY <1>2, OwnDocs
<1>5. /\ \A d \in Own!Docs : db'[d] = IF d \in DOMAIN puts THEN puts[d] ELSE db[d]
      /\ OwnOK(db') /\ db[Own!Clock] <= db'[Own!Clock] => OwnInv'
  BY <1>1, <1>4, OwnCommit
<1>6. \A d \in Own!Docs : d # Own!UserDoc(u) => db'[d] = db[d]
  BY <1>2, <1>5
<1>7. db'[Own!Clock] = db[Own!Clock]
  BY <1>6, OwnDocs
<1>8. db'[Own!Clock] \in Nat /\ db[Own!Clock] <= db'[Own!Clock]
  BY <1>3, <1>7
<1>9. OwnOK(db') /\ OwnFine
  BY <1>6, <1>8, OthersFine
<1> QED BY <1>5, <1>8, <1>9

\* A new principal, or the decision on one, neither of which is an owner.
LEMMA OtherPrincipalFine ==
  ASSUME OwnInv, NEW c \in Clients \cup {"now"}, Own!Ready(c),
         NEW p \in Own!Principals, NEW x, PrincipalOK(x),
         x.type = "SUCCESSOR_OWNER", x.status \in {"PENDING", "ACTIVE", "REVOKED"},
         Own!Principal(Own!Seen(c), p).status \in {"none", "PENDING"},
         Own!Commit(c, Own!:>(Own!PrincipalDoc(p), x))
  PROVE  OwnInv' /\ OwnFine
<1> DEFINE puts == Own!:>(Own!PrincipalDoc(p), x)
<1>1. DOMAIN puts = {Own!PrincipalDoc(p)} /\ puts[Own!PrincipalDoc(p)] = x
  BY OwnPut
<1>2. Own!Commit(c, puts)
  OBVIOUS
<1> HIDE DEF puts
<1>3. DOMAIN puts \subseteq Own!Docs
  BY <1>1, OwnDocs
<1>4. /\ \A d \in Own!Docs : db'[d] = IF d \in DOMAIN puts THEN puts[d] ELSE db[d]
      /\ \A d \in DOMAIN puts : Own!Seen(c)[d] = db[d]
      /\ OwnOK(db') /\ db[Own!Clock] <= db'[Own!Clock] => OwnInv'
  BY <1>2, <1>3, OwnCommit
<1>5. /\ Own!Principal(db', p) = x
      /\ Own!Principal(db, p).status \in {"none", "PENDING"}
  BY <1>1, <1>4, OwnDocs DEF Own!Principal
<1>6. \A d \in Own!Docs : d # Own!PrincipalDoc(p) => db'[d] = db[d]
  BY <1>1, <1>4
<1>7. \A o \in Own!Principals : o # p => Own!Principal(db', o) = Own!Principal(db, o)
  BY <1>6, OwnDocs DEF Own!Principal
<1>8. ~Primary(db, p) /\ ~Primary(db', p)
  BY <1>5 DEF Primary, Own!ActiveAs
<1>9. \A o \in Own!Principals : Primary(db', o) <=> Primary(db, o)
  BY <1>7, <1>8 DEF Primary, Own!ActiveAs
<1>10. OwnOK(db) /\ OwnershipOK(db)
  BY DEF OwnInv, OwnOK
<1>11. OwnershipOK(db')
  <2>1. {o \in Own!Principals : Primary(db', o)} = {o \in Own!Principals : Primary(db, o)}
    BY <1>9
  <2>2. \A o \in Own!Principals, q \in Successors :
          ReplacedBy(db, o, q) /\ o # p => ReplacedBy(db', o, q)
    BY <1>5, <1>7, SuccessorsArePrincipals DEF ReplacedBy
  <2>3. \A o \in Own!Principals : Own!Principal(db', o).status = "SUPERSEDED" =>
          \E q \in Successors : ReplacedBy(db', o, q)
    BY <2>2, <1>5, <1>7, <1>10 DEF OwnershipOK
  <2> QED BY <2>1, <2>3, <1>5, <1>7, <1>10 DEF OwnershipOK, Sole
<1>12. \A o \in Own!Owner(db) : o \in Own!Owner(db')
  <2> SUFFICES ASSUME NEW o \in Own!Owner(db) PROVE o \in Own!Owner(db')
    OBVIOUS
  <2>1. o \in Own!Principals /\ Primary(db, o) /\ Own!Principal(db, o).user \in Persons
    BY <1>10, OwnerTyped
  <2>2. Own!Eligible(db, Own!Principal(db, o).user)
    BY DEF Own!Owner
  <2>3. Own!Eligible(db', Own!Principal(db, o).user)
    BY <2>1, <2>2, <1>6, OwnDocs DEF Own!Eligible
  <2>4. db'[Own!Clock] = db[Own!Clock] /\ db'[Own!PrincipalDoc(o)] = db[Own!PrincipalDoc(o)]
    BY <2>1, <1>6, <1>8, OwnDocs
  <2> QED BY <2>3, <2>4, <1>10, OwnerStays
<1>13. \A o \in Own!Principals : Primary(db, o) =>
         db'[Own!PrincipalDoc(o)] = db[Own!PrincipalDoc(o)]
  BY <1>6, <1>8, OwnDocs
<1>14. \A d \in Own!Docs : (\A o \in Own!Principals : d # Own!PrincipalDoc(o)) => db'[d] = db[d]
  BY <1>6
<1>15. OwnOK(db') /\ db[Own!Clock] <= db'[Own!Clock] /\ OwnFine
  BY <1>11, <1>12, <1>13, <1>14, OwnershipStepFine
<1> QED BY <1>4, <1>15

LEMMA ProposeFine ==
  ASSUME OwnInv, NEW c \in Clients \cup {"now"}, NEW u \in Persons, NEW p \in Successors,
         NEW target \in Persons, NEW window \in OwnWindows,
         Own!ProposeSuccessor(c, u, p, target, window)
  PROVE  OwnInv' /\ OwnFine
<1> DEFINE s == Own!Seen(c)
           x == [status |-> "PENDING", type |-> "SUCCESSOR_OWNER", user |-> target,
                 from |-> window[1], until |-> window[2], pred |-> Own!Owner(s),
                 next |-> {}, maker |-> {u}, checker |-> {}]
<1>1. /\ Own!Ready(c) /\ Own!Principal(s, p) = Own!Nothing
      /\ Own!Commit(c, Own!:>(Own!PrincipalDoc(p), x))
  BY DEF Own!ProposeSuccessor
<1>2. window[1] \in Nat /\ window[2] \in Nat
  BY OwnershipIsTimed
<1>3. Own!Owner(s) \subseteq Own!Principals
  BY DEF Own!Owner
<1>4. PrincipalOK(x) /\ x.type = "SUCCESSOR_OWNER" /\ x.status = "PENDING"
  BY <1>2, <1>3 DEF PrincipalOK, PrincipalRecords
<1>5. Own!Principal(s, p).status = "none"
  BY <1>1 DEF Own!Nothing
<1> HIDE DEF x
<1> QED BY <1>1, <1>4, <1>5, OtherPrincipalFine, SuccessorsArePrincipals

LEMMA DecideFine ==
  ASSUME OwnInv, NEW c \in Clients \cup {"now"}, NEW u \in Persons, NEW p \in Successors,
         NEW status \in {"ACTIVE", "REVOKED"}, Own!DecideSuccessor(c, u, p, status)
  PROVE  OwnInv' /\ OwnFine
<1> DEFINE s == Own!Seen(c)
           x == Own!Principal(s, p)
           y == [x EXCEPT !.status = status, !.checker = {u}]
<1>1. /\ Own!Ready(c) /\ x.status = "PENDING" /\ Own!MayDecide(s, u, p)
      /\ Own!Commit(c, Own!:>(Own!PrincipalDoc(p), y))
  BY DEF Own!DecideSuccessor
<1>2. u \notin x.maker \cup {x.user}
  BY <1>1 DEF Own!MayDecide
<1>3. PrincipalOK(x)
  BY <1>1, OwnSees, SuccessorsArePrincipals DEF OwnOK, OwnershipOK
<1> HIDE DEF x, s
<1>4. PrincipalOK(y) /\ y.type = "SUCCESSOR_OWNER" /\ y.status = status
  <2>1. x \in PrincipalRecords /\ x.type = "SUCCESSOR_OWNER"
    BY <1>1, <1>3 DEF PrincipalOK, Own!Nothing
  <2>2. /\ y \in PrincipalRecords /\ y.status = status /\ y.type = x.type
        /\ y.checker = {u} /\ y.maker = x.maker /\ y.user = x.user
    BY <2>1 DEF PrincipalRecords
  <2> HIDE DEF y
  <2> QED BY <2>1, <2>2, <1>2 DEF PrincipalOK
<1> HIDE DEF y
<1> QED BY <1>1, <1>4, OtherPrincipalFine, SuccessorsArePrincipals DEF s, x

LEMMA ActivateFine ==
  ASSUME OwnInv, NEW c \in Clients \cup {"now"}, NEW u \in Persons, NEW p \in Successors,
         Own!ActivateSuccessor(c, u, p)
  PROVE  OwnInv' /\ OwnFine
<1>1. PICK o \in Own!Owner(Own!Seen(c)) :
        Own!Commit(c, Own!@@(Own!:>(Own!PrincipalDoc(o),
                                    [Own!Principal(Own!Seen(c), o) EXCEPT !.status = "SUPERSEDED",
                                                                          !.next = {p}]),
                             Own!:>(Own!PrincipalDoc(p),
                                    [Own!Principal(Own!Seen(c), p) EXCEPT
                                       !.type = "PRIMARY_OWNER"])))
  BY DEF Own!ActivateSuccessor
<1> DEFINE s == Own!Seen(c)
           x == Own!Principal(s, o)
           y == Own!Principal(s, p)
           x1 == [x EXCEPT !.status = "SUPERSEDED", !.next = {p}]
           y1 == [y EXCEPT !.type = "PRIMARY_OWNER"]
           f == Own!:>(Own!PrincipalDoc(o), x1)
           g == Own!:>(Own!PrincipalDoc(p), y1)
           puts == Own!@@(f, g)
<1>2. /\ Own!Ready(c) /\ Own!ActiveAs(s, p, "SUCCESSOR_OWNER") /\ Own!InWindow(s, p)
      /\ u \in y.checker /\ y.pred = Own!Owner(s) /\ Own!Eligible(s, y.user)
  BY DEF Own!ActivateSuccessor, Own!MayDecide
<1>3. OwnOK(s) /\ OwnershipOK(s)
  BY <1>2, OwnSees DEF OwnOK
<1>4. /\ o \in Own!Principals /\ Primary(s, o) /\ Own!InWindow(s, o) /\ Own!Owner(s) = {o}
      /\ p \in Own!Principals
  BY <1>3, OwnerTyped, SuccessorsArePrincipals
<1>5. /\ PrincipalOK(x) /\ x.status = "ACTIVE" /\ x.type = "PRIMARY_OWNER"
      /\ PrincipalOK(y) /\ y.status = "ACTIVE" /\ y.type = "SUCCESSOR_OWNER"
      /\ y.pred = {o} /\ y.checker # {}
  BY <1>2, <1>3, <1>4 DEF OwnershipOK, Primary, Own!ActiveAs
<1>6. o # p
  BY <1>5
<1>7. DOMAIN f = {Own!PrincipalDoc(o)} /\ f[Own!PrincipalDoc(o)] = x1
  BY OwnPut
<1>8. DOMAIN g = {Own!PrincipalDoc(p)} /\ g[Own!PrincipalDoc(p)] = y1
  BY OwnPut
<1>9. Own!Commit(c, puts)
  BY <1>1
<1> HIDE DEF f, g
<1>10. /\ DOMAIN puts = DOMAIN f \cup DOMAIN g
       /\ \A d \in DOMAIN f : puts[d] = f[d]
       /\ \A d \in DOMAIN g \ DOMAIN f : puts[d] = g[d]
  BY DEF Own!@@
<1> HIDE DEF puts
<1>11. Own!PrincipalDoc(o) # Own!PrincipalDoc(p)
  BY <1>6, OwnDocs
<1>12. /\ DOMAIN puts = {Own!PrincipalDoc(o), Own!PrincipalDoc(p)}
       /\ puts[Own!PrincipalDoc(o)] = x1 /\ puts[Own!PrincipalDoc(p)] = y1
  BY <1>7, <1>8, <1>10, <1>11
<1> HIDE DEF x, y
<1>13. /\ PrincipalOK(x1) /\ x1.status = "SUPERSEDED" /\ x1.next = {p}
       /\ x1.type = "PRIMARY_OWNER" /\ x1.pred = x.pred /\ x1.checker = x.checker
  <2>1. x \in PrincipalRecords /\ x.checker \cap (x.maker \cup {x.user}) = {}
    BY <1>5 DEF PrincipalOK, Own!Nothing
  <2>2. /\ x1 \in PrincipalRecords /\ x1.status = "SUPERSEDED" /\ x1.next = {p}
        /\ x1.type = x.type /\ x1.pred = x.pred /\ x1.checker = x.checker
        /\ x1.maker = x.maker /\ x1.user = x.user
    BY <2>1, <1>4 DEF PrincipalRecords
  <2> HIDE DEF x1
  <2> QED BY <2>1, <2>2, <1>5 DEF PrincipalOK
<1>14. /\ PrincipalOK(y1) /\ y1.status = "ACTIVE" /\ y1.type = "PRIMARY_OWNER"
       /\ y1.pred = {o} /\ y1.checker # {} /\ y1.user = y.user
       /\ y1.from = y.from /\ y1.until = y.until
  <2>1. y \in PrincipalRecords /\ y.checker \cap (y.maker \cup {y.user}) = {}
    BY <1>5 DEF PrincipalOK, Own!Nothing
  <2>2. /\ y1 \in PrincipalRecords /\ y1.status = y.status /\ y1.type = "PRIMARY_OWNER"
        /\ y1.pred = y.pred /\ y1.checker = y.checker /\ y1.maker = y.maker
        /\ y1.user = y.user /\ y1.from = y.from /\ y1.until = y.until
    BY <2>1 DEF PrincipalRecords
  <2> HIDE DEF y1
  <2> QED BY <2>1, <2>2, <1>5 DEF PrincipalOK
<1> HIDE DEF x1, y1
<1>15. DOMAIN puts \subseteq Own!Docs
  BY <1>4, <1>12, OwnDocs
<1>16. /\ \A d \in Own!Docs : db'[d] = IF d \in DOMAIN puts THEN puts[d] ELSE db[d]
       /\ \A d \in DOMAIN puts : s[d] = db[d]
       /\ ~Late => s = db
       /\ OwnOK(db') /\ db[Own!Clock] <= db'[Own!Clock] => OwnInv'
  BY <1>2, <1>9, <1>15, OwnCommit
<1>17. /\ Own!Principal(db', o) = x1 /\ Own!Principal(db, o) = x
       /\ Own!Principal(db', p) = y1 /\ Own!Principal(db, p) = y
  BY <1>4, <1>12, <1>16, OwnDocs DEF Own!Principal, x, y
<1> HIDE DEF s
<1>18. \A d \in Own!Docs : d # Own!PrincipalDoc(o) /\ d # Own!PrincipalDoc(p) => db'[d] = db[d]
  BY <1>12, <1>16
<1>19. \A r \in Own!Principals : r # o /\ r # p => Own!Principal(db', r) = Own!Principal(db, r)
  BY <1>18, OwnDocs DEF Own!Principal
<1>20. OwnOK(db) /\ OwnershipOK(db)
  BY DEF OwnInv, OwnOK
<1>21. \A r \in Own!Principals : Primary(db, r) <=> r = o
  <2>1. Primary(db, o)
    BY <1>5, <1>17 DEF Primary, Own!ActiveAs
  <2> QED BY <2>1, <1>4, <1>20 DEF OwnershipOK, Sole
<1>22. \A r \in Own!Principals : Primary(db', r) <=> r = p
  BY <1>13, <1>14, <1>17, <1>19, <1>21 DEF Primary, Own!ActiveAs
<1>23. \A r \in Own!Principals : PrincipalOK(Own!Principal(db', r))
  BY <1>13, <1>14, <1>17, <1>19, <1>20 DEF OwnershipOK
<1>24. ReplacedBy(db', o, p)
  BY <1>13, <1>14, <1>17 DEF ReplacedBy
<1>25. ASSUME NEW r \in Own!Principals, r # o, r # p, NEW q \in Successors,
              ReplacedBy(db, r, q)
       PROVE  ReplacedBy(db', r, q)
  <2>1. q # p
    BY <1>5, <1>17, <1>25 DEF ReplacedBy
  <2>2. CASE q = o
    BY <2>2, <1>13, <1>17, <1>19, <1>25 DEF ReplacedBy
  <2>3. CASE q # o
    BY <2>1, <2>3, <1>19, <1>25, SuccessorsArePrincipals DEF ReplacedBy
  <2> QED BY <2>2, <2>3
<1>26. OwnershipOK(db')
  <2>1. Sole(db')
    <3>1. {r \in Own!Principals : Primary(db', r)} = {p}
      BY <1>4, <1>22
    <3> QED BY <3>1, <1>4 DEF Sole
  <2>2. ASSUME NEW r \in Own!Principals, Own!Principal(db', r).status = "SUPERSEDED"
        PROVE  \E q \in Successors : ReplacedBy(db', r, q)
    <3>1. r # p
      BY <2>2, <1>14, <1>17
    <3>2. CASE r = o
      BY <3>2, <1>24
    <3>3. CASE r # o
      <4>1. Own!Principal(db, r).status = "SUPERSEDED"
        BY <2>2, <3>1, <3>3, <1>19
      <4>2. PICK q \in Successors : ReplacedBy(db, r, q)
        BY <4>1, <1>20 DEF OwnershipOK
      <4> QED BY <3>1, <3>3, <4>2, <1>25
    <3> QED BY <3>2, <3>3
  <2> QED BY <2>1, <2>2, <1>23 DEF OwnershipOK
<1>27. ~Late => p \in Own!Owner(db')
  <2> SUFFICES ASSUME ~Late PROVE p \in Own!Owner(db')
    OBVIOUS
  <2>1. s = db
    BY <1>16
  <2>2. db'[Own!Clock] = db[Own!Clock]
    BY <1>18, OwnDocs
  <2>3. y.user \in Persons
    BY <1>5 DEF PrincipalOK, PrincipalRecords, Own!Nothing
  <2>4. Own!Eligible(db', y.user)
    BY <2>1, <2>3, <1>2, <1>18, OwnDocs DEF Own!Eligible, y, s
  <2>5. Own!InWindow(db', p)
    BY <2>1, <2>2, <1>2, <1>14, <1>17 DEF Own!InWindow
  <2> QED BY <2>4, <2>5, <1>4, <1>14, <1>17, <1>22 DEF Own!Owner, Primary
<1>28. \A r \in Own!Principals : Primary(db, r) /\ ~Own!InWindow(db, r) => Late
  BY <1>4, <1>16, <1>21
<1>29. \A d \in Own!Docs : (\A r \in Own!Principals : d # Own!PrincipalDoc(r)) => db'[d] = db[d]
  BY <1>4, <1>18
<1>30. OwnOK(db') /\ db[Own!Clock] <= db'[Own!Clock] /\ OwnFine
  BY <1>26, <1>27, <1>28, <1>29, OwnershipStepFine
<1> QED BY <1>16, <1>30
-----------------------------------------------------------------------------
(* Emergency access.                                                       *)

\* A write of a request, of an activation, or of both.
LEMMA AccessCommit ==
  ASSUME OwnInv, NEW c \in Clients \cup {"now"}, Own!Ready(c), NEW q \in AccessRequests,
         NEW puts, DOMAIN puts \subseteq {Own!RequestDoc(q), Own!ActivationDoc(q)},
         Own!Commit(c, puts)
  PROVE  /\ \A d \in Own!Docs : d # Own!RequestDoc(q) /\ d # Own!ActivationDoc(q) =>
              db'[d] = db[d]
         /\ Own!RequestDoc(q) \in DOMAIN puts =>
              /\ Own!Request(db', q) = puts[Own!RequestDoc(q)]
              /\ Own!Request(Own!Seen(c), q) = Own!Request(db, q)
         /\ Own!RequestDoc(q) \notin DOMAIN puts => Own!Request(db', q) = Own!Request(db, q)
         /\ Own!ActivationDoc(q) \in DOMAIN puts =>
              /\ Own!Activation(db', q) = puts[Own!ActivationDoc(q)]
              /\ Own!Activation(Own!Seen(c), q) = Own!Activation(db, q)
         /\ Own!ActivationDoc(q) \notin DOMAIN puts =>
              Own!Activation(db', q) = Own!Activation(db, q)
         /\ ~Late => Own!Seen(c) = db
         /\ OwnOK(db') /\ db[Own!Clock] <= db'[Own!Clock] => OwnInv'
<1>1. DOMAIN puts \subseteq Own!Docs
  BY OwnDocs
<1>2. /\ \A d \in Own!Docs : db'[d] = IF d \in DOMAIN puts THEN puts[d] ELSE db[d]
      /\ \A d \in DOMAIN puts : Own!Seen(c)[d] = db[d]
      /\ ~Late => Own!Seen(c) = db
      /\ OwnOK(db') /\ db[Own!Clock] <= db'[Own!Clock] => OwnInv'
  BY <1>1, OwnCommit
<1>3. Own!RequestDoc(q) \in Own!Docs /\ Own!ActivationDoc(q) \in Own!Docs
  BY OwnDocs
<1> QED BY <1>2, <1>3 DEF Own!Request, Own!Activation

LEMMA AccessNow ==
  ASSUME OwnInv, NEW q \in AccessRequests
  PROVE  /\ AccessOK(Own!Request(db, q), Own!Activation(db, q), db[Own!Clock])
         /\ db[Own!Clock] \in Nat
  BY DEF OwnInv, OwnOK

\* A request without an activation: a new one, an approval, a refusal.
LEMMA RequestFine ==
  ASSUME OwnInv, NEW c \in Clients \cup {"now"}, Own!Ready(c), NEW q \in AccessRequests,
         NEW x, RequestOK(x), x.status # "ACTIVATED",
         Own!Request(Own!Seen(c), q).status # "ACTIVATED",
         Own!Commit(c, Own!:>(Own!RequestDoc(q), x))
  PROVE  OwnInv' /\ OwnFine
<1> DEFINE puts == Own!:>(Own!RequestDoc(q), x)
<1>1. /\ DOMAIN puts = {Own!RequestDoc(q)} /\ puts[Own!RequestDoc(q)] = x
      /\ Own!Commit(c, puts)
  BY OwnPut
<1> HIDE DEF puts
<1>2. Own!ActivationDoc(q) \notin DOMAIN puts
  BY <1>1, OwnDocs
<1>3. DOMAIN puts \subseteq {Own!RequestDoc(q), Own!ActivationDoc(q)}
  BY <1>1
<1>4. /\ \A d \in Own!Docs : d # Own!RequestDoc(q) /\ d # Own!ActivationDoc(q) =>
           db'[d] = db[d]
      /\ Own!Request(db', q) = x
      /\ Own!Request(Own!Seen(c), q) = Own!Request(db, q)
      /\ Own!Activation(db', q) = Own!Activation(db, q)
      /\ OwnOK(db') /\ db[Own!Clock] <= db'[Own!Clock] => OwnInv'
  BY <1>1, <1>2, <1>3, AccessCommit
<1>5. Own!Activation(db, q) = Own!Nothing
  BY <1>4, AccessNow DEF AccessOK
<1>6. AccessOK(Own!Request(db', q), Own!Activation(db', q), db[Own!Clock])
  BY <1>4, <1>5 DEF AccessOK, ActivationOK, Own!Nothing
<1>7. OwnOK(db') /\ db[Own!Clock] <= db'[Own!Clock] /\ OwnFine
  BY <1>4, <1>5, <1>6, AccessStepFine
<1> QED BY <1>4, <1>7

\* A request with its activation: urgently, or with the second approval.
LEMMA ActivationFine ==
  ASSUME OwnInv, NEW c \in Clients \cup {"now"}, Own!Ready(c), NEW q \in AccessRequests,
         NEW u \in Persons, NEW x, NEW r, RequestOK(x), x.status = "ACTIVATED",
         RequestOK(r), r # Own!Nothing,
         Own!Request(Own!Seen(c), q).status # "ACTIVATED",
         Consented(x, Own!Activated(Own!Seen(c), r, u)),
         x.urgent => Own!Owns(Own!Seen(c), u),
         Own!Commit(c, Own!@@(Own!:>(Own!RequestDoc(q), x),
                              Own!:>(Own!ActivationDoc(q), Own!Activated(Own!Seen(c), r, u))))
  PROVE  OwnInv' /\ OwnFine
<1> DEFINE s == Own!Seen(c)
           a == Own!Activated(s, r, u)
           f == Own!:>(Own!RequestDoc(q), x)
           g == Own!:>(Own!ActivationDoc(q), a)
           puts == Own!@@(f, g)
<1>1. /\ DOMAIN f = {Own!RequestDoc(q)} /\ f[Own!RequestDoc(q)] = x
      /\ DOMAIN g = {Own!ActivationDoc(q)} /\ g[Own!ActivationDoc(q)] = a
  BY OwnPut
<1>2. Own!Commit(c, puts) /\ Consented(x, a)
  OBVIOUS
<1>3. s[Own!Clock] \in Nat
  BY OwnSees DEF OwnOK
<1>4. /\ ActivationOK(a) /\ a # Own!Nothing /\ a.activator = u /\ a.status = "ACTIVE"
  <2>1. r.target \in Persons /\ r.duration \in Nat
    BY OwnershipIsTimed DEF RequestOK
  <2>2. s[Own!Clock] + r.duration \in Nat
    BY <2>1, <1>3
  <2> HIDE DEF s
  <2> QED BY <2>1, <2>2, <1>3 DEF Own!Activated, ActivationOK, Own!Nothing, Own!Null
<1> HIDE DEF f, g, a
<1>5. /\ DOMAIN puts = DOMAIN f \cup DOMAIN g
      /\ \A d \in DOMAIN f : puts[d] = f[d]
      /\ \A d \in DOMAIN g \ DOMAIN f : puts[d] = g[d]
  BY DEF Own!@@
<1> HIDE DEF puts
<1>6. Own!RequestDoc(q) # Own!ActivationDoc(q)
  BY OwnDocs
<1>7. /\ DOMAIN puts = {Own!RequestDoc(q), Own!ActivationDoc(q)}
      /\ puts[Own!RequestDoc(q)] = x /\ puts[Own!ActivationDoc(q)] = a
  BY <1>1, <1>5, <1>6
<1>8. /\ \A d \in Own!Docs : d # Own!RequestDoc(q) /\ d # Own!ActivationDoc(q) =>
           db'[d] = db[d]
      /\ Own!Request(db', q) = x
      /\ Own!Request(s, q) = Own!Request(db, q)
      /\ Own!Activation(db', q) = a
      /\ ~Late => s = db
      /\ OwnOK(db') /\ db[Own!Clock] <= db'[Own!Clock] => OwnInv'
  BY <1>2, <1>7, AccessCommit
<1>9. Own!Activation(db, q) = Own!Nothing
  BY <1>8, AccessNow DEF AccessOK
<1>10. AccessOK(Own!Request(db', q), Own!Activation(db', q), db[Own!Clock])
  BY <1>2, <1>4, <1>8 DEF AccessOK
<1>11. x.urgent => Own!Owns(db, a.activator) \/ Late
  BY <1>4, <1>8
<1>12. OwnOK(db') /\ db[Own!Clock] <= db'[Own!Clock] /\ OwnFine
  BY <1>8, <1>9, <1>10, <1>11, AccessStepFine
<1> QED BY <1>8, <1>12

\* A change of an activation that takes it out of force.
LEMMA EndFine ==
  ASSUME OwnInv, NEW c \in Clients \cup {"now"}, Own!Ready(c), NEW q \in AccessRequests,
         NEW b, ActivationOK(b), b.status \in {"EXPIRED", "REVIEWED"},
         Own!Activation(Own!Seen(c), q) # Own!Nothing,
         b.activator = Own!Activation(Own!Seen(c), q).activator,
         db[Own!Clock] < b.until => b.ended # -1,
         Own!Commit(c, Own!:>(Own!ActivationDoc(q), b))
  PROVE  OwnInv' /\ OwnFine
<1> DEFINE puts == Own!:>(Own!ActivationDoc(q), b)
<1>1. /\ DOMAIN puts = {Own!ActivationDoc(q)} /\ puts[Own!ActivationDoc(q)] = b
      /\ Own!Commit(c, puts)
  BY OwnPut
<1> HIDE DEF puts
<1>2. Own!RequestDoc(q) \notin DOMAIN puts
  BY <1>1, OwnDocs
<1>3. DOMAIN puts \subseteq {Own!RequestDoc(q), Own!ActivationDoc(q)}
  BY <1>1
<1>4. /\ \A d \in Own!Docs : d # Own!RequestDoc(q) /\ d # Own!ActivationDoc(q) =>
           db'[d] = db[d]
      /\ Own!Request(db', q) = Own!Request(db, q)
      /\ Own!Activation(db', q) = b
      /\ Own!Activation(Own!Seen(c), q) = Own!Activation(db, q)
      /\ OwnOK(db') /\ db[Own!Clock] <= db'[Own!Clock] => OwnInv'
  BY <1>1, <1>2, <1>3, AccessCommit
<1>5. b # Own!Nothing /\ \A t : ~Own!InForce(b, t)
  BY DEF Own!Nothing, Own!InForce
<1>6. AccessOK(Own!Request(db', q), Own!Activation(db', q), db[Own!Clock])
  BY <1>4, <1>5, AccessNow DEF AccessOK, Consented
<1>7. OwnOK(db') /\ db[Own!Clock] <= db'[Own!Clock] /\ OwnFine
  BY <1>4, <1>5, <1>6, AccessStepFine
<1> QED BY <1>4, <1>7

LEMMA AskFine ==
  ASSUME OwnInv, NEW c \in Clients \cup {"now"}, NEW u \in Persons,
         NEW q \in AccessRequests, NEW target \in Persons, NEW duration \in Durations,
         \/ Own!RequestAccess(c, u, q, target, duration)
         \/ Own!RequestUrgently(c, u, q, target, duration)
  PROVE  OwnInv' /\ OwnFine
<1>1. CASE Own!RequestAccess(c, u, q, target, duration)
  <2> DEFINE x == [status |-> "PENDING_APPROVAL", urgent |-> FALSE, target |-> target,
                   requester |-> u, duration |-> duration, approvals |-> {}]
  <2>1. /\ Own!Ready(c) /\ Own!Request(Own!Seen(c), q) = Own!Nothing
        /\ Own!Commit(c, Own!:>(Own!RequestDoc(q), x))
    BY <1>1 DEF Own!RequestAccess
  <2>2. RequestOK(x) /\ x.status # "ACTIVATED"
    BY FS_EmptySet DEF RequestOK
  <2>3. Own!Request(Own!Seen(c), q).status # "ACTIVATED"
    BY <2>1 DEF Own!Nothing
  <2> HIDE DEF x
  <2> QED BY <2>1, <2>2, <2>3, RequestFine
<1>2. CASE Own!RequestUrgently(c, u, q, target, duration)
  <2> DEFINE s == Own!Seen(c)
             x == [status |-> "ACTIVATED", urgent |-> TRUE, target |-> target,
                   requester |-> u, duration |-> duration, approvals |-> {}]
             a == Own!Activated(s, x, u)
  <2>1. /\ Own!Ready(c) /\ Own!Request(s, q) = Own!Nothing /\ Own!Owns(s, u)
        /\ Own!Commit(c, Own!@@(Own!:>(Own!RequestDoc(q), x),
                                Own!:>(Own!ActivationDoc(q), Own!Activated(s, x, u))))
    BY <1>2 DEF Own!RequestUrgently
  <2>2. RequestOK(x) /\ x.status = "ACTIVATED" /\ x # Own!Nothing
    BY FS_EmptySet DEF RequestOK, Own!Nothing
  <2>3. Own!Request(s, q).status # "ACTIVATED"
    BY <2>1 DEF Own!Nothing
  <2>4. Consented(x, Own!Activated(s, x, u))
    <3>1. x.urgent /\ x.requester = u /\ Own!Activated(s, x, u).activator = u
      BY DEF Own!Activated
    <3> QED BY <3>1 DEF Consented
  <2> HIDE DEF x
  <2> QED BY <2>1, <2>2, <2>3, <2>4, ActivationFine
<1> QED BY <1>1, <1>2

LEMMA AnswerFine ==
  ASSUME OwnInv, NEW c \in Clients \cup {"now"}, NEW u \in Persons,
         NEW q \in AccessRequests, Own!ApproveRequest(c, u, q) \/ Own!RejectRequest(c, u, q)
  PROVE  OwnInv' /\ OwnFine
<1> DEFINE s == Own!Seen(c)
           r == Own!Request(s, q)
<1>1. /\ Own!Ready(c) /\ r.status = "PENDING_APPROVAL"
      /\ u \notin {r.requester, r.target} \cup r.approvals
  BY DEF Own!ApproveRequest, Own!RejectRequest, Own!MayApprove
<1>2. RequestOK(r)
  BY <1>1, OwnSees DEF OwnOK, AccessOK
<1>3. Own!ApproveRequest(c, u, q) =>
        LET approved == [r EXCEPT !.approvals = @ \cup {u}] IN
        IF Cardinality(approved.approvals) < 2
          THEN Own!Commit(c, Own!:>(Own!RequestDoc(q), approved))
          ELSE Own!Commit(c, Own!@@(
                 Own!:>(Own!RequestDoc(q), [approved EXCEPT !.status = "ACTIVATED"]),
                 Own!:>(Own!ActivationDoc(q), Own!Activated(s, r, u))))
  BY OwnCount DEF Own!ApproveRequest
<1>4. Own!RejectRequest(c, u, q) =>
        Own!Commit(c, Own!:>(Own!RequestDoc(q), [r EXCEPT !.status = "REJECTED"]))
  BY DEF Own!RejectRequest
<1>5. r # Own!Nothing
  BY <1>1 DEF Own!Nothing
<1> HIDE DEF r
<1>6. CASE Own!RejectRequest(c, u, q)
  <2> DEFINE x == [r EXCEPT !.status = "REJECTED"]
  <2>1. RequestOK(x) /\ x.status = "REJECTED"
    BY <1>2, <1>5 DEF RequestOK
  <2>2. Own!Commit(c, Own!:>(Own!RequestDoc(q), x))
    BY <1>4, <1>6
  <2> HIDE DEF x
  <2> QED BY <2>1, <2>2, <1>1, RequestFine DEF r
<1>7. CASE Own!ApproveRequest(c, u, q)
  <2> DEFINE y == [r EXCEPT !.approvals = @ \cup {u}]
             x == [y EXCEPT !.status = "ACTIVATED"]
  <2>1. /\ IsFiniteSet(r.approvals \cup {u}) /\ Cardinality(r.approvals \cup {u}) \in Nat
    BY <1>2, <1>5, FS_AddElement, FS_CardinalityType DEF RequestOK
  <2>2. /\ RequestOK(y) /\ y.status = "PENDING_APPROVAL" /\ y.approvals = r.approvals \cup {u}
        /\ RequestOK(x) /\ x.status = "ACTIVATED" /\ x.approvals = r.approvals \cup {u}
        /\ ~x.urgent
    BY <2>1, <1>1, <1>2, <1>5 DEF RequestOK
  <2>3. IF Cardinality(y.approvals) < 2
          THEN Own!Commit(c, Own!:>(Own!RequestDoc(q), y))
          ELSE Own!Commit(c, Own!@@(Own!:>(Own!RequestDoc(q), x),
                 Own!:>(Own!ActivationDoc(q), Own!Activated(s, r, u))))
    BY <1>3, <1>7
  <2> HIDE DEF x, y
  <2>4. CASE Cardinality(y.approvals) < 2
    <3>1. Own!Commit(c, Own!:>(Own!RequestDoc(q), y))
      BY <2>3, <2>4
    <3> QED BY <3>1, <2>2, <1>1, RequestFine DEF r
  <2>5. CASE ~(Cardinality(y.approvals) < 2)
    <3>1. Own!Commit(c, Own!@@(Own!:>(Own!RequestDoc(q), x),
            Own!:>(Own!ActivationDoc(q), Own!Activated(s, r, u))))
      BY <2>3, <2>5
    <3>2. Cardinality(x.approvals) >= 2
      BY <2>1, <2>2, <2>5
    <3>3. Consented(x, Own!Activated(s, r, u))
      <4>1. Own!Activated(s, r, u).activator = u
        BY DEF Own!Activated
      <4> QED BY <4>1, <3>2, <2>2 DEF Consented
    <3>4. Own!Request(s, q).status # "ACTIVATED"
      BY <1>1 DEF r
    <3> QED BY <3>1, <3>3, <3>4, <2>2, <1>1, <1>2, <1>5, ActivationFine
  <2> QED BY <2>4, <2>5
<1> QED BY <1>6, <1>7

LEMMA EndsFine ==
  ASSUME OwnInv, NEW c \in Clients \cup {"now"}, NEW q \in AccessRequests,
         \/ \E u \in Persons : Own!EndActivation(c, u, q) \/ Own!ReviewActivation(c, u, q)
         \/ Own!MaterializeExpiry(c, q)
  PROVE  OwnInv' /\ OwnFine
<1> DEFINE s == Own!Seen(c)
           now == s[Own!Clock]
           a == Own!Activation(s, q)
<1>1. Own!Ready(c) /\ a.status \in {"ACTIVE", "EXPIRED"}
  BY DEF Own!EndActivation, Own!ReviewActivation, Own!MaterializeExpiry, Own!InForce
<1>2. a # Own!Nothing
  BY <1>1 DEF Own!Nothing
<1>3. /\ OwnOK(s) /\ now <= db[Own!Clock] /\ now \in Nat /\ db[Own!Clock] \in Nat
  BY <1>1, OwnSees DEF OwnInv, OwnOK
<1>4. /\ ActivationOK(a) /\ a.until \in Nat
      /\ a.status = "EXPIRED" /\ now < a.until => a.ended # -1
  BY <1>2, <1>3 DEF OwnOK, AccessOK, ActivationOK
<1>5. ASSUME NEW u \in Persons, Own!EndActivation(c, u, q)
      PROVE  OwnInv' /\ OwnFine
  <2> DEFINE b == [a EXCEPT !.status = "EXPIRED", !.ended = now]
  <2>1. Own!Commit(c, Own!:>(Own!ActivationDoc(q), b))
    BY <1>5 DEF Own!EndActivation
  <2> HIDE DEF a, now
  <2>2. now # -1 /\ now \in Nat
    BY <1>3
  <2>3. /\ ActivationOK(b) /\ b.status = "EXPIRED" /\ b.activator = a.activator
        /\ b.ended # -1
    BY <2>2, <1>2, <1>4 DEF ActivationOK
  <2> HIDE DEF b
  <2> QED BY <2>1, <2>3, <1>1, <1>2, EndFine DEF a
<1>6. ASSUME NEW u \in Persons, Own!ReviewActivation(c, u, q)
      PROVE  OwnInv' /\ OwnFine
  <2> DEFINE b == [a EXCEPT !.status = "REVIEWED", !.reviewer = {u}]
  <2>1. /\ Own!Commit(c, Own!:>(Own!ActivationDoc(q), b))
        /\ a.status = "EXPIRED" /\ u \notin {a.activator, a.target}
    BY <1>6 DEF Own!ReviewActivation
  <2> HIDE DEF a, now
  <2>2. /\ ActivationOK(b) /\ b.status = "REVIEWED" /\ b.activator = a.activator
        /\ b.ended = a.ended /\ b.until = a.until
    BY <2>1, <1>2, <1>4 DEF ActivationOK
  <2> HIDE DEF b
  <2>3. db[Own!Clock] < b.until => b.ended # -1
    BY <2>1, <2>2, <1>3, <1>4
  <2> QED BY <2>1, <2>2, <2>3, <1>1, <1>2, EndFine DEF a
<1>7. CASE Own!MaterializeExpiry(c, q)
  <2> DEFINE b == [a EXCEPT !.status = "EXPIRED"]
  <2>1. /\ Own!Commit(c, Own!:>(Own!ActivationDoc(q), b))
        /\ a.status = "ACTIVE" /\ a.until <= now
    BY <1>7 DEF Own!MaterializeExpiry
  <2> HIDE DEF a, now
  <2>2. /\ ActivationOK(b) /\ b.status = "EXPIRED" /\ b.activator = a.activator
        /\ b.until = a.until
    BY <2>1, <1>2, <1>4 DEF ActivationOK
  <2> HIDE DEF b
  <2>3. ~(db[Own!Clock] < b.until)
    BY <2>1, <2>2, <1>3, <1>4
  <2> QED BY <2>1, <2>2, <2>3, <1>1, <1>2, EndFine DEF a
<1> QED BY <1>5, <1>6, <1>7
-----------------------------------------------------------------------------
(* Ownership and emergency access are kept, and err for a cause.           *)

LEMMA OwnSame ==
  ASSUME db' = db
  PROVE  OwnFine
<1>1. Own!OwnerLostForCauseStep
  BY DEF Own!OwnerLostForCauseStep
<1>2. Own!AccessErrsLateStep
  BY DEF Own!AccessErrsLateStep
<1> QED BY <1>1, <1>2 DEF OwnFine

LEMMA OwnIdle ==
  ASSUME OwnInv, db' = db, Taken(Own!Docs)',
         \A o \in Clients : Open(o)' =>
           \/ snap'[o] = db
           \/ Open(o) /\ snap'[o] = snap[o]
  PROVE  OwnInv'
<1>1. ASSUME NEW o \in Clients, Open(o)'
      PROVE  OwnOK(snap'[o]) /\ snap'[o][Own!Clock] <= db'[Own!Clock]
  <2>1. db[Own!Clock] <= db[Own!Clock]
    BY DEF OwnInv, OwnOK
  <2> QED BY <1>1, <2>1 DEF OwnInv
<1>2. \A o \in Clients : Open(o)' => OwnOK(snap[o])' /\ (snap[o][Own!Clock] <= db[Own!Clock])'
  BY <1>1 DEF OwnOK, OwnershipOK, Own!Principal, Own!Request, Own!Activation, Sole,
              Primary, ReplacedBy, Own!ActiveAs, Own!Clock, Own!Principals
<1>3. OwnOK(db)'
  BY DEF OwnInv, OwnOK, OwnershipOK, Own!Principal, Own!Request, Own!Activation, Sole,
         Primary, ReplacedBy, Own!ActiveAs, Own!Clock, Own!Principals
<1> QED BY <1>2, <1>3 DEF OwnInv

LEMMA OwnNext ==
  ASSUME OwnInv, [Own!Next]_(Own!vars)
  PROVE  OwnInv' /\ OwnFine
<1>1. CASE UNCHANGED Own!vars
  <2>1. UNCHANGED <<db, snap, missed>>
    BY <1>1 DEF Own!vars
  <2>2. Taken(Own!Docs)'
    BY <2>1, IdleTaken DEF OwnInv
  <2> QED BY <2>1, <2>2, OwnIdle, OwnSame DEF Open
<1>2. ASSUME NEW c \in Clients, Own!Begin(c)
      PROVE  OwnInv' /\ OwnFine
  <2>1. Begun(c)
    BY <1>2, OwnTxn
  <2> QED BY <2>1, BeginTaken, OwnIdle, OwnSame DEF OwnInv
<1>3. ASSUME NEW c \in Clients, Own!Abort(c)
      PROVE  OwnInv' /\ OwnFine
  <2>1. Aborted(c)
    BY <1>3, OwnTxn
  <2> QED BY <2>1, AbortTaken, OwnIdle, OwnSame DEF OwnInv
<1>4. ASSUME NEW c \in Clients \cup {"now"}, Own!Operation(c)
      PROVE  OwnInv' /\ OwnFine
  <2>1. PICK u \in Persons :
        \/ Own!UserChanges(c, u)
        \/ \E p \in Successors :
             \/ \E target \in Persons, window \in OwnWindows :
                  Own!ProposeSuccessor(c, u, p, target, window)
             \/ \E status \in {"ACTIVE", "REVOKED"} : Own!DecideSuccessor(c, u, p, status)
             \/ Own!ActivateSuccessor(c, u, p)
        \/ \E q \in AccessRequests :
             \/ \E target \in Persons, duration \in Durations :
                  \/ Own!RequestAccess(c, u, q, target, duration)
                  \/ Own!RequestUrgently(c, u, q, target, duration)
             \/ Own!ApproveRequest(c, u, q) \/ Own!RejectRequest(c, u, q)
             \/ Own!EndActivation(c, u, q) \/ Own!ReviewActivation(c, u, q)
    BY <1>4 DEF Own!Operation
  <2>2. ASSUME NEW p \in Successors,
               \/ \E target \in Persons, window \in OwnWindows :
                    Own!ProposeSuccessor(c, u, p, target, window)
               \/ \E status \in {"ACTIVE", "REVOKED"} : Own!DecideSuccessor(c, u, p, status)
               \/ Own!ActivateSuccessor(c, u, p)
        PROVE  OwnInv' /\ OwnFine
    BY <2>2, ProposeFine, DecideFine, ActivateFine
  <2>3. ASSUME NEW q \in AccessRequests,
               \/ \E target \in Persons, duration \in Durations :
                    \/ Own!RequestAccess(c, u, q, target, duration)
                    \/ Own!RequestUrgently(c, u, q, target, duration)
               \/ Own!ApproveRequest(c, u, q) \/ Own!RejectRequest(c, u, q)
               \/ Own!EndActivation(c, u, q) \/ Own!ReviewActivation(c, u, q)
        PROVE  OwnInv' /\ OwnFine
    BY <2>3, AskFine, AnswerFine, EndsFine
  <2> QED BY <2>1, <2>2, <2>3, UserFine
<1>5. ASSUME NEW c \in Clients \cup {"now"}, NEW q \in AccessRequests,
             Own!MaterializeExpiry(c, q)
      PROVE  OwnInv' /\ OwnFine
  BY <1>5, EndsFine
<1>6. \/ Own!Tick
      \/ \E c \in Clients \cup {"now"} : Own!Operation(c)
      \/ \E c \in Clients \cup {"now"}, q \in AccessRequests : Own!MaterializeExpiry(c, q)
      \/ \E c \in Clients : Own!Begin(c) \/ Own!Abort(c)
      \/ UNCHANGED Own!vars
  BY OwnTxn DEF Own!Next
<1> QED BY <1>1, <1>2, <1>3, <1>4, <1>5, <1>6, TickFine

LEMMA OwnInit ==
  ASSUME Own!Init
  PROVE  OwnInv
<1>1. PICK until \in {-1, OwnTime} : db = [d \in Own!Docs |->
        IF d = Own!Clock THEN 0
        ELSE IF d[1] = "user" THEN "ELIGIBLE"
        ELSE IF d = Own!PrincipalDoc(First)
          THEN [status |-> "ACTIVE", type |-> "PRIMARY_OWNER", user |-> FirstOwner,
                from |-> 0, until |-> until, pred |-> {}, next |-> {},
                maker |-> {}, checker |-> {}]
        ELSE Own!Nothing]
  BY DEF Own!Init, Own!Null
<1>2. \A c \in Clients : ~Open(c)
  BY DEF Own!Init, Own!TxnInit, Own!NoSnapshot, Open
<1>3. Taken(Own!Docs)
  <2>1. db = [d \in Own!Docs |-> db[d]]
    BY <1>1
  <2>2. snap = [c \in Clients |-> snap[c]] /\ missed \in [Clients -> SUBSET Own!Docs]
    BY DEF Own!Init, Own!TxnInit
  <2> QED BY <1>2, <2>1, <2>2 DEF Taken
<1> DEFINE x == [status |-> "ACTIVE", type |-> "PRIMARY_OWNER", user |-> FirstOwner,
                 from |-> 0, until |-> until, pred |-> {}, next |-> {},
                 maker |-> {}, checker |-> {}]
<1>4. PrincipalOK(x) /\ x.status = "ACTIVE" /\ x.type = "PRIMARY_OWNER"
  BY OwnershipIsTimed DEF PrincipalOK, PrincipalRecords
<1>5. First \in Own!Principals
  BY DEF Own!Principals
<1>6. \A p \in Own!Principals :
        Own!Principal(db, p) = IF p = First THEN x ELSE Own!Nothing
  <2> SUFFICES ASSUME NEW p \in Own!Principals
               PROVE  Own!Principal(db, p) = IF p = First THEN x ELSE Own!Nothing
    OBVIOUS
  <2> DEFINE d == Own!PrincipalDoc(p)
  <2>1. d \in Own!Docs /\ d # Own!Clock /\ d[1] # "user"
    BY OwnDocs DEF Own!PrincipalDoc
  <2>2. d = Own!PrincipalDoc(First) <=> p = First
    BY OwnDocs
  <2> HIDE DEF d
  <2>3. db[d] = IF p = First THEN x ELSE Own!Nothing
    BY <1>1, <2>1, <2>2
  <2> QED BY <2>3 DEF d, Own!Principal
<1> HIDE DEF x
<1>7. OwnershipOK(db)
  <2>1. \A p \in Own!Principals : PrincipalOK(Own!Principal(db, p))
    BY <1>4, <1>6 DEF PrincipalOK
  <2>2. \A p \in Own!Principals : Primary(db, p) <=> p = First
    BY <1>4, <1>6 DEF Primary, Own!ActiveAs, Own!Nothing
  <2>3. {p \in Own!Principals : Primary(db, p)} = {First}
    BY <2>2, <1>5
  <2>4. \A p \in Own!Principals : Own!Principal(db, p).status # "SUPERSEDED"
    BY <1>4, <1>6 DEF Own!Nothing
  <2> QED BY <2>1, <2>3, <2>4, <1>5 DEF OwnershipOK, Sole
<1>8. ASSUME NEW q \in AccessRequests
      PROVE  AccessOK(Own!Request(db, q), Own!Activation(db, q), db[Own!Clock])
  <2>1. Own!Request(db, q) = Own!Nothing
    <3> DEFINE d == Own!RequestDoc(q)
    <3>1. d \in Own!Docs /\ d # Own!Clock /\ d[1] # "user" /\ d # Own!PrincipalDoc(First)
      BY OwnDocs DEF Own!RequestDoc
    <3> QED BY <1>1, <3>1 DEF Own!Request
  <2>2. Own!Activation(db, q) = Own!Nothing
    <3> DEFINE d == Own!ActivationDoc(q)
    <3>1. d \in Own!Docs /\ d # Own!Clock /\ d[1] # "user" /\ d # Own!PrincipalDoc(First)
      BY OwnDocs DEF Own!ActivationDoc
    <3> QED BY <1>1, <3>1 DEF Own!Activation
  <2> QED BY <2>1, <2>2 DEF AccessOK, RequestOK, ActivationOK, Own!Nothing
<1>9. db[Own!Clock] \in Nat
  BY <1>1, OwnDocs
<1> QED BY <1>2, <1>3, <1>7, <1>8, <1>9 DEF OwnInv, OwnOK

\* As long as it is ownership the records hold, they are in order.
LEMMA PartIsOwnership == Spec => [](Owning => OwnInv)
<1>1. Init => (Owning => OwnInv)
  BY OwnInit DEF Init, Owning
<1>2. (Owning => OwnInv) /\ [Next]_vars => (Owning => OwnInv)'
  <2> SUFFICES ASSUME Owning => OwnInv, [Next]_vars, Owning'
               PROVE  OwnInv'
    OBVIOUS
  <2>1. Owning /\ [Own!Next]_(Own!vars)
    BY DEF Next, vars, Own!vars, Owning
  <2> QED BY <2>1, OwnNext
<1> QED BY <1>1, <1>2, PTL DEF Spec

LEMMA OwnKept ==
  ASSUME OwnInv
  PROVE  Own!SuccessionIsChain /\ Own!AccessIsConsented
<1>1. OwnershipOK(db)
  BY DEF OwnInv, OwnOK
<1>2. Cardinality({p \in Own!Principals : Own!ActiveAs(db, p, "PRIMARY_OWNER")}) = 1
  BY <1>1, FS_Singleton DEF OwnershipOK, Sole, Primary
<1>3. ASSUME NEW p \in Own!Principals, NEW q \in Successors, ReplacedBy(db, p, q)
      PROVE  LET successor == Own!Principal(db, q) IN
             /\ Own!Principal(db, p).next = {q} /\ successor.pred = {p}
             /\ successor.type = "PRIMARY_OWNER"
             /\ successor.checker # {}
             /\ successor.checker \cap (successor.maker \cup {successor.user}) = {}
  <2>1. PrincipalOK(Own!Principal(db, q)) /\ Own!Principal(db, q) # Own!Nothing
    BY <1>1, <1>3, SuccessorsArePrincipals DEF OwnershipOK, ReplacedBy, Own!Nothing
  <2> QED BY <1>3, <2>1 DEF ReplacedBy, PrincipalOK
<1>4. Own!SuccessionIsChain
  BY <1>1, <1>2, <1>3, OwnCount DEF Own!SuccessionIsChain, OwnershipOK
<1>5. ASSUME NEW q \in AccessRequests
      PROVE  LET a == Own!Activation(db, q)
                 request == Own!Request(db, q) IN
             /\ a # Own!Nothing <=> request.status = "ACTIVATED"
             /\ a # Own!Nothing =>
                  /\ \/ request.urgent /\ a.activator = request.requester
                     \/ /\ Cardinality(request.approvals) >= 2
                        /\ a.activator \in request.approvals
                        /\ request.approvals \cap {request.requester, request.target} = {}
                  /\ a.reviewer \cap {a.activator, a.target} = {}
                  /\ \A t \in Own!Times : Own!InForce(a, t) <=> Own!Granted(a, t)
                  /\ a.status # "ACTIVE" /\ db[Own!Clock] < a.until => a.ended # Own!Null
  <2> DEFINE a == Own!Activation(db, q)
             request == Own!Request(db, q)
  <2>1. AccessOK(request, a, db[Own!Clock])
    BY AccessNow
  <2> HIDE DEF a, request
  <2>2. a # Own!Nothing <=> request.status = "ACTIVATED"
    BY <2>1 DEF AccessOK
  <2>3. ASSUME a # Own!Nothing
        PROVE  /\ \/ request.urgent /\ a.activator = request.requester
                  \/ /\ Cardinality(request.approvals) >= 2
                     /\ a.activator \in request.approvals
                     /\ request.approvals \cap {request.requester, request.target} = {}
               /\ a.reviewer \cap {a.activator, a.target} = {}
               /\ \A t \in Own!Times : Own!InForce(a, t) <=> Own!Granted(a, t)
               /\ a.status # "ACTIVE" /\ db[Own!Clock] < a.until => a.ended # Own!Null
    <3>1. request # Own!Nothing /\ RequestOK(request) /\ Consented(request, a)
      BY <2>1, <2>2, <2>3 DEF AccessOK, Own!Nothing
    <3>2. \/ request.urgent /\ a.activator = request.requester
          \/ /\ Cardinality(request.approvals) >= 2
             /\ a.activator \in request.approvals
             /\ request.approvals \cap {request.requester, request.target} = {}
      BY <3>1 DEF RequestOK, Consented
    <3>3. /\ a.status \in {"ACTIVE", "EXPIRED", "REVIEWED"}
          /\ a.status = "ACTIVE" => a.ended = -1
          /\ a.reviewer \cap {a.activator, a.target} = {}
      BY <2>1, <2>3 DEF AccessOK, ActivationOK
    <3>4. \A t \in Own!Times : Own!InForce(a, t) <=> Own!Granted(a, t)
      BY <3>3 DEF Own!InForce, Own!Granted, Own!Null
    <3>5. a.status # "ACTIVE" /\ db[Own!Clock] < a.until => a.ended # Own!Null
      BY <2>1, <3>3 DEF AccessOK, Own!Null
    <3> QED BY <3>2, <3>3, <3>4, <3>5
  <2> QED BY <2>2, <2>3 DEF a, request
<1>6. Own!AccessIsConsented
  BY <1>5, OwnCount DEF Own!AccessIsConsented
<1> QED BY <1>4, <1>6

\* Whatever people, successors and requests there are and however many commands
\* overlap: one principal is owner, who replaced another was proposed to replace
\* it and approved by a third (DecideSuccessor, ActivateSuccessor), emergency
\* access has the consent it needs (RequestUrgently, ApproveRequest) and an end
\* as soon as it is out of force (EndActivation, MaterializeExpiry).
THEOREM OwnershipHolds == Spec => []OwnershipKept
<1>1. (Owning => OwnInv) => OwnershipKept
  BY OwnKept DEF OwnershipKept
<1> QED BY <1>1, PartIsOwnership, PTL

\* The owner is lost by the clock, by a change of a user or through an overtaken
\* check (ActivateSuccessor reads the eligibility of users it does not write), and
\* access is given urgently by who is owner, or was as an overtaken command began.
THEOREM OwnershipErrs == Spec => OwnershipErrsForCause
<1> DEFINE Fine == Own!OwnerLostForCauseStep /\ Own!AccessErrsLateStep
<1>1. (Owning => OwnInv) /\ [Next]_vars => [Owning => Fine]_vars
  <2> SUFFICES ASSUME Owning, OwnInv, [Next]_vars PROVE Fine
    OBVIOUS
  <2>1. [Own!Next]_(Own!vars)
    BY DEF Next, vars, Own!vars, Owning
  <2> QED BY <2>1, OwnNext DEF OwnFine
<1> HIDE DEF Fine
<1>2. Spec => [][Owning => Fine]_vars
  BY <1>1, PartIsOwnership, PTL DEF Spec
<1> QED BY <1>2 DEF Fine, OwnershipErrsForCause
-----------------------------------------------------------------------------
(* Units, who is employed in them and what they own.                       *)

UnitType ==
  [status : {"none", "ACTIVE", "INACTIVE", "ARCHIVED"}, parent : Units \cup {Org!Root},
   chain : Seq(Units), name : Names \cup {"none"}]

ProfileType ==
  [status : {"ACTIVE", "ON_LEAVE", "SUSPENDED", "TERMINATED", "ARCHIVED"},
   unit : Units, user : LinkedUsers \cup {Org!Nobody}]

AccountStages == {"none", "ACTIVE", "INACTIVE", "ARCHIVED"}

\* A unit whose path ends in its parent and leads through units that s has.
UnitOK(s, unit) ==
  /\ unit \in UnitType
  /\ IF unit.parent = Org!Root THEN unit.chain = <<>>
     ELSE unit.chain # <<>> /\ unit.chain[Len(unit.chain)] = unit.parent
  /\ \A i \in DOMAIN unit.chain : Org!UnitStatus(s, unit.chain[i]) # "none"
  /\ unit.status = "none" => unit.parent = Org!Root

\* What is said of one state of the documents.
OrgOK(s) ==
  /\ \A u \in Units : UnitOK(s, s[Org!UnitDoc(u)])
  /\ \A p \in Profiles :
       s[Org!ProfileDoc(p)] \in ProfileType \cup {Org!NoProfile, [status |-> "ARCHIVED"]}
  /\ \A a \in UnitAccounts : s[Org!AccountDoc(a)] \in AccountStages

\* The inductive invariant: a unit that a snapshot shows has not gone.
OrgInv ==
  /\ Taken(Org!Docs)
  /\ OrgOK(db)
  /\ \A c \in Clients : Open(c) =>
       /\ OrgOK(snap[c])
       /\ \A u \in Units : Org!UnitStatus(snap[c], u) # "none" => Org!UnitStatus(db, u) # "none"

\* What an operation that reads s may write.
OrgWriteOK(s, d, x) ==
  /\ \A u \in Units : d = Org!UnitDoc(u) => UnitOK(s, x) /\ x.status # "none"
  /\ \A p \in Profiles : d = Org!ProfileDoc(p) => x \in ProfileType
  /\ \A a \in UnitAccounts : d = Org!AccountDoc(a) => x \in AccountStages

OrgSound(s, puts) ==
  DOMAIN puts \subseteq Org!Docs /\ \A d \in DOMAIN puts : OrgWriteOK(s, d, puts[d])

LEMMA OrgDocs ==
  /\ \A u \in Units : Org!UnitDoc(u) \in Org!Docs
  /\ \A p \in Profiles : Org!ProfileDoc(p) \in Org!Docs
  /\ \A a \in UnitAccounts : Org!AccountDoc(a) \in Org!Docs
  /\ \A d \in Org!Docs : \/ \E u \in Units : d = Org!UnitDoc(u)
                         \/ \E p \in Profiles : d = Org!ProfileDoc(p)
                         \/ \E a \in UnitAccounts : d = Org!AccountDoc(a)
  /\ \A x, y : Org!UnitDoc(x) = Org!UnitDoc(y) => x = y
  /\ \A x, y : Org!ProfileDoc(x) = Org!ProfileDoc(y) => x = y
  /\ \A x, y : Org!AccountDoc(x) = Org!AccountDoc(y) => x = y
  /\ \A x, y : /\ Org!UnitDoc(x) # Org!ProfileDoc(y) /\ Org!UnitDoc(x) # Org!AccountDoc(y)
               /\ Org!ProfileDoc(x) # Org!AccountDoc(y)
  /\ \A x : Org!UnitDoc(x)[2] = x
  BY DEF Org!Docs, Org!UnitDoc, Org!ProfileDoc, Org!AccountDoc

LEMMA OrgTxn ==
  /\ \A c : Org!Ready(c) <=> Able(c)
  /\ \A c : Org!Seen(c) = Sees(c)
  /\ \A c, puts : Org!Commit(c, puts) <=> Committed(Org!Docs, c, puts)
  /\ \A c : Org!Begin(c) <=> Begun(c)
  /\ \A c : Org!Abort(c) <=> Aborted(c)
  /\ Org!LateCommit <=> Late
  /\ Org!Now = "now"
  BY DEF Org!Ready, Org!Seen, Org!Commit, Org!Begin, Org!Abort, Org!LateCommit,
         Org!InTxn, Org!NoSnapshot, Org!Now, Able, Sees, Committed, Begun, Aborted,
         Late, Open

LEMMA OrgPut ==
  ASSUME NEW d, NEW x
  PROVE  DOMAIN Org!:>(d, x) = {d} /\ Org!:>(d, x)[d] = x
  BY DEF Org!:>

LEMMA OrgSees ==
  ASSUME OrgInv, NEW c \in Clients \cup {"now"}, Able(c)
  PROVE  /\ OrgOK(Sees(c))
         /\ \A u \in Units : Org!UnitStatus(Sees(c), u) # "none" => Org!UnitStatus(db, u) # "none"
<1>1. CASE c = "now"
  BY <1>1 DEF OrgInv, Sees
<1>2. CASE c # "now"
  <2>1. c \in Clients /\ Open(c) /\ Sees(c) = snap[c]
    BY <1>2 DEF Able, Sees
  <2> QED BY <2>1 DEF OrgInv
<1> QED BY <1>1, <1>2

\* A unit stays in order as long as no unit goes.
LEMMA UnitStays ==
  ASSUME NEW s, NEW t, NEW unit, UnitOK(s, unit),
         \A u \in Units : Org!UnitStatus(s, u) # "none" => Org!UnitStatus(t, u) # "none"
  PROVE  UnitOK(t, unit)
<1>1. unit.chain \in Seq(Units)
  BY DEF UnitOK, UnitType
<1>2. \A i \in DOMAIN unit.chain : unit.chain[i] \in Units
  BY <1>1
<1> QED BY <1>2 DEF UnitOK

\* Sound writes keep the invariant, and a timely one is decided on the database.
LEMMA OrgCommit ==
  ASSUME OrgInv, NEW c \in Clients \cup {"now"}, Org!Ready(c),
         NEW puts, Org!Write(c, puts), OrgSound(Org!Seen(c), puts)
  PROVE  /\ OrgInv'
         /\ \A d \in Org!Docs : db'[d] = IF d \in DOMAIN puts THEN puts[d] ELSE db[d]
         /\ \A d \in DOMAIN puts : Org!Seen(c)[d] = db[d]
         /\ ~Late => Org!Seen(c) = db
<1> DEFINE s == Org!Seen(c)
<1>1. Able(c) /\ Committed(Org!Docs, c, puts) /\ s = Sees(c)
  BY OrgTxn DEF Org!Write
<1> HIDE DEF s
<1>2. /\ Taken(Org!Docs)'
      /\ \A d \in Org!Docs : db'[d] = IF d \in DOMAIN puts THEN puts[d] ELSE db[d]
      /\ \A d \in DOMAIN puts : s[d] = db[d]
      /\ \A o \in Clients : Open(o)' => Open(o) /\ snap'[o] = snap[o]
  BY <1>1, CommitTaken DEF OrgInv, OrgSound, s
<1>3. \A u \in Units : Org!UnitStatus(s, u) # "none" => Org!UnitStatus(db, u) # "none"
  BY <1>1, OrgSees
<1>4. \A u \in Units : Org!UnitStatus(db, u) # "none" => Org!UnitStatus(db', u) # "none"
  BY <1>2, OrgDocs DEF OrgSound, OrgWriteOK, Org!UnitStatus
<1>5. ASSUME NEW u \in Units PROVE UnitOK(db', db'[Org!UnitDoc(u)])
  <2>1. CASE Org!UnitDoc(u) \in DOMAIN puts
    <3>1. UnitOK(s, db'[Org!UnitDoc(u)])
      BY <2>1, <1>2, OrgDocs DEF OrgSound, OrgWriteOK, s
    <3> QED BY <3>1, <1>3, <1>4, UnitStays
  <2>2. CASE Org!UnitDoc(u) \notin DOMAIN puts
    <3>1. UnitOK(db, db'[Org!UnitDoc(u)])
      BY <2>2, <1>2, OrgDocs DEF OrgInv, OrgOK
    <3> QED BY <3>1, <1>4, UnitStays
  <2> QED BY <2>1, <2>2
<1>6. ASSUME NEW p \in Profiles
      PROVE  db'[Org!ProfileDoc(p)] \in ProfileType \cup {Org!NoProfile, [status |-> "ARCHIVED"]}
  <2>1. CASE Org!ProfileDoc(p) \in DOMAIN puts
    BY <2>1, <1>2, OrgDocs DEF OrgSound, OrgWriteOK
  <2>2. CASE Org!ProfileDoc(p) \notin DOMAIN puts
    BY <2>2, <1>2, OrgDocs DEF OrgInv, OrgOK
  <2> QED BY <2>1, <2>2
<1>7. ASSUME NEW a \in UnitAccounts PROVE db'[Org!AccountDoc(a)] \in AccountStages
  <2>1. CASE Org!AccountDoc(a) \in DOMAIN puts
    BY <2>1, <1>2, OrgDocs DEF OrgSound, OrgWriteOK
  <2>2. CASE Org!AccountDoc(a) \notin DOMAIN puts
    BY <2>2, <1>2, OrgDocs DEF OrgInv, OrgOK
  <2> QED BY <2>1, <2>2
<1>8. OrgOK(db)'
  BY <1>5, <1>6, <1>7 DEF OrgOK, UnitOK, Org!UnitStatus
<1>9. ASSUME NEW o \in Clients, Open(o)'
      PROVE  /\ OrgOK(snap[o])'
             /\ \A u \in Units : (Org!UnitStatus(snap[o], u) # "none")'
                                   => (Org!UnitStatus(db, u) # "none")'
  <2>1. Open(o) /\ snap'[o] = snap[o] /\ OrgOK(snap[o])
    BY <1>2, <1>9 DEF OrgInv
  <2>2. OrgOK(snap'[o])
    BY <2>1
  <2>3. \A u \in Units : Org!UnitStatus(snap[o], u) # "none" => Org!UnitStatus(db, u) # "none"
    BY <2>1 DEF OrgInv
  <2> QED BY <2>1, <2>2, <2>3, <1>4 DEF OrgOK, UnitOK, Org!UnitStatus
<1>10. ~Late => s = db
  BY <1>1, SeesAll, CommitEnds DEF OrgInv
<1> QED BY <1>2, <1>8, <1>9, <1>10 DEF OrgInv, s
-----------------------------------------------------------------------------
(* The operations that leave every unit where it is.                       *)

OrgFine == Org!TreeBreaksLateStep /\ Org!RingsStayStep /\ Org!ClosedUnitsEmptyStep

\* Units stay where they are, and none comes.
PlacesKept == \A u \in Units :
  /\ Org!Chain(db', u) = Org!Chain(db, u)
  /\ db'[Org!UnitDoc(u)].parent = db[Org!UnitDoc(u)].parent
  /\ Org!UnitStatus(db', u) # "none" => Org!UnitStatus(db, u) # "none"

LEMMA PlacesKeep ==
  ASSUME OrgOK(db), PlacesKept, Late \/ (Org!InOpenUnits(db) /\ Org!TreeSound(db) => Org!InOpenUnits(db'))
  PROVE  OrgFine
<1>1. ASSUME NEW u \in Units, Org!TreeSound(db), Org!UnitStatus(db', u) # "none"
      PROVE  LET chain == Org!Chain(db', u) IN
             /\ u \notin Org!SX!ToSet(chain)
             /\ chain = Org!PathTo(db', db'[Org!UnitDoc(u)].parent)
             /\ \A i \in DOMAIN chain : Org!Chain(db', chain[i]) = SubSeq(chain, 1, i - 1)
  <2> DEFINE chain == Org!Chain(db, u)
             parent == db[Org!UnitDoc(u)].parent
  <2>1. /\ u \notin Org!SX!ToSet(chain) /\ chain = Org!PathTo(db, parent)
        /\ \A i \in DOMAIN chain : Org!Chain(db, chain[i]) = SubSeq(chain, 1, i - 1)
    BY <1>1 DEF Org!TreeSound, PlacesKept
  <2>2. chain \in Seq(Units) /\ parent \in Units \cup {Org!Root}
    BY DEF OrgOK, UnitOK, UnitType, Org!Chain
  <2>3. \A i \in DOMAIN chain : chain[i] \in Units
    BY <2>2
  <2>4. Org!PathTo(db', parent) = Org!PathTo(db, parent)
    BY <2>2 DEF Org!PathTo, PlacesKept
  <2>5. Org!Chain(db', u) = chain /\ db'[Org!UnitDoc(u)].parent = parent
    BY DEF PlacesKept
  <2> HIDE DEF chain, parent
  <2> QED BY <2>1, <2>3, <2>4, <2>5 DEF PlacesKept
<1>2. Org!TreeSound(db) => Org!TreeSound(db')
  BY <1>1 DEF Org!TreeSound
<1>3. Org!RingsStayStep
  BY DEF Org!RingsStayStep, Org!Ring, PlacesKept
<1> QED BY <1>2, <1>3, OrgTxn DEF OrgFine, Org!TreeBreaksLateStep, Org!ClosedUnitsEmptyStep

\* Only d is written, with x, and the transaction read it right.
OnlyWritten(d, x) ==
  /\ db'[d] = x
  /\ \A f \in Org!Docs : f # d => db'[f] = db[f]

LEMMA OneOrgDoc ==
  ASSUME OrgInv, NEW c \in Clients \cup {"now"}, Org!Ready(c), NEW d \in Org!Docs, NEW x,
         Org!Write(c, Org!:>(d, x)), OrgWriteOK(Org!Seen(c), d, x)
  PROVE  /\ OrgInv' /\ OnlyWritten(d, x)
         /\ Org!Seen(c)[d] = db[d]
         /\ ~Late => Org!Seen(c) = db
<1> DEFINE puts == Org!:>(d, x)
<1>1. DOMAIN puts = {d} /\ puts[d] = x
  BY OrgPut
<1>2. Org!Write(c, puts)
  OBVIOUS
<1> HIDE DEF puts
<1>3. OrgSound(Org!Seen(c), puts)
  BY <1>1 DEF OrgSound
<1>4. /\ OrgInv'
      /\ \A f \in Org!Docs : db'[f] = IF f \in DOMAIN puts THEN puts[f] ELSE db[f]
      /\ \A f \in DOMAIN puts : Org!Seen(c)[f] = db[f]
      /\ ~Late => Org!Seen(c) = db
  BY <1>2, <1>3, OrgCommit
<1> QED BY <1>1, <1>4 DEF OnlyWritten

\* An account or a profile is written.
LEMMA OutsideUnits ==
  ASSUME OrgInv, NEW d \in Org!Docs, NEW x, OnlyWritten(d, x),
         \A u \in Units : d # Org!UnitDoc(u)
  PROVE  PlacesKept /\ \A u \in Units : db'[Org!UnitDoc(u)] = db[Org!UnitDoc(u)]
  BY OrgDocs DEF OnlyWritten, PlacesKept, Org!Chain, Org!UnitStatus

LEMMA AccountKeeps ==
  ASSUME OrgInv, NEW c \in Clients \cup {"now"}, NEW a \in UnitAccounts,
         NEW to \in {"ACTIVE", "INACTIVE", "ARCHIVED"}, Org!MoveAccount(c, a, to)
  PROVE  OrgInv' /\ OrgFine
<1> DEFINE s == Org!Seen(c)
           d == Org!AccountDoc(a)
<1>1. /\ Org!Ready(c) /\ Org!Write(c, Org!:>(d, to)) /\ d \in Org!Docs
      /\ to = "ACTIVE" => Org!Open(s, OwnerUnit[a])
  BY OrgDocs DEF Org!MoveAccount
<1>2. OrgWriteOK(s, d, to)
  BY OrgDocs DEF OrgWriteOK, AccountStages
<1>3. OrgInv' /\ OnlyWritten(d, to) /\ (~Late => s = db)
  BY <1>1, <1>2, OneOrgDoc
<1>4. PlacesKept /\ \A u \in Units : db'[Org!UnitDoc(u)] = db[Org!UnitDoc(u)]
  BY <1>1, <1>3, OutsideUnits, OrgDocs
<1>5. ASSUME ~Late, Org!InOpenUnits(db) PROVE Org!InOpenUnits(db')
  <2>1. \A p \in Profiles : db'[Org!ProfileDoc(p)] = db[Org!ProfileDoc(p)]
    BY <1>3, OrgDocs DEF OnlyWritten
  <2>2. \A b \in UnitAccounts : Org!Status(db', b) =
          IF b = a THEN to ELSE Org!Status(db, b)
    BY <1>3, OrgDocs DEF OnlyWritten, Org!Status
  <2>3. \A u \in Units : /\ Org!Open(db', u) = Org!Open(db, u)
                        /\ db'[Org!UnitDoc(u)].parent = db[Org!UnitDoc(u)].parent
    BY <1>4 DEF Org!Open, Org!UnitStatus
  <2>6. \A u \in Units : db[Org!UnitDoc(u)].parent \in Units \cup {Org!Root}
    BY DEF OrgInv, OrgOK, UnitOK, UnitType
  <2>7. \A q \in Profiles : Org!Employed(db, q) => db[Org!ProfileDoc(q)].unit \in Units
    BY DEF OrgInv, OrgOK, ProfileType, Org!NoProfile, Org!Employed
  <2>4. to = "ACTIVE" => Org!Open(db, OwnerUnit[a])
    BY <1>1, <1>3, <1>5
  <2>5. \A b \in UnitAccounts : Org!Status(db', b) = "ACTIVE" => Org!Open(db', OwnerUnit[b])
    BY <1>5, <2>2, <2>3, <2>4, AccountsAreOwned DEF Org!InOpenUnits
  <2> QED BY <1>5, <2>1, <2>3, <2>5, <2>6, <2>7 DEF Org!InOpenUnits, Org!Employed
<1> QED BY <1>3, <1>4, <1>5, PlacesKeep DEF OrgInv

LEMMA ProfileKnown ==
  ASSUME OrgInv, NEW c \in Clients \cup {"now"}, Org!Ready(c), NEW p \in Profiles,
         Org!Employed(Org!Seen(c), p)
  PROVE  Org!Seen(c)[Org!ProfileDoc(p)] \in ProfileType
  BY OrgTxn, OrgSees DEF OrgOK, Org!Employed, Org!NoProfile

\* A profile is written whose unit is open, or was its unit before.
LEMMA ProfileKeeps ==
  ASSUME OrgInv, NEW c \in Clients \cup {"now"}, Org!Ready(c), NEW p \in Profiles,
         NEW x \in ProfileType, Org!Write(c, Org!:>(Org!ProfileDoc(p), x)),
         \/ Org!Open(Org!Seen(c), x.unit)
         \/ /\ Org!Employed(Org!Seen(c), p)
            /\ x.unit = Org!Seen(c)[Org!ProfileDoc(p)].unit
  PROVE  OrgInv' /\ OrgFine
<1> DEFINE s == Org!Seen(c)
           d == Org!ProfileDoc(p)
<1>1. d \in Org!Docs /\ OrgWriteOK(s, d, x)
  BY OrgDocs DEF OrgWriteOK
<1>2. OrgInv' /\ OnlyWritten(d, x) /\ (~Late => s = db)
  BY <1>1, OneOrgDoc
<1>3. PlacesKept /\ \A u \in Units : db'[Org!UnitDoc(u)] = db[Org!UnitDoc(u)]
  BY <1>1, <1>2, OutsideUnits, OrgDocs
<1>4. ASSUME ~Late, Org!InOpenUnits(db) PROVE Org!InOpenUnits(db')
  <2>1. \A q \in Profiles : q # p => db'[Org!ProfileDoc(q)] = db[Org!ProfileDoc(q)]
    BY <1>2, OrgDocs DEF OnlyWritten
  <2>2. \A b \in UnitAccounts : Org!Status(db', b) = Org!Status(db, b)
    BY <1>2, OrgDocs DEF OnlyWritten, Org!Status
  <2>3. db'[d] = x /\ s = db
    BY <1>2, <1>4 DEF OnlyWritten
  <2>4. Org!Open(db, x.unit)
    BY <2>3, <1>4 DEF Org!InOpenUnits
  <2> HIDE DEF s
  <2>5. \A u \in Units : /\ Org!Open(db', u) = Org!Open(db, u)
                        /\ db'[Org!UnitDoc(u)].parent = db[Org!UnitDoc(u)].parent
    BY <1>3 DEF Org!Open, Org!UnitStatus
  <2>6. \A u \in Units : db[Org!UnitDoc(u)].parent \in Units \cup {Org!Root}
    BY DEF OrgInv, OrgOK, UnitOK, UnitType
  <2>7. \A q \in Profiles : Org!Employed(db, q) => db[Org!ProfileDoc(q)].unit \in Units
    BY DEF OrgInv, OrgOK, ProfileType, Org!NoProfile, Org!Employed
  <2>8. \A q \in Profiles : Org!Employed(db', q) => Org!Open(db', db'[Org!ProfileDoc(q)].unit)
    <3>1. x.unit \in Units
      BY DEF ProfileType
    <3> QED BY <3>1, <1>4, <2>1, <2>3, <2>4, <2>5, <2>7 DEF Org!InOpenUnits, Org!Employed
  <2>9. \A b \in UnitAccounts : Org!Status(db', b) = "ACTIVE" => Org!Open(db', OwnerUnit[b])
    BY <1>4, <2>2, <2>5, AccountsAreOwned DEF Org!InOpenUnits
  <2> QED BY <1>4, <2>5, <2>6, <2>8, <2>9 DEF Org!InOpenUnits
<1> QED BY <1>2, <1>3, <1>4, PlacesKeep DEF OrgInv

LEMMA ProfileStepKeeps ==
  ASSUME OrgInv, NEW c \in Clients \cup {"now"}, NEW p \in Profiles, Org!ProfileStep(c, p)
  PROVE  OrgInv' /\ OrgFine
<1> DEFINE s == Org!Seen(c)
           x == s[Org!ProfileDoc(p)]
<1>1. ASSUME NEW u \in Units, NEW user \in LinkedUsers \cup {Org!Nobody},
             Org!CreateProfile(c, p, u, user)
      PROVE  OrgInv' /\ OrgFine
  <2> DEFINE y == [status |-> "ACTIVE", unit |-> u, user |-> user]
  <2>1. Org!Ready(c) /\ Org!Open(s, u) /\ Org!Write(c, Org!:>(Org!ProfileDoc(p), y))
    BY <1>1 DEF Org!CreateProfile
  <2>2. y \in ProfileType /\ y.unit = u
    BY DEF ProfileType
  <2> HIDE DEF y
  <2> QED BY <2>1, <2>2, ProfileKeeps
<1>2. ASSUME NEW u \in Units, Org!AssignUnit(c, p, u)
      PROVE  OrgInv' /\ OrgFine
  <2> DEFINE y == [x EXCEPT !.unit = u]
  <2>1. /\ Org!Ready(c) /\ Org!Open(s, u) /\ Org!Employed(s, p)
        /\ Org!Write(c, Org!:>(Org!ProfileDoc(p), y))
    BY <1>2 DEF Org!AssignUnit
  <2>2. x \in ProfileType
    BY <2>1, ProfileKnown
  <2>3. y \in ProfileType /\ y.unit = u
    BY <2>2 DEF ProfileType
  <2> HIDE DEF y
  <2> QED BY <2>1, <2>3, ProfileKeeps
<1>3. ASSUME NEW user \in LinkedUsers \cup {Org!Nobody}, Org!LinkUser(c, p, user)
      PROVE  OrgInv' /\ OrgFine
  <2> DEFINE y == [x EXCEPT !.user = user]
  <2>1. /\ Org!Ready(c) /\ Org!Employed(s, p)
        /\ Org!Write(c, Org!:>(Org!ProfileDoc(p), y))
    BY <1>3 DEF Org!LinkUser
  <2>2. x \in ProfileType
    BY <2>1, ProfileKnown
  <2>3. y \in ProfileType /\ y.unit = x.unit
    BY <2>2 DEF ProfileType
  <2> HIDE DEF y
  <2> QED BY <2>1, <2>3, ProfileKeeps
<1>4. ASSUME Org!UpdateProfile(c, p)
      PROVE  OrgInv' /\ OrgFine
  <2>1. /\ Org!Ready(c) /\ Org!Employed(s, p) /\ Org!Write(c, Org!:>(Org!ProfileDoc(p), x))
    BY <1>4 DEF Org!UpdateProfile
  <2>2. x \in ProfileType
    BY <2>1, ProfileKnown
  <2> QED BY <2>1, <2>2, ProfileKeeps
<1>5. ASSUME NEW to \in {"ACTIVE", "ON_LEAVE", "SUSPENDED", "TERMINATED", "ARCHIVED"},
             Org!MoveProfile(c, p, to)
      PROVE  OrgInv' /\ OrgFine
  <2> DEFINE y == [x EXCEPT !.status = to]
  <2>1. /\ Org!Ready(c) /\ Org!Employed(s, p)
        /\ Org!Write(c, Org!:>(Org!ProfileDoc(p), y))
    BY <1>5 DEF Org!MoveProfile, Org!ProfileMoves, Org!Employed
  <2>2. x \in ProfileType
    BY <2>1, ProfileKnown
  <2>3. y \in ProfileType /\ y.unit = x.unit
    BY <2>2 DEF ProfileType
  <2> HIDE DEF y
  <2> QED BY <2>1, <2>3, ProfileKeeps
<1> QED BY <1>1, <1>2, <1>3, <1>4, <1>5 DEF Org!ProfileStep

\* Nothing in use is in u.
Emptied(s, u) ==
  /\ \A v \in Units : u \in Org!SX!ToSet(Org!Chain(s, v)) => ~Org!Open(s, v)
  /\ \A p \in Profiles : Org!Employed(s, p) => s[Org!ProfileDoc(p)].unit # u
  /\ \A a \in UnitAccounts : OwnerUnit[a] = u => Org!Status(s, a) # "ACTIVE"

\* y is the unit x in the same place, and still there.
SamePlace(x, y) ==
  /\ y \in UnitType /\ y.parent = x.parent /\ y.chain = x.chain
  /\ x.status # "none" /\ y.status # "none"

\* What is in the parent has it at the end of its path.
LEMMA ChildBelow ==
  ASSUME NEW s, OrgOK(s), NEW u \in Units, NEW v \in Units, s[Org!UnitDoc(v)].parent = u
  PROVE  u \in Org!SX!ToSet(Org!Chain(s, v))
<1> DEFINE unit == s[Org!UnitDoc(v)]
           chain == unit.chain
<1>1. /\ chain \in Seq(Units)
      /\ IF unit.parent = Org!Root THEN chain = <<>>
         ELSE chain # <<>> /\ chain[Len(chain)] = unit.parent
  BY DEF OrgOK, UnitOK, UnitType
<1>2. chain # <<>> /\ chain[Len(chain)] = u
  BY <1>1, RootIsNoUnit
<1> HIDE DEF chain
<1>3. Len(chain) \in DOMAIN chain
  BY <1>1, <1>2
<1>4. u \in Org!SX!ToSet(chain)
  BY <1>2, <1>3 DEF Org!SX!ToSet
<1> QED BY <1>4 DEF chain, Org!Chain

\* A unit is written where it is.
LEMMA UnitKeeps ==
  ASSUME OrgInv, NEW c \in Clients \cup {"now"}, Org!Ready(c), NEW u \in Units, NEW y,
         SamePlace(Org!Seen(c)[Org!UnitDoc(u)], y),
         Org!Write(c, Org!:>(Org!UnitDoc(u), y)),
         y.status = "ACTIVE" =>
           \/ Org!Open(Org!Seen(c), u)
           \/ Org!ParentActive(Org!Seen(c), Org!Seen(c)[Org!UnitDoc(u)].parent),
         y.status # "ACTIVE" => ~Org!Open(Org!Seen(c), u) \/ Emptied(Org!Seen(c), u)
  PROVE  OrgInv' /\ OrgFine
<1> DEFINE s == Org!Seen(c)
           d == Org!UnitDoc(u)
           x == s[d]
<1>1. d \in Org!Docs
  BY OrgDocs
<1>2. UnitOK(s, x)
  BY OrgTxn, OrgSees DEF OrgOK
<1>3. UnitOK(s, y) /\ y.status # "none"
  BY <1>2 DEF UnitOK, SamePlace
<1>4. OrgWriteOK(s, d, y)
  BY <1>3, OrgDocs DEF OrgWriteOK
<1>5. OrgInv' /\ OnlyWritten(d, y) /\ x = db[d] /\ (~Late => s = db)
  BY <1>1, <1>4, OneOrgDoc
<1>6. /\ db'[d] = y
      /\ \A v \in Units : v # u => db'[Org!UnitDoc(v)] = db[Org!UnitDoc(v)]
      /\ \A p \in Profiles : db'[Org!ProfileDoc(p)] = db[Org!ProfileDoc(p)]
      /\ \A a \in UnitAccounts : Org!Status(db', a) = Org!Status(db, a)
  BY <1>5, OrgDocs DEF OnlyWritten, Org!Status
<1>7. PlacesKept
  BY <1>5, <1>6 DEF PlacesKept, SamePlace, Org!Chain, Org!UnitStatus
<1>8. ASSUME ~Late, Org!InOpenUnits(db) PROVE Org!InOpenUnits(db')
  <2>1. /\ OrgOK(db)
        /\ y.status = "ACTIVE" => Org!Open(db, u) \/ Org!ParentActive(db, db[d].parent)
        /\ y.status # "ACTIVE" => ~Org!Open(db, u) \/ Emptied(db, u)
    BY <1>5, <1>8 DEF OrgInv
  <2> HIDE DEF s, x
  <2>2. \A v \in Units : v # u => (Org!Open(db', v) <=> Org!Open(db, v))
    BY <1>6 DEF Org!Open, Org!UnitStatus
  <2>3. Org!Open(db', u) <=> y.status = "ACTIVE"
    BY <1>6 DEF Org!Open, Org!UnitStatus
  <2>4. \A v \in Units : db'[Org!UnitDoc(v)].parent = db[Org!UnitDoc(v)].parent
    BY <1>7 DEF PlacesKept
  <2>5. ASSUME NEW v \in Units, Org!Open(db', v), db'[Org!UnitDoc(v)].parent # Org!Root
        PROVE  Org!Open(db', db'[Org!UnitDoc(v)].parent)
    <3> DEFINE p == db[Org!UnitDoc(v)].parent
    <3>1. p \in Units
      BY <2>1, <2>4, <2>5 DEF OrgOK, UnitOK, UnitType
    <3>2. CASE v = u
      <4>1. y.status = "ACTIVE"
        BY <2>3, <2>5, <3>2
      <4>2. Org!Open(db, p)
        BY <4>1, <2>1, <2>4, <2>5, <3>2, <1>8 DEF Org!InOpenUnits, Org!ParentActive
      <4> QED BY <4>1, <4>2, <3>1, <2>2, <2>3, <2>4
    <3>3. CASE v # u
      <4>1. Org!Open(db, v) /\ Org!Open(db, p)
        BY <3>3, <2>2, <2>4, <2>5, <1>8 DEF Org!InOpenUnits
      <4>2. p = u => y.status = "ACTIVE"
        BY <4>1, <2>1, ChildBelow DEF Emptied
      <4> QED BY <4>1, <4>2, <3>1, <2>2, <2>3, <2>4
    <3> QED BY <3>2, <3>3
  <2>6. \A p \in Profiles : Org!Employed(db', p) => Org!Open(db', db'[Org!ProfileDoc(p)].unit)
    <3>1. \A p \in Profiles : Org!Employed(db, p) => db[Org!ProfileDoc(p)].unit \in Units
      BY <2>1 DEF OrgOK, ProfileType, Org!NoProfile, Org!Employed
    <3>2. \A p \in Profiles : Org!Employed(db', p) <=> Org!Employed(db, p)
      BY <1>6 DEF Org!Employed
    <3> QED BY <3>1, <3>2, <1>6, <1>8, <2>1, <2>2, <2>3 DEF Org!InOpenUnits, Emptied
  <2>7. \A a \in UnitAccounts : Org!Status(db', a) = "ACTIVE" => Org!Open(db', OwnerUnit[a])
    BY <1>6, <1>8, <2>1, <2>2, <2>3, AccountsAreOwned DEF Org!InOpenUnits, Emptied
  <2> QED BY <2>5, <2>6, <2>7 DEF Org!InOpenUnits
<1> QED BY <1>5, <1>7, <1>8, PlacesKeep DEF OrgInv

LEMMA UnitKnown ==
  ASSUME OrgInv, NEW c \in Clients \cup {"now"}, Org!Ready(c), NEW u \in Units
  PROVE  Org!Seen(c)[Org!UnitDoc(u)] \in UnitType
  BY OrgTxn, OrgSees DEF OrgOK, UnitOK

LEMMA PlaceOperationsKeep ==
  ASSUME OrgInv, NEW c \in Clients \cup {"now"}, NEW u \in Units,
         \/ \E name \in Names : Org!RenameUnit(c, u, name)
         \/ Org!ActivateUnit(c, u) \/ Org!DeactivateUnit(c, u) \/ Org!ArchiveUnit(c, u)
  PROVE  OrgInv' /\ OrgFine
<1> DEFINE s == Org!Seen(c)
           x == s[Org!UnitDoc(u)]
<1>1. ASSUME NEW name \in Names, Org!RenameUnit(c, u, name)
      PROVE  OrgInv' /\ OrgFine
  <2> DEFINE y == [x EXCEPT !.name = name]
  <2>1. /\ Org!Ready(c) /\ x.status \in {"ACTIVE", "INACTIVE"}
        /\ Org!Write(c, Org!:>(Org!UnitDoc(u), y))
    BY <1>1 DEF Org!RenameUnit, Org!LiveUnit, Org!UnitStatus
  <2>2. x \in UnitType
    BY <2>1, UnitKnown
  <2>3. SamePlace(x, y) /\ y.status = x.status
    BY <2>1, <2>2 DEF SamePlace, UnitType
  <2> HIDE DEF y
  <2> QED BY <2>1, <2>3, UnitKeeps DEF Org!Open, Org!UnitStatus
<1>2. ASSUME NEW to \in {"ACTIVE", "INACTIVE", "ARCHIVED"}, Org!Ready(c), x.status # "none",
             Org!Write(c, Org!:>(Org!UnitDoc(u), [x EXCEPT !.status = to])),
             to = "ACTIVE" => Org!ParentActive(s, x.parent),
             to # "ACTIVE" => Emptied(s, u)
      PROVE  OrgInv' /\ OrgFine
  <2> DEFINE y == [x EXCEPT !.status = to]
  <2>1. x \in UnitType
    BY <1>2, UnitKnown
  <2>2. SamePlace(x, y) /\ y.status = to
    BY <1>2, <2>1 DEF SamePlace, UnitType
  <2>3. Org!Write(c, Org!:>(Org!UnitDoc(u), y))
    BY <1>2
  <2> HIDE DEF y
  <2> QED BY <2>2, <2>3, <1>2, UnitKeeps
<1>3. CASE Org!ActivateUnit(c, u)
  BY <1>2, <1>3 DEF Org!ActivateUnit, Org!UnitStatus
<1>4. CASE Org!DeactivateUnit(c, u)
  <2>1. Emptied(s, u)
    BY <1>4 DEF Org!DeactivateUnit, Emptied, Org!Descendants, Org!StaffOf, Org!OwnedAccounts
  <2> QED BY <2>1, <1>2, <1>4 DEF Org!DeactivateUnit, Org!Open, Org!UnitStatus
<1>5. CASE Org!ArchiveUnit(c, u)
  <2>1. Emptied(s, u)
    BY <1>5 DEF Org!ArchiveUnit, Emptied, Org!Descendants, Org!StaffOf, Org!OwnedAccounts,
           Org!LiveUnit, Org!Open
  <2> QED BY <2>1, <1>2, <1>5 DEF Org!ArchiveUnit, Org!LiveUnit, Org!UnitStatus
<1> QED BY <1>1, <1>3, <1>4, <1>5
-----------------------------------------------------------------------------
(* The operations that give a unit its place.                              *)

\* The path to a unit that is there.
LEMMA PathOK ==
  ASSUME NEW s, OrgOK(s), NEW to \in Units \cup {Org!Root},
         to # Org!Root => Org!UnitStatus(s, to) # "none"
  PROVE  /\ Org!PathTo(s, to) \in Seq(Units)
         /\ IF to = Org!Root THEN Org!PathTo(s, to) = <<>>
            ELSE /\ Org!Chain(s, to) \in Seq(Units)
                 /\ Org!PathTo(s, to) = Append(Org!Chain(s, to), to)
                 /\ Org!PathTo(s, to) # <<>>
                 /\ Org!PathTo(s, to)[Len(Org!PathTo(s, to))] = to
         /\ \A i \in DOMAIN Org!PathTo(s, to) :
              Org!UnitStatus(s, Org!PathTo(s, to)[i]) # "none"
<1>1. CASE to = Org!Root
  BY <1>1 DEF Org!PathTo
<1>2. CASE to # Org!Root
  <2> DEFINE chain == Org!Chain(s, to)
             path == Append(chain, to)
  <2>1. to \in Units /\ UnitOK(s, s[Org!UnitDoc(to)])
    BY <1>2 DEF OrgOK
  <2>2. chain \in Seq(Units) /\ \A i \in DOMAIN chain : Org!UnitStatus(s, chain[i]) # "none"
    BY <2>1 DEF UnitOK, UnitType, Org!Chain
  <2>3. Org!PathTo(s, to) = path
    BY <1>2 DEF Org!PathTo
  <2> HIDE DEF chain
  <2>4. /\ path \in Seq(Units) /\ path # <<>> /\ path[Len(path)] = to
        /\ Len(path) = Len(chain) + 1 /\ \A i \in 1..Len(chain) : path[i] = chain[i]
    BY <2>1, <2>2
  <2>5. \A i \in DOMAIN path : Org!UnitStatus(s, path[i]) # "none"
    BY <1>2, <2>2, <2>4
  <2> QED BY <1>2, <2>2, <2>3, <2>4, <2>5 DEF chain
<1> QED BY <1>1, <1>2

\* In a sound tree it is made of the paths of the units on it.
LEMMA PathNested ==
  ASSUME NEW s, OrgOK(s), Org!TreeSound(s), NEW to \in Units \cup {Org!Root},
         to # Org!Root => Org!UnitStatus(s, to) # "none"
  PROVE  \A i \in DOMAIN Org!PathTo(s, to) :
           Org!Chain(s, Org!PathTo(s, to)[i]) = SubSeq(Org!PathTo(s, to), 1, i - 1)
<1>1. CASE to = Org!Root
  BY <1>1 DEF Org!PathTo
<1>2. CASE to # Org!Root
  <2> DEFINE chain == Org!Chain(s, to)
             path == Append(chain, to)
  <2>1. chain \in Seq(Units) /\ Org!PathTo(s, to) = path
    BY <1>2, PathOK
  <2>2. \A i \in DOMAIN chain : Org!Chain(s, chain[i]) = SubSeq(chain, 1, i - 1)
    BY <1>2 DEF Org!TreeSound
  <2> HIDE DEF chain
  <2>3. Len(path) = Len(chain) + 1 /\ path[Len(chain) + 1] = to
        /\ \A i \in 1..Len(chain) : path[i] = chain[i]
    BY <2>1
  <2>4. \A i \in 1..Len(chain) : SubSeq(path, 1, i - 1) = SubSeq(chain, 1, i - 1)
    BY <2>1, <2>3
  <2>5. SubSeq(path, 1, Len(chain)) = chain
    BY <2>1, <2>3
  <2>6. ASSUME NEW i \in DOMAIN path PROVE Org!Chain(s, path[i]) = SubSeq(path, 1, i - 1)
    <3>1. CASE i = Len(chain) + 1
      BY <3>1, <2>1, <2>3, <2>5 DEF chain
    <3>2. CASE i # Len(chain) + 1
      <4>1. i \in 1..Len(chain) /\ i \in DOMAIN chain
        BY <3>2, <2>1, <2>3
      <4> QED BY <4>1, <2>2, <2>3, <2>4
    <3> QED BY <3>1, <3>2
  <2> QED BY <2>1, <2>6
<1> QED BY <1>1, <1>2

LEMMA CreateUnitKeeps ==
  ASSUME OrgInv, NEW c \in Clients \cup {"now"}, NEW u \in Units,
         NEW parent \in (Units \ {u}) \cup {Org!Root}, NEW name \in Names,
         Org!CreateUnit(c, u, parent, name)
  PROVE  OrgInv' /\ OrgFine
<1> DEFINE s == Org!Seen(c)
           d == Org!UnitDoc(u)
           path == Org!PathTo(s, parent)
           y == [status |-> "ACTIVE", parent |-> parent, chain |-> path, name |-> name]
<1>1. /\ Org!Ready(c) /\ db[d] = Org!NoUnit /\ Org!ParentActive(s, parent)
      /\ Org!Write(c, Org!:>(d, y)) /\ d \in Org!Docs
  BY OrgDocs DEF Org!CreateUnit
<1>2. OrgOK(s) /\ (parent # Org!Root => Org!Open(s, parent) /\ Org!UnitStatus(s, parent) # "none")
  BY <1>1, OrgTxn, OrgSees DEF Org!ParentActive, Org!Open
<1>3. /\ path \in Seq(Units)
      /\ IF parent = Org!Root THEN path = <<>> ELSE path # <<>> /\ path[Len(path)] = parent
      /\ \A i \in DOMAIN path : Org!UnitStatus(s, path[i]) # "none"
  BY <1>2, PathOK
<1> HIDE DEF path, s
<1>4. UnitOK(s, y) /\ y.status = "ACTIVE" /\ y.parent = parent /\ y.chain = path
  BY <1>3 DEF UnitOK, UnitType
<1> HIDE DEF y
<1>5. OrgWriteOK(s, d, y)
  BY <1>4, OrgDocs DEF OrgWriteOK
<1>6. OrgInv' /\ OnlyWritten(d, y) /\ (~Late => s = db)
  BY <1>1, <1>5, OneOrgDoc DEF s
<1>7. /\ db'[d] = y
      /\ \A v \in Units : v # u => db'[Org!UnitDoc(v)] = db[Org!UnitDoc(v)]
      /\ \A p \in Profiles : db'[Org!ProfileDoc(p)] = db[Org!ProfileDoc(p)]
      /\ \A a \in UnitAccounts : Org!Status(db', a) = Org!Status(db, a)
  BY <1>6, OrgDocs DEF OnlyWritten, Org!Status
<1>8. OrgOK(db) /\ Org!UnitStatus(db, u) = "none" /\ db[d].parent = Org!Root
  BY <1>1 DEF OrgInv, Org!UnitStatus, Org!NoUnit
<1>9. /\ \A v \in Units : \A i \in DOMAIN Org!Chain(db, v) :
           Org!Chain(db, v)[i] # u /\ Org!Chain(db, v)[i] \in Units
      /\ \A v \in Units : db[Org!UnitDoc(v)].parent \in Units \cup {Org!Root}
  BY <1>8 DEF OrgOK, UnitOK, UnitType, Org!Chain
<1>10. \A v \in Units : db[Org!UnitDoc(v)].parent # u
  BY <1>8, <1>9, ChildBelow DEF Org!SX!ToSet
<1>11. \A v \in Units : v # u => Org!Chain(db', v) = Org!Chain(db, v)
  BY <1>7 DEF Org!Chain
<1>12. ASSUME ~Late, Org!TreeSound(db) PROVE Org!TreeSound(db')
  <2>1. s = db
    BY <1>6, <1>12
  <2>2. ASSUME NEW v \in Units, Org!UnitStatus(db', v) # "none"
        PROVE  LET chain == Org!Chain(db', v) IN
               /\ v \notin Org!SX!ToSet(chain)
               /\ chain = Org!PathTo(db', db'[Org!UnitDoc(v)].parent)
               /\ \A i \in DOMAIN chain : Org!Chain(db', chain[i]) = SubSeq(chain, 1, i - 1)
    <3>1. CASE v = u
      <4>1. Org!Chain(db', v) = path /\ db'[Org!UnitDoc(v)].parent = parent
        BY <3>1, <1>4, <1>7 DEF Org!Chain
      <4>2. \A i \in DOMAIN path : path[i] \in Units /\ path[i] # u
        BY <1>3, <1>8, <2>1
      <4>3. path = Org!PathTo(db, parent)
        BY <2>1 DEF path
      <4>4. Org!PathTo(db', parent) = path
        BY <4>3, <1>11 DEF Org!PathTo
      <4>5. \A i \in DOMAIN path : Org!Chain(db, path[i]) = SubSeq(path, 1, i - 1)
        BY <4>3, <1>2, <1>8, <1>12, <2>1, PathNested
      <4>6. u \notin Org!SX!ToSet(path)
        BY <4>2 DEF Org!SX!ToSet
      <4> QED BY <3>1, <4>1, <4>2, <4>4, <4>5, <4>6, <1>11
    <3>2. CASE v # u
      <4> DEFINE chain == Org!Chain(db, v)
                 above == db[Org!UnitDoc(v)].parent
      <4>1. /\ Org!Chain(db', v) = chain /\ db'[Org!UnitDoc(v)].parent = above
            /\ Org!UnitStatus(db, v) # "none"
        BY <3>2, <2>2, <1>7, <1>11 DEF Org!UnitStatus
      <4>2. /\ v \notin Org!SX!ToSet(chain) /\ chain = Org!PathTo(db, above)
            /\ \A i \in DOMAIN chain : Org!Chain(db, chain[i]) = SubSeq(chain, 1, i - 1)
        BY <4>1, <1>12 DEF Org!TreeSound
      <4>3. above # u /\ above \in Units \cup {Org!Root}
            /\ \A i \in DOMAIN chain : chain[i] # u /\ chain[i] \in Units
        BY <1>9, <1>10
      <4> HIDE DEF chain, above
      <4>4. Org!PathTo(db', above) = Org!PathTo(db, above)
        BY <4>3, <1>11 DEF Org!PathTo
      <4> QED BY <4>1, <4>2, <4>3, <4>4, <1>11
    <3> QED BY <3>1, <3>2
  <2> QED BY <2>2 DEF Org!TreeSound
<1>13. ASSUME ~Late, Org!InOpenUnits(db) PROVE Org!InOpenUnits(db')
  <2>1. \A v \in Units : Org!Open(db, v) => Org!Open(db', v)
    BY <1>7, <1>8 DEF Org!Open, Org!UnitStatus
  <2>2. ASSUME NEW v \in Units, Org!Open(db', v), db'[Org!UnitDoc(v)].parent # Org!Root
        PROVE  Org!Open(db', db'[Org!UnitDoc(v)].parent)
    <3>1. CASE v = u
      BY <3>1, <2>1, <2>2, <1>2, <1>4, <1>6, <1>7, <1>13
    <3>2. CASE v # u
      <4>1. Org!Open(db, v) /\ db'[Org!UnitDoc(v)].parent = db[Org!UnitDoc(v)].parent
        BY <3>2, <2>2, <1>7 DEF Org!Open, Org!UnitStatus
      <4> QED BY <4>1, <2>1, <2>2, <1>9, <1>13 DEF Org!InOpenUnits
    <3> QED BY <3>1, <3>2
  <2>3. \A p \in Profiles : Org!Employed(db', p) => Org!Open(db', db'[Org!ProfileDoc(p)].unit)
    <3>1. \A p \in Profiles : Org!Employed(db, p) => db[Org!ProfileDoc(p)].unit \in Units
      BY <1>8 DEF OrgOK, ProfileType, Org!NoProfile, Org!Employed
    <3> QED BY <3>1, <2>1, <1>7, <1>13 DEF Org!InOpenUnits, Org!Employed
  <2>4. \A a \in UnitAccounts : Org!Status(db', a) = "ACTIVE" => Org!Open(db', OwnerUnit[a])
    BY <2>1, <1>7, <1>13, AccountsAreOwned DEF Org!InOpenUnits
  <2> QED BY <2>2, <2>3, <2>4 DEF Org!InOpenUnits
<1>14. Org!RingsStayStep
  <2>1. ASSUME NEW v \in Units, NEW w \in Units, Org!Ring(db, v, w) PROVE Org!Ring(db', v, w)
    <3>1. v # u /\ w # u
      BY <2>1, <1>10 DEF Org!Ring
    <3> QED BY <3>1, <2>1, <1>7 DEF Org!Ring
  <2> QED BY <2>1 DEF Org!RingsStayStep
<1> QED BY <1>6, <1>12, <1>13, <1>14, OrgTxn
        DEF OrgFine, Org!TreeBreaksLateStep, Org!ClosedUnitsEmptyStep

\* What rebasing makes of a path that begins with the one to u.
Rebuilt(path, u, chain, above) ==
  Append(path, u) \o SubSeq(chain, Len(above) + 2, Len(chain))

LEMMA RebuiltAs ==
  ASSUME NEW S, NEW head \in Seq(S), NEW chain \in Seq(S), NEW m \in Nat, m <= Len(chain)
  PROVE  /\ head \o SubSeq(chain, m + 1, Len(chain)) \in Seq(S)
         /\ Len(head \o SubSeq(chain, m + 1, Len(chain))) = Len(head) + Len(chain) - m
         /\ \A i \in 1..Len(head) : (head \o SubSeq(chain, m + 1, Len(chain)))[i] = head[i]
         /\ \A i \in m + 1 .. Len(chain) :
              (head \o SubSeq(chain, m + 1, Len(chain)))[i + Len(head) - m] = chain[i]
<1> DEFINE tail == SubSeq(chain, m + 1, Len(chain))
           new == head \o tail
<1>1. Len(chain) \in Nat /\ Len(head) \in Nat /\ m + 1 \in Int /\ Len(chain) \in Int
  OBVIOUS
<1>2. \A i \in m + 1 .. Len(chain) : chain[i] \in S
  BY <1>1
<1>3. /\ tail \in Seq(S) /\ Len(tail) = IF m + 1 <= Len(chain) THEN Len(chain) - (m + 1) + 1 ELSE 0
      /\ \A i \in 1 .. Len(chain) - (m + 1) + 1 : tail[i] = chain[m + 1 + i - 1]
  BY <1>1, <1>2, SubSeqProperties
<1> HIDE DEF tail
<1>4. Len(tail) = Len(chain) - m
  BY <1>1, <1>3
<1>5. \A i \in m + 1 .. Len(chain) : i - m \in 1..Len(tail) /\ tail[i - m] = chain[i]
  <2>1. ASSUME NEW i \in m + 1 .. Len(chain) PROVE i - m \in 1..Len(tail) /\ tail[i - m] = chain[i]
    <3>1. i - m \in 1 .. Len(chain) - (m + 1) + 1 /\ m + 1 + (i - m) - 1 = i
      BY <1>1
    <3> QED BY <3>1, <1>1, <1>3, <1>4
  <2> QED BY <2>1
<1>6. /\ new \in Seq(S) /\ Len(new) = Len(head) + Len(tail)
      /\ \A i \in 1 .. Len(head) + Len(tail) :
           new[i] = IF i <= Len(head) THEN head[i] ELSE tail[i - Len(head)]
  BY <1>3, ConcatProperties
<1> HIDE DEF new
<1>7. ASSUME NEW i \in m + 1 .. Len(chain) PROVE new[i + Len(head) - m] = chain[i]
  <2> DEFINE j == i + Len(head) - m
  <2>1. j \in 1 .. Len(head) + Len(tail) /\ ~(j <= Len(head)) /\ j - Len(head) = i - m
    BY <1>1, <1>4
  <2>2. new[j] = tail[i - m]
    BY <2>1, <1>6
  <2> QED BY <2>2, <1>5
<1>8. \A i \in 1..Len(head) : new[i] = head[i]
  BY <1>1, <1>4, <1>6
<1>9. Len(new) = Len(head) + Len(chain) - m
  BY <1>1, <1>4, <1>6
<1> QED BY <1>6, <1>7, <1>8, <1>9 DEF new, tail

LEMMA Prefixed ==
  ASSUME NEW S, NEW front \in Seq(S), NEW chain \in Seq(S), Org!SX!IsPrefix(front, chain)
  PROVE  Len(front) <= Len(chain) /\ \A i \in 1..Len(front) : chain[i] = front[i]
<1>1. Len(front) <= Len(chain) /\ SubSeq(front, 1, Len(front)) = SubSeq(chain, 1, Len(front))
  BY DEF Org!SX!IsPrefix
<1>2. Len(front) \in Nat /\ Len(chain) \in Nat
  OBVIOUS
<1>3. \A i \in 1..Len(front) : front[i] \in S /\ chain[i] \in S
  BY <1>1, <1>2
<1>4. \A i \in 1..Len(front) : SubSeq(front, 1, Len(front))[i] = front[i]
  BY <1>2, <1>3, SubSeqProperties
<1>5. \A i \in 1..Len(front) : SubSeq(chain, 1, Len(front))[i] = chain[i]
  BY <1>2, <1>3
<1> QED BY <1>1, <1>4, <1>5

LEMMA Rebase ==
  ASSUME NEW S, NEW chain \in Seq(S), NEW above \in Seq(S), NEW path \in Seq(S),
         NEW u \in S, Org!SX!IsPrefix(Append(above, u), chain)
  PROVE  /\ Rebuilt(path, u, chain, above) \in Seq(S)
         /\ Len(chain) >= Len(above) + 1
         /\ Len(Rebuilt(path, u, chain, above)) = Len(path) + Len(chain) - Len(above)
         /\ \A i \in 1..Len(path) : Rebuilt(path, u, chain, above)[i] = path[i]
         /\ Rebuilt(path, u, chain, above)[Len(path) + 1] = u /\ chain[Len(above) + 1] = u
         /\ \A i \in Len(above) + 2 .. Len(chain) :
              Rebuilt(path, u, chain, above)[i + Len(path) - Len(above)] = chain[i]
<1> DEFINE head == Append(path, u)
           front == Append(above, u)
           new == Rebuilt(path, u, chain, above)
           m == Len(above) + 1
<1>1. /\ front \in Seq(S) /\ Len(front) = m /\ front[m] = u
      /\ head \in Seq(S) /\ Len(head) = Len(path) + 1 /\ head[Len(path) + 1] = u
      /\ \A i \in 1..Len(path) : head[i] = path[i]
      /\ Len(above) \in Nat /\ Len(chain) \in Nat /\ Len(path) \in Nat
  OBVIOUS
<1>2. new = head \o SubSeq(chain, m + 1, Len(chain)) /\ m \in Nat
  BY <1>1 DEF Rebuilt
<1> HIDE DEF head, front, new, m
<1>3. Len(front) <= Len(chain) /\ \A i \in 1..Len(front) : chain[i] = front[i]
  BY <1>1, Prefixed DEF front
<1>4. m <= Len(chain) /\ chain[m] = u
  BY <1>1, <1>2, <1>3 DEF m
<1>5. /\ new \in Seq(S)
      /\ Len(new) = Len(head) + Len(chain) - m
      /\ \A i \in 1..Len(head) : new[i] = head[i]
      /\ \A i \in m + 1 .. Len(chain) : new[i + Len(head) - m] = chain[i]
  <2> DEFINE built == head \o SubSeq(chain, m + 1, Len(chain))
  <2>1. /\ built \in Seq(S)
        /\ Len(built) = Len(head) + Len(chain) - m
        /\ \A i \in 1..Len(head) : built[i] = head[i]
        /\ \A i \in m + 1 .. Len(chain) : built[i + Len(head) - m] = chain[i]
    <3>1. head \in Seq(S) /\ chain \in Seq(S) /\ m \in Nat /\ m <= Len(chain)
      BY <1>1, <1>2, <1>4
    <3> QED BY ONLY <3>1, RebuiltAs
  <2>2. new = built
    BY <1>2
  <2> HIDE DEF built
  <2> QED BY <2>1, <2>2
<1>6. ASSUME NEW i \in Len(above) + 2 .. Len(chain)
      PROVE  new[i + Len(path) - Len(above)] = chain[i]
  <2>1. i \in m + 1 .. Len(chain) /\ i + Len(head) - m = i + Len(path) - Len(above)
    BY <1>1 DEF m
  <2>2. new[i + Len(head) - m] = chain[i]
    BY <2>1, <1>5
  <2> QED BY <2>1, <2>2
<1>7. \A i \in 1..Len(path) : new[i] = path[i]
  BY <1>1, <1>5
<1>8. new[Len(path) + 1] = u
  BY <1>1, <1>5
<1>9. Len(new) = Len(path) + Len(chain) - Len(above)
  BY <1>1, <1>5 DEF m
<1> QED BY <1>1, <1>4, <1>5, <1>6, <1>7, <1>8, <1>9 DEF new, m

\* A move that s allows, and t what it makes of s.
MayMove(s, u, to) ==
  /\ Org!UnitStatus(s, u) # "none" /\ Org!WellFormed(s, u) /\ to # u
  /\ to # Org!Root => Org!Open(s, to) /\ u \notin Org!SX!ToSet(Org!Chain(s, to))
  /\ \A v \in Org!Descendants(s, u) : Org!WellFormed(s, v) /\ Org!Underneath(s, u, v)

MovedTo(s, t, u, to) ==
  /\ t[Org!UnitDoc(u)] = [s[Org!UnitDoc(u)] EXCEPT !.parent = to, !.chain = Org!PathTo(s, to)]
  /\ \A v \in Org!Descendants(s, u) : t[Org!UnitDoc(v)] =
       [s[Org!UnitDoc(v)] EXCEPT !.chain = Org!Rebased(s, u, Org!PathTo(s, to), v)]
  /\ \A d \in Org!Docs :
       d # Org!UnitDoc(u) /\ (\A v \in Org!Descendants(s, u) : d # Org!UnitDoc(v)) => t[d] = s[d]

LEMMA ToMove ==
  ASSUME NEW s, OrgOK(s), NEW u \in Units, NEW to \in Units \cup {Org!Root}, MayMove(s, u, to)
  PROVE  /\ Org!PathTo(s, to) \in Seq(Units)
         /\ IF to = Org!Root THEN Org!PathTo(s, to) = <<>>
            ELSE /\ Org!PathTo(s, to) # <<>>
                 /\ Org!PathTo(s, to)[Len(Org!PathTo(s, to))] = to
         /\ \A i \in DOMAIN Org!PathTo(s, to) :
              Org!UnitStatus(s, Org!PathTo(s, to)[i]) # "none" /\ Org!PathTo(s, to)[i] # u
         /\ u \notin Org!Descendants(s, u)
<1> DEFINE path == Org!PathTo(s, to)
<1>1. to # Org!Root => Org!UnitStatus(s, to) # "none"
  BY DEF MayMove, Org!Open
<1>2. /\ path \in Seq(Units)
      /\ IF to = Org!Root THEN path = <<>>
         ELSE /\ Org!Chain(s, to) \in Seq(Units) /\ path = Append(Org!Chain(s, to), to)
              /\ path # <<>> /\ path[Len(path)] = to
      /\ \A i \in DOMAIN path : Org!UnitStatus(s, path[i]) # "none"
  BY <1>1, PathOK
<1> HIDE DEF path
<1>3. u \notin Org!Descendants(s, u)
  BY DEF MayMove, Org!WellFormed, Org!Descendants, Org!Chain
<1>4. \A i \in DOMAIN path : path[i] # u
  <2>1. CASE to = Org!Root
    BY <2>1, <1>2
  <2>2. CASE to # Org!Root
    <3> DEFINE chain == Org!Chain(s, to)
    <3>1. /\ chain \in Seq(Units) /\ path = Append(chain, to)
          /\ to # u /\ \A i \in DOMAIN chain : chain[i] # u
      BY <2>2, <1>2 DEF MayMove, Org!SX!ToSet
    <3> HIDE DEF chain
    <3> QED BY <3>1
  <2> QED BY <2>1, <2>2
<1> QED BY <1>2, <1>3, <1>4 DEF path

\* What becomes of the path of a unit under the one that moves.
LEMMA Below ==
  ASSUME NEW s, OrgOK(s), NEW u \in Units, NEW to \in Units \cup {Org!Root}, MayMove(s, u, to),
         NEW v \in Org!Descendants(s, u)
  PROVE  LET path == Org!PathTo(s, to)
             above == Org!Chain(s, u)
             chain == Org!Chain(s, v)
             new == Org!Rebased(s, u, path, v)
         IN  /\ above \in Seq(Units) /\ chain \in Seq(Units) /\ new \in Seq(Units)
             /\ Len(chain) >= Len(above) + 1
             /\ Len(new) = Len(path) + Len(chain) - Len(above)
             /\ \A i \in 1..Len(path) : new[i] = path[i]
             /\ new[Len(path) + 1] = u /\ chain[Len(above) + 1] = u
             /\ \A i \in Len(above) + 2 .. Len(chain) : new[i + Len(path) - Len(above)] = chain[i]
<1> DEFINE path == Org!PathTo(s, to)
           above == Org!Chain(s, u)
           chain == Org!Chain(s, v)
           new == Rebuilt(path, u, chain, above)
<1>1. path \in Seq(Units)
  BY ToMove
<1>2. above \in Seq(Units) /\ chain \in Seq(Units)
  BY DEF OrgOK, UnitOK, UnitType, Org!Chain, Org!Descendants
<1>3. Org!SX!IsPrefix(Append(above, u), chain)
  BY DEF MayMove, Org!Underneath
<1>4. new = Org!Rebased(s, u, path, v)
  BY DEF Rebuilt, Org!Rebased
<1> HIDE DEF path, above, chain
<1>5. /\ new \in Seq(Units)
      /\ Len(chain) >= Len(above) + 1
      /\ Len(new) = Len(path) + Len(chain) - Len(above)
      /\ \A i \in 1..Len(path) : new[i] = path[i]
      /\ new[Len(path) + 1] = u /\ chain[Len(above) + 1] = u
      /\ \A i \in Len(above) + 2 .. Len(chain) : new[i + Len(path) - Len(above)] = chain[i]
  <2>1. /\ path \in Seq(Units) /\ above \in Seq(Units) /\ chain \in Seq(Units) /\ u \in Units
        /\ Org!SX!IsPrefix(Append(above, u), chain)
    BY <1>1, <1>2, <1>3
  <2>2. new \in Seq(Units) /\ Len(chain) >= Len(above) + 1
        /\ Len(new) = Len(path) + Len(chain) - Len(above)
    BY ONLY <2>1, Rebase
  <2>3. /\ \A i \in 1..Len(path) : new[i] = path[i]
        /\ new[Len(path) + 1] = u /\ chain[Len(above) + 1] = u
    BY ONLY <2>1, Rebase
  <2>4. \A i \in Len(above) + 2 .. Len(chain) : new[i + Len(path) - Len(above)] = chain[i]
    BY ONLY <2>1, Rebase
  <2> QED BY <2>2, <2>3, <2>4
<1> HIDE DEF new
<1> QED BY <1>2, <1>4, <1>5 DEF path, above, chain

\* It still ends in the parent and leads through units that are there.
LEMMA BelowOK ==
  ASSUME NEW s, OrgOK(s), NEW u \in Units, NEW to \in Units \cup {Org!Root}, MayMove(s, u, to),
         NEW v \in Org!Descendants(s, u)
  PROVE  LET y == [s[Org!UnitDoc(v)] EXCEPT !.chain = Org!Rebased(s, u, Org!PathTo(s, to), v)]
         IN  UnitOK(s, y) /\ y.status # "none"
<1> DEFINE path == Org!PathTo(s, to)
           above == Org!Chain(s, u)
           x == s[Org!UnitDoc(v)]
           chain == Org!Chain(s, v)
           new == Org!Rebased(s, u, path, v)
           y == [x EXCEPT !.chain = new]
<1>1. /\ above \in Seq(Units) /\ chain \in Seq(Units) /\ new \in Seq(Units)
      /\ Len(chain) >= Len(above) + 1
      /\ Len(new) = Len(path) + Len(chain) - Len(above)
      /\ \A i \in 1..Len(path) : new[i] = path[i]
      /\ new[Len(path) + 1] = u /\ chain[Len(above) + 1] = u
      /\ \A i \in Len(above) + 2 .. Len(chain) : new[i + Len(path) - Len(above)] = chain[i]
  BY Below
<1>2. path \in Seq(Units) /\ \A i \in DOMAIN path : Org!UnitStatus(s, path[i]) # "none"
  BY ToMove
<1>3. v \in Units /\ Org!UnitStatus(s, u) # "none"
  BY DEF Org!Descendants, MayMove
<1>4. /\ UnitOK(s, x) /\ x \in UnitType /\ chain = x.chain
      /\ IF x.parent = Org!Root THEN chain = <<>> ELSE chain # <<>> /\ chain[Len(chain)] = x.parent
      /\ \A i \in DOMAIN chain : Org!UnitStatus(s, chain[i]) # "none"
      /\ x.status = "none" => x.parent = Org!Root
  BY <1>3 DEF OrgOK, UnitOK, Org!Chain
<1>5. y.chain = new /\ y.parent = x.parent /\ y.status = x.status /\ y.name = x.name
      /\ y \in UnitType
  BY <1>1, <1>4 DEF UnitType
<1> HIDE DEF path, above, chain, new, x, y
<1>6. Len(above) \in Nat /\ Len(chain) \in Nat /\ Len(path) \in Nat /\ Len(new) \in Nat
  BY <1>1, <1>2
<1>7. x.parent # Org!Root /\ x.status # "none" /\ chain[Len(chain)] = x.parent
  <2>1. chain # <<>>
    BY <1>1, <1>6
  <2> QED BY <2>1, <1>4
<1>8. new # <<>> /\ new[Len(new)] = x.parent
  <2>1. CASE Len(chain) = Len(above) + 1
    <3>1. Len(new) = Len(path) + 1
      BY <2>1, <1>1, <1>6
    <3> QED BY <3>1, <2>1, <1>1, <1>6, <1>7
  <2>2. CASE Len(chain) # Len(above) + 1
    <3>1. Len(chain) \in Len(above) + 2 .. Len(chain)
          /\ Len(chain) + Len(path) - Len(above) = Len(new) /\ Len(new) > 0
      BY <2>2, <1>1, <1>6
    <3>2. new[Len(chain) + Len(path) - Len(above)] = chain[Len(chain)]
      BY <3>1, <1>1
    <3> QED BY <3>1, <3>2, <1>7, <1>1
  <2> QED BY <2>1, <2>2
<1>9. ASSUME NEW i \in DOMAIN new PROVE Org!UnitStatus(s, new[i]) # "none"
  <2>1. i \in 1..Len(new)
    BY <1>1
  <2>2. CASE i <= Len(path)
    <3>1. i \in 1..Len(path) /\ i \in DOMAIN path
      BY <2>1, <2>2, <1>2, <1>6
    <3> QED BY <3>1, <1>1, <1>2
  <2>3. CASE i = Len(path) + 1
    BY <2>3, <1>1, <1>3
  <2>4. CASE i > Len(path) + 1
    <3> DEFINE j == i - Len(path) + Len(above)
    <3>1. j \in Len(above) + 2 .. Len(chain) /\ j + Len(path) - Len(above) = i /\ j \in 1..Len(chain)
      <4>1. /\ Len(new) = Len(path) + Len(chain) - Len(above)
            /\ i \in 1..Len(new) /\ i > Len(path) + 1
            /\ Len(path) \in Nat /\ Len(above) \in Nat /\ Len(chain) \in Nat
        BY <2>1, <2>4, <1>1, <1>6
      <4> QED BY ONLY <4>1
    <3> HIDE DEF j
    <3>2. new[i] = chain[j] /\ j \in DOMAIN chain
      BY <3>1, <1>1
    <3> QED BY <3>2, <1>4
  <2> QED BY <2>1, <2>2, <2>3, <2>4, <1>6
<1>10. UnitOK(s, y) /\ y.status # "none"
  BY <1>5, <1>7, <1>8, <1>9 DEF UnitOK
<1> QED BY <1>10 DEF y, x, new, path

\* A path made of the paths of the units on it.
Nested(s, chain) == \A i \in DOMAIN chain : Org!Chain(s, chain[i]) = SubSeq(chain, 1, i - 1)

\* The units a move has nothing to do with.
LEMMA Aside ==
  ASSUME NEW s, NEW t, NEW u \in Units, NEW to, MovedTo(s, t, u, to),
         NEW v \in Units, v # u, v \notin Org!Descendants(s, u)
  PROVE  t[Org!UnitDoc(v)] = s[Org!UnitDoc(v)]
<1>1. Org!UnitDoc(v) \in Org!Docs /\ Org!UnitDoc(v) # Org!UnitDoc(u)
      /\ \A w \in Org!Descendants(s, u) : Org!UnitDoc(v) # Org!UnitDoc(w)
  BY OrgDocs
<1> QED BY <1>1 DEF MovedTo

\* A path without u is what it was, and so are the paths of the units on it.
LEMMA StaysNested ==
  ASSUME NEW s, NEW t, NEW u \in Units, NEW to, MovedTo(s, t, u, to),
         NEW chain \in Seq(Units), Nested(s, chain), \A i \in DOMAIN chain : chain[i] # u
  PROVE  /\ Nested(t, chain)
         /\ \A i \in DOMAIN chain : /\ t[Org!UnitDoc(chain[i])] = s[Org!UnitDoc(chain[i])]
                                    /\ chain[i] \notin Org!Descendants(s, u)
<1>1. ASSUME NEW i \in DOMAIN chain
      PROVE  t[Org!UnitDoc(chain[i])] = s[Org!UnitDoc(chain[i])]
             /\ chain[i] \notin Org!Descendants(s, u)
  <2> DEFINE above == SubSeq(chain, 1, i - 1)
  <2>1. i \in 1..Len(chain) /\ chain[i] \in Units /\ Len(chain) \in Nat
    OBVIOUS
  <2>2. /\ Len(above) = i - 1 /\ above \in Seq(Units)
        /\ \A j \in 1..(i - 1) : above[j] = chain[j]
    BY <2>1
  <2>3. Org!Chain(s, chain[i]) = above
    BY DEF Nested
  <2> HIDE DEF above
  <2>4. \A j \in DOMAIN above : above[j] = chain[j] /\ j \in DOMAIN chain
    BY <2>1, <2>2
  <2>5. chain[i] \notin Org!Descendants(s, u)
    BY <2>3, <2>4 DEF Org!Descendants, Org!SX!ToSet
  <2> QED BY <2>1, <2>5, Aside
<1>2. Nested(t, chain)
  BY <1>1 DEF Nested, Org!Chain
<1> QED BY <1>1, <1>2

\* In a sound tree, the path to where the unit goes stays as it is.
LEMMA PathStays ==
  ASSUME NEW s, NEW t, OrgOK(s), Org!TreeSound(s), NEW u \in Units,
         NEW to \in Units \cup {Org!Root}, MayMove(s, u, to), MovedTo(s, t, u, to)
  PROVE  /\ Nested(s, Org!PathTo(s, to)) /\ Nested(t, Org!PathTo(s, to))
         /\ \A i \in DOMAIN Org!PathTo(s, to) :
              Org!PathTo(s, to)[i] # u /\ Org!PathTo(s, to)[i] \notin Org!Descendants(s, u)
         /\ Org!PathTo(t, to) = Org!PathTo(s, to)
<1> DEFINE path == Org!PathTo(s, to)
<1>1. /\ path \in Seq(Units)
      /\ IF to = Org!Root THEN path = <<>> ELSE path # <<>> /\ path[Len(path)] = to
      /\ \A i \in DOMAIN path : path[i] # u
  BY ToMove
<1>2. Nested(s, path)
  <2>1. to # Org!Root => Org!UnitStatus(s, to) # "none"
    BY DEF MayMove, Org!Open
  <2> QED BY <2>1, PathNested DEF Nested
<1>3. Org!PathTo(t, to) = path
  <2>1. CASE to = Org!Root
    BY <2>1 DEF Org!PathTo
  <2>2. CASE to # Org!Root
    <3>1. to \in Units /\ to # u /\ to \notin Org!Descendants(s, u)
      BY <2>2 DEF MayMove, Org!Descendants
    <3>2. Org!Chain(t, to) = Org!Chain(s, to)
      BY <3>1, Aside DEF Org!Chain
    <3> QED BY <2>2, <3>2 DEF Org!PathTo
  <2> QED BY <2>1, <2>2
<1> HIDE DEF path
<1>4. /\ Nested(t, path)
      /\ \A i \in DOMAIN path : path[i] \notin Org!Descendants(s, u)
  BY <1>1, <1>2, StaysNested
<1> QED BY <1>1, <1>2, <1>3, <1>4 DEF path

\* Two paths that agree up to i, and after it one of them stops.
LEMMA SamePrefix ==
  ASSUME NEW S, NEW p \in Seq(S), NEW q \in Seq(S), NEW i \in 1..Len(q),
         Len(p) = i - 1, \A j \in 1..Len(p) : p[j] = q[j]
  PROVE  p = SubSeq(q, 1, i - 1)
<1> DEFINE r == SubSeq(q, 1, i - 1)
<1>1. /\ Len(r) = i - 1 /\ r \in Seq(S)
      /\ \A j \in 1..(i - 1) : r[j] = q[j]
  OBVIOUS
<1> HIDE DEF r
<1>2. Len(p) = Len(r) /\ \A j \in 1..Len(p) : p[j] = r[j]
  BY <1>1
<1>3. p = r
  BY <1>1, <1>2, SeqEqual
<1> QED BY <1>3 DEF r

\* A unit under the one that moves is where it was under it.
LEMMA BelowNested ==
  ASSUME NEW s, NEW t, OrgOK(s), Org!TreeSound(s), NEW u \in Units,
         NEW to \in Units \cup {Org!Root}, MayMove(s, u, to), MovedTo(s, t, u, to),
         NEW w \in Org!Descendants(s, u)
  PROVE  /\ Nested(t, Org!Chain(t, w))
         /\ w \notin Org!SX!ToSet(Org!Chain(t, w))
<1> DEFINE path == Org!PathTo(s, to)
           above == Org!Chain(s, u)
           chain == Org!Chain(s, w)
           new == Org!Rebased(s, u, path, w)
           n == Len(path)
           k == Len(above)
<1>1. /\ above \in Seq(Units) /\ chain \in Seq(Units) /\ new \in Seq(Units)
      /\ Len(chain) >= k + 1
      /\ Len(new) = n + Len(chain) - k
      /\ \A i \in 1..n : new[i] = path[i]
      /\ new[n + 1] = u /\ chain[k + 1] = u
      /\ \A i \in k + 2 .. Len(chain) : new[i + n - k] = chain[i]
  BY Below
<1>2. /\ path \in Seq(Units) /\ Nested(t, path)
      /\ \A i \in DOMAIN path : path[i] # u /\ path[i] \notin Org!Descendants(s, u)
  BY ToMove, PathStays
<1>3. Org!Chain(t, u) = path /\ Org!Chain(t, w) = new
  BY DEF MovedTo, OrgOK, UnitOK, UnitType, Org!Chain, Org!Descendants
<1>4. w \in Units /\ w # u /\ Org!UnitStatus(s, w) # "none"
  <2>1. w \in Units /\ w # u /\ chain # <<>>
    BY <1>1, ToMove DEF Org!Descendants
  <2> QED BY <2>1 DEF OrgOK, UnitOK, Org!UnitStatus, Org!Chain
<1>5. /\ \A i \in DOMAIN chain : chain[i] # w
      /\ \A i \in DOMAIN chain : Org!Chain(s, chain[i]) = SubSeq(chain, 1, i - 1)
  BY <1>4 DEF Org!TreeSound, Org!SX!ToSet
<1>6. \A v \in Org!Descendants(s, u) :
        /\ Org!Chain(t, v) = Org!Rebased(s, u, path, v)
        /\ Org!Rebased(s, u, path, v) \in Seq(Units)
        /\ Len(Org!Rebased(s, u, path, v)) = n + Len(Org!Chain(s, v)) - k
        /\ \A i \in 1..n : Org!Rebased(s, u, path, v)[i] = path[i]
        /\ Org!Rebased(s, u, path, v)[n + 1] = u
        /\ \A i \in k + 2 .. Len(Org!Chain(s, v)) :
             Org!Rebased(s, u, path, v)[i + n - k] = Org!Chain(s, v)[i]
  <2> SUFFICES ASSUME NEW v \in Org!Descendants(s, u)
               PROVE  /\ Org!Chain(t, v) = Org!Rebased(s, u, path, v)
                      /\ Org!Rebased(s, u, path, v) \in Seq(Units)
                      /\ Len(Org!Rebased(s, u, path, v)) = n + Len(Org!Chain(s, v)) - k
                      /\ \A i \in 1..n : Org!Rebased(s, u, path, v)[i] = path[i]
                      /\ Org!Rebased(s, u, path, v)[n + 1] = u
                      /\ \A i \in k + 2 .. Len(Org!Chain(s, v)) :
                           Org!Rebased(s, u, path, v)[i + n - k] = Org!Chain(s, v)[i]
    OBVIOUS
  <2>1. Org!Chain(t, v) = Org!Rebased(s, u, path, v)
    BY DEF MovedTo, OrgOK, UnitOK, UnitType, Org!Chain, Org!Descendants
  <2>2. /\ Org!Rebased(s, u, path, v) \in Seq(Units)
        /\ Len(Org!Rebased(s, u, path, v)) = n + Len(Org!Chain(s, v)) - k
    BY Below
  <2>3. /\ \A i \in 1..n : Org!Rebased(s, u, path, v)[i] = path[i]
        /\ Org!Rebased(s, u, path, v)[n + 1] = u
    BY Below
  <2>4. \A i \in k + 2 .. Len(Org!Chain(s, v)) :
          Org!Rebased(s, u, path, v)[i + n - k] = Org!Chain(s, v)[i]
    BY Below
  <2> QED BY <2>1, <2>2, <2>3, <2>4
<1> HIDE DEF path, above, chain, new
<1>7. n \in Nat /\ k \in Nat /\ Len(chain) \in Nat /\ Len(new) \in Nat
  BY <1>1, <1>2
<1>9. Len(new) = n + Len(chain) - k
  BY <1>1
<1> HIDE DEF n, k
<1>8. ASSUME NEW i \in DOMAIN new PROVE Org!Chain(t, new[i]) = SubSeq(new, 1, i - 1) /\ new[i] # w
  <2>1. i \in 1..Len(new)
    BY <1>1
  <2>2. CASE i <= n
    <3>1. i \in 1..n /\ i \in DOMAIN path
      BY <2>1, <2>2, <1>2, <1>7 DEF n
    <3>2. Org!Chain(t, path[i]) = SubSeq(path, 1, i - 1) /\ path[i] # w /\ new[i] = path[i]
      BY <3>1, <1>1, <1>2 DEF Nested
    <3> DEFINE p == SubSeq(path, 1, i - 1)
    <3>3. p \in Seq(Units) /\ Len(p) = i - 1 /\ \A j \in 1..(i - 1) : p[j] = path[j]
      BY <3>1, <1>2, <1>7 DEF n
    <3> HIDE DEF p
    <3>4. \A j \in 1..Len(p) : p[j] = new[j]
      <4>1. \A j \in 1..(i - 1) : j \in 1..n
        BY ONLY <3>1, <1>7
      <4> QED BY <3>3, <4>1, <1>1
    <3>5. p = SubSeq(new, 1, i - 1)
      BY <3>3, <3>4, <2>1, <1>1, SamePrefix
    <3> QED BY <3>2, <3>5 DEF p
  <2>3. CASE i = n + 1
    <3>1. \A j \in 1..Len(path) : path[j] = new[j]
      BY <1>1 DEF n
    <3>2. Len(path) = i - 1
      BY <2>3, <1>7 DEF n
    <3>3. path = SubSeq(new, 1, i - 1)
      BY <3>1, <3>2, <2>1, <1>1, <1>2, SamePrefix
    <3> QED BY <3>3, <2>3, <1>1, <1>3, <1>4
  <2>4. CASE i > n + 1
    <3> DEFINE j == i - n + k
               x == chain[j]
               q == SubSeq(chain, 1, j - 1)
               p == Org!Rebased(s, u, path, x)
    <3>1. j \in k + 2 .. Len(chain) /\ j + n - k = i /\ j \in 1..Len(chain) /\ j \in Int
          /\ k + 1 \in 1..(j - 1)
      <4>1. /\ Len(new) = n + Len(chain) - k /\ i \in 1..Len(new) /\ i > n + 1
            /\ n \in Nat /\ k \in Nat /\ Len(chain) \in Nat
        BY <2>1, <2>4, <1>7, <1>9
      <4>2. i \in Int /\ i <= n + Len(chain) - k
        BY ONLY <4>1
      <4> HIDE DEF x, q, p
      <4>3. j \in Int /\ j + n - k = i
        BY ONLY <4>1, <4>2
      <4>4. k + 2 <= j /\ j <= Len(chain)
        BY ONLY <4>1, <4>2
      <4> HIDE DEF j
      <4> QED BY ONLY <4>1, <4>3, <4>4
    <3> HIDE DEF j
    <3>2. new[i] = x /\ j \in DOMAIN chain /\ x \in Units
      <4>1. new[j + n - k] = x /\ j \in DOMAIN chain /\ x \in Units
        BY <3>1, <1>1
      <4> QED BY <4>1, <3>1
    <3>3. x # w /\ Org!Chain(s, x) = q
      BY <3>2, <1>5
    <3> HIDE DEF x
    <3>4. q \in Seq(Units) /\ Len(q) = j - 1 /\ \A l \in 1..(j - 1) : q[l] = chain[l]
      <4>1. chain \in Seq(Units) /\ j \in 1..Len(chain)
        BY <3>1, <1>1
      <4> QED BY ONLY <4>1
    <3> HIDE DEF q
    <3>5. x \in Org!Descendants(s, u)
      <4>1. k + 1 \in DOMAIN q /\ q[k + 1] = u
        BY <3>1, <3>4, <1>1
      <4> QED BY <4>1, <3>2, <3>3 DEF Org!Descendants, Org!SX!ToSet
    <3>6. /\ Org!Chain(t, x) = p /\ p \in Seq(Units)
          /\ Len(p) = n + Len(q) - k
          /\ \A l \in 1..n : p[l] = path[l]
          /\ p[n + 1] = u
          /\ \A l \in k + 2 .. Len(q) : p[l + n - k] = q[l]
      BY <3>3, <3>5, <1>6
    <3> HIDE DEF p
    <3>7. Len(p) = i - 1
      <4>1. Len(p) = n + (j - 1) - k
        BY <3>4, <3>6
      <4>2. n \in Nat /\ k \in Nat /\ j \in Int /\ j + n - k = i
        BY <3>1, <1>7
      <4> QED BY ONLY <4>1, <4>2
    <3>8. ASSUME NEW l \in 1..Len(p) PROVE p[l] = new[l]
      <4>1. CASE l <= n
        <5>1. l \in 1..n
          BY <4>1, <3>7, <2>1, <1>7
        <5> QED BY <5>1, <3>6, <1>1
      <4>2. CASE l = n + 1
        BY <4>2, <3>6, <1>1
      <4>3. CASE l > n + 1
        <5> DEFINE m == l - n + k
        <5>1. m \in k + 2 .. Len(q) /\ m + n - k = l /\ m \in 1..(j - 1)
              /\ m \in k + 2 .. Len(chain)
          <6>1. /\ l \in Nat /\ l > n + 1 /\ l <= i - 1 /\ Len(q) = j - 1
                /\ n \in Nat /\ k \in Nat /\ Len(chain) \in Nat /\ j \in Int
                /\ j + n - k = i /\ j <= Len(chain)
            BY <4>3, <3>1, <3>4, <3>7, <2>1, <1>7
          <6> QED BY ONLY <6>1
        <5> HIDE DEF m
        <5>2. p[m + n - k] = q[m] /\ q[m] = chain[m] /\ new[m + n - k] = chain[m]
          BY <5>1, <3>4, <3>6, <1>1
        <5> QED BY <5>1, <5>2
      <4> QED BY <4>1, <4>2, <4>3, <1>7, <3>7, <2>1
    <3>9. p = SubSeq(new, 1, i - 1)
      BY <3>6, <3>7, <3>8, <2>1, <1>1, SamePrefix
    <3> QED BY <3>2, <3>3, <3>6, <3>9
  <2> QED BY <2>1, <2>2, <2>3, <2>4, <1>7
<1> QED BY <1>3, <1>8 DEF Nested, Org!SX!ToSet

\* What a move leaves of a unit.
LEMMA MoveLeaves ==
  ASSUME NEW s, NEW t, OrgOK(s), NEW u \in Units, NEW to \in Units \cup {Org!Root},
         MayMove(s, u, to), MovedTo(s, t, u, to), NEW v \in Units
  PROVE  /\ Org!UnitStatus(t, v) = Org!UnitStatus(s, v)
         /\ t[Org!UnitDoc(v)].parent = IF v = u THEN to ELSE s[Org!UnitDoc(v)].parent
<1>0. s[Org!UnitDoc(v)] \in UnitType
  BY DEF OrgOK, UnitOK
<1>1. CASE v = u
  BY <1>0, <1>1 DEF MovedTo, UnitType, Org!UnitStatus
<1>2. CASE v \in Org!Descendants(s, u)
  <2>1. v # u
    BY <1>2, ToMove
  <2>2. t[Org!UnitDoc(v)] =
          [s[Org!UnitDoc(v)] EXCEPT !.chain = Org!Rebased(s, u, Org!PathTo(s, to), v)]
    BY <1>2 DEF MovedTo
  <2> QED BY <2>1, <2>2, <1>0 DEF UnitType, Org!UnitStatus
<1>3. CASE v # u /\ v \notin Org!Descendants(s, u)
  BY <1>3, Aside DEF Org!UnitStatus
<1> QED BY <1>1, <1>2, <1>3

\* A tree that was sound stays so.
LEMMA MoveKeepsTree ==
  ASSUME NEW s, NEW t, OrgOK(s), NEW u \in Units, NEW to \in Units \cup {Org!Root},
         MayMove(s, u, to), MovedTo(s, t, u, to), Org!TreeSound(s),
         \A v \in Units : UnitOK(t, t[Org!UnitDoc(v)])
  PROVE  Org!TreeSound(t)
<1>1. ASSUME NEW w \in Units, Org!UnitStatus(s, w) # "none"
      PROVE  /\ Nested(t, Org!Chain(t, w))
             /\ w \notin Org!SX!ToSet(Org!Chain(t, w))
             /\ Org!Chain(t, w) = Org!PathTo(t, t[Org!UnitDoc(w)].parent)
  <2> DEFINE chain == Org!Chain(t, w)
             parent == t[Org!UnitDoc(w)].parent
  <2>1. Nested(t, chain) /\ w \notin Org!SX!ToSet(chain)
    <3>1. CASE w = u
      <4>1. chain = Org!PathTo(s, to)
        BY <3>1 DEF MovedTo, OrgOK, UnitOK, UnitType, Org!Chain
      <4>2. Nested(t, Org!PathTo(s, to)) /\ \A i \in DOMAIN Org!PathTo(s, to) : Org!PathTo(s, to)[i] # u
        BY PathStays
      <4> QED BY <3>1, <4>1, <4>2 DEF Org!SX!ToSet
    <3>2. CASE w \in Org!Descendants(s, u)
      BY <3>2, BelowNested
    <3>3. CASE w # u /\ w \notin Org!Descendants(s, u)
      <4> DEFINE was == Org!Chain(s, w)
      <4>1. chain = was
        BY <3>3, Aside DEF Org!Chain
      <4>2. was \in Seq(Units) /\ Nested(s, was) /\ w \notin Org!SX!ToSet(was)
        BY <1>1 DEF Org!TreeSound, Nested, OrgOK, UnitOK, UnitType, Org!Chain
      <4>3. \A i \in DOMAIN was : was[i] # u
        BY <3>3 DEF Org!Descendants, Org!SX!ToSet
      <4> HIDE DEF was, chain
      <4> QED BY <4>1, <4>2, <4>3, StaysNested
    <3> QED BY <3>1, <3>2, <3>3
  <2>2. /\ chain \in Seq(Units)
        /\ IF parent = Org!Root THEN chain = <<>>
           ELSE chain # <<>> /\ chain[Len(chain)] = parent
    BY DEF UnitOK, UnitType, Org!Chain
  <2> HIDE DEF chain, parent
  <2>3. chain = Org!PathTo(t, parent)
    <3>1. CASE parent = Org!Root
      BY <3>1, <2>2 DEF Org!PathTo
    <3>2. CASE parent # Org!Root
      <4> DEFINE above == SubSeq(chain, 1, Len(chain) - 1)
      <4>1. Len(chain) \in Nat /\ Len(chain) >= 1 /\ chain[Len(chain)] = parent /\ parent \in Units
        BY <3>2, <2>2
      <4>2. Org!Chain(t, parent) = above
        <5>1. Len(chain) \in DOMAIN chain
          BY <4>1, <2>2
        <5>2. Org!Chain(t, chain[Len(chain)]) = SubSeq(chain, 1, Len(chain) - 1)
          BY ONLY <5>1, <2>1 DEF Nested
        <5> QED BY ONLY <5>2, <4>1
      <4>3. above \in Seq(Units) /\ Len(above) = Len(chain) - 1
            /\ \A j \in 1..(Len(chain) - 1) : above[j] = chain[j]
        BY <4>1, <2>2
      <4> HIDE DEF above
      <4> DEFINE path == Append(above, parent)
      <4>4. path \in Seq(Units) /\ Len(path) = Len(chain) /\ path[Len(chain)] = parent
            /\ \A j \in 1..(Len(chain) - 1) : path[j] = chain[j]
        BY <4>1, <4>3
      <4> HIDE DEF path
      <4>5. \A j \in 1..Len(chain) : chain[j] = path[j]
        BY <4>1, <4>4
      <4>6. chain = path
        BY <4>4, <4>5, <2>2, SeqEqual
      <4> QED BY <4>2, <4>6, <3>2 DEF path, Org!PathTo
    <3> QED BY <3>1, <3>2
  <2> QED BY <2>1, <2>3 DEF chain, parent
<1>2. \A w \in Units : Org!UnitStatus(t, w) = Org!UnitStatus(s, w)
  BY MoveLeaves
<1> QED BY <1>1, <1>2 DEF Org!TreeSound, Nested

\* What is in use stays in what is open.
LEMMA MoveKeepsOpen ==
  ASSUME NEW s, NEW t, OrgOK(s), NEW u \in Units, NEW to \in Units \cup {Org!Root},
         MayMove(s, u, to), MovedTo(s, t, u, to), Org!InOpenUnits(s)
  PROVE  Org!InOpenUnits(t)
<1>1. \A v \in Units : /\ Org!Open(t, v) <=> Org!Open(s, v)
                       /\ t[Org!UnitDoc(v)].parent = IF v = u THEN to ELSE s[Org!UnitDoc(v)].parent
  BY MoveLeaves DEF Org!Open
<1>2. \A v \in Units : s[Org!UnitDoc(v)].parent \in Units \cup {Org!Root}
  BY DEF OrgOK, UnitOK, UnitType
<1>3. /\ \A p \in Profiles : t[Org!ProfileDoc(p)] = s[Org!ProfileDoc(p)]
      /\ \A a \in UnitAccounts : Org!Status(t, a) = Org!Status(s, a)
  BY OrgDocs DEF MovedTo, Org!Status
<1>4. \A p \in Profiles : Org!Employed(s, p) => s[Org!ProfileDoc(p)].unit \in Units
  BY DEF OrgOK, ProfileType, Org!NoProfile, Org!Employed
<1>5. ASSUME NEW v \in Units, Org!Open(t, v), t[Org!UnitDoc(v)].parent # Org!Root
      PROVE  Org!Open(t, t[Org!UnitDoc(v)].parent)
  <2>1. CASE v = u
    BY <2>1, <1>1, <1>5 DEF MayMove
  <2>2. CASE v # u
    BY <2>2, <1>1, <1>2, <1>5 DEF Org!InOpenUnits
  <2> QED BY <2>1, <2>2
<1>6. \A p \in Profiles : Org!Employed(t, p) => Org!Open(t, t[Org!ProfileDoc(p)].unit)
  BY <1>1, <1>3, <1>4 DEF Org!InOpenUnits, Org!Employed
<1>7. \A a \in UnitAccounts : Org!Status(t, a) = "ACTIVE" => Org!Open(t, OwnerUnit[a])
  BY <1>1, <1>3, AccountsAreOwned DEF Org!InOpenUnits
<1> QED BY <1>5, <1>6, <1>7 DEF Org!InOpenUnits

\* A unit in a ring is not allowed to move.
LEMMA RingsAreFixed ==
  ASSUME NEW s, OrgOK(s), NEW u \in Units, NEW to \in Units \cup {Org!Root}, MayMove(s, u, to),
         NEW v \in Units
  PROVE  ~Org!Ring(s, u, v)
<1> SUFFICES ASSUME s[Org!UnitDoc(u)].parent = v, s[Org!UnitDoc(v)].parent = u PROVE FALSE
  BY DEF Org!Ring
<1> DEFINE above == Org!Chain(s, u)
           chain == Org!Chain(s, v)
<1>1. u \in Org!SX!ToSet(chain)
  BY ChildBelow
<1>2. v \in Org!Descendants(s, u)
  BY <1>1 DEF Org!Descendants
<1>3. v \notin Org!SX!ToSet(chain) /\ Org!SX!IsPrefix(Append(above, u), chain)
  BY <1>2 DEF MayMove, Org!WellFormed, Org!Underneath, Org!Chain
<1>4. /\ above \in Seq(Units) /\ chain \in Seq(Units)
      /\ IF s[Org!UnitDoc(u)].parent = Org!Root THEN above = <<>>
         ELSE above # <<>> /\ above[Len(above)] = s[Org!UnitDoc(u)].parent
  BY DEF OrgOK, UnitOK, UnitType, Org!Chain
<1>5. above # <<>> /\ above[Len(above)] = v
  BY <1>4, RootIsNoUnit
<1> DEFINE front == Append(above, u)
<1> HIDE DEF above, chain
<1>6. /\ front \in Seq(Units) /\ Len(front) = Len(above) + 1 /\ Len(above) \in 1..Len(front)
      /\ front[Len(above)] = above[Len(above)]
  BY <1>4, <1>5
<1> HIDE DEF front
<1>7. Len(front) <= Len(chain) /\ \A i \in 1..Len(front) : chain[i] = front[i]
  BY <1>3, <1>4, <1>6, Prefixed DEF front
<1>8. Len(above) \in DOMAIN chain /\ chain[Len(above)] = v
  BY <1>4, <1>5, <1>6, <1>7
<1> QED BY <1>3, <1>8 DEF Org!SX!ToSet

LEMMA OrgOver ==
  ASSUME NEW p, NEW q
  PROVE  /\ DOMAIN Org!@@(p, q) = DOMAIN p \cup DOMAIN q
         /\ \A d \in DOMAIN p : Org!@@(p, q)[d] = p[d]
         /\ \A d \in DOMAIN q : d \notin DOMAIN p => Org!@@(p, q)[d] = q[d]
  BY DEF Org!@@

\* What a move writes.
LEMMA MoveWrites ==
  ASSUME NEW s, NEW u \in Units, NEW path, NEW y, u \notin Org!Descendants(s, u)
  PROVE  LET puts == Org!@@(Org!:>(Org!UnitDoc(u), y), Org!MovedAlong(s, u, path)) IN
         /\ \A d : d \in DOMAIN puts <=>
              d = Org!UnitDoc(u) \/ \E v \in Org!Descendants(s, u) : d = Org!UnitDoc(v)
         /\ puts[Org!UnitDoc(u)] = y
         /\ \A v \in Org!Descendants(s, u) : puts[Org!UnitDoc(v)] =
              [s[Org!UnitDoc(v)] EXCEPT !.chain = Org!Rebased(s, u, path, v)]
<1> DEFINE p == Org!:>(Org!UnitDoc(u), y)
           q == Org!MovedAlong(s, u, path)
           puts == Org!@@(p, q)
<1>1. DOMAIN p = {Org!UnitDoc(u)} /\ p[Org!UnitDoc(u)] = y
  BY OrgPut
<1>2. DOMAIN q = {Org!UnitDoc(v) : v \in Org!Descendants(s, u)}
  BY DEF Org!MovedAlong
<1>3. \A v \in Org!Descendants(s, u) : q[Org!UnitDoc(v)] =
        [s[Org!UnitDoc(v)] EXCEPT !.chain = Org!Rebased(s, u, path, v)]
  BY OrgDocs DEF Org!MovedAlong
<1> HIDE DEF p, q
<1>4. /\ DOMAIN puts = DOMAIN p \cup DOMAIN q
      /\ \A d \in DOMAIN p : puts[d] = p[d]
      /\ \A d \in DOMAIN q : d \notin DOMAIN p => puts[d] = q[d]
  BY OrgOver
<1> HIDE DEF puts
<1>5. \A v \in Org!Descendants(s, u) :
        Org!UnitDoc(v) \in DOMAIN q /\ Org!UnitDoc(v) \notin DOMAIN p
  BY <1>1, <1>2, OrgDocs
<1>6. \A d : d \in DOMAIN puts <=>
        d = Org!UnitDoc(u) \/ \E v \in Org!Descendants(s, u) : d = Org!UnitDoc(v)
  BY <1>1, <1>2, <1>4
<1>7. puts[Org!UnitDoc(u)] = y
  BY <1>1, <1>4
<1>8. \A v \in Org!Descendants(s, u) : puts[Org!UnitDoc(v)] =
        [s[Org!UnitDoc(v)] EXCEPT !.chain = Org!Rebased(s, u, path, v)]
  BY <1>3, <1>4, <1>5
<1> QED BY <1>6, <1>7, <1>8 DEF puts, p, q

LEMMA MoveUnitKeeps ==
  ASSUME OrgInv, NEW c \in Clients \cup {"now"}, NEW u \in Units,
         NEW to \in Units \cup {Org!Root}, Org!MoveUnit(c, u, to)
  PROVE  OrgInv' /\ OrgFine
<1> DEFINE s == Org!Seen(c)
           x == s[Org!UnitDoc(u)]
           path == Org!PathTo(s, to)
           y == [x EXCEPT !.parent = to, !.chain = path]
           puts == Org!@@(Org!:>(Org!UnitDoc(u), y), Org!MovedAlong(s, u, path))
<1>1. Org!Ready(c) /\ Org!Write(c, puts)
  BY DEF Org!MoveUnit
<1>2. MayMove(s, u, to)
  BY DEF Org!MoveUnit, MayMove, Org!LiveUnit, Org!ParentActive
<1>3. OrgOK(s)
  BY <1>1, OrgTxn, OrgSees
<1>4. /\ path \in Seq(Units)
      /\ IF to = Org!Root THEN path = <<>> ELSE path # <<>> /\ path[Len(path)] = to
      /\ \A i \in DOMAIN path : Org!UnitStatus(s, path[i]) # "none"
      /\ u \notin Org!Descendants(s, u)
  BY <1>2, <1>3, ToMove
<1>5. x \in UnitType /\ x.status # "none"
  BY <1>2, <1>3 DEF MayMove, OrgOK, UnitOK, Org!UnitStatus
<1>6. UnitOK(s, y) /\ y.status # "none"
  <2>1. /\ y \in UnitType /\ y.parent = to /\ y.chain = path /\ y.status = x.status
    BY <1>4, <1>5 DEF UnitType
  <2> HIDE DEF y, path, x
  <2> QED BY <2>1, <1>4, <1>5 DEF UnitOK
<1>7. /\ \A d : d \in DOMAIN puts <=>
           d = Org!UnitDoc(u) \/ \E v \in Org!Descendants(s, u) : d = Org!UnitDoc(v)
      /\ puts[Org!UnitDoc(u)] = y
      /\ \A v \in Org!Descendants(s, u) : puts[Org!UnitDoc(v)] =
           [s[Org!UnitDoc(v)] EXCEPT !.chain = Org!Rebased(s, u, path, v)]
  BY <1>4, MoveWrites
<1> HIDE DEF puts, y
<1>8. OrgSound(s, puts)
  <2>1. Org!Descendants(s, u) \subseteq Units
    BY DEF Org!Descendants
  <2>2. DOMAIN puts \subseteq Org!Docs
    BY <1>7, <2>1, OrgDocs
  <2>3. ASSUME NEW d \in DOMAIN puts PROVE OrgWriteOK(s, d, puts[d])
    <3>1. CASE d = Org!UnitDoc(u)
      BY <3>1, <1>6, <1>7, OrgDocs DEF OrgWriteOK
    <3>2. ASSUME NEW v \in Org!Descendants(s, u), d = Org!UnitDoc(v)
          PROVE  OrgWriteOK(s, d, puts[d])
      <4> DEFINE z == [s[Org!UnitDoc(v)] EXCEPT !.chain = Org!Rebased(s, u, path, v)]
      <4>1. UnitOK(s, z) /\ z.status # "none"
        BY <1>2, <1>3, BelowOK
      <4>2. puts[d] = z
        BY <3>2, <1>7
      <4> HIDE DEF z
      <4> QED BY <4>1, <4>2, <3>2, <2>1, OrgDocs DEF OrgWriteOK
    <3> QED BY <3>1, <3>2, <1>7
  <2> QED BY <2>2, <2>3 DEF OrgSound
<1> HIDE DEF s, x, path
<1>9. /\ OrgInv'
      /\ \A d \in Org!Docs : db'[d] = IF d \in DOMAIN puts THEN puts[d] ELSE db[d]
      /\ ~Late => s = db
  BY <1>1, <1>8, OrgCommit DEF s
<1>10. ASSUME ~Late PROVE MovedTo(db, db', u, to) /\ MayMove(db, u, to) /\ OrgOK(db)
  <2>1. s = db
    BY <1>9, <1>10
  <2>2. Org!UnitDoc(u) \in Org!Docs /\ \A v \in Org!Descendants(s, u) : Org!UnitDoc(v) \in Org!Docs
    BY OrgDocs DEF Org!Descendants
  <2>3. db'[Org!UnitDoc(u)] = [s[Org!UnitDoc(u)] EXCEPT !.parent = to, !.chain = Org!PathTo(s, to)]
    BY <2>2, <1>7, <1>9 DEF y, x, path
  <2>4. \A v \in Org!Descendants(s, u) : db'[Org!UnitDoc(v)] =
          [s[Org!UnitDoc(v)] EXCEPT !.chain = Org!Rebased(s, u, Org!PathTo(s, to), v)]
    BY <2>2, <1>7, <1>9 DEF path
  <2>5. \A d \in Org!Docs :
          d # Org!UnitDoc(u) /\ (\A v \in Org!Descendants(s, u) : d # Org!UnitDoc(v)) => db'[d] = s[d]
    BY <2>1, <1>7, <1>9
  <2> QED BY <2>1, <2>3, <2>4, <2>5, <1>2, <1>3 DEF MovedTo
<1>11. ASSUME ~Late PROVE Org!TreeSound(db) => Org!TreeSound(db')
  <2>1. \A v \in Units : UnitOK(db', db'[Org!UnitDoc(v)])
    BY <1>9 DEF OrgInv, OrgOK, UnitOK, Org!UnitStatus
  <2> QED BY <2>1, <1>10, <1>11, MoveKeepsTree
<1>12. ASSUME ~Late PROVE Org!InOpenUnits(db) => Org!InOpenUnits(db')
  BY <1>10, <1>12, MoveKeepsOpen
<1>13. ASSUME ~Late, NEW v \in Units, NEW w \in Units, Org!Ring(db, v, w) PROVE Org!Ring(db', v, w)
  <2>1. v # u /\ w # u
    BY <1>10, <1>13, RingsAreFixed DEF Org!Ring
  <2>2. /\ db'[Org!UnitDoc(v)].parent = db[Org!UnitDoc(v)].parent
        /\ db'[Org!UnitDoc(w)].parent = db[Org!UnitDoc(w)].parent
    BY <1>10, <1>13, <2>1, MoveLeaves
  <2> QED BY <2>2, <1>13 DEF Org!Ring
<1>14. Org!TreeBreaksLateStep /\ Org!ClosedUnitsEmptyStep
  BY <1>11, <1>12, OrgTxn DEF Org!TreeBreaksLateStep, Org!ClosedUnitsEmptyStep
<1>15. Org!RingsStayStep
  BY <1>13, OrgTxn DEF Org!RingsStayStep
<1> QED BY <1>9, <1>14, <1>15 DEF OrgFine
-----------------------------------------------------------------------------
(* Organisation: every step.                                               *)

LEMMA OrgSame ==
  ASSUME OrgInv, Taken(Org!Docs)', db' = db,
         \A c \in Clients : Open(c)' =>
           /\ OrgOK(snap'[c])
           /\ \A u \in Units : Org!UnitStatus(snap'[c], u) # "none" => Org!UnitStatus(db, u) # "none"
  PROVE  OrgInv' /\ OrgFine
<1>1. OrgOK(db)'
  BY DEF OrgInv, OrgOK, UnitOK, Org!UnitStatus
<1>2. \A c \in Clients : Open(c)' =>
        /\ OrgOK(snap[c])'
        /\ \A u \in Units : (Org!UnitStatus(snap[c], u) # "none")' => (Org!UnitStatus(db, u) # "none")'
  BY DEF OrgOK, UnitOK, Org!UnitStatus
<1>3. OrgFine
  BY DEF OrgFine, Org!TreeBreaksLateStep, Org!ClosedUnitsEmptyStep, Org!RingsStayStep
<1> QED BY <1>1, <1>2, <1>3 DEF OrgInv

LEMMA UnitStepKeeps ==
  ASSUME OrgInv, NEW c \in Clients \cup {"now"}, NEW u \in Units, Org!UnitStep(c, u)
  PROVE  OrgInv' /\ OrgFine
<1>1. ASSUME NEW parent \in (Units \ {u}) \cup {Org!Root}, NEW name \in Names,
             Org!CreateUnit(c, u, parent, name)
      PROVE  OrgInv' /\ OrgFine
  BY <1>1, CreateUnitKeeps
<1>2. ASSUME NEW to \in Units \cup {Org!Root}, Org!MoveUnit(c, u, to)
      PROVE  OrgInv' /\ OrgFine
  BY <1>2, MoveUnitKeeps
<1>3. ASSUME \/ \E name \in Names : Org!RenameUnit(c, u, name)
             \/ Org!ActivateUnit(c, u) \/ Org!DeactivateUnit(c, u) \/ Org!ArchiveUnit(c, u)
      PROVE  OrgInv' /\ OrgFine
  BY <1>3, PlaceOperationsKeep
<1> QED BY <1>1, <1>2, <1>3 DEF Org!UnitStep

LEMMA OrgNext ==
  ASSUME OrgInv, [Org!Next]_(Org!txnVars)
  PROVE  OrgInv' /\ OrgFine
<1>1. ASSUME NEW c \in Clients, Org!Begin(c)
      PROVE  OrgInv' /\ OrgFine
  <2>1. Begun(c)
    BY <1>1, OrgTxn
  <2>2. /\ Taken(Org!Docs)' /\ db' = db
        /\ \A o \in Clients : Open(o)' => snap'[o] = IF o = c THEN db ELSE snap[o]
        /\ \A o \in Clients : Open(o)' /\ o # c => Open(o)
    BY <2>1, BeginTaken DEF OrgInv
  <2>3. ASSUME NEW o \in Clients, Open(o)'
        PROVE  /\ OrgOK(snap'[o])
               /\ \A u \in Units : Org!UnitStatus(snap'[o], u) # "none" => Org!UnitStatus(db, u) # "none"
    <3>1. CASE o = c
      BY <3>1, <2>2, <2>3 DEF OrgInv
    <3>2. CASE o # c
      <4>1. Open(o) /\ snap'[o] = snap[o]
        BY <3>2, <2>2, <2>3
      <4> QED BY <4>1 DEF OrgInv
    <3> QED BY <3>1, <3>2
  <2> QED BY <2>2, <2>3, OrgSame
<1>2. ASSUME Taken(Org!Docs)', db' = db,
             \A o \in Clients : Open(o)' => Open(o) /\ snap'[o] = snap[o]
      PROVE  OrgInv' /\ OrgFine
  <2>1. ASSUME NEW o \in Clients, Open(o)'
        PROVE  /\ OrgOK(snap'[o])
               /\ \A u \in Units : Org!UnitStatus(snap'[o], u) # "none" => Org!UnitStatus(db, u) # "none"
    <3>1. Open(o) /\ snap'[o] = snap[o]
      BY <1>2, <2>1
    <3> QED BY <3>1 DEF OrgInv
  <2> QED BY <1>2, <2>1, OrgSame
<1>3. CASE UNCHANGED <<db, snap, missed>>
  <2>1. /\ Taken(Org!Docs)' /\ db' = db
        /\ \A o \in Clients : Open(o)' => Open(o) /\ snap'[o] = snap[o]
    BY <1>3, IdleTaken DEF OrgInv
  <2> QED BY <2>1, <1>2
<1>4. ASSUME NEW c \in Clients, Org!Abort(c)
      PROVE  OrgInv' /\ OrgFine
  <2>1. Aborted(c)
    BY <1>4, OrgTxn
  <2>2. /\ Taken(Org!Docs)' /\ db' = db
        /\ \A o \in Clients : Open(o)' => Open(o) /\ snap'[o] = snap[o]
    BY <2>1, AbortTaken DEF OrgInv
  <2> QED BY <2>2, <1>2
<1> QED BY <1>1, <1>3, <1>4, UnitStepKeeps, ProfileStepKeeps, AccountKeeps, OrgTxn
        DEF Org!Next, Org!txnVars

LEMMA OrgStarts == Org!Init => OrgInv
<1> SUFFICES ASSUME Org!Init PROVE OrgInv
  OBVIOUS
<1>1. PICK fresh \in OrgWorlds :
        db = [d \in Org!Docs |->
          CASE d[1] = "unit" -> IF d[2] \in fresh THEN Org!NoUnit ELSE Org!Archived
            [] d[1] = "profile" ->
                 IF d[2] \in fresh THEN Org!NoProfile ELSE [status |-> "ARCHIVED"]
            [] d[1] = "account" -> IF d[2] \in fresh THEN "none" ELSE "ARCHIVED"]
  BY DEF Org!Init
<1>2. snap = [c \in Clients |-> <<>>] /\ missed = [c \in Clients |-> {}]
  BY DEF Org!Init, Org!TxnInit, Org!NoSnapshot
<1>3. Taken(Org!Docs) /\ \A c \in Clients : ~Open(c)
  <2> DEFINE first(d) ==
        CASE d[1] = "unit" -> IF d[2] \in fresh THEN Org!NoUnit ELSE Org!Archived
          [] d[1] = "profile" ->
               IF d[2] \in fresh THEN Org!NoProfile ELSE [status |-> "ARCHIVED"]
          [] d[1] = "account" -> IF d[2] \in fresh THEN "none" ELSE "ARCHIVED"
  <2>1. db = [d \in Org!Docs |-> first(d)]
    BY <1>1
  <2> HIDE DEF first
  <2>2. db = [d \in Org!Docs |-> db[d]]
    BY <2>1
  <2> QED BY <2>2, <1>2 DEF Taken, Open
<1>4. ASSUME NEW u \in Units PROVE UnitOK(db, db[Org!UnitDoc(u)])
  <2>1. db[Org!UnitDoc(u)] \in {Org!NoUnit, Org!Archived}
    BY <1>1, OrgDocs DEF Org!UnitDoc
  <2>2. \A unit \in {Org!NoUnit, Org!Archived} :
          /\ unit \in UnitType /\ unit.parent = Org!Root /\ unit.chain = <<>>
    <3>1. /\ Org!NoUnit.parent = Org!Root /\ Org!NoUnit.chain = <<>>
          /\ Org!NoUnit \in UnitType
      BY EmptySeq DEF Org!NoUnit, UnitType
    <3>2. /\ Org!Archived.parent = Org!Root /\ Org!Archived.chain = <<>>
          /\ Org!Archived \in UnitType
      BY EmptySeq DEF Org!NoUnit, Org!Archived, UnitType
    <3> QED BY <3>1, <3>2
  <2> QED BY <2>1, <2>2 DEF UnitOK
<1>5. \A p \in Profiles : db[Org!ProfileDoc(p)] \in {Org!NoProfile, [status |-> "ARCHIVED"]}
  BY <1>1, OrgDocs DEF Org!ProfileDoc
<1>6. \A a \in UnitAccounts : db[Org!AccountDoc(a)] \in AccountStages
  BY <1>1, OrgDocs DEF Org!AccountDoc, AccountStages
<1>7. OrgOK(db)
  BY <1>4, <1>5, <1>6 DEF OrgOK
<1> QED BY <1>3, <1>7 DEF OrgInv

LEMMA PartIsOrganisation == Spec => [](part = "organisation" => OrgInv)
<1>1. Init => (part = "organisation" => OrgInv)
  BY OrgStarts DEF Init
<1>2. (part = "organisation" => OrgInv) /\ [Next]_vars => (part = "organisation" => OrgInv)'
  <2> SUFFICES ASSUME part = "organisation" => OrgInv, [Next]_vars, (part = "organisation")'
               PROVE  OrgInv'
    OBVIOUS
  <2>1. part = "organisation" /\ [Org!Next]_(Org!txnVars)
    BY DEF Next, vars, Org!txnVars
  <2> QED BY <2>1, OrgNext
<1> QED BY <1>1, <1>2, PTL DEF Spec

\* Whatever units, people and accounts there are and however their operations
\* overlap: a sound tree of units is broken, what is closed is filled and two
\* units above each other come apart only by the commit of a transaction that
\* missed another's writes (updateOrgUnitParent's rewriteHierarchy, and the
\* checks of a unit's state before somebody or something is put into it).
THEOREM OrganisationErrs == Spec => OrganisationErrsLate
<1>1. (part = "organisation" => OrgInv) /\ [Next]_vars =>
        [part = "organisation" => OrgFine]_vars
  <2> SUFFICES ASSUME part = "organisation", OrgInv, [Next]_vars PROVE OrgFine
    OBVIOUS
  <2>1. [Org!Next]_(Org!txnVars)
    BY DEF Next, vars, Org!txnVars
  <2> QED BY <2>1, OrgNext
<1>2. Spec => [][part = "organisation" => OrgFine]_vars
  BY <1>1, PartIsOrganisation, PTL DEF Spec
<1> QED BY <1>2 DEF OrgFine, OrganisationErrsLate
=============================================================================
