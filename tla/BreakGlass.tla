----------------------------- MODULE BreakGlass -----------------------------
(***************************************************************************)
(* The owner of the business and the emergency access it may give.         *)
(* admin.governance-principal.service.ts hands the ownership to a          *)
(* successor: the owner proposes, another approves, and the same other     *)
(* activates within the window that was approved.                          *)
(* admin.break-glass.service.ts gives a person permissions for a few       *)
(* hours: at once if the owner asks, after two approvals otherwise; they   *)
(* end by the clock, or by a command of that person or of the owner, and   *)
(* an independent person reviews what was done.                            *)
(*                                                                         *)
(* Each command is one transaction (SnapshotTxn).  Who is owner is read,   *)
(* from a principal and from a user, and written by neither of those who   *)
(* rely on it.  The clock is a document nobody writes with others.         *)
(*                                                                         *)
(* Left out: what is permitted and where, proofs of identity (recorded,    *)
(* and decisive where a provider supports them), replays of a command      *)
(* that was carried out.                                                   *)
(***************************************************************************)
EXTENDS Integers, FiniteSets

CONSTANTS Clients, Users,
          First, Founder,   \* the principal that is owner to begin with, its user
          Successors,   \* principals that may be proposed
          Requests,
          MaxTime,      \* bound on the clock
          Windows,      \* proposed for an ownership
          Durations     \* for which emergency access is asked

VARIABLES db, snap, missed

vars == <<db, snap, missed>>

Clock == <<"clock">>
UserDoc(u) == <<"user", u>>
PrincipalDoc(p) == <<"principal", p>>
RequestDoc(q) == <<"request", q>>
ActivationDoc(q) == <<"activation", q>>   \* one request, one activation

Principals == Successors \cup {First}

Docs == {Clock} \cup {UserDoc(u) : u \in Users}
          \cup {PrincipalDoc(p) : p \in Principals}
          \cup {RequestDoc(q) : q \in Requests} \cup {ActivationDoc(q) : q \in Requests}

INSTANCE SnapshotTxn

Times == 0..MaxTime
Null == -1                      \* an absent time
Nothing == [status |-> "none"]

Principal(s, p) == s[PrincipalDoc(p)]
Request(s, q) == s[RequestDoc(q)]
Activation(s, q) == s[ActivationDoc(q)]

\* isEligibleUser: active and able to log in.
Eligible(s, u) == s[UserDoc(u)] = "ELIGIBLE"

\* evaluateGovernancePrincipalEligibility.
InWindow(s, p) ==
  /\ Principal(s, p).from <= s[Clock]
  /\ Principal(s, p).until = Null \/ s[Clock] < Principal(s, p).until

ActiveAs(s, p, type) ==
  Principal(s, p).status = "ACTIVE" /\ Principal(s, p).type = type

\* readEligiblePrimaryOwner: the principal, if there is one.
Owner(s) ==
  {p \in Principals : /\ ActiveAs(s, p, "PRIMARY_OWNER") /\ InWindow(s, p)
                      /\ Eligible(s, Principal(s, p).user)}

Owns(s, u) == \E p \in Owner(s) : Principal(s, p).user = u
-----------------------------------------------------------------------------
\* The first owner is installed by hand, with or without an end.
Init ==
  /\ db \in {[d \in Docs |->
       IF d = Clock THEN 0
       ELSE IF d[1] = "user" THEN "ELIGIBLE"
       ELSE IF d = PrincipalDoc(First)
         THEN [status |-> "ACTIVE", type |-> "PRIMARY_OWNER", user |-> Founder,
               from |-> 0, until |-> until, pred |-> {}, next |-> {},
               maker |-> {}, checker |-> {}]
       ELSE Nothing] : until \in {Null, MaxTime}}
  /\ TxnInit

Tick ==
  /\ db[Clock] < MaxTime
  /\ Commit(Now, Clock :> db[Clock] + 1)

\* Commands of users: disabled, archived or unlinked, and back.
UserChanges(c, u) ==
  /\ Ready(c)
  /\ Commit(c, UserDoc(u) :> IF Eligible(Seen(c), u) THEN "INELIGIBLE" ELSE "ELIGIBLE")
-----------------------------------------------------------------------------
(* Succession.                                                             *)

ProposeSuccessor(c, actor, p, target, window) ==
  LET s == Seen(c) IN
  /\ Ready(c)
  /\ Principal(s, p) = Nothing
  /\ Owns(s, actor) /\ Eligible(s, target)
  /\ s[Clock] <= window[1] /\ window[1] < window[2]
  /\ Commit(c, PrincipalDoc(p) :>
       [status |-> "PENDING", type |-> "SUCCESSOR_OWNER", user |-> target,
        from |-> window[1], until |-> window[2], pred |-> Owner(s), next |-> {},
        maker |-> {actor}, checker |-> {}])

\* Maker, target and checker are three; so are those the proposal is decided by.
MayDecide(s, actor, p) ==
  /\ actor \notin Principal(s, p).maker \cup {Principal(s, p).user}
  /\ Owner(s) # {} /\ Principal(s, p).pred = Owner(s)
  /\ Eligible(s, actor) /\ Eligible(s, Principal(s, p).user)

DecideSuccessor(c, actor, p, status) ==
  LET s == Seen(c) IN
  /\ Ready(c)
  /\ Principal(s, p).status = "PENDING"
  /\ MayDecide(s, actor, p)
  /\ Commit(c, PrincipalDoc(p) :>
       [Principal(s, p) EXCEPT !.status = status, !.checker = {actor}])

\* Faulty variant: as soon as it is approved.
ActivateEarly(c, actor, p) ==
  LET s == Seen(c) IN
  /\ Ready(c)
  /\ ActiveAs(s, p, "SUCCESSOR_OWNER")
  /\ actor \in Principal(s, p).checker
  /\ MayDecide(s, actor, p)
  /\ \E o \in Owner(s) :
       Commit(c, PrincipalDoc(o) :> [Principal(s, o) EXCEPT !.status = "SUPERSEDED",
                                                            !.next = {p}]
         @@ PrincipalDoc(p) :> [Principal(s, p) EXCEPT !.type = "PRIMARY_OWNER"])

\* The window of the proposal becomes that of the ownership.
ActivateSuccessor(c, actor, p) ==
  LET s == Seen(c) IN
  /\ Ready(c)
  /\ ActiveAs(s, p, "SUCCESSOR_OWNER") /\ InWindow(s, p)
  /\ actor \in Principal(s, p).checker
  /\ MayDecide(s, actor, p)
  /\ \E o \in Owner(s) :
       Commit(c, PrincipalDoc(o) :> [Principal(s, o) EXCEPT !.status = "SUPERSEDED",
                                                            !.next = {p}]
         @@ PrincipalDoc(p) :> [Principal(s, p) EXCEPT !.type = "PRIMARY_OWNER"])
-----------------------------------------------------------------------------
(* Emergency access.                                                       *)

\* buildBreakGlassActivation.
Activated(s, request, actor) ==
  [status |-> "ACTIVE", target |-> request.target, activator |-> actor,
   at |-> s[Clock], until |-> s[Clock] + request.duration,
   ended |-> Null, reviewer |-> {}]

\* createRequest, not urgent.
RequestAccess(c, actor, q, target, duration) ==
  /\ Ready(c)
  /\ Request(Seen(c), q) = Nothing
  /\ Commit(c, RequestDoc(q) :>
       [status |-> "PENDING_APPROVAL", urgent |-> FALSE, target |-> target,
        requester |-> actor, duration |-> duration, approvals |-> {}])

\* createRequest, urgent: requested and activated by the owner at once.
RequestUrgently(c, actor, q, target, duration) ==
  LET s == Seen(c)
      request == [status |-> "ACTIVATED", urgent |-> TRUE, target |-> target,
                  requester |-> actor, duration |-> duration, approvals |-> {}] IN
  /\ Ready(c)
  /\ Request(s, q) = Nothing
  /\ Owns(s, actor)
  /\ Commit(c, RequestDoc(q) :> request
                 @@ ActivationDoc(q) :> Activated(s, request, actor))

\* approverBlockers.
MayApprove(request, actor) ==
  /\ request.status = "PENDING_APPROVAL"
  /\ actor \notin {request.requester, request.target} \cup request.approvals

RejectRequest(c, actor, q) ==
  LET request == Request(Seen(c), q) IN
  /\ Ready(c)
  /\ MayApprove(request, actor)
  /\ Commit(c, RequestDoc(q) :> [request EXCEPT !.status = "REJECTED"])

\* The second approval activates.
ApproveRequest(c, actor, q) ==
  LET s == Seen(c)
      request == Request(s, q)
      approved == [request EXCEPT !.approvals = @ \cup {actor}] IN
  /\ Ready(c)
  /\ MayApprove(request, actor)
  /\ IF Cardinality(approved.approvals) < 2
       THEN Commit(c, RequestDoc(q) :> approved)
       ELSE Commit(c, RequestDoc(q) :> [approved EXCEPT !.status = "ACTIVATED"]
                        @@ ActivationDoc(q) :> Activated(s, request, actor))

\* isBreakGlassActivationEffective.
InForce(a, now) ==
  /\ a.status = "ACTIVE"
  /\ a.at <= now /\ now < a.until
  /\ a.ended = Null \/ a.ended > now

\* buildActiveBreakGlassLookup: the same for a request, without the end.
Granted(a, now) == a.status = "ACTIVE" /\ a.at <= now /\ now < a.until

\* Faulty variant: the status is left to the worker.
EndWithoutStatus(c, actor, q) ==
  LET s == Seen(c)
      a == Activation(s, q) IN
  /\ Ready(c)
  /\ a # Nothing /\ InForce(a, s[Clock])
  /\ Eligible(s, actor)
  /\ actor = a.target \/ Owns(s, actor)
  /\ Commit(c, ActivationDoc(q) :> [a EXCEPT !.ended = s[Clock]])

EndActivation(c, actor, q) ==
  LET s == Seen(c)
      a == Activation(s, q) IN
  /\ Ready(c)
  /\ a # Nothing /\ InForce(a, s[Clock])
  /\ Eligible(s, actor)
  /\ actor = a.target \/ Owns(s, actor)
  /\ Commit(c, ActivationDoc(q) :> [a EXCEPT !.status = "EXPIRED", !.ended = s[Clock]])

\* The deadline worker.
MaterializeExpiry(c, q) ==
  LET s == Seen(c)
      a == Activation(s, q) IN
  /\ Ready(c)
  /\ a.status = "ACTIVE" /\ a.until <= s[Clock]
  /\ Commit(c, ActivationDoc(q) :> [a EXCEPT !.status = "EXPIRED"])

ReviewActivation(c, actor, q) ==
  LET a == Activation(Seen(c), q) IN
  /\ Ready(c)
  /\ a.status = "EXPIRED"
  /\ actor \notin {a.activator, a.target}
  /\ Commit(c, ActivationDoc(q) :> [a EXCEPT !.status = "REVIEWED", !.reviewer = {actor}])
-----------------------------------------------------------------------------
Operation(c) == \E u \in Users :
  \/ UserChanges(c, u)
  \/ \E p \in Successors :
       \/ \E target \in Users, window \in Windows :
            ProposeSuccessor(c, u, p, target, window)
       \/ \E status \in {"ACTIVE", "REVOKED"} : DecideSuccessor(c, u, p, status)
       \/ ActivateSuccessor(c, u, p)
  \/ \E q \in Requests :
       \/ \E target \in Users, duration \in Durations :
            \/ RequestAccess(c, u, q, target, duration)
            \/ RequestUrgently(c, u, q, target, duration)
       \/ ApproveRequest(c, u, q) \/ RejectRequest(c, u, q)
       \/ EndActivation(c, u, q) \/ ReviewActivation(c, u, q)

Next ==
  \/ Tick
  \/ \E c \in Clients \cup {Now} : Operation(c)
  \/ \E c \in Clients \cup {Now}, q \in Requests : MaterializeExpiry(c, q)
  \/ \E c \in Clients : Begin(c)
  \/ \E c \in Clients : Abort(c)

Spec == Init /\ [][Next]_vars
-----------------------------------------------------------------------------
(* Properties.                                                             *)

\* The step ends a transaction that missed another's commit.
LateStep == \E c \in Clients : missed[c] # {} /\ InTxn(c) /\ ~InTxn(c)'

\* Ownership is handed on from one principal to the next: one of them stands,
\* and whoever was replaced was replaced by the successor proposed to it, whom
\* somebody else than both approved.
SuccessionIsChain ==
  /\ Cardinality({p \in Principals : ActiveAs(db, p, "PRIMARY_OWNER")}) = 1
  /\ \A p \in Principals : Principal(db, p).status = "SUPERSEDED" =>
       \E q \in Successors :
         LET successor == Principal(db, q) IN
         /\ Principal(db, p).next = {q} /\ successor.pred = {p}
         /\ successor.type = "PRIMARY_OWNER"
         /\ successor.checker # {}
         /\ successor.checker \cap (successor.maker \cup {successor.user}) = {}

\* Emergency access has the consent it needs, is reviewed by neither who had it
\* nor who gave it, and both rules of what is in force say the same at all times:
\* what is ended early is out of force at once.
AccessIsConsented == \A q \in Requests :
  LET a == Activation(db, q)
      request == Request(db, q) IN
  /\ a # Nothing <=> request.status = "ACTIVATED"
  /\ a # Nothing =>
       /\ \/ request.urgent /\ a.activator = request.requester
          \/ /\ Cardinality(request.approvals) >= 2 /\ a.activator \in request.approvals
             /\ request.approvals \cap {request.requester, request.target} = {}
       /\ a.reviewer \cap {a.activator, a.target} = {}
       /\ \A t \in Times : InForce(a, t) <=> Granted(a, t)
       /\ a.status # "ACTIVE" /\ db[Clock] < a.until => a.ended # Null

\* There is an owner until the clock or a change of the user ends that, or the
\* successor is overtaken by such a change; what has run out is not followed by
\* anyone any more.
OwnerLostForCauseStep ==
  /\ Owner(db) # {} /\ Owner(db') = {} =>
       \/ db'[Clock] # db[Clock]
       \/ \E u \in Users : Eligible(db, u) /\ ~Eligible(db', u)
       \/ LateStep
  /\ \A p \in Principals :
       ActiveAs(db, p, "PRIMARY_OWNER") /\ ~InWindow(db, p) =>
         db'[PrincipalDoc(p)] = db[PrincipalDoc(p)] \/ LateStep
OwnerLostForCause == [][OwnerLostForCauseStep]_vars

\* Access is given urgently by whoever is owner, or was as a late command began;
\* what is out of force stays so.
AccessErrsLateStep == \A q \in Requests :
  LET a == Activation(db, q)
      b == Activation(db', q) IN
  /\ a = Nothing /\ b # Nothing /\ Request(db', q).urgent =>
       Owns(db, b.activator) \/ LateStep
  /\ a # Nothing => \A t \in Times : t > db[Clock] /\ InForce(b, t) => InForce(a, t)
AccessErrsLate == [][AccessErrsLateStep]_vars
=============================================================================
