------------------------- MODULE GovernanceRecovery -------------------------
(***************************************************************************)
(* Users, roles and who holds which: the records from which the actor of   *)
(* every request is made.  There should always be somebody with the full   *)
(* surface of governance, able to repair the rest, and nobody should hold  *)
(* a role that is not ACTIVE.  Both are guarded by reads: of the users who *)
(* hold a full role, and of the assignments of a role.  No document stands *)
(* for either, so that what keeps two commands apart is that assigning and *)
(* revoking write the role, as its own commands do.                        *)
(*                                                                         *)
(* A role is full if it permits everything recovery needs; the band up to  *)
(* which it may be delegated is part of that.  An assignment begins and    *)
(* ends by the clock; its phase is a document of its own, which no command *)
(* writes after it is assigned.  A transaction goes by the phases as they  *)
(* were when it began.                                                     *)
(*                                                                         *)
(* Left out: who acts, beyond that the roles of the administration path    *)
(* are not those a bootstrap gives; and reviews, which AssignmentLifecycle *)
(* has.  Bounds: a pair of user and role is assigned anew only when what   *)
(* there was is revoked; a successor is of another role.                   *)
(***************************************************************************)
EXTENDS FiniteSets

CONSTANTS Clients, Users, Roles,
          Founder, FirstRole,   \* the user and the role of the bootstrap
          Worlds                \* the users and roles there may be

VARIABLES db, snap, missed

vars == <<db, snap, missed>>

UserDoc(u) == <<"user", u>>
RoleDoc(r) == <<"role", r>>
HoldDoc(h) == <<"hold", h>>
PhaseDoc(h) == <<"phase", h>>

Pairs == Users \X Roles

Docs == {UserDoc(u) : u \in Users} \cup {RoleDoc(r) : r \in Roles}
          \cup {HoldDoc(h) : h \in Pairs} \cup {PhaseDoc(h) : h \in Pairs}

INSTANCE SnapshotTxn

Nothing == [state |-> "none"]

Account(s, u) == s[UserDoc(u)].state
RoleState(s, r) == s[RoleDoc(r)].state
Hold(s, h) == s[HoldDoc(h)]

\* A revoked assignment is as none.
Assigned(s, h) == Hold(s, h) # Nothing

\* Whose authority ends when that of h begins.
Predecessors(s, h) == {p \in Pairs : Assigned(s, p) /\ Hold(s, p).next = h}
Free(s, h) == ~Assigned(s, h) /\ Predecessors(s, h) = {}

Effective(s, h) ==
  Hold(s, h).state \in {"ACTIVE", "SCHEDULED"} /\ s[PhaseDoc(h)] = "ON"

\* buildCurrentRoleAwareAssignmentPipeline: the assignment of a role that is not
\* ACTIVE gives nothing, and is not found.
Authorizes(s, h) == Effective(s, h) /\ RoleState(s, h[2]) = "ACTIVE"

\* listActiveUserIdsWithGovernanceRecoverySurface.  Whether the user can log in
\* is not looked at.
RecoveryActors(s) ==
  {u \in Users : /\ Account(s, u) = "ACTIVE"
                 /\ \E r \in Roles : Authorizes(s, <<u, r>>) /\ s[RoleDoc(r)].full}
-----------------------------------------------------------------------------
Init ==
  /\ db \in {[d \in Docs |->
       IF d = UserDoc(Founder) THEN [state |-> "ACTIVE", linked |-> TRUE]
       ELSE IF d = RoleDoc(FirstRole) THEN [state |-> "ACTIVE", full |-> TRUE]
       ELSE IF d = HoldDoc(<<Founder, FirstRole>>) THEN [state |-> "ACTIVE", next |-> <<>>]
       ELSE IF d[1] = "user" /\ d[2] \notin w THEN [state |-> "ARCHIVED", linked |-> FALSE]
       ELSE IF d[1] = "role" /\ d[2] \notin w THEN [state |-> "ARCHIVED", full |-> FALSE]
       ELSE IF d[1] = "phase"
         THEN IF d[2] = <<Founder, FirstRole>> THEN "ON" ELSE "AHEAD"
       ELSE Nothing] : w \in Worlds}
  /\ TxnInit
-----------------------------------------------------------------------------
(* Users.                                                                  *)

\* createUser leaves the account unlinked, provisionUser links it.
CreateUser(c, u, linked) ==
  /\ Ready(c)
  /\ Account(Seen(c), u) = "none"
  /\ Commit(c, UserDoc(u) :> [state |-> "PENDING", linked |-> linked])

ActivateUser(c, u) ==
  LET s == Seen(c) IN
  /\ Ready(c)
  /\ Account(s, u) \in {"PENDING", "DISABLED"}
  /\ Commit(c, UserDoc(u) :> [s[UserDoc(u)] EXCEPT !.state = "ACTIVE"])

\* assertNotLastGovernanceRecoveryActor.
NotLastRecoveryActor(s, u) ==
  Account(s, u) = "ACTIVE" => RecoveryActors(s) # {u}

\* hasActiveRoleAssignments.
HoldsNothing(s, u) == \A r \in Roles : ~Authorizes(s, <<u, r>>)

DisableUser(c, u) ==
  LET s == Seen(c) IN
  /\ Ready(c)
  /\ Account(s, u) = "ACTIVE"
  /\ NotLastRecoveryActor(s, u)
  /\ HoldsNothing(s, u)
  /\ Commit(c, UserDoc(u) :> [s[UserDoc(u)] EXCEPT !.state = "DISABLED"])

ArchiveUser(c, u) ==
  LET s == Seen(c) IN
  /\ Ready(c)
  /\ Account(s, u) \in {"PENDING", "DISABLED"}
  /\ HoldsNothing(s, u)
  /\ Commit(c, UserDoc(u) :> [s[UserDoc(u)] EXCEPT !.state = "ARCHIVED"])

SetAuthLinkage(c, u) ==
  LET s == Seen(c) IN
  /\ Ready(c)
  /\ Account(s, u) \notin {"none", "ARCHIVED"}
  /\ NotLastRecoveryActor(s, u)
  /\ Commit(c, UserDoc(u) :> [s[UserDoc(u)] EXCEPT !.linked = TRUE])

\* A disabled account becomes PENDING again as well.
UnlinkAuthLinkage(c, u) ==
  LET s == Seen(c) IN
  /\ Ready(c)
  /\ Account(s, u) \notin {"none", "ARCHIVED"} /\ s[UserDoc(u)].linked
  /\ NotLastRecoveryActor(s, u)
  /\ Commit(c, UserDoc(u) :> [state |-> "PENDING", linked |-> FALSE])
-----------------------------------------------------------------------------
(* Roles.                                                                  *)

CreateRole(c, r, full) ==
  /\ Ready(c)
  /\ RoleState(Seen(c), r) = "none"
  /\ Commit(c, RoleDoc(r) :> [state |-> "DRAFT", full |-> full])

\* The write, and assertGovernanceRecoveryContinuity after it.
ChangeRole(c, r, role) ==
  /\ RecoveryActors((RoleDoc(r) :> role) @@ Seen(c)) # {}
  /\ Commit(c, RoleDoc(r) :> role)

\* setRolePermissions, and updateRole where it changes the band.
SetRolePermissions(c, r, full) ==
  LET role == Seen(c)[RoleDoc(r)] IN
  /\ Ready(c)
  /\ role.state \in {"DRAFT", "ACTIVE", "INACTIVE"}
  /\ ChangeRole(c, r, [role EXCEPT !.full = full])

ActivateRole(c, r) ==
  LET role == Seen(c)[RoleDoc(r)] IN
  /\ Ready(c)
  /\ role.state \in {"DRAFT", "INACTIVE"}
  /\ ChangeRole(c, r, [role EXCEPT !.state = "ACTIVE"])

\* hasActiveAssignmentsForRole, which goes by the stored state alone.
HasAssignments(s, r) == \E u \in Users : Assigned(s, <<u, r>>)

DeactivateRole(c, r) ==
  LET s == Seen(c) IN
  /\ Ready(c)
  /\ RoleState(s, r) = "ACTIVE"
  /\ ~HasAssignments(s, r)
  /\ ChangeRole(c, r, [s[RoleDoc(r)] EXCEPT !.state = "INACTIVE"])

ArchiveRole(c, r) ==
  LET s == Seen(c) IN
  /\ Ready(c)
  /\ RoleState(s, r) \in {"DRAFT", "INACTIVE"}
  /\ ~HasAssignments(s, r)
  /\ ChangeRole(c, r, [s[RoleDoc(r)] EXCEPT !.state = "ARCHIVED"])
-----------------------------------------------------------------------------
(* Assignments.                                                            *)

\* The role is written although nothing of it changes but the time.
Touch(s, r) == RoleDoc(r) :> s[RoleDoc(r)]

Fresh(state) == [state |-> state, next |-> <<>>]

\* Faulty variant: the role is left alone.
ApplyWithoutTouch(c, u, r, phase) ==
  LET s == Seen(c) IN
  /\ Ready(c)
  /\ Account(s, u) = "ACTIVE" /\ RoleState(s, r) = "ACTIVE"
  /\ Free(s, <<u, r>>)
  /\ Commit(c, HoldDoc(<<u, r>>) :> Fresh("ACTIVE") @@ PhaseDoc(<<u, r>>) :> phase)

Apply(c, u, r, phase) ==
  LET s == Seen(c) IN
  /\ Ready(c)
  /\ Account(s, u) = "ACTIVE" /\ RoleState(s, r) = "ACTIVE"
  /\ Free(s, <<u, r>>)
  /\ Commit(c, HoldDoc(<<u, r>>) :> Fresh("ACTIVE")
                 @@ PhaseDoc(<<u, r>>) :> phase @@ Touch(s, r))

\* isRoleAssignmentOperationallyManageable: not what has ended, and not what is
\* ACTIVE before it has begun.
Manageable(s, h) ==
  \/ Effective(s, h)
  \/ Hold(s, h).state = "SUSPENDED" /\ s[PhaseDoc(h)] # "OVER"
  \/ Hold(s, h).state = "SCHEDULED" /\ s[PhaseDoc(h)] = "AHEAD"

\* Recovery is not looked at.
Revoke(c, u, r) ==
  LET s == Seen(c) IN
  /\ Ready(c)
  /\ Manageable(s, <<u, r>>)
  /\ Commit(c, HoldDoc(<<u, r>>) :> Nothing @@ Touch(s, r))

\* A rejected review.
Suspend(c, u, r) ==
  LET s == Seen(c) IN
  /\ Ready(c)
  /\ Effective(s, <<u, r>>)
  /\ Commit(c, HoldDoc(<<u, r>>) :> [Hold(s, <<u, r>>) EXCEPT !.state = "SUSPENDED"])

\* approveSuccessor reads both roles and writes neither.
ApproveSuccessor(c, u, r, q) ==
  LET s == Seen(c)
      h == <<u, r>>
      next == <<u, q>> IN
  /\ Ready(c)
  /\ r # q
  /\ Account(s, u) = "ACTIVE"
  /\ RoleState(s, r) = "ACTIVE" /\ RoleState(s, q) = "ACTIVE"
  /\ Effective(s, h) \/ (Hold(s, h).state = "SUSPENDED" /\ s[PhaseDoc(h)] # "OVER")
  /\ Hold(s, h).next = <<>>
  /\ Free(s, next)
  /\ Commit(c, HoldDoc(h) :> [Hold(s, h) EXCEPT !.next = next]
                 @@ HoldDoc(next) :> Fresh("SCHEDULED")
                 @@ PhaseDoc(next) :> "AHEAD")

\* What h replaces ends as h begins; what is suspended stays so.
Begins(h) ==
  LET ended == {p \in Predecessors(db, h) : Effective(db, p)} IN
  /\ db[PhaseDoc(h)] = "AHEAD" /\ ~Free(db, h)
  /\ Commit(Now, [d \in {PhaseDoc(p) : p \in ended \cup {h}} |->
                    IF d = PhaseDoc(h) THEN "ON" ELSE "OVER"])

\* A successor begins before its predecessor would end of itself.
Ends(h) ==
  /\ db[PhaseDoc(h)] = "ON" /\ Assigned(db, h)
  /\ Hold(db, h).next = <<>> \/ Hold(db, h).state = "SUSPENDED"
  /\ Commit(Now, PhaseDoc(h) :> "OVER")
-----------------------------------------------------------------------------
Operation(c) ==
  \/ \E u \in Users :
       \/ \E linked \in BOOLEAN : CreateUser(c, u, linked)
       \/ ActivateUser(c, u) \/ DisableUser(c, u) \/ ArchiveUser(c, u)
       \/ SetAuthLinkage(c, u) \/ UnlinkAuthLinkage(c, u)
  \/ \E r \in Roles :
       \/ \E full \in BOOLEAN : CreateRole(c, r, full) \/ SetRolePermissions(c, r, full)
       \/ ActivateRole(c, r) \/ DeactivateRole(c, r) \/ ArchiveRole(c, r)
  \/ \E u \in Users, r \in Roles :
       \/ \E phase \in {"AHEAD", "ON"} : Apply(c, u, r, phase)
       \/ Revoke(c, u, r) \/ Suspend(c, u, r)
       \/ \E q \in Roles : ApproveSuccessor(c, u, r, q)

Next ==
  \/ \E h \in Pairs : Begins(h) \/ Ends(h)
  \/ \E c \in Clients \cup {Now} : Operation(c)
  \/ \E c \in Clients : Begin(c)
  \/ \E c \in Clients : Abort(c)

Spec == Init /\ [][Next]_vars
-----------------------------------------------------------------------------
(* Properties.                                                             *)

\* The step ends a transaction that missed another's commit.
LateStep == \E c \in Clients : missed[c] # {} /\ InTxn(c) /\ ~InTxn(c)'

\* An assignment had effect and has none: revoked, suspended or ended.
AssignmentEnds == \E h \in Pairs : Effective(db, h) /\ ~Effective(db', h)

LogIn(s) == {u \in RecoveryActors(s) : s[UserDoc(u)].linked}

\* assertNotLastGovernanceRecoveryActor and assertGovernanceRecoveryContinuity:
\* no command on a user or a role takes the last one who can repair governance.
\* It goes when an assignment ends, through an overtaken check, or because one
\* who cannot log in is counted.
RecoveryLostForCauseStep ==
  LogIn(db) # {} /\ LogIn(db') = {} =>
    AssignmentEnds \/ LateStep \/ RecoveryActors(db') # {}
RecoveryLostForCause == [][RecoveryLostForCauseStep]_vars

OfInactiveRole(s) ==
  {h \in Pairs : Assigned(s, h) /\ RoleState(s, h[2]) # "ACTIVE"}

\* A role that is not ACTIVE is assigned to nobody, but for a successor approved
\* while the role goes; who holds it is not found where holders are looked for.
InactiveRolesUnheldStep ==
  \A h \in OfInactiveRole(db') \ OfInactiveRole(db) :
    LateStep /\ Hold(db', h).state # "ACTIVE"
InactiveRolesUnheld == [][InactiveRolesUnheldStep]_vars

Gone(s, u) == Account(s, u) \in {"DISABLED", "ARCHIVED"}

\* A disabled or archived user has authority through an overtaken check only, or
\* because what was assigned before begins, or its role is activated again.
GoneUsersGainLateStep ==
  \A u \in Users, r \in Roles :
    LET h == <<u, r>> IN
    Gone(db', u) /\ Authorizes(db', h) /\ ~(Gone(db, u) /\ Authorizes(db, h)) =>
      \/ LateStep
      \/ Gone(db, u) /\ db'[PhaseDoc(h)] # db[PhaseDoc(h)]
      \/ Gone(db, u) /\ RoleState(db, r) # "ACTIVE"
GoneUsersGainLate == [][GoneUsersGainLateStep]_vars

\* What has ended by the clock keeps its stored state, is not manageable, and is
\* counted: its role stays ACTIVE for good.
EndedKeepsRoleStep ==
  \A h \in Pairs :
    Assigned(db, h) /\ db[PhaseDoc(h)] = "OVER" =>
      /\ Assigned(db', h) \/ LateStep
      /\ RoleState(db, h[2]) = "ACTIVE" => RoleState(db', h[2]) = "ACTIVE" \/ LateStep
EndedKeepsRole == [][EndedKeepsRoleStep]_vars
=============================================================================
