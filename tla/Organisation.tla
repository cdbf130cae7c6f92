---------------------------- MODULE Organisation ----------------------------
(***************************************************************************)
(* The tree of organisational units, the people employed in them and the   *)
(* platform accounts they own: admin.org-unit.service.ts,                  *)
(* admin.employment-profile.service.ts and the lifecycle of an account     *)
(* whose owner is a unit.                                                  *)
(*                                                                         *)
(* A unit carries the whole path to its root (ancestorChain), and a move   *)
(* rewrites the paths of all its descendants.  Two moves that overlap may  *)
(* each rest on a path the other rewrites (SnapshotTxn); nothing but the   *)
(* unique indexes looks at what is committed.                              *)
(*                                                                         *)
(* Guards that ask other parts of the system (a user that is not active,   *)
(* live shifts, events, managed talents) only refuse, which a transaction  *)
(* may do here at any time.  Direct reports are none: the service rejects  *)
(* managerEmploymentProfileId wherever it could be written.                *)
(***************************************************************************)
EXTENDS Integers, Sequences, FiniteSets

CONSTANTS Clients,
          Units, Names, Profiles, Users,
          Accounts,
          OwnerUnit,    \* account -> the unit that owns it
          Worlds        \* sets of units, profiles and accounts still to come;
                        \* the others are archived from the start

VARIABLES db, snap, missed

UnitDoc(u) == <<"unit", u>>
ProfileDoc(p) == <<"profile", p>>
AccountDoc(a) == <<"account", a>>

Docs == {UnitDoc(u) : u \in Units} \cup {ProfileDoc(p) : p \in Profiles}
          \cup {AccountDoc(a) : a \in Accounts}

SX == INSTANCE SequencesExt

INSTANCE SnapshotTxn

Root == "root"
Nobody == "nobody"

NoUnit == [status |-> "none", parent |-> Root, chain |-> <<>>, name |-> "none"]
NoProfile == [status |-> "none"]

UnitStatus(s, u) == s[UnitDoc(u)].status
Chain(s, u) == s[UnitDoc(u)].chain
Open(s, u) == UnitStatus(s, u) = "ACTIVE"
LiveUnit(s, u) == UnitStatus(s, u) \in {"ACTIVE", "INACTIVE"}

\* listDescendants, hasDescendantWithStatuses: by the path, not the parents.
Descendants(s, u) == {v \in Units : u \in SX!ToSet(Chain(s, v))}

Employed(s, p) == s[ProfileDoc(p)].status \notin {"none", "ARCHIVED"}

\* A look at the people at work, and the one the code takes
\* (hasNonArchivedProfilesAssignedToOrgUnit).
StaffAtWork(s, u) == {p \in Profiles : Employed(s, p)
  /\ s[ProfileDoc(p)].status = "ACTIVE" /\ s[ProfileDoc(p)].unit = u}
StaffOf(s, u) == {p \in Profiles : Employed(s, p) /\ s[ProfileDoc(p)].unit = u}

Status(s, a) == s[AccountDoc(a)]

\* A transaction that violates a unique index is aborted: the code turns the
\* duplicate key into a conflict.
Fits(s) ==
  /\ \A u, v \in Units : u # v /\ LiveUnit(s, u) /\ LiveUnit(s, v) =>
       <<s[UnitDoc(u)].parent, s[UnitDoc(u)].name>>
         # <<s[UnitDoc(v)].parent, s[UnitDoc(v)].name>>
  /\ \A p, q \in Profiles : p # q /\ Employed(s, p) /\ Employed(s, q) =>
       s[ProfileDoc(p)].user = Nobody \/ s[ProfileDoc(p)].user # s[ProfileDoc(q)].user

Write(c, puts) == Commit(c, puts) /\ Fits(db')
-----------------------------------------------------------------------------
(* Units.                                                                  *)

\* assertHierarchyRecordInvariant.
WellFormed(s, u) ==
  LET unit == s[UnitDoc(u)] IN
  /\ u \notin SX!ToSet(unit.chain)
  /\ IF unit.parent = Root THEN unit.chain = <<>>
     ELSE unit.chain # <<>> /\ SX!Last(unit.chain) = unit.parent

PathTo(s, parent) == IF parent = Root THEN <<>> ELSE Append(Chain(s, parent), parent)

ParentActive(s, parent) == parent # Root => WellFormed(s, parent) /\ Open(s, parent)

\* findLiveSiblingByNormalizedName.
NameTaken(s, u, parent, name) == \E v \in Units \ {u} :
  LiveUnit(s, v) /\ s[UnitDoc(v)].parent = parent /\ s[UnitDoc(v)].name = name

CreateUnit(c, u, parent, name) ==
  LET s == Seen(c) IN
  /\ Ready(c)
  /\ db[UnitDoc(u)] = NoUnit
  /\ parent \in Units \cup {Root} /\ ParentActive(s, parent)
  /\ ~NameTaken(s, u, parent, name)
  /\ Write(c, UnitDoc(u) :> [status |-> "ACTIVE", parent |-> parent,
                             chain |-> PathTo(s, parent), name |-> name])

\* updateOrgUnitProfile: a name, or data without consequences.
RenameUnit(c, u, name) ==
  LET s == Seen(c) IN
  /\ Ready(c)
  /\ LiveUnit(s, u) /\ WellFormed(s, u)
  /\ name # s[UnitDoc(u)].name => ~NameTaken(s, u, s[UnitDoc(u)].parent, name)
  /\ Write(c, UnitDoc(u) :> [s[UnitDoc(u)] EXCEPT !.name = name])

\* buildDescendantHierarchyPatch: the path of a descendant must begin with the
\* path to the unit that moves ...
AnyPath(s, u, v) == TRUE
Underneath(s, u, v) == SX!IsPrefix(Append(Chain(s, u), u), Chain(s, v))

\* ... and keeps what comes after it.
Rebased(s, u, path, v) ==
  Append(path, u) \o SubSeq(Chain(s, v), Len(Chain(s, u)) + 2, Len(Chain(s, v)))

\* rewriteHierarchy without the bulk write of the descendants, and with it.
MovedAlone(s, u, path) == <<>>
MovedAlong(s, u, path) ==
  [d \in {UnitDoc(v) : v \in Descendants(s, u)} |->
     [s[d] EXCEPT !.chain = Rebased(s, u, path, d[2])]]

MoveUnit(c, u, to) ==
  LET s == Seen(c)
      path == PathTo(s, to)
  IN
  /\ Ready(c)
  /\ LiveUnit(s, u) /\ WellFormed(s, u)
  /\ to # s[UnitDoc(u)].parent /\ to # u
  /\ ParentActive(s, to)
  /\ to # Root => u \notin SX!ToSet(Chain(s, to))
  /\ ~NameTaken(s, u, to, s[UnitDoc(u)].name)
  /\ \A v \in Descendants(s, u) : WellFormed(s, v) /\ Underneath(s, u, v)
  /\ Write(c, UnitDoc(u) :> [s[UnitDoc(u)] EXCEPT !.parent = to, !.chain = path]
                @@ MovedAlong(s, u, path))

ActivateUnit(c, u) ==
  LET s == Seen(c) IN
  /\ Ready(c)
  /\ UnitStatus(s, u) = "INACTIVE" /\ WellFormed(s, u)
  /\ ParentActive(s, s[UnitDoc(u)].parent)
  /\ Write(c, UnitDoc(u) :> [s[UnitDoc(u)] EXCEPT !.status = "ACTIVE"])

OwnedAccounts(s, u, stages) ==
  {a \in Accounts : OwnerUnit[a] = u /\ Status(s, a) \in stages}

DeactivateUnit(c, u) ==
  LET s == Seen(c) IN
  /\ Ready(c)
  /\ Open(s, u) /\ WellFormed(s, u)
  /\ \A v \in Descendants(s, u) : ~Open(s, v)
  /\ StaffOf(s, u) = {}
  /\ OwnedAccounts(s, u, {"ACTIVE"}) = {}
  /\ Write(c, UnitDoc(u) :> [s[UnitDoc(u)] EXCEPT !.status = "INACTIVE"])

ArchiveUnit(c, u) ==
  LET s == Seen(c) IN
  /\ Ready(c)
  /\ LiveUnit(s, u) /\ WellFormed(s, u)
  /\ \A v \in Descendants(s, u) : ~LiveUnit(s, v)
  /\ StaffOf(s, u) = {}
  /\ OwnedAccounts(s, u, {"ACTIVE", "INACTIVE"}) = {}
  /\ Write(c, UnitDoc(u) :> [s[UnitDoc(u)] EXCEPT !.status = "ARCHIVED"])
-----------------------------------------------------------------------------
(* Employment.                                                             *)

Linkable(s, p, user) == user # Nobody =>
  \A q \in Profiles \ {p} : Employed(s, q) => s[ProfileDoc(q)].user # user

CreateProfile(c, p, u, user) ==
  LET s == Seen(c) IN
  /\ Ready(c)
  /\ db[ProfileDoc(p)] = NoProfile
  /\ Open(s, u)
  /\ Linkable(s, p, user)
  /\ Write(c, ProfileDoc(p) :> [status |-> "ACTIVE", unit |-> u, user |-> user])

AssignUnit(c, p, u) ==
  LET s == Seen(c) IN
  /\ Ready(c)
  /\ Employed(s, p)
  /\ u # s[ProfileDoc(p)].unit
  /\ Open(s, u)
  /\ Write(c, ProfileDoc(p) :> [s[ProfileDoc(p)] EXCEPT !.unit = u])

LinkUser(c, p, user) ==
  LET s == Seen(c) IN
  /\ Ready(c)
  /\ Employed(s, p)
  /\ user # s[ProfileDoc(p)].user
  /\ Linkable(s, p, user)
  /\ Write(c, ProfileDoc(p) :> [s[ProfileDoc(p)] EXCEPT !.user = user])

\* updateCore, and updateContractStatus of an employment that is not over: data
\* nothing here depends on.
UpdateProfile(c, p) ==
  LET s == Seen(c) IN
  /\ Ready(c)
  /\ Employed(s, p)
  /\ Write(c, ProfileDoc(p) :> s[ProfileDoc(p)])

ProfileMoves ==
  {<<"ACTIVE", "ON_LEAVE">>, <<"ON_LEAVE", "ACTIVE">>,
   <<"ACTIVE", "SUSPENDED">>, <<"ON_LEAVE", "SUSPENDED">>, <<"SUSPENDED", "ACTIVE">>,
   <<"ACTIVE", "TERMINATED">>, <<"ON_LEAVE", "TERMINATED">>,
   <<"SUSPENDED", "TERMINATED">>, <<"TERMINATED", "ARCHIVED">>}

\* placeOnLeave, returnFromLeave, suspend, reactivate, terminate, archive.
MoveProfile(c, p, to) ==
  LET s == Seen(c)
      profile == s[ProfileDoc(p)]
  IN
  /\ Ready(c)
  /\ <<profile.status, to>> \in ProfileMoves
  /\ to = "ACTIVE" => Open(s, profile.unit)
  /\ Write(c, ProfileDoc(p) :> [profile EXCEPT !.status = to])
-----------------------------------------------------------------------------
(* Accounts owned by a unit.                                               *)

\* createPlatformAccount, activate, deactivate, archive.
MoveAccount(c, a, to) ==
  LET s == Seen(c)
      owner == OwnerUnit[a]
  IN
  /\ Ready(c)
  /\ <<Status(s, a), to>> \in {<<"none", "ACTIVE">>, <<"ACTIVE", "INACTIVE">>,
                               <<"INACTIVE", "ACTIVE">>, <<"INACTIVE", "ARCHIVED">>}
  /\ to = "ACTIVE" => Open(s, owner)
  /\ to = "INACTIVE" => LiveUnit(s, owner)
  /\ Write(c, AccountDoc(a) :> to)
-----------------------------------------------------------------------------
Archived == [NoUnit EXCEPT !.status = "ARCHIVED"]

Init ==
  /\ \E fresh \in Worlds :
       db = [d \in Docs |->
         CASE d[1] = "unit" -> IF d[2] \in fresh THEN NoUnit ELSE Archived
           [] d[1] = "profile" ->
                IF d[2] \in fresh THEN NoProfile ELSE [status |-> "ARCHIVED"]
           [] d[1] = "account" -> IF d[2] \in fresh THEN "none" ELSE "ARCHIVED"]
  /\ TxnInit

UnitStep(c, u) ==
  \/ \E parent \in (Units \ {u}) \cup {Root}, name \in Names : CreateUnit(c, u, parent, name)
  \/ \E name \in Names : RenameUnit(c, u, name)
  \/ \E to \in Units \cup {Root} : MoveUnit(c, u, to)
  \/ ActivateUnit(c, u) \/ DeactivateUnit(c, u) \/ ArchiveUnit(c, u)

ProfileStep(c, p) ==
  \/ \E u \in Units, user \in Users \cup {Nobody} : CreateProfile(c, p, u, user)
  \/ \E u \in Units : AssignUnit(c, p, u)
  \/ \E user \in Users \cup {Nobody} : LinkUser(c, p, user)
  \/ UpdateProfile(c, p)
  \/ \E to \in {"ACTIVE", "ON_LEAVE", "SUSPENDED", "TERMINATED", "ARCHIVED"} :
       MoveProfile(c, p, to)

Next ==
  \/ \E c \in Clients \cup {Now} :
       \/ \E u \in Units : UnitStep(c, u)
       \/ \E p \in Profiles : ProfileStep(c, p)
       \/ \E a \in Accounts, to \in {"ACTIVE", "INACTIVE", "ARCHIVED"} : MoveAccount(c, a, to)
  \/ \E c \in Clients : Begin(c) \/ Abort(c)

Spec == Init /\ [][Next]_txnVars
-----------------------------------------------------------------------------
(* Properties.                                                             *)

\* Every unit's path is the path of its parent and the parent, and is made of
\* the paths of the units on it.  Archived units count: paths run through them.
TreeSound(s) == \A u \in Units : UnitStatus(s, u) # "none" =>
  LET chain == Chain(s, u) IN
  /\ u \notin SX!ToSet(chain)
  /\ chain = PathTo(s, s[UnitDoc(u)].parent)
  /\ \A i \in DOMAIN chain : Chain(s, chain[i]) = SubSeq(chain, 1, i - 1)

\* The step is the commit of a transaction that missed another's.
LateCommit == \E c \in Clients : missed[c] # {} /\ InTxn(c) /\ ~InTxn(c)'

\* Paths and parents come apart, or units end up above each other, only where
\* a move or a creation overlaps a move of the units it was checked against.
TreeBreaksLateStep == TreeSound(db) /\ ~TreeSound(db') => LateCommit
TreeBreaksLate == [][TreeBreaksLateStep]_txnVars

\* What is in use is open: an active unit under an active one, everybody who
\* is employed in an active unit, an active account owned by one.
InOpenUnits(s) ==
  /\ \A u \in Units : Open(s, u) /\ s[UnitDoc(u)].parent # Root =>
       Open(s, s[UnitDoc(u)].parent)
  /\ \A p \in Profiles : Employed(s, p) => Open(s, s[ProfileDoc(p)].unit)
  /\ \A a \in Accounts : Status(s, a) = "ACTIVE" => Open(s, OwnerUnit[a])

\* Closing a unit and filling it are checked against each other both ways, so
\* that it takes an overlap of the two to leave something in a closed unit.
ClosedUnitsEmptyStep == TreeSound(db) /\ InOpenUnits(db) /\ ~InOpenUnits(db') => LateCommit
ClosedUnitsEmpty == [][ClosedUnitsEmptyStep]_txnVars

\* Two units that two overlapping moves put above each other stay so for
\* everybody who sees it: every move or archive of either is refused, because
\* the path of the one does not begin with the path of the other.
Ring(s, u, v) == s[UnitDoc(u)].parent = v /\ s[UnitDoc(v)].parent = u

RingsStayStep == \A u, v \in Units : Ring(db, u, v) /\ ~Ring(db', u, v) => LateCommit
RingsStay == [][RingsStayStep]_txnVars
=============================================================================
