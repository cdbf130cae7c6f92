----------------------------- MODULE Contracts -----------------------------
(***************************************************************************)
(* Contracts with talents, the obligations kept under them and the events  *)
(* that are evidence of their delivery: admin.contract-registry.service.ts,*)
(* admin.contract-obligation.service.ts and                                *)
(* admin.contract-obligation-event-evidence-link.service.ts.               *)
(*                                                                         *)
(* Every operation is a transaction (SnapshotTxn).  An obligation is       *)
(* worked on while its contract is active, which is read and not written;  *)
(* so is the obligation when evidence is linked to it.                     *)
(*                                                                         *)
(* Left out: dates, owners, the talent and whether an event was completed, *)
(* which only refuse; titles, files and notes.  Contracts of employment    *)
(* are refused as new ones.                                                *)
(***************************************************************************)
EXTENDS FiniteSets

CONSTANTS Clients,
          ContractIds, Obligations, Links,
          Events,       \* completed events
          Actors

VARIABLES db, snap, missed

vars == <<db, snap, missed>>

ContractDoc(k) == <<"contract", k>>
ObligationDoc(o) == <<"obligation", o>>
LinkDoc(l) == <<"link", l>>

Docs == {ContractDoc(k) : k \in ContractIds}
          \cup {ObligationDoc(o) : o \in Obligations}
          \cup {LinkDoc(l) : l \in Links}

INSTANCE SnapshotTxn

Nothing == [status |-> "none"]
NoOne == "no one"

Contract(s, k) == s[ContractDoc(k)]
Obligation(s, o) == s[ObligationDoc(o)]
LinkOf(s, l) == s[LinkDoc(l)]

ActiveLink(s, l, o) == LinkOf(s, l).status = "ACTIVE" /\ LinkOf(s, l).of = o

\* The unique index of active links by obligation and event.
Fits(s) == \A l, m \in Links :
  l # m /\ LinkOf(s, l).status = "ACTIVE" /\ LinkOf(s, m).status = "ACTIVE" =>
    <<LinkOf(s, l).of, LinkOf(s, l).event>> # <<LinkOf(s, m).of, LinkOf(s, m).event>>

Write(c, puts) == Commit(c, puts) /\ Fits(db')
-----------------------------------------------------------------------------
(* Contracts.                                                              *)

CreateContract(c, k) ==
  /\ Ready(c)
  /\ db[ContractDoc(k)] = Nothing
  /\ Write(c, ContractDoc(k) :> [status |-> "DRAFT"])

\* updateDraftCore, assignOwner and updateFileReference change what is left
\* out; their write stands in the way of others'.
EditContract(c, k) ==
  LET s == Seen(c) IN
  /\ Ready(c)
  /\ Contract(s, k).status \notin {"none", "ARCHIVED"}
  /\ Write(c, ContractDoc(k) :> Contract(s, k))

\* markPendingSignature, reopenDraft, activate, expire and terminate.
MoveContract(c, k, to) ==
  LET s == Seen(c) IN
  /\ Ready(c)
  /\ <<Contract(s, k).status, to>> \in
       {<<"DRAFT", "PENDING_SIGNATURE">>, <<"PENDING_SIGNATURE", "DRAFT">>,
        <<"DRAFT", "ACTIVE">>, <<"PENDING_SIGNATURE", "ACTIVE">>,
        <<"ACTIVE", "EXPIRED">>, <<"ACTIVE", "TERMINATED">>}
  /\ Write(c, ContractDoc(k) :> [Contract(s, k) EXCEPT !.status = to])

\* UNRESOLVED_CONTRACT_OBLIGATION_STATUSES.
UnresolvedStatuses == {"DRAFT", "OPEN", "DELIVERED", "REJECTED"}

Unresolved(s, o, k) ==
  /\ Obligation(s, o).status \in UnresolvedStatuses
  /\ Obligation(s, o).contract = k

Archivable(s, k) ==
  Contract(s, k).status \in {"DRAFT", "PENDING_SIGNATURE", "EXPIRED", "TERMINATED"}

\* Faulty variant: what is unresolved does not keep a contract.
ArchiveUnresolved(c, k) ==
  LET s == Seen(c) IN
  /\ Ready(c)
  /\ Archivable(s, k)
  /\ Write(c, ContractDoc(k) :> [Contract(s, k) EXCEPT !.status = "ARCHIVED"])

ArchiveContract(c, k) ==
  LET s == Seen(c) IN
  /\ Ready(c)
  /\ Archivable(s, k)
  /\ ~\E o \in Obligations : Unresolved(s, o, k)
  /\ Write(c, ContractDoc(k) :> [Contract(s, k) EXCEPT !.status = "ARCHIVED"])
-----------------------------------------------------------------------------
(* Obligations.                                                            *)

\* requireEligibleContract.
InForce(s, k) == Contract(s, k).status = "ACTIVE"

\* The obligation is there, its contract in force and its status one of these.
Workable(s, o, statuses) ==
  /\ Obligation(s, o).status \in statuses
  /\ InForce(s, Obligation(s, o).contract)

CreateObligation(c, o, k, required) ==
  /\ Ready(c)
  /\ db[ObligationDoc(o)] = Nothing
  /\ InForce(Seen(c), k)
  /\ Write(c, ObligationDoc(o) :>
       [status |-> "DRAFT", contract |-> k, required |-> required,
        direct |-> FALSE, links |-> {}, deliverer |-> NoOne, reviewer |-> NoOne])

\* update: of what it may change the evidence policy is kept.
UpdateObligation(c, o, required) ==
  LET s == Seen(c) IN
  /\ Ready(c)
  /\ Workable(s, o, {"DRAFT", "OPEN"})
  /\ Write(c, ObligationDoc(o) :> [Obligation(s, o) EXCEPT !.required = required])

\* open, reopen, cancel and archive leave evidence and reviews as they are.
MoveObligation(c, o, to) ==
  LET s == Seen(c)
      was == Obligation(s, o) IN
  /\ Ready(c)
  /\ <<was.status, to>> \in
       {<<"DRAFT", "OPEN">>, <<"REJECTED", "OPEN">>, <<"DRAFT", "CANCELLED">>,
        <<"OPEN", "CANCELLED">>, <<"ACCEPTED", "ARCHIVED">>, <<"CANCELLED", "ARCHIVED">>}
  /\ InForce(s, was.contract)
  /\ Write(c, ObligationDoc(o) :> [was EXCEPT !.status = to])

\* deliver: with references of its own, active links, or both.
Deliver(c, o, actor, direct, links) ==
  LET s == Seen(c)
      was == Obligation(s, o) IN
  /\ Ready(c)
  /\ Workable(s, o, {"OPEN"})
  /\ \A l \in links : ActiveLink(s, l, o)
  /\ was.required => direct \/ links # {}
  /\ Write(c, ObligationDoc(o) :>
       [was EXCEPT !.status = "DELIVERED", !.direct = direct, !.links = links,
                   !.deliverer = actor, !.reviewer = NoOne])

Reviewed(was, actor, decision) == [was EXCEPT !.status = decision, !.reviewer = actor]

Reject(c, o, actor) ==
  LET s == Seen(c) IN
  /\ Ready(c)
  /\ Workable(s, o, {"DELIVERED"})
  /\ Write(c, ObligationDoc(o) :> Reviewed(Obligation(s, o), actor, "REJECTED"))

\* Faulty variant: who delivered may accept.
AcceptByAnyone(c, o, actor) ==
  LET s == Seen(c) IN
  /\ Ready(c)
  /\ Workable(s, o, {"DELIVERED"})
  /\ Write(c, ObligationDoc(o) :> Reviewed(Obligation(s, o), actor, "ACCEPTED"))

Accept(c, o, actor) ==
  LET s == Seen(c) IN
  /\ Ready(c)
  /\ Workable(s, o, {"DELIVERED"})
  /\ Obligation(s, o).deliverer # actor
  /\ Write(c, ObligationDoc(o) :> Reviewed(Obligation(s, o), actor, "ACCEPTED"))
-----------------------------------------------------------------------------
(* Evidence.                                                               *)

LinkEvent(c, l, o, event) ==
  LET s == Seen(c) IN
  /\ Ready(c)
  /\ db[LinkDoc(l)] = Nothing
  /\ Workable(s, o, {"OPEN"})
  /\ ~\E m \in Links : ActiveLink(s, m, o) /\ LinkOf(s, m).event = event
  /\ Write(c, LinkDoc(l) :> [status |-> "ACTIVE", of |-> o, event |-> event])

\* Faulty variant: evidence is taken from what has been delivered.
RemoveLinkEver(c, l) ==
  LET s == Seen(c) IN
  /\ Ready(c)
  /\ LinkOf(s, l).status = "ACTIVE"
  /\ InForce(s, Obligation(s, LinkOf(s, l).of).contract)
  /\ Write(c, LinkDoc(l) :> [LinkOf(s, l) EXCEPT !.status = "REMOVED"])

RemoveLink(c, l) ==
  LET s == Seen(c) IN
  /\ Ready(c)
  /\ LinkOf(s, l).status = "ACTIVE"
  /\ Workable(s, LinkOf(s, l).of, {"OPEN"})
  /\ Write(c, LinkDoc(l) :> [LinkOf(s, l) EXCEPT !.status = "REMOVED"])
-----------------------------------------------------------------------------
Init ==
  /\ db = [d \in Docs |-> Nothing]
  /\ TxnInit

Operation(c) ==
  \/ \E k \in ContractIds :
       \/ CreateContract(c, k)
       \/ EditContract(c, k)
       \/ \E to \in {"PENDING_SIGNATURE", "DRAFT", "ACTIVE", "EXPIRED", "TERMINATED"} :
            MoveContract(c, k, to)
       \/ ArchiveContract(c, k)
       \/ \E o \in Obligations, required \in BOOLEAN : CreateObligation(c, o, k, required)
  \/ \E o \in Obligations :
       \/ \E required \in BOOLEAN : UpdateObligation(c, o, required)
       \/ \E to \in {"OPEN", "CANCELLED", "ARCHIVED"} : MoveObligation(c, o, to)
       \/ \E actor \in Actors :
            \/ \E direct \in BOOLEAN, links \in SUBSET Links :
                 Deliver(c, o, actor, direct, links)
            \/ Reject(c, o, actor)
            \/ Accept(c, o, actor)
       \/ \E l \in Links, event \in Events : LinkEvent(c, l, o, event)
  \/ \E l \in Links : RemoveLink(c, l)

Next ==
  \/ \E c \in Clients \cup {Now} : Operation(c)
  \/ \E c \in Clients : Begin(c)
  \/ \E c \in Clients : Abort(c)

Spec == Init /\ [][Next]_vars
-----------------------------------------------------------------------------
(* Properties.                                                             *)

\* The step ends a transaction that missed another's commit.
LateStep == \E c \in Clients : missed[c] # {} /\ InTxn(c) /\ ~InTxn(c)'

\* Over any number of rejections and new deliveries, and edits of the policy in
\* between, what stands delivered has the evidence its policy asks for, and what
\* is accepted was accepted by another than who delivered it last.
DeliveryKept == \A o \in Obligations :
  LET obligation == Obligation(db, o) IN
  /\ obligation.status \in {"DELIVERED", "REJECTED", "ACCEPTED"} /\ obligation.required =>
       obligation.direct \/ obligation.links # {}
  /\ obligation.status = "ACCEPTED" =>
       obligation.reviewer \notin {NoOne, obligation.deliverer}

\* A link that was evidence of what stands delivered is gone.
EvidenceGone(s, o) ==
  /\ Obligation(s, o).status \in {"DELIVERED", "REJECTED", "ACCEPTED"}
  /\ \E l \in Obligation(s, o).links : LinkOf(s, l).status = "REMOVED"

\* A delivery and the removal of a link both read that the obligation is open,
\* and write different documents: only so is evidence gone.  An obligation
\* created while its contract ends and is archived is left in it, and only so
\* does an archived contract have unresolved obligations.
ContractErrsLateStep == ~LateStep =>
  /\ \A o \in Obligations : EvidenceGone(db', o) => EvidenceGone(db, o)
  /\ \A k \in ContractIds, o \in Obligations :
       Contract(db', k).status = "ARCHIVED" /\ Unresolved(db', o, k) =>
         Contract(db, k).status = "ARCHIVED" /\ Unresolved(db, o, k)
ContractErrsLate == [][ContractErrsLateStep]_vars

\* A contract may end with unresolved obligations: expiring and terminating do
\* not look.  No operation resolves them then, none revives the contract, and
\* the contract cannot be archived: both stay, but for a transaction that began
\* while the contract was in force.
Stranded(s, o) ==
  \E k \in ContractIds :
    Unresolved(s, o, k) /\ Contract(s, k).status \in {"EXPIRED", "TERMINATED"}

StrandedStaysStep == \A o \in Obligations :
  Stranded(db, o) /\ ~LateStep =>
    /\ Obligation(db', o) = Obligation(db, o)
    /\ Stranded(db', o)
StrandedStays == [][StrandedStaysStep]_vars
=============================================================================
